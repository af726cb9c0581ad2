------------------------------- MODULE Descent --------------------------------
(***************************************************************************)
(* The recursive descent parser (src/byyl/实验二/project_2).  A check_ is  *)
(* given the file as the last advance() left it; its result, the one       *)
(* element of the set, is what it returns and the file as it leaves it.    *)
(***************************************************************************)
EXTENDS ParserState

Result(ok, f) == {[ok |-> ok, file |-> f]}

(* Two checks in a row: the second is made when the first returns true.    *)
Then(first, second(_)) == UNION {IF r.ok THEN second(r.file) ELSE {r} : r \in first}

(* Past the end of the file the symbol is EOI.                             *)
advance(f) ==
    UNION {Result(TRUE, IF g.eof THEN [g EXCEPT !.cls = "EOI", !.val = [value |-> EOI]] ELSE g) :
               g \in {fscanf(f)}}

match(f, symbols) == cls_to_vt(f) \in symbols

check_A(f) == match(f, {"+", "-"})
check_M(f) == match(f, {"*", "/"})

RECURSIVE check_E(_), check_Ep(_), check_T(_), check_Tp(_), check_F(_)

(* Neither the end nor a ")" after it: check_E is called again, and what   *)
(* it returns is ignored.                                                  *)
check_E(f) ==
    LET again(g) == IF match(g, {EOI, ")"}) THEN Result(TRUE, g)
                    ELSE UNION {Result(TRUE, r.file) : r \in check_E(g)}
    IN  Then(Then(check_T(f), check_Ep), again)

check_T(f)  == Then(check_F(f), check_Tp)
check_Ep(f) == IF check_A(f) THEN Then(Then(advance(f), check_T), check_Ep) ELSE Result(TRUE, f)
check_Tp(f) == IF check_M(f) THEN Then(Then(advance(f), check_F), check_Tp) ELSE Result(TRUE, f)

check_F(f) ==
    LET close(g) == IF match(g, {")"}) THEN advance(g) ELSE Result(FALSE, g)
    IN  CASE match(f, {"i"}) -> advance(f)
          [] match(f, {"("}) -> Then(Then(advance(f), check_E), close)
          [] OTHER -> Result(FALSE, f)

(* Each file is read as its symbols are needed, and no symbol is kept for  *)
(* the next one.                                                           *)
Descent_file ==
    /\ tool = "Descent" /\ files # <<>>
    /\ given' = Head(files)
    /\ \E r \in Then(advance(Opened(Head(files))), check_E) :
          verdicts' = Append(verdicts, [given  |-> given',
                                        result |-> IF r.ok THEN "true" ELSE "false"])
    /\ files' = Tail(files)
    /\ UNCHANGED <<tool, sym_queue, stack, out>>

===============================================================================
