----------------------------- MODULE ParserState ------------------------------
(***************************************************************************)
(* What the compiler exercises work on: the files main opens in turn, the  *)
(* symbols read from them and not yet used, a stack, and the verdict       *)
(* written for each file.  A tool runs once, and reads its files in order. *)
(***************************************************************************)
EXTENDS Grammar

VARIABLES
    tool,       \* the program that is run
    files,      \* the words in the files it has not read yet
    sym_queue,  \* symbols read, or the rest of the file
    stack,      \* empty between two files
    out,        \* what the scanner and the converter write
    given,      \* the word in the present file
    verdicts    \* for each file done, its word and the result

vars == <<tool, files, sym_queue, stack, out, given, verdicts>>

Top(s)  == s[Len(s)]
Pop(s, n) == SubSeq(s, 1, Len(s) - n)
After(s, n) == SubSeq(s, n + 1, Len(s))
ForEver == <<"for ever">>       \* the stack of a scanner, or a parser of symbols,
                                \* that goes round one loop for ever
Idle    == stack = <<>>
Works(name) == tool = name /\ stack \notin {<<>>, ForEver}

-----------------------------------------------------------------------------
(* The files the scanner has written for the three parsers of expressions. *)
(* A word's tokens are "i" (an identifier), "12" (a number), "do" (a       *)
(* reserved word) and the characters; a line holds the class and the       *)
(* value, and after "/" and the reserved words no value.                   *)

Class(x) == CASE x = "i" -> "ID" [] x = "12" -> "UINT" [] x = "do" -> "DO"
              [] x = "/" -> "XS" [] x = EOI -> "EOI"   [] OTHER    -> "SSPL"
NoValue  == {"/", "do"}
Line(x)  == <<[class |-> Class(x)]>> \o IF x \in NoValue THEN <<>> ELSE <<[value |-> x]>>
Lines(word) == FlattenSeq([k \in DOMAIN word |-> Line(word[k])]) \o Line(EOI)

(* A file being read: what the last fscanf left in cur_cls and cur_val,    *)
(* the rest of the file, and feof.                                         *)
Opened(word) == [cls |-> "none", val |-> "", rest |-> Lines(word), eof |-> FALSE]

(* fscanf("%d, %s"): the value is whatever comes after the comma and white *)
(* space, the next line's class if there is no value.  A value where a     *)
(* class is looked for is taken when it is a number (12 is the class ID),  *)
(* of a sign that no digit follows the sign is lost, and of anything else  *)
(* nothing is read.                                                        *)
fscanf(f) ==
    LET s == f.rest
        isClass == "class" \in DOMAIN Head(s)
    IN  CASE s = <<>> -> [f EXCEPT !.eof = TRUE]
          [] s # <<>> /\ isClass ->
                [cls |-> Head(s).class, val |-> s[2], rest |-> After(s, 2), eof |-> FALSE]
          [] s # <<>> /\ ~isClass /\ Head(s).value = "12" -> [f EXCEPT !.cls = "ID", !.rest = Tail(s)]
          [] s # <<>> /\ ~isClass /\ Head(s).value \in {"+", "-"} -> [f EXCEPT !.rest = Tail(s)]
          [] OTHER -> f

cls_to_vt(f) ==
    CASE f.cls = "ID"  -> "i"
      [] f.cls = "XS"  -> "/"
      [] f.cls = "EOI" -> EOI
      [] f.cls = "SSPL" /\ f.val \in [value : {"(", ")", "+", "-", "*"}] -> f.val.value
      [] OTHER -> "unknown"

(* The loop on feof(): the last symbol, which the call that meets the end  *)
(* of the file leaves as it was, is pushed twice.  The loop goes on for    *)
(* ever when a call reads nothing.                                         *)
Read(ends, symbols) == {[ends |-> ends, symbols |-> symbols]}

RECURSIVE ReadFrom(_, _)
ReadFrom(f, symbols) ==
    IF f.eof THEN Read(TRUE, symbols)
    ELSE UNION {IF g = f THEN Read(FALSE, symbols)
                ELSE UNION {ReadFrom(g, pushed) : pushed \in {Append(symbols, cls_to_vt(g))}} :
                    g \in {fscanf(f)}}

-----------------------------------------------------------------------------
(* A file is begun: the stack is set up, and all of it is read.            *)
Begin(name, read, bottom) ==
    /\ tool = name /\ Idle /\ files # <<>>
    /\ sym_queue' = sym_queue \o read
    /\ given' = Head(files)
    /\ stack' = bottom
    /\ files' = Tail(files)
    /\ out' = <<>>
    /\ UNCHANGED <<tool, verdicts>>

BeginScanned(name, bottom) ==
    \E r \in ReadFrom(Opened(Head(files)), <<>>) :
        Begin(name, r.symbols, IF r.ends THEN bottom ELSE ForEver)

(* The file is done.                                                       *)
Verdict(v) ==
    /\ verdicts' = Append(verdicts, [given |-> given, result |-> v])
    /\ stack' = <<>>

===============================================================================
