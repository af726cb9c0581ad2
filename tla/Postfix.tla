------------------------------- MODULE Postfix --------------------------------
(***************************************************************************)
(* Infix to postfix to quadruples (src/byyl/实验六/project_6).  What is in *)
(* suffix is a tree: an operand or an operator alone, or the operation     *)
(* whose quadruple put a name there.  The name itself, 'A' and so on, is   *)
(* taken to be no operand's.                                               *)
(***************************************************************************)
EXTENDS ParserState

Optr == {"+", "-", "*", "/"}
Leaf(x) == <<x>>
optr_rank(x) == CASE x \in {"+", "-"} -> 1 [] x \in {"*", "/"} -> 2 [] OTHER -> 0

(* The operators an operator makes leave the stack, top first: those above *)
(* the first that is not of a higher rank.                                 *)
Leaving_AnyRank(s, x) ==
    LET kept == {0} \cup {k \in DOMAIN s : optr_rank(s[k]) = 0}
    IN  SubSeq(s, Max(kept) + 1, Len(s))

Leaving(s, x) ==
    LET kept == {0} \cup {k \in DOMAIN s : optr_rank(s[k]) <= optr_rank(x)}
    IN  SubSeq(s, Max(kept) + 1, Len(s))

Leaves(symbols) == [k \in DOMAIN symbols |-> Leaf(symbols[k])]

Postfix_begin == files # <<>> /\ Begin("Postfix", Append(Head(files), EOI), <<EOI>>)

Postfix_operand ==
    /\ Works("Postfix") /\ sym_queue # <<>>
    /\ Head(sym_queue) \notin Optr \cup {"(", ")", EOI}
    /\ out' = Append(out, Leaf(Head(sym_queue)))
    /\ sym_queue' = Tail(sym_queue)
    /\ UNCHANGED <<tool, files, stack, given, verdicts>>

Postfix_parenthesis ==
    /\ Works("Postfix") /\ sym_queue # <<>>
    /\ \/ /\ Head(sym_queue) = "("
          /\ stack' = Append(stack, "(")
          /\ UNCHANGED out
       \/ /\ Head(sym_queue) = ")"
          /\ LET open == Max({k \in DOMAIN stack : stack[k] = "("})
             IN  /\ out' = out \o Leaves(Reverse(SubSeq(stack, open + 1, Len(stack))))
                 /\ stack' = SubSeq(stack, 1, open - 1)
    /\ sym_queue' = Tail(sym_queue)
    /\ UNCHANGED <<tool, files, given, verdicts>>

Postfix_operator ==
    /\ Works("Postfix") /\ sym_queue # <<>>
    /\ Head(sym_queue) \in Optr
    /\ LET leaving == Leaving(stack, Head(sym_queue))
       IN  /\ out' = out \o Leaves(Reverse(leaving))
           /\ stack' = Append(Pop(stack, Len(leaving)), Head(sym_queue))
    /\ sym_queue' = Tail(sym_queue)
    /\ UNCHANGED <<tool, files, given, verdicts>>

(* The terminator is not passed: it empties the stack, itself last.        *)
Postfix_terminator ==
    /\ Works("Postfix") /\ sym_queue # <<>>
    /\ Head(sym_queue) = EOI
    /\ out' = out \o Leaves(Reverse(stack))
    /\ sym_queue' = <<>>
    /\ UNCHANGED <<tool, files, stack, given, verdicts>>

(* A quadruple for the first operator, whose operands stand before it; the *)
(* last one assigns what is left.  The search begins at the third symbol:  *)
(* of a single operand it misses the terminator, the second, and nothing   *)
(* is said of what lies behind it.                                         *)
find_and_del_quad ==
    /\ Works("Postfix") /\ sym_queue = <<>>
    /\ LET at == {k \in DOMAIN out : Len(out[k]) = 1 /\ out[k][1] \in Optr}
           i  == Min(at)
       IN  IF at # {}
           THEN /\ out' = SubSeq(out, 1, i - 3)
                          \o << <<out[i][1], out[i - 2], out[i - 1]>> >>
                          \o SubSeq(out, i + 1, Len(out))
                /\ UNCHANGED <<stack, verdicts>>
           ELSE Verdict(IF out[1] = Leaf(out[1][1]) THEN "undefined" ELSE out[1]) /\ UNCHANGED out
    /\ UNCHANGED <<tool, files, sym_queue, given>>

===============================================================================
