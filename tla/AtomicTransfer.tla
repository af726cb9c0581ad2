--------------------------- MODULE AtomicTransfer ---------------------------
(***************************************************************************)
(* What the comment of src/OS/实验一/project_1/main.c:22 asks for: one turn *)
(* of the loop is the smallest granularity.  A transfer happens at once.   *)
(***************************************************************************)
EXTENDS Integers

CONSTANT W

VARIABLES account1, account2

accountVars == <<account1, account2>>

AtomicInit == account1 = 0 /\ account2 = 0

Transfer(amount) ==
    /\ account1' = (account1 + amount) % W
    /\ account2' = (account2 - amount) % W

AtomicSpec ==
    AtomicInit /\ [][\E amount \in 0 .. W - 1 : Transfer(amount)]_accountVars
=============================================================================
