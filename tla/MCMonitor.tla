------------------------------ MODULE MCMonitor ------------------------------
(***************************************************************************)
(* Monitor for TLC.  Two processes at once that beat and ask to be woken   *)
(* are most of the states: a command that does more than beat is started   *)
(* twice, the others three times.                                          *)
(***************************************************************************)
EXTENDS Monitor

MCMaxStarts == [c \in Command |-> IF c \in Sleepers \cup Wrapped THEN 2 ELSE 3]

===============================================================================
