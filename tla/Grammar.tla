------------------------------- MODULE Grammar --------------------------------
(***************************************************************************)
(* Grammars of the compiler exercises (src/byyl) and their languages.  A   *)
(* production is [Vn, V_list]; what has no production is a terminal.       *)
(***************************************************************************)
EXTENDS Integers, Sequences, SequencesExt, FiniteSetsExt

EOI == "#"
EPS == "eps"

Production(Vn, V_list) == [Vn |-> Vn, V_list |-> V_list]

VnsOf(P)     == {P[j].Vn : j \in DOMAIN P}
SymbolsOf(P) == VnsOf(P) \cup UNION {Range(P[j].V_list) : j \in DOMAIN P}
VtsOf(P)     == SymbolsOf(P) \ VnsOf(P)

Words(alphabet, max) == UNION {[1 .. n -> alphabet] : n \in 0 .. max}

(* The words of length n that list derives, when no symbol derives the     *)
(* empty word.                                                             *)
RECURSIVE Derives(_, _, _)
Derives(P, list, n) ==
    IF list = <<>> THEN IF n = 0 THEN {<<>>} ELSE {}
    ELSE LET first(k) == IF Head(list) \notin VnsOf(P)
                         THEN IF k = 1 THEN {<<Head(list)>>} ELSE {}
                         ELSE UNION {Derives(P, P[j].V_list, k) :
                                         j \in {i \in DOMAIN P : P[i].Vn = Head(list)}}
         IN  UNION {{u \o v : u \in first(k), v \in Derives(P, Tail(list), n - k)} :
                        k \in 1 .. n - Len(list) + 1}

Language(P, start, max) == UNION {Derives(P, <<start>>, n) : n \in 1 .. max}

===============================================================================
