--------------------------------- MODULE LL1 ----------------------------------
(***************************************************************************)
(* The LL(1) parser (src/byyl/实验三/project_3): FIRST and FOLLOW sets,    *)
(* the table made from them, and the predictive parser.                    *)
(***************************************************************************)
EXTENDS ParserState

LL1_P == << Production("E",  <<"T", "E'">>),
            Production("E'", <<"A", "T", "E'">>), Production("E'", <<EPS>>),
            Production("T",  <<"F", "T'">>),
            Production("T'", <<"M", "F", "T'">>), Production("T'", <<EPS>>),
            Production("F",  <<"(", "E", ")">>),  Production("F", <<"i">>),
            Production("A",  <<"+">>),            Production("A", <<"-">>),
            Production("M",  <<"*">>),            Production("M", <<"/">>) >>

LL1_Vn == VnsOf(LL1_P)
ProductionsOf(A) == {j \in DOMAIN LL1_P : LL1_P[j].Vn = A}

(* FIRST of a list of symbols, from the FIRST sets of the symbols.         *)
make_list_FIRST(Xs, FIRST) ==
    LET reached == {k \in 1 .. Len(Xs) + 1 : \A j \in 1 .. k - 1 : EPS \in FIRST[Xs[j]]}
    IN  UNION {FIRST[Xs[k]] \ {EPS} : k \in reached \ {Len(Xs) + 1}}
        \cup IF Len(Xs) + 1 \in reached THEN {EPS} ELSE {}

(* The loops end with a pass that adds nothing.                            *)
RECURSIVE make_FIRST(_)
make_FIRST(FIRST) ==
    LET pass == [X \in DOMAIN FIRST |->
                    FIRST[X] \cup UNION {make_list_FIRST(LL1_P[j].V_list, FIRST) :
                                             j \in ProductionsOf(X)}]
    IN  IF pass = FIRST THEN FIRST ELSE make_FIRST(pass)

FIRST_sets == make_FIRST([X \in SymbolsOf(LL1_P) |-> IF X \in LL1_Vn THEN {} ELSE {X}])

(* What may follow the symbol at position i of production j.               *)
AfterSymbol(FOLLOW, j, i) ==
    LET p     == LL1_P[j]
        first == make_list_FIRST(SubSeq(p.V_list, i + 1, Len(p.V_list)), FIRST_sets)
    IN  (first \ {EPS}) \cup IF EPS \in first THEN FOLLOW[p.Vn] ELSE {}

RECURSIVE make_FOLLOW(_)
make_FOLLOW(FOLLOW) ==
    LET at(X) == {ji \in (DOMAIN LL1_P) \X (1 .. 3) :
                      /\ ji[2] <= Len(LL1_P[ji[1]].V_list)
                      /\ LL1_P[ji[1]].V_list[ji[2]] = X}
        pass  == [X \in LL1_Vn |->
                     FOLLOW[X] \cup UNION {AfterSymbol(FOLLOW, ji[1], ji[2]) : ji \in at(X)}]
    IN  IF pass = FOLLOW THEN FOLLOW ELSE make_FOLLOW(pass)

FOLLOW_sets == make_FOLLOW([X \in LL1_Vn |-> IF X = "E" THEN {EOI} ELSE {}])

(* The first production that a selects, or 0 for an error.                 *)
M_cols == (VtsOf(LL1_P) \ {EPS}) \cup {EOI}

make_LL1_table_FirstOnly ==
    [A \in LL1_Vn, a \in M_cols |->
        LET chosen == {j \in ProductionsOf(A) : a \in make_list_FIRST(LL1_P[j].V_list, FIRST_sets)}
        IN  IF chosen = {} THEN 0 ELSE Min(chosen)]

make_LL1_table ==
    [A \in LL1_Vn, a \in M_cols |->
        LET first(j) == make_list_FIRST(LL1_P[j].V_list, FIRST_sets)
            chosen   == {j \in ProductionsOf(A) :
                            a \in first(j) \/ (EPS \in first(j) /\ a \in FOLLOW_sets[A])}
        IN  IF chosen = {} THEN 0 ELSE Min(chosen)]

lookup_parsing_table(A, a) == IF a \in M_cols THEN make_LL1_table[A, a] ELSE 0

(* Neither the queue nor the stack is cleared between two files, and the   *)
(* EOI that ends a word that is accepted stays in the queue.               *)
LL1_begin == files # <<>> /\ BeginScanned("LL1", <<EOI, "E">>)

LL1_expand_EpsKept ==
    /\ Works("LL1") /\ Top(stack) \in LL1_Vn
    /\ LET j == lookup_parsing_table(Top(stack), Head(sym_queue))
       IN  IF j = 0 THEN Verdict("false")
           ELSE /\ stack' = IF LL1_P[j].V_list = <<EPS>> THEN stack
                            ELSE Pop(stack, 1) \o Reverse(LL1_P[j].V_list)
                /\ UNCHANGED verdicts
    /\ UNCHANGED <<tool, files, sym_queue, out, given>>

LL1_expand ==
    /\ Works("LL1") /\ Top(stack) \in LL1_Vn
    /\ LET j == lookup_parsing_table(Top(stack), Head(sym_queue))
       IN  IF j = 0 THEN Verdict("false")
           ELSE /\ stack' = Pop(stack, 1) \o SelectSeq(Reverse(LL1_P[j].V_list), LAMBDA X : X # EPS)
                /\ UNCHANGED verdicts
    /\ UNCHANGED <<tool, files, sym_queue, out, given>>

LL1_match ==
    /\ Works("LL1") /\ Top(stack) \notin LL1_Vn
    /\ IF Top(stack) # Head(sym_queue) THEN Verdict("false") /\ UNCHANGED sym_queue
       ELSE IF Top(stack) = EOI THEN Verdict("true") /\ UNCHANGED sym_queue
       ELSE /\ stack' = Pop(stack, 1)
            /\ sym_queue' = Tail(sym_queue)
            /\ UNCHANGED verdicts
    /\ UNCHANGED <<tool, files, out, given>>

===============================================================================
