--------------------------------- MODULE LR0 ----------------------------------
(***************************************************************************)
(* The LR(0) parser generator (src/byyl/实验五/project_5).  A grammar is   *)
(* augmented with Q -> start; a state of the DFA is its set of items, the  *)
(* action table gives what a state does on a symbol.                       *)
(***************************************************************************)
EXTENDS ParserState

CONSTANTS LR0_P,      \* the productions read by input_grammar
          start_Vn

Q == "Q"
P_table   == Append(LR0_P, Production(Q, <<start_Vn>>))
all_items == UNION {{[p |-> j, pos |-> k] : k \in 0 .. Len(P_table[j].V_list)} :
                        j \in DOMAIN P_table}

Complete(item)  == item.pos = Len(P_table[item.p].V_list)
AfterDot(item)  == P_table[item.p].V_list[item.pos + 1]

(* The items at 0 of the symbols that items wait for are added, and theirs.*)
RECURSIVE make_item_set_closure(_)
make_item_set_closure(items) ==
    LET waited == {AfterDot(it) : it \in {it \in items : ~Complete(it)}}
        added  == {it \in all_items : it.pos = 0 /\ P_table[it.p].Vn \in waited}
    IN  IF added \subseteq items THEN items ELSE make_item_set_closure(items \cup added)

start_state == make_item_set_closure({it \in all_items : P_table[it.p].Vn = Q /\ it.pos = 0})

(* Two states are the same when their items are (find_same_state), so a    *)
(* state is its items; {} is for -1, no state.                             *)
state_go(s, X) ==
    make_item_set_closure({[it EXCEPT !.pos = @ + 1] :
                              it \in {it \in s : ~Complete(it) /\ AfterDot(it) = X}})

(* The table is filled item by item, in the order of their addresses, and  *)
(* the last to write an entry wins: without a conflict there is one.       *)
action_table_NoLastRow(s, a) ==
    {[act |-> "REDUCE", p |-> it.p] : it \in {it \in s : Complete(it) /\ P_table[it.p].Vn # Q /\ a # EOI}}
    \cup {[act |-> "ACCEPT"] : it \in {it \in s : Complete(it) /\ P_table[it.p].Vn = Q /\ a = EOI}}
    \cup {[act |-> "SHIFTIN"] : it \in {it \in s : ~Complete(it) /\ AfterDot(it) = a}}

action_table(s, a) ==
    {[act |-> "REDUCE", p |-> it.p] : it \in {it \in s : Complete(it) /\ P_table[it.p].Vn # Q}}
    \cup {[act |-> "ACCEPT"] : it \in {it \in s : Complete(it) /\ P_table[it.p].Vn = Q /\ a = EOI}}
    \cup {[act |-> "SHIFTIN"] : it \in {it \in s : ~Complete(it) /\ AfterDot(it) = a}}

LR0_begin == files # <<>> /\ Begin("LR0", Append(Head(files), EOI), <<start_state>>)

LR0_shift ==
    /\ tool = "LR0" /\ ~Idle
    /\ [act |-> "SHIFTIN"] \in action_table(Top(stack), Head(sym_queue))
    /\ stack' = Append(stack, state_go(Top(stack), Head(sym_queue)))
    /\ sym_queue' = Tail(sym_queue)
    /\ UNCHANGED <<tool, files, out, given, verdicts>>

LR0_reduce ==
    /\ tool = "LR0" /\ ~Idle
    /\ \E action \in action_table(Top(stack), Head(sym_queue)) :
          /\ action.act = "REDUCE"
          /\ LET p    == P_table[action.p]
                 rest == Pop(stack, Len(p.V_list))
             IN  stack' = Append(rest, state_go(Top(rest), p.Vn))
    /\ UNCHANGED <<tool, files, sym_queue, out, given, verdicts>>

(* "accept!" is printed, or "error!", and the program exits.               *)
LR0_end ==
    /\ tool = "LR0" /\ ~Idle
    /\ LET actions == action_table(Top(stack), Head(sym_queue))
       IN  \/ [act |-> "ACCEPT"] \in actions /\ Verdict("true")
           \/ actions = {} /\ Verdict("false")
    /\ UNCHANGED <<tool, files, sym_queue, out, given>>

===============================================================================
