------------------------------ MODULE Precedence ------------------------------
(***************************************************************************)
(* The operator precedence parser (src/byyl/实验四/project_4): FIRSTVT and *)
(* LASTVT, the matrix of precedences, the functions f and g made from it,  *)
(* and the parser, which compares f and g only.                            *)
(***************************************************************************)
EXTENDS ParserState

OPG_P == << Production("E", <<"E", "+", "T">>), Production("E", <<"E", "-", "T">>),
            Production("E", <<"T">>),
            Production("T", <<"T", "*", "F">>), Production("T", <<"T", "/", "F">>),
            Production("T", <<"F">>),
            Production("F", <<"(", "E", ")">>), Production("F", <<"i">>) >>

OPG_Vn   == VnsOf(OPG_P)
OPG_Vt   == VtsOf(OPG_P)
OPG_head == OPG_Vt \cup {EOI}
N_E      == "E"

(* Where the terminals of production j are.                                *)
VtAt(j) == {i \in DOMAIN OPG_P[j].V_list : OPG_P[j].V_list[i] \in OPG_Vt}

(* The first terminal of a production, or else FIRSTVT of its first symbol.*)
RECURSIVE single_firstVT(_)
single_firstVT(A) ==
    UNION {LET list == OPG_P[j].V_list
           IN  IF VtAt(j) # {} THEN {list[Min(VtAt(j))]} ELSE single_firstVT(list[1]) :
               j \in {i \in DOMAIN OPG_P : OPG_P[i].Vn = A}}

RECURSIVE single_lastVT(_)
single_lastVT(A) ==
    UNION {LET list == OPG_P[j].V_list
           IN  IF VtAt(j) # {} THEN {list[Max(VtAt(j))]} ELSE single_lastVT(list[Len(list)]) :
               j \in {i \in DOMAIN OPG_P : OPG_P[i].Vn = A}}

(* The terminals with one after them in a production, whatever non-        *)
(* terminals are between (next_Vt).                                        *)
Equal(list) ==
    LET at == {i \in DOMAIN list : list[i] \in OPG_Vt}
    IN  {<<list[i], list[Min({k \in at : k > i})]>> : i \in at \ {Max(at \cup {0})}}

(* A terminal and what comes after it, or before it, in one production.    *)
make_OPG_matrix ==
    LET lists  == {OPG_P[j].V_list : j \in DOMAIN OPG_P}
        DENGYU == UNION {Equal(list) : list \in lists}
        XIAOYU == UNION {UNION {{list[i]} \X single_firstVT(list[i + 1]) :
                                    i \in {i \in 1 .. Len(list) - 1 :
                                              list[i] \in OPG_Vt /\ list[i + 1] \in OPG_Vn}} :
                         list \in lists}
        DAYU   == UNION {UNION {single_lastVT(list[i - 1]) \X {list[i]} :
                                    i \in {i \in 2 .. Len(list) :
                                              list[i] \in OPG_Vt /\ list[i - 1] \in OPG_Vn}} :
                         list \in lists}
    IN  [DENGYU |-> DENGYU,
         XIAOYU |-> XIAOYU \cup {EOI} \X (OPG_Vt \ {")"}),
         DAYU   |-> DAYU \cup (OPG_Vt \ {"("}) \X {EOI}]

(* Each value is raised to what its row or column of the matrix asks for,  *)
(* until nothing changes.                                                  *)
RECURSIVE make_prec_func(_, _)
make_prec_func(f, g) ==
    LET m  == make_OPG_matrix
        f2 == [a \in OPG_head |->
                  Max({f[a]} \cup {g[b] + 1 : b \in {b \in OPG_head : <<a, b>> \in m.DAYU}}
                             \cup {g[b] : b \in {b \in OPG_head : <<a, b>> \in m.DENGYU}})]
        g2 == [b \in OPG_head |->
                  Max({g[b]} \cup {f[a] + 1 : a \in {a \in OPG_head : <<a, b>> \in m.XIAOYU}}
                             \cup {f[a] : a \in {a \in OPG_head : <<a, b>> \in m.DENGYU}})]
    IN  IF f2 = f /\ g2 = g THEN [f |-> f, g |-> g] ELSE make_prec_func(f2, g2)

PrecFunc == make_prec_func([a \in OPG_head |-> 1], [a \in OPG_head |-> 1])

f_value(a) == IF a \in OPG_head THEN PrecFunc.f[a] ELSE -1
g_value(a) == IF a \in OPG_head THEN PrecFunc.g[a] ELSE -1

(* The terminals on the stack.  No N_E stands beside another.              *)
VtsOn(s)  == {k \in DOMAIN s : s[k] # N_E}
TopVt(s)  == Max(VtsOn(s))

(* The terminal below the handle: the first, from the top, with less       *)
(* precedence than the one above it.  0 when there is none.                *)
HandleBase(s) ==
    LET above(k) == Min({l \in VtsOn(s) : l > k})
    IN  Max({0} \cup {k \in VtsOn(s) \ {TopVt(s)} : f_value(s[k]) < g_value(s[above(k)])})

OPG_begin == files # <<>> /\ BeginScanned("OPG", <<EOI>>)

(* The handle, whatever it is, becomes an N_E.  When there is none, the    *)
(* program has read what lies before its array: nothing is said of what it *)
(* does then.                                                              *)
OPG_reduce ==
    /\ Works("OPG")
    /\ f_value(stack[TopVt(stack)]) > g_value(Head(sym_queue))
    /\ LET base == HandleBase(stack)
       IN  IF base = 0
           THEN Verdict("undefined") /\ files' = <<>>
           ELSE /\ stack' = Append(SubSeq(stack, 1, base), N_E)
                /\ UNCHANGED <<verdicts, files>>
    /\ UNCHANGED <<tool, sym_queue, out, given>>

OPG_shift ==
    /\ Works("OPG")
    /\ f_value(stack[TopVt(stack)]) <= g_value(Head(sym_queue))
    /\ sym_queue' = Tail(sym_queue)
    /\ IF Head(sym_queue) = EOI
       THEN Verdict(IF stack = <<EOI, N_E>> THEN "true" ELSE "false")
       ELSE stack' = Append(stack, Head(sym_queue)) /\ UNCHANGED verdicts
    /\ UNCHANGED <<tool, files, out, given>>

===============================================================================
