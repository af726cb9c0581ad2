------------------------------- MODULE Parsers --------------------------------
(***************************************************************************)
(* The tools of the compiler exercises, each run on its files: what they   *)
(* write, against the language or the lexical rules they are made for.     *)
(***************************************************************************)
EXTENDS Scanner, Descent, LL1, Precedence, LR0, Postfix

CONSTANTS
    Word,        \* words of tokens for the three parsers of expressions
    NextWord,    \* the words of their second file
    LR0Word,     \* words for the LR(0) parser
    Infix,       \* infix expressions
    Text,        \* texts for the scanner
    MaxLength    \* no word is longer

Inputs ==
    [Scanner |-> {<<t>> : t \in Text},
     Descent |-> {<<w>> : w \in Word},
     LL1     |-> {<<w, v>> : w \in Word, v \in NextWord},
     OPG     |-> {<<w, v>> : w \in Word, v \in NextWord},
     LR0     |-> {<<w>> : w \in LR0Word},
     Postfix |-> {<<w>> : w \in Infix}]

Init ==
    /\ tool \in DOMAIN Inputs
    /\ files \in Inputs[tool]
    /\ sym_queue = <<>> /\ stack = <<>> /\ out = <<>> /\ given = <<>> /\ verdicts = <<>>

Next ==
    \/ Scanner_begin \/ Scanner_call
    \/ Descent_file
    \/ LL1_begin \/ LL1_expand \/ LL1_match
    \/ OPG_begin \/ OPG_reduce \/ OPG_shift
    \/ LR0_begin \/ LR0_shift \/ LR0_reduce \/ LR0_end
    \/ Postfix_begin \/ Postfix_operand \/ Postfix_parenthesis \/ Postfix_operator
    \/ Postfix_terminator \/ find_and_del_quad

(* Each tool is one thread and never waits.                                *)
Spec == Init /\ [][Next]_vars /\ WF_vars(Next)

-------------------------------------------------------------------------------
(* What the outputs are held against.                                      *)

Sentences == Language(OPG_P, "E", MaxLength)
LR0_Sentences == Language(LR0_P, start_Vn, MaxLength)

(* The files in which every line has a value.                              *)
HasValues(w) == Range(w) \cap NoValue = {}

(* How many parentheses are open after n symbols.                          *)
Depth(w, n) == Cardinality({k \in 1 .. n : w[k] = "("}) - Cardinality({k \in 1 .. n : w[k] = ")"})

(* The trees that parentheses and precedence allow an expression: one,     *)
(* when no two operators of one rank stand side by side.                   *)
RECURSIVE Trees(_)
Trees(w) ==
    LET outer  == {k \in DOMAIN w : w[k] \in Optr /\ Depth(w, k) = 0}
        lowest == {k \in outer : \A l \in outer : optr_rank(w[k]) <= optr_rank(w[l])}
    IN  IF Len(w) = 1 THEN {w}
        ELSE IF outer = {} THEN Trees(SubSeq(w, 2, Len(w) - 1))
        ELSE UNION {{<<w[root], l, r>> : l \in Trees(SubSeq(w, 1, root - 1)),
                                         r \in Trees(After(w, root))} : root \in lowest}

(* The lexical rules: a text is cut into the longest lexemes from the left.*)
Doubles == {<<"<", "=">>, <<"<", ">">>, <<">", "=">>, <<":", "=">>}
Names   == [ch \in {"<", ">", "=", ":", "/"} |->
                CASE ch = "<" -> "LT" [] ch = ">" -> "GT" [] ch = "=" -> "EQ"
                  [] ch = ":" -> "MH" [] ch = "/" -> "XS"]
IsRun(w, class)  == Range(w) \subseteq class
IsId(w)          == w[1] \in Alpha /\ IsRun(w, Alpha \cup Digit)
LexemeEnds(s)    == {k \in 4 .. Len(s) : s[k - 1] = "*" /\ s[k] = "/"}
IsComment(s)     == Len(s) > 1 /\ SubSeq(s, 1, 2) = <<"/", "*">>
IsLexeme(w)      == \/ Len(w) = 1 \/ w \in Doubles \/ IsId(w)
                    \/ IsRun(w, Space) \/ IsRun(w, Digit)
LexemeLength(s)  == IF IsComment(s) THEN Min(LexemeEnds(s) \cup {Len(s)})
                    ELSE Max({n \in DOMAIN s : IsLexeme(SubSeq(s, 1, n))})
TokensOf(w) ==
    IF IsRun(w, Space) \/ IsComment(w) THEN <<>>
    ELSE IF IsId(w) THEN <<IF w \in Reserved THEN Token("DO", <<>>) ELSE Token("ID", w)>>
    ELSE IF IsRun(w, Digit) THEN <<Token("UINT", w)>>
    ELSE IF w \in Doubles THEN <<Token("DSPL", w)>>
    ELSE IF w[1] \in DOMAIN Names THEN <<Token(Names[w[1]], <<>>)>>
    ELSE IF w[1] \in {"+", "-", "*", ";", "(", ")"} THEN <<Token("SSPL", w)>>
    ELSE <<>>

RECURSIVE Tokens(_)
Tokens(s) == IF s = <<>> THEN <<Token("EOI", <<EOI>>)>>
             ELSE LET n == LexemeLength(s) IN TokensOf(SubSeq(s, 1, n)) \o Tokens(After(s, n))

(* A comment of the text holds two stars side by side.                     *)
RECURSIVE HasStarryComment(_)
HasStarryComment(s) ==
    s # <<>> /\ LET n == LexemeLength(s)
                IN  \/ IsComment(s) /\ \E k \in 3 .. n - 1 : s[k] = "*" /\ s[k + 1] = "*"
                    \/ HasStarryComment(After(s, n))

-------------------------------------------------------------------------------
(* Each tool is judged on the inputs for which its rules say one thing,    *)
(* and by those rules; of other inputs nothing is said.                    *)

(* The scanner cuts a text into the longest lexemes, comments left out     *)
(* (texts with "**" in a comment apart).                                   *)
ScannerIsRight(w, result) == ~HasStarryComment(w) => result = Tokens(w)

(* The recursive descent parser accepts a file whose words are in place,   *)
(* with no operand behind an operand and no ")" too many, when it is a     *)
(* sentence, and no other.                                                 *)
InPlace(w) ==
    /\ \A n \in DOMAIN w : Depth(w, n) >= 0
    /\ \A n \in 1 .. Len(w) - 1 : w[n] \in {"i", ")"} => w[n + 1] \in Optr \cup {")"}
DescentIsRight(w, result) ==
    HasValues(w) /\ InPlace(w) => (result = "true" <=> w \in Sentences)

(* The predictive parser accepts a sentence and nothing else.              *)
LL1IsRight(w, result) == HasValues(w) => (result = "true" <=> w \in Sentences)

(* The functions f and g tell the matrix's relations apart, and the parser,*)
(* which compares them alone, accepts every sentence, and nothing with a   *)
(* parenthesis that is not closed or a token that is none of the grammar's.*)
OPGIsRight(w, result) ==
    LET m == make_OPG_matrix
    IN  /\ w \in Sentences /\ HasValues(w) => result = "true"
        /\ result = "true" /\ HasValues(w) =>
               /\ w # <<>> /\ Range(w) \subseteq OPG_Vt /\ Depth(w, Len(w)) = 0
               /\ \A n \in DOMAIN w : Depth(w, n) >= 0
        /\ \A ab \in m.DAYU   : f_value(ab[1]) > g_value(ab[2])
        /\ \A ab \in m.XIAOYU : f_value(ab[1]) < g_value(ab[2])
        /\ \A ab \in m.DENGYU : f_value(ab[1]) = g_value(ab[2])

(* The LR(0) parser decides the language of its grammar.                   *)
LR0IsRight(w, result) == result = "true" <=> w \in LR0_Sentences

(* The quadruples compute the expression by its parentheses and the        *)
(* precedence of its operators, whichever of two of one rank comes first.  *)
PostfixIsRight(w, result) == Range(w) \cap Optr # {} => result \in Trees(w)

(* What every tool writes for the first file of a run is what its rules    *)
(* say of the file, however many productions, table entries, reductions or *)
(* calls there are between them and the verdict.                           *)
OutputIsRight ==
    verdicts # <<>> =>
        LET w == verdicts[1].given
            r == verdicts[1].result
        IN  CASE tool = "Scanner" -> ScannerIsRight(w, r)
              [] tool = "Descent" -> DescentIsRight(w, r)
              [] tool = "LL1"     -> LL1IsRight(w, r)
              [] tool = "OPG"     -> OPGIsRight(w, r)
              [] tool = "LR0"     -> LR0IsRight(w, r)
              [] tool = "Postfix" -> PostfixIsRight(w, r)

(* A scanned text that ends with a newline, a file for the LL(1) and the   *)
(* operator precedence parser in which every line has a value, and         *)
(* whatever the other tools are given, is judged: no loop goes round for   *)
(* ever without passing a symbol or shortening its stack.                  *)
IsWhole(w) ==
    CASE tool = "Scanner" -> w # <<>> /\ w[Len(w)] = NEWLINE
      [] tool \in {"LL1", "OPG"} -> HasValues(w)
      [] OTHER -> TRUE

EveryParseEnds == (\A w \in Range(files) : IsWhole(w)) => <>(files = <<>> /\ Idle)

===============================================================================
