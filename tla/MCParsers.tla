------------------------------ MODULE MCParsers -------------------------------
(***************************************************************************)
(* Inputs for Parsers.                                                     *)
(***************************************************************************)
EXTENDS Parsers

(* Every word of up to five tokens, with a number, which is none of the    *)
(* grammar's; up to four with the tokens the scanner gives no value.       *)
MCWord     == Words({"i", "(", ")", "+", "*", "12"}, 5)
              \cup Words({"i", "+", "*", "/", "12", "do"}, 4)
MCNextWord == {<<"i">>}

(* The second grammar of the exercise's report: a^n c b^n or a^n d b^n.    *)
MCLR0_P   == << Production("S", <<"A">>), Production("S", <<"B">>),
                Production("A", <<"a", "A", "b">>), Production("A", <<"c">>),
                Production("B", <<"a", "B", "b">>), Production("B", <<"d">>) >>
MCLR0Word == Words({"a", "b", "c", "d"}, 5)

MCInfix == Language(OPG_P, "E", 7)

(* Short texts over all the characters, longer ones about comments.        *)
MCLine == Words({"d", "o", "1", "<", ">", "=", ":", "/", "*", "+", " ", "?"}, 3)
          \cup Words({"d", "/", "*"}, 6)
MCText == MCLine \cup {Append(line, NEWLINE) : line \in MCLine}

===============================================================================
