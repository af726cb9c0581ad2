------------------------------- MODULE Scanner --------------------------------
(***************************************************************************)
(* The lexical scanner (src/byyl/实验一/project_1).  A file is a sequence  *)
(* of characters, of which the last need not be a newline.                 *)
(***************************************************************************)
EXTENDS ParserState

NEWLINE  == "newline"
Space    == {" ", NEWLINE}
Alpha    == {"d", "o"}
Digit    == {"1"}
Reserved == {<<"d", "o">>}          \* of the eleven, the one these letters spell

Token(cls, val) == [cls |-> cls, val |-> val]
Scan(tokens, rest) == [tokens |-> tokens, rest |-> rest]

(* How many characters of class are at the front of s.                     *)
RunLength(s, class) == Min({k \in 0 .. Len(s) : k = Len(s) \/ s[k + 1] \notin class})

(* The rest after a lexeme of n characters that ends where the next one is *)
(* none of its own: that one has been read and fseek gives it back.  At    *)
(* the end of the file it gives back the last character of the lexeme.     *)
GivenBack(s, n) == After(s, IF n < Len(s) THEN n ELSE n - 1)

lookup_AnyPrefix(TOKEN) ==
    IF \E word \in Reserved : Len(word) <= Len(TOKEN) /\ SubSeq(TOKEN, 1, Len(word)) = word
    THEN Token("DO", <<>>) ELSE Token("ID", TOKEN)

lookup(TOKEN) == IF TOKEN \in Reserved THEN Token("DO", <<>>) ELSE Token("ID", TOKEN)

(* Inside a comment a "*" and the character after it are passed together   *)
(* unless that is "/": of the stars before a "/", an odd number ends it.   *)
CommentEnds(s) ==
    {k \in 2 .. Len(s) : s[k] = "/" /\ \E n \in 1 .. k - 1 :
                            /\ n % 2 = 1
                            /\ \A l \in k - n .. k - 1 : s[l] = "*"
                            /\ k - n = 1 \/ s[k - n - 1] # "*"}
AfterComment(s) == After(s, Min(CommentEnds(s) \cup {Len(s)}))

scanner(text) ==
    LET s      == After(text, RunLength(text, Space))
        idLen  == RunLength(s, Alpha \cup Digit)
        intLen == RunLength(s, Digit)
        next   == IF Len(s) > 1 THEN s[2] ELSE "end of file"
        single(val) == Scan(<<Token("SSPL", val)>>, After(s, 1))
        short(cls)  == Scan(<<Token(cls, <<>>)>>, GivenBack(s, 1))
        double == Scan(<<Token("DSPL", SubSeq(s, 1, 2))>>, After(s, 2))
    IN  IF s = <<>> THEN Scan(<<>>, <<>>)
        ELSE CASE Head(s) \in Alpha -> Scan(<<lookup(SubSeq(s, 1, idLen))>>, GivenBack(s, idLen))
               [] Head(s) \in Digit -> Scan(<<Token("UINT", SubSeq(s, 1, intLen))>>, GivenBack(s, intLen))
               [] Head(s) = "<" -> IF next \in {"=", ">"} THEN double ELSE short("LT")
               [] Head(s) = ">" -> IF next = "=" THEN double ELSE short("GT")
               [] Head(s) = ":" -> IF next = "=" THEN double ELSE short("MH")
               [] Head(s) = "=" -> Scan(<<Token("EQ", <<>>)>>, After(s, 1))
               [] Head(s) = "/" -> IF next = "*" THEN Scan(<<>>, AfterComment(After(s, 2)))
                                   ELSE short("XS")
               [] Head(s) \in {"+", "-", "*", ";", "(", ")"} -> single(<<Head(s)>>)
               [] OTHER -> Scan(<<>>, After(s, 1))              \* report_error

Scanner_begin == files # <<>> /\ Begin("Scanner", Head(files), <<EOI>>)

(* main calls scanner until the end of the file and writes the EOI token.  *)
(* A call that gives back all it was given is made, and writes its token,  *)
(* for ever.                                                               *)
Scanner_call ==
    /\ Works("Scanner")
    /\ LET r == scanner(sym_queue)
       IN  /\ sym_queue' = r.rest
           /\ out' = out \o r.tokens
           /\ CASE r.rest = <<>> -> Verdict(Append(out', Token("EOI", <<EOI>>)))
                [] r.rest = sym_queue /\ r.rest # <<>> -> stack' = ForEver /\ UNCHANGED verdicts
                [] OTHER -> UNCHANGED <<stack, verdicts>>
    /\ UNCHANGED <<tool, files, given>>

===============================================================================
