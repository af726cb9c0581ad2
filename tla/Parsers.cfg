\* The six tools on every short input: words of at most five tokens, two
\* files for the parsers that keep their queue, expressions of at most seven.
SPECIFICATION Spec
INVARIANTS OutputIsRight
PROPERTIES EveryParseEnds
CONSTANTS
    Word      <- MCWord
    NextWord  <- MCNextWord
    LR0Word   <- MCLR0Word
    Infix     <- MCInfix
    Text      <- MCText
    LR0_P     <- MCLR0_P
    start_Vn  = "S"
    MaxLength = 5
\* Every tool ends when its files are done.
CHECK_DEADLOCK FALSE
