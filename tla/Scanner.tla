------------------------------- MODULE Scanner -------------------------------
(***************************************************************************)
(* The scanner (scanner.c), one token at a time, on a source that the      *)
(* parser reads to its end.  A position is the index of a character;       *)
(* source[Len(source) + 1] is '\0', and what lies behind it is not text.   *)
(* Once the scanner has moved behind the '\0' what it reads is not defined *)
(* and the model ends.                                                     *)
(* A loop that advances while it sees some characters is the first         *)
(* position that shows another one.                                        *)
(***************************************************************************)
EXTENDS Integers, Sequences, FiniteSets, FiniteSetsExt, Functions

CONSTANTS
  Sources,    \* bound: the texts that are scanned, a last newline or none
  Keywords,   \* from the spelling of each keyword to its type
  Modules     \* from the spelling of each module behind '@' to its type

VARIABLES
  source,     \* the text
  current,    \* scanner.current, its position
  line,       \* scanner.line
  token       \* what scanToken answered last, with its place

vars == <<source, current, line, token>>

------------------------------------------------------------------------------
\* Characters.

Nul == "nul"
Outside == "outside"
Newline == "newline"
Backslash == "backslash"
Quote == "quote"

\* A few of each kind stand for all.
BinDigits == {"0", "1"}
Digits == BinDigits \union {"7"}
Alpha == {"a", "b", "d", "e", "f", "i", "n", "o", "r", "s", "x", "y"}
HexDigits == Digits \union {"a", "b", "d", "e", "f"}
AlphaNum == Alpha \union Digits
Blanks == {" ", Newline}
Signs == {"+", "-"}
Punctuation == Signs \union {"(", ";", ".", "/", "*"}

\* "#" stands for the characters that begin no token.
Characters ==
  AlphaNum \union Blanks \union Punctuation \union
  {"!", "=", "<", ">", "@", "#", Quote, Backslash}

ASSUME SourceAssumption == Sources \subseteq Seq(Characters)
ASSUME SpellingAssumption == DOMAIN Keywords \union DOMAIN Modules \subseteq Seq(Alpha)

End == Len(source) + 1
At(i) == IF i < End THEN source[i] ELSE IF i = End THEN Nul ELSE Outside

\* The first position from i on whose character is one of these, and none of
\* these; a position behind the '\0' when the loop does not stop at it.
First(chars, i) == Min({j \in i..End : At(j) \in chars} \union {End + 1})
After(chars, i) == Min({j \in i..End : At(j) \notin chars} \union {End + 1})

------------------------------------------------------------------------------
\* skipWhitespace: where the blank or the comment at i ends, or i. A comment that
\* is never closed is not skipped; it ends the text.

\* Mutation of CommentEnds: any '*' ends it, with the character behind.
CommentEndsAtStar(i) == {j \in i + 1..End - 2 : At(j) = "*"}

CommentEnds(i) == {j \in i + 1..End : At(j) = "*" /\ At(j + 1) = "/"}
LineComment(i) == At(i) = "/" /\ At(i + 1) = "/"
BlockComment(i) == At(i) = "/" /\ At(i + 1) = "*"

BlankEnd(i) ==
  IF At(i) \in Blanks THEN i + 1
  ELSE IF LineComment(i) THEN First({Newline, Nul}, i)
  ELSE IF BlockComment(i) /\ CommentEnds(i) # {} THEN Min(CommentEnds(i)) + 2
  ELSE i

SkipWhitespace(from) ==
  LET skip[i \in 1..End + 1] == IF BlankEnd(i) = i THEN i ELSE skip[BlankEnd(i)]
  IN skip[from]

Newlines(i, j) == Cardinality({k \in i..j - 1 : At(k) = Newline})

------------------------------------------------------------------------------
\* The token at i, its type, the position behind it and the newlines in it.

Lexeme(type, end) == [type |-> type, end |-> end, lines |-> 0]
Text(i, end) == [k \in 1..end - i |-> At(i + k - 1)]

Identifier(i) ==
  LET end == After(AlphaNum, i)  text == Text(i, end)
  IN Lexeme(IF text \in DOMAIN Keywords THEN Keywords[text] ELSE "IDENTIFIER", end)

\* Mutation of Mention: the '@' is not consumed when no name follows.
MentionStays(i) ==
  IF At(i + 1) \notin Alpha THEN Lexeme("ERROR", i)
  ELSE Lexeme("ERROR", After(AlphaNum, i + 1))

Mention(i) ==
  LET end == After(AlphaNum, i + 1)  text == Text(i + 1, end)
  IN IF At(i + 1) \notin Alpha THEN Lexeme("ERROR", i + 1)
     ELSE Lexeme(IF text \in DOMAIN Modules THEN Modules[text] ELSE "ERROR", end)

\* Behind the first digit: two characters are skipped, for "0x" or "0b".
Based(type, digits, i) ==
  LET first == Min({i + 3, End + 1})
  IN IF At(first) \in digits THEN Lexeme(type, After(digits, first)) ELSE Lexeme("ERROR", first)

\* Mutation of Decimal: the point is taken without a look behind it.
DecimalTakesPoint(i) ==
  LET whole == After(Digits, i + 1)
  IN Lexeme("NUMBER", IF At(whole) = "." THEN After(Digits, whole + 1) ELSE whole)

Decimal(i) ==
  LET whole == After(Digits, i + 1)
      fraction == IF At(whole) = "." /\ At(whole + 1) \in Digits
                  THEN After(Digits, whole + 1) ELSE whole
      exponent == IF At(fraction + 1) \in Signs THEN fraction + 2 ELSE fraction + 1
  IN IF At(fraction) # "e" THEN Lexeme("NUMBER", fraction)
     ELSE IF At(exponent) \in Digits THEN Lexeme("NUMBER", After(Digits, exponent))
     ELSE Lexeme("ERROR", exponent)

Number(i) ==
  CASE At(i + 1) = "b" -> Based("NUMBER_BIN", BinDigits, i)
    [] At(i + 1) = "x" -> Based("NUMBER_HEX", HexDigits, i)
    [] OTHER -> Decimal(i)

\* Mutation of Looks: the '\0' does not end a string.
LooksForQuote(from) ==
  LET look[i \in 1..End + 2] ==
        IF i > End \/ At(i) = Quote THEN {i}
        ELSE {i} \union look[IF At(i) = Backslash THEN i + 2 ELSE i + 1]
  IN look[from]

\* string(): the positions its switch looks at; a backslash hides the next one.
Looks(from) ==
  LET look[i \in 1..End + 2] ==
        IF i > End \/ At(i) \in {Quote, Nul} THEN {i}
        ELSE {i} \union look[IF At(i) = Backslash THEN i + 2 ELSE i + 1]
  IN look[from]

\* Mutation of String: its newlines are not counted.
StringOneLine(i) ==
  LET end == Max(Looks(i + 1))
  IN Lexeme(IF At(end) = Quote THEN "STRING" ELSE "ERROR", IF At(end) = Quote THEN end + 1 ELSE end)

String(i) ==
  LET looks == Looks(i + 1)  end == Max(looks)
      escapes == {k \in looks : At(k) = Backslash /\ At(k + 1) \in {Quote, Backslash, "n"}}
      lines == Cardinality({k \in looks : At(k) = Newline})
  IN IF At(end) # Quote THEN [type |-> "ERROR", end |-> end, lines |-> lines]
     ELSE [type |-> IF escapes = {} THEN "STRING" ELSE "STRING_ESCAPE",
           end |-> end + 1, lines |-> lines]

\* Operators of one character, and the longer ones that match() finds.
Operator(i) ==
  LET second == At(i + 1)  third == At(i + 2) IN
  CASE At(i) = "!" -> IF second = "=" THEN Lexeme("BANG_EQUAL", i + 2) ELSE Lexeme("BANG", i + 1)
    [] At(i) = "=" -> IF second = "=" THEN Lexeme("EQUAL_EQUAL", i + 2)
                      ELSE IF second = ">" THEN Lexeme("RIGHT_ARROW", i + 2)
                      ELSE Lexeme("EQUAL", i + 1)
    [] At(i) = "<" -> IF second = "<" THEN Lexeme("BIT_SHL", i + 2)
                      ELSE IF second = "=" THEN Lexeme("LESS_EQUAL", i + 2)
                      ELSE Lexeme("LESS", i + 1)
    [] At(i) = ">" -> IF second = ">" /\ third = ">" THEN Lexeme("BIT_SHR", i + 3)
                      ELSE IF second = ">" THEN Lexeme("BIT_SAR", i + 2)
                      ELSE IF second = "=" THEN Lexeme("GREATER_EQUAL", i + 2)
                      ELSE Lexeme("GREATER", i + 1)
    [] OTHER -> Lexeme(At(i), i + 1)

\* The character behind an unexpected one is lost with it; an unexpected one at
\* the end of the text is its end.
Unexpected(i) ==
  IF At(i + 1) = Nul THEN Lexeme("EOF", i + 1) ELSE Lexeme("ERROR", i + 2)

TokenAt(i) ==
  CASE At(i) = Nul -> Lexeme("EOF", i)
    [] BlockComment(i) -> [type |-> "ERROR", end |-> End, lines |-> Newlines(i, End)]
    [] At(i) \in Alpha -> Identifier(i)
    [] At(i) \in Digits -> Number(i)
    [] At(i) = "@" -> Mention(i)
    [] At(i) = Quote -> String(i)
    [] ~BlockComment(i) /\ At(i) \in Punctuation \union {"!", "=", "<", ">"} -> Operator(i)
    [] OTHER -> Unexpected(i)

------------------------------------------------------------------------------

Init ==
  /\ source \in Sources
  /\ current = 1 /\ line = 1
  /\ token = [type |-> "NONE", start |-> 1, end |-> 1, line |-> 1]

Answer(start, lexeme, before) ==
  /\ current' = lexeme.end
  /\ line' = before + lexeme.lines
  /\ token' = [type |-> lexeme.type, start |-> start, end |-> lexeme.end,
               line |-> before + lexeme.lines]

\* scanToken. The parser calls it until it answers EOF.
ScanToken ==
  LET start == SkipWhitespace(current)
      before == line + Newlines(current, start)
  IN /\ token.type # "EOF" /\ current <= End
     /\ Answer(start, TokenAt(start), before)
     /\ UNCHANGED source

Next == ScanToken

\* compile() consumes tokens as long as there are any (compiler.c:1699).
Spec == Init /\ [][Next]_vars /\ WF_vars(Next)

------------------------------------------------------------------------------
\* Properties.

\* The two ends of a text that scanToken does not see: a backslash in a string that is
\* not closed, and the prefix of a number with a base (scanner.c:382 and 301).
LastEscape(i) == At(i) = Quote /\ At(End - 1) = Backslash
LastPrefix(i) == At(i) \in Digits /\ At(i + 1) \in {"x", "b"} /\ i + 2 = End

\* The scanner moves behind the '\0' at these two only, and then it reports an error;
\* at no other end of a text: an open comment, an open string, half a decimal number,
\* half an operator, a name, an unexpected character.
InsideText ==
  /\ token.end = current /\ current \in 1..End + 1
  /\ current > End => /\ token.type = "ERROR"
                      /\ LastEscape(token.start) \/ LastPrefix(token.start)

\* A newline that the scanner takes with the character before it: behind an
\* unexpected character, a backslash, or the first two of a number with a base.
Hidden(k) == \/ At(k - 1) \in {Backslash, "#"}
             \/ k > 2 /\ At(k - 1) \in {"x", "b"} /\ At(k - 2) \in Digits

\* A token carries the line it ends on, through blanks, both kinds of comments and
\* strings of several lines, as errors report it and lineArray records it.
LinesCounted ==
  (~\E k \in 2..End - 1 : At(k) = Newline /\ Hidden(k))
    => token.line = 1 + Newlines(1, token.end)

\* What the language calls an identifier, a number, a string and an operator.
Span(i, j, chars) == \A k \in i..j : At(k) \in chars
Some(i, j, chars) == i <= j /\ Span(i, j, chars)

IsIdentifier(i, j) == At(i) \in Alpha /\ Span(i, j, AlphaNum)
IsInteger(i, j) == Some(i, j, Digits)
IsFraction(i, j) ==
  IsInteger(i, j) \/ \E k \in i..j : At(k) = "." /\ IsInteger(i, k - 1) /\ IsInteger(k + 1, j)
IsNumber(i, j) ==
  \/ IsFraction(i, j)
  \/ \E k \in i..j : /\ At(k) = "e" /\ IsFraction(i, k - 1)
                     /\ \/ IsInteger(k + 1, j)
                        \/ At(k + 1) \in Signs /\ IsInteger(k + 2, j)

\* A quote ends a string when an even number of backslashes stands before it.
Bare(i, k) == \E m \in i..k : (k - m) % 2 = 0 /\ Span(m, k - 1, {Backslash})
                              /\ (m = i \/ At(m - 1) # Backslash)
IsString(i, j) ==
  /\ i < j /\ At(i) = Quote
  /\ {k \in i + 1..j : At(k) = Quote /\ Bare(i + 1, k)} = {j}

Operators ==
  {<<c>> : c \in Punctuation \union {"!", "=", "<", ">"}} \union
  {<<"!", "=">>, <<"=", "=">>, <<"=", ">">>, <<"<", "<">>, <<"<", "=">>,
   <<">", "=">>, <<">", ">">>, <<">", ">", ">">>}

IsLexeme(i, j) ==
  IsIdentifier(i, j) \/ IsNumber(i, j) \/ IsString(i, j) \/ Text(i, j + 1) \in Operators

Kind(i, j) ==
  CASE IsNumber(i, j) -> {"NUMBER"}
    [] IsString(i, j) -> {"STRING", "STRING_ESCAPE"}
    [] IsIdentifier(i, j) -> {"IDENTIFIER"} \union Range(Keywords)
    [] OTHER -> {}

\* Maximal munch: a token that is no error is a lexeme, the longest at its place.
\* Numbers with a base are left out: see the README.
LongestLexeme ==
  token.type \notin {"NONE", "EOF", "ERROR", "NUMBER_BIN", "NUMBER_HEX"} /\ At(token.start) # "@" =>
    /\ IsLexeme(token.start, token.end - 1)
    /\ Kind(token.start, token.end - 1) # {} => token.type \in Kind(token.start, token.end - 1)
    /\ \A j \in token.end..End - 1 : ~IsLexeme(token.start, j)

\* A comment, of either kind, that is closed; "/*/" is one.
IsComment(i, j) ==
  \/ LineComment(i) /\ Span(i, j, {At(k) : k \in i..j} \ {Newline}) /\ At(j + 1) \in {Newline, Nul}
  \/ BlockComment(i) /\ {k \in i + 1..j : At(k - 1) = "*" /\ At(k) = "/" /\ k > i + 1} = {j}

IsBlank(i, j) ==
  LET blank[k \in i..j + 1] ==
        k = j + 1 \/ \E m \in k..j : blank[m + 1] /\ (IsComment(k, m) \/ (m = k /\ At(k) \in Blanks))
  IN blank[i]

\* What lies between two tokens is blank: nothing is lost but what an error took.
NothingLost ==
  [][IsBlank(current, token'.start - 1) /\ token'.start <= token'.end]_vars

\* The scanner answers EOF in the end, whatever the text, or has moved behind it: "stop
\* deadly looping" (scanner.c:483).
ReachesEnd == <>(token.type = "EOF" \/ current > End)
===============================================================================
