------------------------------ MODULE Scanner -------------------------------
(***************************************************************************)
(* The scanner of clox (scanner.c).  One action is one call of scanToken;  *)
(* the source is a string, positions start at 1, and the position behind   *)
(* the last character holds the terminating zero.  The type of an operator *)
(* or a keyword is written as its lexeme.                                  *)
(***************************************************************************)
EXTENDS Integers, Sequences, FiniteSets

CONSTANTS
  Sources,   \* the source texts to scan
  Letters    \* the letters (and underscores) they are written with

ASSUME ScannerAssumption == Letters \subseteq STRING /\ Sources \subseteq STRING

VARIABLES
  source,
  start, current, line,   \* the fields of Scanner
  token,                  \* what the last call returned
  pos                     \* history: where that call began

vars == <<source, start, current, line, token, pos>>

-----------------------------------------------------------------------------
(* Characters *)

Nul == "NUL"
CharAt(i) == IF i \in 1..Len(source) THEN SubSeq(source, i, i) ELSE Nul

Digits == {"0", "1", "2", "3", "4", "5", "6", "7", "8", "9"}
Spaces == {" ", "\r", "\t"}
Singles == {"(", ")", "{", "}", ";", ",", ".", "-", "+", "/", "*"}
MaybeEqual == {"!", "=", "<", ">"}

\* The first position from i on that holds no character of C: the loops that
\* advance while peek() is in C.
SkipAll(i, C) == CHOOSE j \in i..(Len(source) + 1) :
                   CharAt(j) \notin C /\ \A k \in i..(j - 1) : CharAt(k) \in C

\* The loops that advance until peek() is c or the end.
SkipTo(i, c) == CHOOSE j \in i..(Len(source) + 1) :
                  CharAt(j) \in {c, Nul} /\ \A k \in i..(j - 1) : CharAt(k) # c

\* A loop that stands at position j, and one that passes a newline on its way:
\* it has counted one more line at its end.
StandsAt(j) == [end |-> j, lines |-> 0]
WithLine(r) == [r EXCEPT !.lines = @ + 1]

\* Mutated form: one slash is enough for a comment.
SkipWhitespaceOneSlash(i) ==
  LET skip[j \in 1..(Len(source) + 1)] ==
        CASE CharAt(j) \in Spaces -> skip[j + 1]
          [] CharAt(j) = "\n" -> WithLine(skip[j + 1])
          [] CharAt(j) = "/" -> skip[SkipTo(j, "\n")]
          [] OTHER -> StandsAt(j)
  IN skip[i]

\* Spaces are passed, a newline is passed and counted, a comment is passed up to
\* its newline, which the next turn of the loop meets.
SkipWhitespace(i) ==
  LET skip[j \in 1..(Len(source) + 1)] ==
        CASE CharAt(j) \in Spaces -> skip[j + 1]
          [] CharAt(j) = "\n" -> WithLine(skip[j + 1])
          [] CharAt(j) = "/" /\ CharAt(j + 1) = "/" -> skip[SkipTo(j, "\n")]
          [] OTHER -> StandsAt(j)
  IN skip[i]

-----------------------------------------------------------------------------
(* Tokens: the position behind the token, its type, the lines counted inside *)

\* Mutated form: the length of the word is taken one short.
CheckKeywordShort(w, n, rest, type) ==
  IF Len(w) = n + Len(rest) - 1 THEN type ELSE "identifier"

CheckKeyword(w, n, rest, type) ==
  IF Len(w) = n + Len(rest) /\ SubSeq(w, n + 1, Len(w)) = rest THEN type ELSE "identifier"

\* A word that begins with f or t and has none of the second letters falls
\* through to the next case of the switch.
IdentifierType(w) ==
  LET c == SubSeq(w, 1, 1)
      d == IF Len(w) > 1 THEN SubSeq(w, 2, 2) ELSE Nul
  IN CASE c = "a" -> CheckKeyword(w, 1, "nd", "and")
       [] c = "c" -> CheckKeyword(w, 1, "lass", "class")
       [] c = "e" -> CheckKeyword(w, 1, "lse", "else")
       [] c = "f" /\ d = "a" -> CheckKeyword(w, 2, "lse", "false")
       [] c = "f" /\ d = "o" -> CheckKeyword(w, 2, "r", "for")
       [] c = "f" /\ d = "u" -> CheckKeyword(w, 2, "n", "fun")
       [] c = "i" \/ (c = "f" /\ d \notin {"a", "o", "u"}) -> CheckKeyword(w, 1, "f", "if")
       [] c = "n" -> CheckKeyword(w, 1, "il", "nil")
       [] c = "o" -> CheckKeyword(w, 1, "r", "or")
       [] c = "p" -> CheckKeyword(w, 1, "rint", "print")
       [] c = "r" -> CheckKeyword(w, 1, "eturn", "return")
       [] c = "s" -> CheckKeyword(w, 1, "uper", "super")
       [] c = "t" /\ d = "h" -> CheckKeyword(w, 2, "is", "this")
       [] c = "t" /\ d = "r" -> CheckKeyword(w, 2, "ue", "true")
       [] c = "v" \/ (c = "t" /\ d \notin {"h", "r"}) -> CheckKeyword(w, 1, "ar", "var")
       [] c = "w" -> CheckKeyword(w, 1, "hile", "while")
       [] OTHER -> "identifier"

Identifier(i) ==
  LET j == SkipAll(i, Letters \cup Digits)
  IN [end |-> j, type |-> IdentifierType(SubSeq(source, i, j - 1)), lines |-> 0]

\* Mutated form: a dot is taken into the number whatever follows it.
NumberTrailingDot(i) ==
  LET j == SkipAll(i, Digits)
  IN [end |-> IF CharAt(j) = "." THEN SkipAll(j + 1, Digits) ELSE j,
      type |-> "number", lines |-> 0]

Number(i) ==
  LET j == SkipAll(i, Digits)
  IN [end |-> IF CharAt(j) = "." /\ CharAt(j + 1) \in Digits
              THEN SkipAll(j + 1, Digits) ELSE j,
      type |-> "number", lines |-> 0]

\* Mutated form: the newlines of a string are not counted.
InStringUncounted(i) == StandsAt(SkipTo(i, "\""))

\* The loop of string: every newline before the closing quote is counted.
InString(i) ==
  LET walk[j \in 1..(Len(source) + 1)] ==
        CASE CharAt(j) \in {"\"", Nul} -> StandsAt(j)
          [] CharAt(j) = "\n" -> WithLine(walk[j + 1])
          [] OTHER -> walk[j + 1]
  IN walk[i]

String(i) ==
  LET w == InString(i + 1)
      closed == CharAt(w.end) # Nul
  IN [end |-> IF closed THEN w.end + 1 ELSE w.end,
      type |-> IF closed THEN "string" ELSE "error",
      lines |-> w.lines]

Operator(i) ==
  LET n == IF CharAt(i) \in MaybeEqual /\ CharAt(i + 1) = "=" THEN 2 ELSE 1
  IN [end |-> i + n, type |-> SubSeq(source, i, i + n - 1), lines |-> 0]

\* Mutated form: the character nobody expects is not consumed.
UnexpectedStays(i) == [end |-> i, type |-> "error", lines |-> 0]

Unexpected(i) == [end |-> i + 1, type |-> "error", lines |-> 0]

Recognise(i) ==
  CASE CharAt(i) = Nul -> [end |-> i, type |-> "eof", lines |-> 0]
    [] CharAt(i) \in Letters -> Identifier(i)
    [] CharAt(i) \in Digits -> Number(i)
    [] CharAt(i) \in Singles \cup MaybeEqual -> Operator(i)
    [] CharAt(i) = "\"" -> String(i)
    [] OTHER -> Unexpected(i)

-----------------------------------------------------------------------------
\* initScanner.
Init ==
  /\ source \in Sources
  /\ start = 1 /\ current = 1 /\ line = 1
  /\ token = [type |-> "none", line |-> 1] /\ pos = 1

ScanToken ==
  LET blank == SkipWhitespace(current)
      t == Recognise(blank.end)
  IN /\ token.type # "eof"
     /\ start' = blank.end
     /\ current' = t.end
     /\ line' = line + blank.lines + t.lines
     /\ token' = [type |-> t.type, line |-> line']
     /\ pos' = current
     /\ UNCHANGED source

Next == ScanToken

\* The compiler calls scanToken until it gets TOKEN_EOF.
Spec == Init /\ [][Next]_vars /\ WF_vars(Next)

-----------------------------------------------------------------------------
(* Properties *)

\* The words of the language, described as wholes.
Char(w, i) == SubSeq(w, i, i)
IsIdentifier(w) ==
  Len(w) > 0 /\ Char(w, 1) \in Letters /\ \A i \in 1..Len(w) : Char(w, i) \in Letters \cup Digits
IsNumber(w) ==
  /\ Len(w) > 0 /\ Char(w, 1) \in Digits /\ Char(w, Len(w)) \in Digits
  /\ \A i \in 1..Len(w) : Char(w, i) \in Digits \cup {"."}
  /\ \A i, j \in 1..Len(w) : Char(w, i) = "." /\ Char(w, j) = "." => i = j
IsString(w) ==
  /\ Len(w) > 1
  /\ \A i \in 1..Len(w) : (Char(w, i) = "\"") <=> (i \in {1, Len(w)})
IsOperator(w) == w \in Singles \cup MaybeEqual \cup {"!=", "==", "<=", ">="}
IsToken(w) == IsIdentifier(w) \/ IsNumber(w) \/ IsString(w) \/ IsOperator(w)

Text(i, j) == SubSeq(source, i, j)
NewLines(i, j) == {k \in i..(j - 1) : CharAt(k) = "\n"}

\* scanToken returns the longest lexeme that begins at start, never the slash of
\* a comment; it reports an error only where no lexeme begins.
MaximalMunch ==
  LET Longer(n) == \E m \in n..Len(source) : IsToken(Text(start, m)) IN
  /\ token.type \notin {"none", "eof", "error"} =>
       /\ IsToken(Text(start, current - 1))
       /\ ~Longer(current)
       /\ ~(CharAt(start) = "/" /\ CharAt(start + 1) = "/")
  /\ token.type = "error" => ~Longer(start)
  /\ token.type = "eof" => start = Len(source) + 1

\* What lies between two tokens is blank or belongs to a comment.
GapsAreBlank ==
  \A i \in pos..(start - 1) :
    \/ CharAt(i) \in Spaces \cup {"\n"}
    \/ \E j \in pos..i : /\ j + 1 < start /\ Text(j, j + 1) = "//"
                         /\ NewLines(j, i + 1) = {}

\* The line of a token, which error messages give, is that of its last character
\* in the text, though only skipWhitespace and string count lines: no other loop
\* passes a newline, the end of a comment is counted once, and an unterminated
\* string or a string over several lines leaves the count right for what follows.
LinesExact == token.line = 1 + Cardinality(NewLines(1, current))

\* The reserved words of Lox.
Reserved == {"and", "class", "else", "false", "for", "fun", "if", "nil", "or", "print",
             "return", "super", "this", "true", "var", "while"}

\* Every reserved word is scanned as the keyword it is.
ReservedAreKeywords ==
  token.type # "none" /\ Text(start, current - 1) \in Reserved =>
    token.type = Text(start, current - 1)

\* Only the reserved words are keywords; every other word is a name.
OnlyReservedAreKeywords ==
  token.type \in Reserved => Text(start, current - 1) = token.type

\* Every source is scanned to its end: scanToken always makes progress.
ScanEnds == <>(token.type = "eof")
=============================================================================
