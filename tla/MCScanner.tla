----------------------------- MODULE MCScanner ------------------------------
(* All short texts over a character of each class, and the reserved words. *)
EXTENDS Scanner

\* One character of each class the scanner tells apart.
Alphabet == {"a", "1", ".", "\"", "/", "\n", "=", "@"}

RECURSIVE Texts(_)
Texts(n) == IF n = 0 THEN {""} ELSE {t \o c : t \in Texts(n - 1), c \in Alphabet \cup {""}}

ShortTexts == Texts(4)

\* Names that differ from reserved words by a letter.
Names == {"f", "t", "ff", "tf", "tar", "tvar", "fi", "nill", "o", "orr", "clas", "whiles"}

Words == Reserved \cup {"nil a", "or/"}
AllTexts == ShortTexts \cup Words

AllLetters == {"a", "b", "c", "d", "e", "f", "g", "h", "i", "j", "k", "l", "m", "n", "o", "p",
               "q", "r", "s", "t", "u", "v", "w", "x", "y", "z", "_"}
=============================================================================
