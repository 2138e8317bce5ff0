----------------------------- MODULE MCCompiler -----------------------------
(* The compiler, on sources made of a few kinds of pieces.                 *)
EXTENDS Compiler

MCNames == {"a", "b", "c", "init"}

Tokens(S) == {<<t>> : t \in S}

\* Blocks, variables and functions nested in each other.
Nested ==
  [alphabet |-> {<<"{">>, <<"}">>, <<"var", "a", ";">>, <<"a", ";">>,
                 <<"fun", "b", "(", ")", "{">>},
   pieces |-> 7, strict |-> TRUE]

\* More locals, upvalues and arguments than there can be.
Limits ==
  [alphabet |-> {<<"{", "var", "a", ";", "var", "b", ";">>, <<"var", "c", ";">>,
                 <<"fun", "init", "(", ")", "{">>, <<"a", "=", "b", "+", "c", ";">>, <<"}">>,
                 <<"a", "(", "b", ",", "c", ")", ";">>, <<"a", "(", "1", ",", "1", ",", "1", ")">>,
                 <<"fun", "a", "(", "a", ",", "b", ",", "c", ")", "{">>,
                 <<"var", "c", "=", "c", ";">>, <<"class", "init", "<", "a", "{", "}">>},
   pieces |-> 5, strict |-> TRUE]

\* Statements with jumps.
Control ==
  [alphabet |-> {<<"{", "var", "a", ";">>, <<"}">>, <<"a", ";">>,
                 <<"if", "(", "1", ")">>, <<"else">>, <<"while", "(", "1", ")">>,
                 <<"for", "(", "var", "b", "=", "1", ";", "b", ";", "b", "=", "a", ")">>,
                 <<"for", "(", "1", ";", ";", ")">>, <<"for", "(", ";", "a", ";", ")">>,
                 <<"fun", "b", "(", "a", ")", "{">>, <<"return", "a", ";">>},
   pieces |-> 4, strict |-> TRUE]

\* Classes with and without a superclass.
Classes ==
  [alphabet |-> {<<"{">>, <<"}">>, <<"class", "a", "{">>, <<"class", "b", "<", "a", "{">>,
                 <<"init", "(", ")", "{">>, <<"this", ".", "a", "=", "1", ";">>,
                 <<"super", ".", "a", "(", "b", ")", ";">>, <<"super", ".", "a", ";">>,
                 <<"fun", "b", "(", ")", "{">>, <<"return", ";">>},
   pieces |-> 5, strict |-> TRUE]

\* Expressions.
Expressions ==
  [alphabet |-> Tokens({"1", "a", "-", "!", "*", "==", "=", "(", ")", ".", "and", "or",
                        "print", ";"}),
   pieces |-> 5, strict |-> TRUE]

\* Any tokens, in any order.
Garbage ==
  [alphabet |-> Tokens({"a", "=", ";", "(", "{", "}", ".", "<", "class", "fun", "for",
                        "return", "super"}) \cup {<<"error", "error">>},
   pieces |-> 4, strict |-> FALSE]

MCSources ==
  [nested |-> Nested, limits |-> Limits, control |-> Control, classes |-> Classes,
   expressions |-> Expressions, garbage |-> Garbage]
=============================================================================
