----------------------------- MODULE MCLexical ------------------------------
(***************************************************************************)
(* Programs for Lexical, as the statements possible at each place.         *)
(***************************************************************************)
EXTENDS Lexical

MCNames == {"a", "b"}

Plain(op) == <<op, None, None>>
On(op, name) == <<op, name, None>>
With(op, name, from) == <<op, name, from>>
Times(n, set) == [i \in 1..n |-> set]

\* Nested scopes and functions around one name.
Scopes ==
  <<{Plain("block"), With("fun", "a", "a")}>>
  \o Times(5, {Plain("block"), Plain("end"), On("var", "a"), With("var", "a", "a"), On("print", "a"),
               On("fun", "a"), With("fun", "a", "a"), On("call", "a")})

\* Returns and errors in loops, blocks and calls, with a line after them.
Flow ==
  <<{On("fun", "a"), Plain("while")}>>
  \o Times(4, {Plain("block"), Plain("while"), Plain("end"), Plain("return"), Plain("fail"),
               On("assign", "a"), On("call", "a")})

\* What shadows the variables of a function.
Shadows ==
  <<{Plain("block")}, {On("var", "a"), With("fun", "b", "a")},
    {Plain("block"), On("fun", "b"), On("var", "a")}>>
  \o Times(5, {Plain("block"), Plain("end"), On("fun", "b"), On("var", "a"), On("print", "a"),
               On("call", "b")})

\* Functions that outlive the block or the call they were made in.
Escapes ==
  <<{On("var", "a")}, {Plain("block"), Plain("while"), On("fun", "b")},
    {On("fun", "b"), On("var", "b"), With("fun", "a", "b")}>>
  \o Times(5, {Plain("end"), On("print", "b"), With("assign", "a", "b"), On("call", "a"),
               On("call", "b")})

\* Functions that are returned from the call that made them.
Returned ==
  <<{On("fun", "a"), With("fun", "a", "b")}, {On("var", "a"), On("fun", "b"), With("return", None, "b")},
    {On("fun", "b"), On("print", "a"), Plain("end")}>>
  \o Times(3, {On("print", "a"), With("assign", "a", "b"), Plain("end"), Plain("return"),
               With("return", None, "b")})
  \o <<{Plain("end"), With("make", "b", "a")}, {With("make", "b", "a"), On("call", "b")},
       {On("call", "b"), On("print", "b")}>>

\* Class a and its subclass b with a method each, instances, this and super
\* in methods and in functions in them.
Bodies == {Plain("this"), Plain("super"), On("fun", "a"), On("call", "a"), Plain("block"),
           Plain("return"), Plain("end")}
Classes ==
  <<{On("class", "a")}, {Plain("method"), Plain("init"), Plain("end")},
    {Plain("this"), Plain("fail"), With("return", None, "a"), Plain("end")}, {Plain("end")}, {Plain("end")},
    {With("class", "b", "a")}, {Plain("method"), Plain("init"), Plain("end")}>>
  \o Times(4, Bodies)
  \o <<{Plain("end")}, {With("make", "a", "b"), On("call", "b"), With("class", "a", "b")}, {On("invoke", "a")}>>

MCSources == {Scopes, Flow, Shadows, Escapes, Returned, Classes}
=============================================================================
