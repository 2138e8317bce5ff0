--------------------------- MODULE CompilerProofs ---------------------------
(***************************************************************************)
(* Proofs about the compiler: its stack discipline, its resolution of      *)
(* names and its marks on captured variables, for every source.            *)
(*                                                                         *)
(* The invariant says that the calls left to do are safe: every action     *)
(* keeps it, since the calls an action makes fulfil the contract of the    *)
(* function it stands for.                                                 *)
(***************************************************************************)
EXTENDS CompilerContracts

-----------------------------------------------------------------------------
(* The state itself *)

\* Sequences of whatever elements: their shape,
LEMMA SeqFacts ==
  ASSUME NEW x, IsSeq(x)
  PROVE  /\ Len(x) \in Nat /\ x = [i \in 1..Len(x) |-> x[i]] /\ DOMAIN x = 1..Len(x)
         /\ Len(x) = 0 <=> x = <<>>
<1>1. PICK S : x \in Seq(S)
  BY DEF IsSeq
<1>2. Len(x) \in Nat /\ DOMAIN x = 1..Len(x) /\ (Len(x) = 0 <=> x = <<>>)
  BY <1>1
<1>3. x = [i \in 1..Len(x) |-> x[i]]
  BY <1>1
<1> QED BY <1>2, <1>3

\* one more element,
LEMMA AppendFacts ==
  ASSUME NEW x, IsSeq(x), NEW e
  PROVE  /\ IsSeq(Append(x, e)) /\ Len(Append(x, e)) = Len(x) + 1
         /\ \A i \in 1..Len(x) : Append(x, e)[i] = x[i]
         /\ Append(x, e)[Len(x) + 1] = e
<1>1. PICK S : x \in Seq(S)
  BY DEF IsSeq
<1>2. x \in Seq(S \cup {e})
  BY <1>1
<1>3. Append(x, e) \in Seq(S \cup {e})
  BY <1>2
<1>4. IsSeq(Append(x, e))
  BY <1>3 DEF IsSeq
<1> QED BY <1>2, <1>4

\* the first n elements,
LEMMA CutFacts ==
  ASSUME NEW x, IsSeq(x), NEW n \in 0..Len(x)
  PROVE  /\ IsSeq(SubSeq(x, 1, n)) /\ Len(SubSeq(x, 1, n)) = n
         /\ \A i \in 1..n : SubSeq(x, 1, n)[i] = x[i]
<1>1. PICK S : x \in Seq(S)
  BY DEF IsSeq
<1>2. \A i \in 1..n : x[i] \in S
  BY <1>1
<1>3. SubSeq(x, 1, n) \in Seq(S)
  BY <1>1, <1>2, SubSeqProperties
<1>4. IsSeq(SubSeq(x, 1, n))
  BY <1>3 DEF IsSeq
<1> QED BY <1>1, <1>4, SubSeqProperties

\* and one element replaced.
Replaced(x, i, v) == [x EXCEPT ![i] = v]

\* It has the same length and the other elements.
LEMMA ReplaceFacts ==
  ASSUME NEW x, IsSeq(x), NEW i \in 1..Len(x), NEW v
  PROVE  LET y == Replaced(x, i, v) IN
         /\ IsSeq(y) /\ Len(y) = Len(x) /\ y[i] = v
         /\ \A j \in 1..Len(x) : j # i => y[j] = x[j]
<1>1. PICK S : x \in Seq(S)
  BY DEF IsSeq
<1>2. x \in Seq(S \cup {v})
  BY <1>1
<1> DEFINE y == Replaced(x, i, v)
<1>3. /\ y \in Seq(S \cup {v}) /\ Len(y) = Len(x) /\ y[i] = v
      /\ \A j \in 1..Len(x) : j # i => y[j] = x[j]
  BY <1>2 DEF Replaced
<1>4. IsSeq(y)
  BY <1>3 DEF IsSeq
<1> QED BY <1>3, <1>4

\* The Compilers are records, their upvalues and locals sequences.
IsLocal(l) == l = [name |-> l.name, depth |-> l.depth, isCaptured |-> l.isCaptured]
IsComp(c) ==
  /\ c = [type |-> c.type, depth |-> c.depth, arity |-> c.arity, upvalues |-> c.upvalues,
          locals |-> c.locals, height |-> c.height]
  /\ IsSeq(c.upvalues) /\ Len(c.upvalues) <= MaxUpvalues /\ IsSeq(c.locals)
  /\ \A i \in 1..Len(c.locals) : IsLocal(c.locals[i])
CompsOK(comps) == IsSeq(comps) /\ \A k \in 1..Len(comps) : IsComp(comps[k])

\* The contracts see the names and depths of the locals.
LEMMA OutlineIs ==
  ASSUME NEW c, IsSeq(c.locals)
  PROVE  LET o == Outline(c) IN
           /\ o.type = c.type /\ o.depth = c.depth /\ o.height = c.height
           /\ o.n = Len(c.locals) /\ o.n \in Nat
           /\ o.locals = [i \in 1..o.n |-> o.locals[i]]
           /\ \A i \in 1..Len(c.locals) : /\ o.locals[i].name = c.locals[i].name
                                          /\ o.locals[i].depth = c.locals[i].depth
BY SeqFacts DEF Outline

\* The current Compiler is replaced.
LEMMA TopReplaced ==
  ASSUME NEW comps, CompsOK(comps), Len(comps) > 0, NEW c, IsComp(c),
         c.type = comps[Len(comps)].type, NEW new, new = Replaced(comps, Len(comps), c),
         NEW err \in BOOLEAN, NEW err2 \in BOOLEAN, err => err2,
         NEW prev, NEW cur, NEW vs, NEW n, NEW prev2, NEW cur2, NEW vs2, NEW n2,
         NEW s, s = View(err, prev, cur, comps, vs, n),
         NEW t, t = View(err2, prev2, cur2, new, vs2, n2)
  PROVE  /\ CompsOK(new) /\ Stays(s, t) /\ s.top = Outline(comps[Len(comps)]) /\ t.top = Outline(c)
         /\ Len(new) = Len(comps) /\ new[Len(comps)] = c /\ s.level = Len(comps) /\ s.level \in Nat
         /\ \A k \in 1..(Len(comps) - 1) : new[k] = comps[k]
<1>1. IsSeq(comps) /\ Len(comps) \in Nat /\ Len(comps) \in 1..Len(comps)
  BY SeqFacts DEF CompsOK
<1>2. /\ IsSeq(new) /\ Len(new) = Len(comps) /\ new[Len(comps)] = c
      /\ \A k \in 1..Len(comps) : k # Len(comps) => new[k] = comps[k]
  BY <1>1, ReplaceFacts
<1>3. CompsOK(new)
  BY <1>1, <1>2 DEF CompsOK
<1>4. /\ s.top = Outline(comps[Len(comps)]) /\ t.top = Outline(c)
      /\ s.level = Len(comps) /\ t.level = Len(comps) /\ s.err = err /\ t.err = err2
      /\ s.outer = [k \in 1..(Len(comps) - 1) |-> Outline(comps[k])]
      /\ t.outer = [k \in 1..(Len(comps) - 1) |-> Outline(new[k])]
  BY <1>2 DEF View
<1>5. t.outer = s.outer
  <2>1. \A k \in 1..(Len(comps) - 1) : new[k] = comps[k]
    BY <1>1, <1>2
  <2>2. \A k \in 1..(Len(comps) - 1) : Outline(new[k]) = Outline(comps[k])
    BY <2>1
  <2> QED BY <1>4, <2>2
<1>6. t.top.type = s.top.type
  BY <1>4 DEF Outline
<1> QED BY <1>1, <1>2, <1>3, <1>4, <1>5, <1>6 DEF Stays

\* The parts of what the contracts see.
LEMMA ViewIs ==
  ASSUME NEW err \in BOOLEAN, NEW prev, NEW cur, NEW comps, NEW vs, NEW n, ~err => IsSeq(vs),
         NEW s, s = View(err, prev, cur, comps, vs, n)
  PROVE  /\ s.err = err /\ s.prev = prev /\ s.cur = cur /\ s.level = Len(comps) /\ s.classes = n
         /\ s.full = comps /\ s.top = Outline(comps[Len(comps)])
         /\ s.outer = [k \in 1..(s.level - 1) |-> s.outer[k]]
         /\ \A k \in 1..(s.level - 1) : s.outer[k] = Outline(comps[k])
         /\ s.m \in Nat /\ s.env = [e \in 1..s.m |-> s.env[e]]
         /\ ~err => s.m = Len(vs) /\ s.env = vs
<1>1. CASE err
  <2>1. s.m = 0 /\ s.env = <<>>
    BY <1>1 DEF View
  <2>2. s.env = [e \in 1..s.m |-> s.env[e]]
    BY <2>1
  <2> QED BY <1>1, <2>1, <2>2 DEF View
<1>2. CASE ~err
  BY <1>2, SeqFacts DEF View
<1> QED BY <1>1, <1>2

\* A good state stays good: what is to be shown for the current Compiler.
LEMMA GoodStays ==
  ASSUME NEW s, NEW t, Good(s), Stays(s, t), t.err \in BOOLEAN, t.classes \in Nat, t.m \in Nat,
         t.env = [e \in 1..t.m |-> t.env[e]], t.level > 0 => CompOK(t.top, t.top.depth + 1),
         ~t.err /\ t.level > 0 => EnvOK(t)
  PROVE  Good(t)
<1>1. \A k \in 2..t.level : CompAt(t, k).type # "script"
  BY DEF Good, Stays, CompAt
<1> QED BY <1>1 DEF Good, Stays

\* The variables in scope, when those of the current function are as before.
LEMMA EnvTop ==
  ASSUME NEW s, NEW t, EnvOK(s), t.level = s.level, t.outer = s.outer, SameEnv(s, t),
         \A i \in 1..t.top.n : InScope(t.top, i) => i \in 1..s.top.n /\ InScope(s.top, i),
         \A i \in 1..s.top.n : InScope(s.top, i) =>
           /\ i \in 1..t.top.n /\ InScope(t.top, i)
           /\ t.top.locals[i].name = s.top.locals[i].name
  PROVE  EnvOK(t)
<1>1. ASSUME NEW e \in 1..t.m
      PROVE  LET c == CompAt(t, t.env[e].slot[1])
                 i == t.env[e].slot[2] + 1
             IN /\ t.env[e].slot \in (1..t.level) \X Nat
                /\ i \in 1..c.n /\ InScope(c, i) /\ c.locals[i].name = t.env[e].name
  <2> DEFINE k == s.env[e].slot[1]
             i == s.env[e].slot[2] + 1
  <2>1. /\ e \in 1..s.m /\ t.env[e] = s.env[e]
        /\ s.env[e].slot \in (1..s.level) \X Nat
        /\ i \in 1..CompAt(s, k).n /\ InScope(CompAt(s, k), i)
        /\ CompAt(s, k).locals[i].name = s.env[e].name
    BY DEF EnvOK, SameEnv
  <2>2. CASE k = s.level
    <3>1. CompAt(s, k) = s.top /\ CompAt(t, k) = t.top
      BY <2>2 DEF CompAt
    <3> HIDE DEF k, i
    <3>2. i \in 1..t.top.n /\ InScope(t.top, i) /\ t.top.locals[i].name = s.env[e].name
      BY <2>1, <3>1
    <3> QED BY <2>1, <3>1, <3>2 DEF k, i
  <2>3. CASE k # s.level
    <3>1. CompAt(t, k) = CompAt(s, k)
      BY <2>3 DEF CompAt
    <3> QED BY <2>1, <3>1
  <2> QED BY <2>2, <2>3
<1>2. ASSUME NEW k \in 1..t.level, NEW i \in 1..CompAt(t, k).n, InScope(CompAt(t, k), i)
      PROVE  \E e \in 1..t.m : t.env[e].slot = <<k, i - 1>>
  <2>1. t.m = s.m /\ t.env = s.env /\ k \in 1..s.level
    BY DEF SameEnv
  <2>2. i \in 1..CompAt(s, k).n /\ InScope(CompAt(s, k), i)
    <3>1. CASE k = s.level
      <4>1. CompAt(s, k) = s.top /\ CompAt(t, k) = t.top
        BY <3>1 DEF CompAt
      <4> QED BY <1>2, <4>1
    <3>2. CASE k # s.level
      <4>1. CompAt(t, k) = CompAt(s, k)
        BY <3>2 DEF CompAt
      <4> QED BY <1>2, <4>1
    <3> QED BY <3>1, <3>2
  <2>3. \E e \in 1..s.m : s.env[e].slot = <<k, i - 1>>
    BY <2>1, <2>2 DEF EnvOK
  <2> QED BY <2>1, <2>3
<1>3. \A e, f \in 1..t.m : e < f => Before(t.env[e].slot, t.env[f].slot)
  BY DEF EnvOK, SameEnv
<1> QED BY <1>1, <1>2, <1>3 DEF EnvOK

\* A step that changes nothing but the stack and the tokens.
LEMMA ExprGood ==
  ASSUME NEW s, NEW t, NEW k, Good(s), Expr(s, t, k), t.err \in BOOLEAN, t.m \in Nat,
         t.env = [e \in 1..t.m |-> t.env[e]], t.level > 0 => t.top.height \in Int
  PROVE  Good(t)
<1>1. Stays(s, t) /\ t.classes \in Nat
  BY DEF Expr, Good
<1>2. t.level > 0 => CompOK(t.top, t.top.depth + 1)
  BY DEF Expr, Good, CompOK, Stays, SameLocals
<1>3. ASSUME ~t.err, t.level > 0 PROVE EnvOK(t)
  <2>1. EnvOK(s) /\ SameEnv(s, t) /\ t.level = s.level /\ t.outer = s.outer
    BY <1>3 DEF Good, Expr, Stays
  <2>2. \A i : InScope(t.top, i) <=> InScope(s.top, i)
    BY DEF Expr, Stays, SameLocals, InScope
  <2>3. t.top.n = s.top.n /\ t.top.locals = s.top.locals
    BY DEF Expr, SameLocals
  <2> QED BY <2>1, <2>2, <2>3, EnvTop
<1> QED BY <1>1, <1>2, <1>3, GoodStays

-----------------------------------------------------------------------------
(* The invariant *)

\* The tables of the compiler have their types.
TablesOK ==
  /\ hadError \in BOOLEAN /\ panicMode \in BOOLEAN /\ (panicMode => hadError)
  /\ CompsOK(compilers) /\ IsSeq(classes) /\ (~hadError => IsSeq(env))

\* The calls left to do are safe.
CallsOK == IsSeq(todo) /\ Good(Now) /\ Safe(todo, Now)

\* A slot of function k that is in use, and whose local is marked as captured.
IsCaptured(comps, k, i) ==
  /\ k \in 1..Len(comps) /\ i \in Nat /\ i < Len(comps[k].locals)
  /\ comps[k].locals[i + 1].isCaptured

\* Behind every upvalue of a function is a captured local of a function around
\* it, by way of an upvalue of the next one if it is not that one's own.
UpvaluesIn(comps) ==
  \A m \in 1..Len(comps) : \A q \in 1..Len(comps[m].upvalues) :
    LET u == comps[m].upvalues[q] IN
      /\ u.slot \in (1..(m - 1)) \X Nat /\ IsCaptured(comps, u.slot[1], u.slot[2])
      /\ u.isLocal \in BOOLEAN /\ u.index \in Nat
      /\ u.isLocal => u.slot = <<m - 1, u.index>>
      /\ ~u.isLocal => /\ u.index < Len(comps[m - 1].upvalues)
                       /\ u.slot = comps[m - 1].upvalues[u.index + 1].slot
UpvaluesOK == UpvaluesIn(compilers)

\* What functions have captured is in use and marked.
CapturesOK ==
  \A v \in captured : v \in Nat \X Nat /\ IsCaptured(compilers, v[1], v[2])

IInv == TablesOK /\ CallsOK /\ UpvaluesOK /\ CapturesOK /\ NamesResolve

-----------------------------------------------------------------------------
(* Steps *)

\* What the contracts see of the state.
LEMMA NowIs ==
  ASSUME TablesOK
  PROVE  /\ Now.err = hadError /\ Now.prev = previous /\ Now.cur = current /\ Now.level = Level
         /\ Now.classes = Len(classes) /\ (classes = <<>> <=> Now.classes = 0)
         /\ Now.top = Outline(Current) /\ Now.full = compilers
         /\ H = Now.top.height /\ Current.type = Now.top.type /\ Current.depth = Now.top.depth
         /\ ~hadError => Now.m = Len(env) /\ Now.env = env
<1>1. /\ hadError \in BOOLEAN /\ IsSeq(classes) /\ (~hadError => IsSeq(env))
  BY DEF TablesOK
<1>2. Len(classes) \in Nat /\ (Len(classes) = 0 <=> classes = <<>>)
  BY <1>1, SeqFacts
<1>3. /\ Now.err = hadError /\ Now.prev = previous /\ Now.cur = current
      /\ Now.level = Len(compilers) /\ Now.classes = Len(classes)
      /\ Now.top = Outline(compilers[Len(compilers)]) /\ Now.full = compilers
      /\ ~hadError => Now.m = Len(env) /\ Now.env = env
  BY DEF Now, View
<1>4. /\ Outline(Current).height = Current.height /\ Outline(Current).type = Current.type
      /\ Outline(Current).depth = Current.depth
  BY DEF Outline
<1> QED BY <1>2, <1>3, <1>4 DEF H, Current, Level

\* The function that is called next can be called.
LEMMA NextCall ==
  ASSUME CallsOK, NEW f, Doing(f)
  PROVE  /\ todo # <<>> /\ Head(todo)[1] = f /\ Good(Now) /\ Pre(Head(todo), Now)
         /\ Safe(todo, Now) /\ IsSeq(todo)
<1>1. todo # <<>> /\ Head(todo)[1] = f /\ IsSeq(todo) /\ Good(Now) /\ Safe(todo, Now)
  BY DEF CallsOK, Doing
<1>2. Head(todo) = todo[1]
  BY <1>1 DEF IsSeq
<1>3. Pre(todo[1], Now)
  BY <1>1, SafeFirst
<1> QED BY <1>1, <1>2, <1>3

\* It is replaced by calls that fulfil its contract.
LEMMA CallsGo ==
  ASSUME CallsOK, todo # <<>>, NEW calls, Become(calls), Good(Now'),
         Fulfils(calls, Now', Head(todo), Now)
  PROVE  CallsOK'
<1>1. IsSeq(todo) /\ Safe(todo, Now)
  BY DEF CallsOK
<1>2. Head(todo) = todo[1]
  BY <1>1 DEF IsSeq
<1>3. IsSeq(Tail(todo)) /\ \A t : Rel(Head(todo), Now, t) => Safe(Tail(todo), t)
  BY <1>1, <1>2, SafeFirst
<1>4. IsSeq(calls) /\ Safe(calls \o Tail(todo), Now')
  BY <1>3 DEF Fulfils
<1>5. IsSeq(calls \o Tail(todo))
  BY <1>3, <1>4, ListsAreSeqs
<1>6. todo' = calls \o Tail(todo)
  BY DEF Become
<1>7. IsSeq(todo') /\ Safe(todo', Now')
  BY <1>4, <1>5, <1>6, Zenon
<1> QED BY <1>7 DEF CallsOK

\* The step of a parsing function that only calls others.
Acts == \E calls : Become(calls) /\ Fulfils(calls, Now, Head(todo), Now)

\* A function that has nothing to do.
LEMMA NothingToDo ==
  ASSUME NEW s, Good(s), NEW c, Pre(c, s),
         c[1] \in {"infix", "else", "methods", "synchronize"}
  PROVE  Fulfils(<<>>, s, c, s)
<1>1. CASE c[1] = "infix"
  <2>1. Expr(s, s, 0)
    BY <1>1, AtInfix, ExprOKIs, ExprSelf
  <2> QED BY <1>1, <2>1, AtInfix, FulfilsNone
<1>2. CASE c[1] = "else"
  <2>1. Tidy(s) /\ s.level > 0
    BY <1>2, AtElse, ExprOKIs DEF StmtOK
  <2>2. Stmt(s, s, 0)
    BY <2>1, StmtSelf
  <2> QED BY <1>2, <2>2, AtElse, FulfilsNone
<1>3. CASE c[1] = "methods"
  <2>1. Expr(s, s, 0)
    BY <1>3, AtMethods, ExprSelf
  <2> QED BY <1>3, <2>1, AtMethods, FulfilsNone
<1>4. CASE c[1] = "synchronize"
  <2>1. Expr(s, s, 0)
    BY <1>4, AtSynchronize, ExprSelf
  <2> QED BY <1>4, <2>1, AtSynchronize, FulfilsNone
<1> QED BY <1>1, <1>2, <1>3, <1>4

\* Lists are put together.
LEMMA Glue11 ==
  ASSUME NEW a, NEW b
  PROVE  <<a>> \o <<b>> = <<a, b>>
<1>1. \E S : <<a, b>> \in Seq(S) /\ <<a>> \in Seq(S) /\ <<b>> \in Seq(S)
  <2>1. /\ <<a, b>> \in Seq({a, b}) /\ <<a>> \in Seq({a, b})
        /\ <<b>> \in Seq({a, b})
    OBVIOUS
  <2> QED BY <2>1
<1>2. PICK S : <<a, b>> \in Seq(S) /\ <<a>> \o <<b>> \in Seq(S)
  BY <1>1, ConcatProperties
<1>3. Len(<<a, b>>) = 2 /\ Len(<<a>> \o <<b>>) = 2
  BY <1>1, ConcatProperties
<1>4. \A i \in 1..2 : <<a, b>>[i] = (<<a>> \o <<b>>)[i]
  BY <1>1, ConcatProperties
<1> QED BY <1>2, <1>3, <1>4, SeqEqual

\* A list of 2 and one of 1 are a list of 3.
LEMMA Glue21 ==
  ASSUME NEW a, NEW b, NEW c
  PROVE  <<a, b>> \o <<c>> = <<a, b, c>>
<1>1. \E S : <<a, b, c>> \in Seq(S) /\ <<a, b>> \in Seq(S) /\ <<c>> \in Seq(S)
  <2>1. /\ <<a, b, c>> \in Seq({a, b, c}) /\ <<a, b>> \in Seq({a, b, c})
        /\ <<c>> \in Seq({a, b, c})
    OBVIOUS
  <2> QED BY <2>1
<1>2. PICK S : <<a, b, c>> \in Seq(S) /\ <<a, b>> \o <<c>> \in Seq(S)
  BY <1>1, ConcatProperties
<1>3. Len(<<a, b, c>>) = 3 /\ Len(<<a, b>> \o <<c>>) = 3
  BY <1>1, ConcatProperties
<1>4. \A i \in 1..3 : <<a, b, c>>[i] = (<<a, b>> \o <<c>>)[i]
  BY <1>1, ConcatProperties
<1> QED BY <1>2, <1>3, <1>4, SeqEqual

\* A list of 1 and one of 2 are a list of 3.
LEMMA Glue12 ==
  ASSUME NEW a, NEW b, NEW c
  PROVE  <<a>> \o <<b, c>> = <<a, b, c>>
<1>1. \E S : <<a, b, c>> \in Seq(S) /\ <<a>> \in Seq(S) /\ <<b, c>> \in Seq(S)
  <2>1. /\ <<a, b, c>> \in Seq({a, b, c}) /\ <<a>> \in Seq({a, b, c})
        /\ <<b, c>> \in Seq({a, b, c})
    OBVIOUS
  <2> QED BY <2>1
<1>2. PICK S : <<a, b, c>> \in Seq(S) /\ <<a>> \o <<b, c>> \in Seq(S)
  BY <1>1, ConcatProperties
<1>3. Len(<<a, b, c>>) = 3 /\ Len(<<a>> \o <<b, c>>) = 3
  BY <1>1, ConcatProperties
<1>4. \A i \in 1..3 : <<a, b, c>>[i] = (<<a>> \o <<b, c>>)[i]
  BY <1>1, ConcatProperties
<1> QED BY <1>2, <1>3, <1>4, SeqEqual

\* A list of 1 and one of 3 are a list of 4.
LEMMA Glue13 ==
  ASSUME NEW a, NEW b, NEW c, NEW d
  PROVE  <<a>> \o <<b, c, d>> = <<a, b, c, d>>
<1>1. \E S : <<a, b, c, d>> \in Seq(S) /\ <<a>> \in Seq(S) /\ <<b, c, d>> \in Seq(S)
  <2>1. /\ <<a, b, c, d>> \in Seq({a, b, c, d}) /\ <<a>> \in Seq({a, b, c, d})
        /\ <<b, c, d>> \in Seq({a, b, c, d})
    OBVIOUS
  <2> QED BY <2>1
<1>2. PICK S : <<a, b, c, d>> \in Seq(S) /\ <<a>> \o <<b, c, d>> \in Seq(S)
  BY <1>1, ConcatProperties
<1>3. Len(<<a, b, c, d>>) = 4 /\ Len(<<a>> \o <<b, c, d>>) = 4
  BY <1>1, ConcatProperties
<1>4. \A i \in 1..4 : <<a, b, c, d>>[i] = (<<a>> \o <<b, c, d>>)[i]
  BY <1>1, ConcatProperties
<1> QED BY <1>2, <1>3, <1>4, SeqEqual

\* A list of 1 and one of 4 are a list of 5.
LEMMA Glue14 ==
  ASSUME NEW a, NEW b, NEW c, NEW d, NEW e
  PROVE  <<a>> \o <<b, c, d, e>> = <<a, b, c, d, e>>
<1>1. \E S : <<a, b, c, d, e>> \in Seq(S) /\ <<a>> \in Seq(S) /\ <<b, c, d, e>> \in Seq(S)
  <2>1. /\ <<a, b, c, d, e>> \in Seq({a, b, c, d, e}) /\ <<a>> \in Seq({a, b, c, d, e})
        /\ <<b, c, d, e>> \in Seq({a, b, c, d, e})
    OBVIOUS
  <2> QED BY <2>1
<1>2. PICK S : <<a, b, c, d, e>> \in Seq(S) /\ <<a>> \o <<b, c, d, e>> \in Seq(S)
  BY <1>1, ConcatProperties
<1>3. Len(<<a, b, c, d, e>>) = 5 /\ Len(<<a>> \o <<b, c, d, e>>) = 5
  BY <1>1, ConcatProperties
<1>4. \A i \in 1..5 : <<a, b, c, d, e>>[i] = (<<a>> \o <<b, c, d, e>>)[i]
  BY <1>1, ConcatProperties
<1> QED BY <1>2, <1>3, <1>4, SeqEqual

\* A list of 3 and one of 1 are a list of 4.
LEMMA Glue31 ==
  ASSUME NEW a, NEW b, NEW c, NEW d
  PROVE  <<a, b, c>> \o <<d>> = <<a, b, c, d>>
<1>1. \E S : <<a, b, c, d>> \in Seq(S) /\ <<a, b, c>> \in Seq(S) /\ <<d>> \in Seq(S)
  <2>1. /\ <<a, b, c, d>> \in Seq({a, b, c, d}) /\ <<a, b, c>> \in Seq({a, b, c, d})
        /\ <<d>> \in Seq({a, b, c, d})
    OBVIOUS
  <2> QED BY <2>1
<1>2. PICK S : <<a, b, c, d>> \in Seq(S) /\ <<a, b, c>> \o <<d>> \in Seq(S)
  BY <1>1, ConcatProperties
<1>3. Len(<<a, b, c, d>>) = 4 /\ Len(<<a, b, c>> \o <<d>>) = 4
  BY <1>1, ConcatProperties
<1>4. \A i \in 1..4 : <<a, b, c, d>>[i] = (<<a, b, c>> \o <<d>>)[i]
  BY <1>1, ConcatProperties
<1> QED BY <1>2, <1>3, <1>4, SeqEqual

\* A list of 4 and one of 1 are a list of 5.
LEMMA Glue41 ==
  ASSUME NEW a, NEW b, NEW c, NEW d, NEW e
  PROVE  <<a, b, c, d>> \o <<e>> = <<a, b, c, d, e>>
<1>1. \E S : <<a, b, c, d, e>> \in Seq(S) /\ <<a, b, c, d>> \in Seq(S) /\ <<e>> \in Seq(S)
  <2>1. /\ <<a, b, c, d, e>> \in Seq({a, b, c, d, e}) /\ <<a, b, c, d>> \in Seq({a, b, c, d, e})
        /\ <<e>> \in Seq({a, b, c, d, e})
    OBVIOUS
  <2> QED BY <2>1
<1>2. PICK S : <<a, b, c, d, e>> \in Seq(S) /\ <<a, b, c, d>> \o <<e>> \in Seq(S)
  BY <1>1, ConcatProperties
<1>3. Len(<<a, b, c, d, e>>) = 5 /\ Len(<<a, b, c, d>> \o <<e>>) = 5
  BY <1>1, ConcatProperties
<1>4. \A i \in 1..5 : <<a, b, c, d, e>>[i] = (<<a, b, c, d>> \o <<e>>)[i]
  BY <1>1, ConcatProperties
<1> QED BY <1>2, <1>3, <1>4, SeqEqual

\* A list of 5 and one of 1 are a list of 6.
LEMMA Glue51 ==
  ASSUME NEW a, NEW b, NEW c, NEW d, NEW e, NEW g
  PROVE  <<a, b, c, d, e>> \o <<g>> = <<a, b, c, d, e, g>>
<1>1. \E S : <<a, b, c, d, e, g>> \in Seq(S) /\ <<a, b, c, d, e>> \in Seq(S) /\ <<g>> \in Seq(S)
  <2>1. /\ <<a, b, c, d, e, g>> \in Seq({a, b, c, d, e, g}) /\ <<a, b, c, d, e>> \in Seq({a, b, c, d, e, g})
        /\ <<g>> \in Seq({a, b, c, d, e, g})
    OBVIOUS
  <2> QED BY <2>1
<1>2. PICK S : <<a, b, c, d, e, g>> \in Seq(S) /\ <<a, b, c, d, e>> \o <<g>> \in Seq(S)
  BY <1>1, ConcatProperties
<1>3. Len(<<a, b, c, d, e, g>>) = 6 /\ Len(<<a, b, c, d, e>> \o <<g>>) = 6
  BY <1>1, ConcatProperties
<1>4. \A i \in 1..6 : <<a, b, c, d, e, g>>[i] = (<<a, b, c, d, e>> \o <<g>>)[i]
  BY <1>1, ConcatProperties
<1> QED BY <1>2, <1>3, <1>4, SeqEqual

\* A list of 2 and one of 2 are a list of 4.
LEMMA Glue22 ==
  ASSUME NEW a, NEW b, NEW c, NEW d
  PROVE  <<a, b>> \o <<c, d>> = <<a, b, c, d>>
<1>1. \E S : <<a, b, c, d>> \in Seq(S) /\ <<a, b>> \in Seq(S) /\ <<c, d>> \in Seq(S)
  <2>1. /\ <<a, b, c, d>> \in Seq({a, b, c, d}) /\ <<a, b>> \in Seq({a, b, c, d})
        /\ <<c, d>> \in Seq({a, b, c, d})
    OBVIOUS
  <2> QED BY <2>1
<1>2. PICK S : <<a, b, c, d>> \in Seq(S) /\ <<a, b>> \o <<c, d>> \in Seq(S)
  BY <1>1, ConcatProperties
<1>3. Len(<<a, b, c, d>>) = 4 /\ Len(<<a, b>> \o <<c, d>>) = 4
  BY <1>1, ConcatProperties
<1>4. \A i \in 1..4 : <<a, b, c, d>>[i] = (<<a, b>> \o <<c, d>>)[i]
  BY <1>1, ConcatProperties
<1> QED BY <1>2, <1>3, <1>4, SeqEqual

-----------------------------------------------------------------------------
(* The parsing functions, by what they read *)

\* consume.
LEMMA ActConsume ==
  ASSUME TablesOK, CallsOK, DoConsume PROVE Acts
<1>1. Good(Now) /\ Head(todo)[1] = "consume" /\ Pre(Head(todo), Now) /\ Arg = Head(todo)[2]
  BY NextCall DEF DoConsume, Arg
<1>2. Now.cur = current /\ Now.prev = previous /\ H = Now.top.height /\ Now.err = hadError
      /\ (classes = <<>> <=> Now.classes = 0) /\ (~hadError => Now.m = Len(env))
  BY NowIs
<1>3. CASE Is(current, Arg)
  <2>1. Become(<<Advance>>)
    BY <1>3 DEF DoConsume
  <2>3. Head(todo)[2] = "id" => Now.cur \in Names
    BY <1>1, <1>2, <1>3 DEF Is, Arg
  <2>2. Fulfils(<<Advance>>, Now, Head(todo), Now)
    BY <1>1, <1>2, <1>3, <2>3, ConsumeDoes
  <2> QED BY <2>1, <2>2, Zenon DEF Acts
<1>4. CASE ~Is(current, Arg)
  <2>1. Become(<<Error>>)
    BY <1>4 DEF DoConsume
  <2>2. Fulfils(<<Error>>, Now, Head(todo), Now)
    BY <1>1, <1>2, <1>4, ConsumeMisses
  <2> QED BY <2>1, <2>2, Zenon DEF Acts
<1> QED BY <1>3, <1>4

\* compile.
LEMMA ActProgram ==
  ASSUME TablesOK, CallsOK, Program PROVE Acts
<1>1. Good(Now) /\ Head(todo)[1] = "program" /\ Pre(Head(todo), Now) /\ Arg = Head(todo)[2]
  BY NextCall DEF Program, Arg
<1>2. Now.cur = current /\ Now.prev = previous /\ H = Now.top.height /\ Now.err = hadError
      /\ (classes = <<>> <=> Now.classes = 0) /\ (~hadError => Now.m = Len(env))
  BY NowIs
<1>3. CASE current = "EOF"
  <2>1. Become(<<Advance, Call("endCompile")>>)
    BY <1>3 DEF Program
  <2>2. Fulfils(<<Advance, Call("endCompile")>>, Now, Head(todo), Now)
    BY <1>1, <1>2, <1>3, ProgramEnds
  <2> QED BY <2>1, <2>2, Zenon DEF Acts
<1>4. CASE current # "EOF"
  <2>1. Become(<<Call("declaration"), Call("program")>>)
    BY <1>4 DEF Program
  <2>2. Fulfils(<<Call("declaration"), Call("program")>>, Now, Head(todo), Now)
    BY <1>1, <1>2, <1>4, ProgramMore
  <2> QED BY <2>1, <2>2, Zenon DEF Acts
<1> QED BY <1>3, <1>4

\* declaration.
LEMMA ActDeclaration ==
  ASSUME TablesOK, CallsOK, Declaration PROVE Acts
<1>1. Good(Now) /\ Head(todo)[1] = "declaration" /\ Pre(Head(todo), Now) /\ Arg = Head(todo)[2]
  BY NextCall DEF Declaration, Arg
<1>2. Now.cur = current /\ Now.prev = previous /\ H = Now.top.height /\ Now.err = hadError
      /\ (classes = <<>> <=> Now.classes = 0) /\ (~hadError => Now.m = Len(env))
  BY NowIs
<1>3. CASE current = "var"
  <2>1. Become(<<Advance, Call("varDeclaration"), Call("recover")>>)
    BY <1>3 DEF Declaration
  <2>2. Fulfils(<<Advance, Call("varDeclaration"), Call("recover")>>, Now, Head(todo), Now)
    BY <1>1, <1>2, <1>3, DeclareVar
  <2> QED BY <2>1, <2>2, Zenon DEF Acts
<1>4. CASE current = "fun"
  <2>1. Become(<<Advance, Call("funDeclaration"), Call("recover")>>)
    BY <1>4 DEF Declaration
  <2>2. Fulfils(<<Advance, Call("funDeclaration"), Call("recover")>>, Now, Head(todo), Now)
    BY <1>1, <1>2, <1>4, DeclareFun
  <2> QED BY <2>1, <2>2, Zenon DEF Acts
<1>5. CASE current = "class"
  <2>1. Become(<<Advance, Call("classDeclaration"), Call("recover")>>)
    BY <1>5 DEF Declaration
  <2>2. Fulfils(<<Advance, Call("classDeclaration"), Call("recover")>>, Now, Head(todo), Now)
    BY <1>1, <1>2, <1>5, DeclareClass
  <2> QED BY <2>1, <2>2, Zenon DEF Acts
<1>6. CASE current \notin {"var", "fun", "class"}
  <2>1. Become(<<Call("statement"), Call("recover")>>)
    BY <1>6 DEF Declaration
  <2>2. Fulfils(<<Call("statement"), Call("recover")>>, Now, Head(todo), Now)
    BY <1>1, <1>2, <1>6, DeclareNothing
  <2> QED BY <2>1, <2>2, Zenon DEF Acts
<1> QED BY <1>3, <1>4, <1>5, <1>6

\* varDeclaration.
LEMMA ActVarDeclaration ==
  ASSUME TablesOK, CallsOK, VarDeclaration PROVE Acts
<1>1. Good(Now) /\ Head(todo)[1] = "varDeclaration" /\ Pre(Head(todo), Now) /\ Arg = Head(todo)[2]
  BY NextCall DEF VarDeclaration, Arg
<1>2. Now.cur = current /\ Now.prev = previous /\ H = Now.top.height /\ Now.err = hadError
      /\ (classes = <<>> <=> Now.classes = 0) /\ (~hadError => Now.m = Len(env))
  BY NowIs
<1>3. Become(<<Consume("id"), Call("declareVariable"), Call("initializer"), Consume(";"),
            Call("defineVariable")>>)
  BY DEF VarDeclaration
<1>4. Fulfils(<<Consume("id"), Call("declareVariable"), Call("initializer"), Consume(";"),
            Call("defineVariable")>>, Now, Head(todo), Now)
  BY <1>1, <1>2, VarDeclarationDoes
<1> QED BY <1>3, <1>4, Zenon DEF Acts

\* The initializer of a variable.
LEMMA ActInitializer ==
  ASSUME TablesOK, CallsOK, Initializer PROVE Acts
<1>1. Good(Now) /\ Head(todo)[1] = "initializer" /\ Pre(Head(todo), Now) /\ Arg = Head(todo)[2]
  BY NextCall DEF Initializer, Arg
<1>2. Now.cur = current /\ Now.prev = previous /\ H = Now.top.height /\ Now.err = hadError
      /\ (classes = <<>> <=> Now.classes = 0) /\ (~hadError => Now.m = Len(env))
  BY NowIs
<1>3. CASE current = "="
  <2>1. Become(<<Advance, Expression>>)
    BY <1>3 DEF Initializer
  <2>2. Fulfils(<<Advance, Expression>>, Now, Head(todo), Now)
    BY <1>1, <1>2, <1>3, InitializerGiven
  <2> QED BY <2>1, <2>2, Zenon DEF Acts
<1>4. CASE current # "="
  <2>1. Become(<<Emit(1)>>)
    BY <1>4 DEF Initializer
  <2>2. Fulfils(<<Emit(1)>>, Now, Head(todo), Now)
    BY <1>1, <1>2, <1>4, InitializerNil
  <2> QED BY <2>1, <2>2, Zenon DEF Acts
<1> QED BY <1>3, <1>4

\* funDeclaration.
LEMMA ActFunDeclaration ==
  ASSUME TablesOK, CallsOK, FunDeclaration PROVE Acts
<1>1. Good(Now) /\ Head(todo)[1] = "funDeclaration" /\ Pre(Head(todo), Now) /\ Arg = Head(todo)[2]
  BY NextCall DEF FunDeclaration, Arg
<1>2. Now.cur = current /\ Now.prev = previous /\ H = Now.top.height /\ Now.err = hadError
      /\ (classes = <<>> <=> Now.classes = 0) /\ (~hadError => Now.m = Len(env))
  BY NowIs
<1>3. Become(<<Consume("id"), Call("declareVariable"), Call("markInitialized"),
            <<"function", "function">>, Call("defineFunction")>>)
  BY DEF FunDeclaration
<1>4. Fulfils(<<Consume("id"), Call("declareVariable"), Call("markInitialized"),
            <<"function", "function">>, Call("defineFunction")>>, Now, Head(todo), Now)
  BY <1>1, <1>2, FunDeclarationDoes
<1> QED BY <1>3, <1>4, Zenon DEF Acts

\* statement.
LEMMA ActStatement ==
  ASSUME TablesOK, CallsOK, Statement PROVE Acts
<1>1. Good(Now) /\ Head(todo)[1] = "statement" /\ Pre(Head(todo), Now) /\ Arg = Head(todo)[2]
  BY NextCall DEF Statement, Arg
<1>2. Now.cur = current /\ Now.prev = previous /\ H = Now.top.height /\ Now.err = hadError
      /\ (classes = <<>> <=> Now.classes = 0) /\ (~hadError => Now.m = Len(env))
  BY NowIs
<1>3. CASE current = "print"
  <2>1. Become(<<Advance, Expression, Consume(";"), Emit(-1)>>)
    BY <1>3 DEF Statement, PrintStatement
  <2>2. Fulfils(<<Advance, Expression, Consume(";"), Emit(-1)>>, Now, Head(todo), Now)
    BY <1>1, <1>2, <1>3, PrintDoes
  <2> QED BY <2>1, <2>2, Zenon DEF Acts
<1>4. CASE current = "{"
  <2>1. Become(<<Advance, Call("beginScope"), Call("block"), <<"endScope", Len(env)>>>>)
    BY <1>4 DEF Statement
  <2>3. ~Now.err => Len(env) = Now.m
    BY <1>1, <1>2, <1>4
  <2>2. Fulfils(<<Advance, Call("beginScope"), Call("block"), <<"endScope", Len(env)>>>>, Now, Head(todo), Now)
    BY <1>1, <1>2, <1>4, <2>3, BlockDoes
  <2> QED BY <2>1, <2>2, Zenon DEF Acts
<1>5. CASE current = "if"
  <2>1. Become(<<Advance, Consume("("), Expression, Consume(")"), Call("ifThen")>>)
    BY <1>5 DEF Statement
  <2>2. Fulfils(<<Advance, Consume("("), Expression, Consume(")"), Call("ifThen")>>, Now, Head(todo), Now)
    BY <1>1, <1>2, <1>5, IfDoes
  <2> QED BY <2>1, <2>2, Zenon DEF Acts
<1>6. CASE current = "while"
  <2>1. Become(<<Advance, Consume("("), Expression, Consume(")"), <<"whileBody", H>>>>)
    BY <1>6 DEF Statement
  <2>2. Fulfils(<<Advance, Consume("("), Expression, Consume(")"), <<"whileBody", H>>>>, Now, Head(todo), Now)
    BY <1>1, <1>2, <1>6, WhileDoes
  <2> QED BY <2>1, <2>2, Zenon DEF Acts
<1>7. CASE current = "for"
  <2>1. Become(<<Advance, Call("beginScope"), Consume("("), Call("forInitializer"),
              Call("forCondition"), <<"endScope", Len(env)>>>>)
    BY <1>7 DEF Statement
  <2>3. ~Now.err => Len(env) = Now.m
    BY <1>1, <1>2, <1>7
  <2>2. Fulfils(<<Advance, Call("beginScope"), Consume("("), Call("forInitializer"),
              Call("forCondition"), <<"endScope", Len(env)>>>>, Now, Head(todo), Now)
    BY <1>1, <1>2, <1>7, <2>3, ForStatementDoes
  <2> QED BY <2>1, <2>2, Zenon DEF Acts
<1>8. CASE current = "return"
  <2>1. Become(<<Advance, Call("returnStatement")>>)
    BY <1>8 DEF Statement
  <2>2. Fulfils(<<Advance, Call("returnStatement")>>, Now, Head(todo), Now)
    BY <1>1, <1>2, <1>8, ReturnDoes
  <2> QED BY <2>1, <2>2, Zenon DEF Acts
<1>9. CASE current \notin {"print", "{", "if", "while", "for", "return"}
  <2>1. Become(<<Expression, Consume(";"), Emit(-1)>>)
    BY <1>9 DEF Statement, ExpressionStatement
  <2>2. Fulfils(<<Expression, Consume(";"), Emit(-1)>>, Now, Head(todo), Now)
    BY <1>1, <1>2, <1>9, ExpressionStatementDoes
  <2> QED BY <2>1, <2>2, Zenon DEF Acts
<1> QED BY <1>3, <1>4, <1>5, <1>6, <1>7, <1>8, <1>9

\* block.
LEMMA ActBlock ==
  ASSUME TablesOK, CallsOK, Block PROVE Acts
<1>1. Good(Now) /\ Head(todo)[1] = "block" /\ Pre(Head(todo), Now) /\ Arg = Head(todo)[2]
  BY NextCall DEF Block, Arg
<1>2. Now.cur = current /\ Now.prev = previous /\ H = Now.top.height /\ Now.err = hadError
      /\ (classes = <<>> <=> Now.classes = 0) /\ (~hadError => Now.m = Len(env))
  BY NowIs
<1>3. CASE current \in {"}", "EOF"}
  <2>1. Become(<<Consume("}")>>)
    BY <1>3 DEF Block
  <2>2. Fulfils(<<Consume("}")>>, Now, Head(todo), Now)
    BY <1>1, <1>2, <1>3, BlockEnds
  <2> QED BY <2>1, <2>2, Zenon DEF Acts
<1>4. CASE current \notin {"}", "EOF"}
  <2>1. Become(<<Call("declaration"), Call("block")>>)
    BY <1>4 DEF Block
  <2>2. Fulfils(<<Call("declaration"), Call("block")>>, Now, Head(todo), Now)
    BY <1>1, <1>2, <1>4, BlockMore
  <2> QED BY <2>1, <2>2, Zenon DEF Acts
<1> QED BY <1>3, <1>4

\* ifStatement behind its condition,
LEMMA ActIfThen ==
  ASSUME TablesOK, CallsOK, IfThen PROVE Acts
<1>1. Good(Now) /\ Head(todo)[1] = "ifThen" /\ Pre(Head(todo), Now) /\ Arg = Head(todo)[2]
  BY NextCall DEF IfThen, Arg
<1>2. Now.cur = current /\ Now.prev = previous /\ H = Now.top.height /\ Now.err = hadError
      /\ (classes = <<>> <=> Now.classes = 0) /\ (~hadError => Now.m = Len(env))
  BY NowIs
<1>3. Become(<<Emit(-1), Call("statement"), <<"ifElse", H>>>>)
  BY DEF IfThen
<1>4. Fulfils(<<Emit(-1), Call("statement"), <<"ifElse", H>>>>, Now, Head(todo), Now)
  BY <1>1, <1>2, IfThenDoes
<1> QED BY <1>3, <1>4, Zenon DEF Acts

\* behind its first branch,
LEMMA ActIfElse ==
  ASSUME TablesOK, CallsOK, IfElse PROVE Acts
<1>1. Good(Now) /\ Head(todo)[1] = "ifElse" /\ Pre(Head(todo), Now) /\ Arg = Head(todo)[2]
  BY NextCall DEF IfElse, Arg
<1>2. Now.cur = current /\ Now.prev = previous /\ H = Now.top.height /\ Now.err = hadError
      /\ (classes = <<>> <=> Now.classes = 0) /\ (~hadError => Now.m = Len(env))
  BY NowIs
<1>3. Become(<<<<"land", Arg>>, Emit(-1), Call("else"), <<"meet", H>>>>)
  BY DEF IfElse
<1>4. Fulfils(<<<<"land", Head(todo)[2]>>, Emit(-1), Call("else"), <<"meet", H>>>>, Now, Head(todo), Now)
  BY <1>1, <1>2, IfElseDoes
<1>6. Become(<<<<"land", Head(todo)[2]>>, Emit(-1), Call("else"), <<"meet", H>>>>)
  BY <1>1, <1>3, Zenon
<1> QED BY <1>4, <1>6, Zenon DEF Acts

\* and at its second one.
LEMMA ActElse ==
  ASSUME TablesOK, CallsOK, Else PROVE Acts
<1>1. Good(Now) /\ Head(todo)[1] = "else" /\ Pre(Head(todo), Now) /\ Arg = Head(todo)[2]
  BY NextCall DEF Else, Arg
<1>2. Now.cur = current /\ Now.prev = previous /\ H = Now.top.height /\ Now.err = hadError
      /\ (classes = <<>> <=> Now.classes = 0) /\ (~hadError => Now.m = Len(env))
  BY NowIs
<1>3. CASE current = "else"
  <2>1. Become(<<Advance, Call("statement")>>)
    BY <1>3 DEF Else, When
  <2>2. Fulfils(<<Advance, Call("statement")>>, Now, Head(todo), Now)
    BY <1>1, <1>2, <1>3, ElseDoes
  <2> QED BY <2>1, <2>2, Zenon DEF Acts
<1>4. CASE current # "else"
  <2>1. Become(<<>>)
    BY <1>4 DEF Else, When
  <2>2. Fulfils(<<>>, Now, Head(todo), Now)
    BY <1>1, <1>2, <1>4, NothingToDo
  <2> QED BY <2>1, <2>2, Zenon DEF Acts
<1> QED BY <1>3, <1>4

\* whileStatement behind its condition.
LEMMA ActWhileBody ==
  ASSUME TablesOK, CallsOK, WhileBody PROVE Acts
<1>1. Good(Now) /\ Head(todo)[1] = "whileBody" /\ Pre(Head(todo), Now) /\ Arg = Head(todo)[2]
  BY NextCall DEF WhileBody, Arg
<1>2. Now.cur = current /\ Now.prev = previous /\ H = Now.top.height /\ Now.err = hadError
      /\ (classes = <<>> <=> Now.classes = 0) /\ (~hadError => Now.m = Len(env))
  BY NowIs
<1>3. Become(<<Emit(-1), Call("statement"), <<"meet", Arg>>, <<"land", H>>, Emit(-1)>>)
  BY DEF WhileBody
<1>4. Fulfils(<<Emit(-1), Call("statement"), <<"meet", Head(todo)[2]>>, <<"land", H>>, Emit(-1)>>, Now, Head(todo), Now)
  BY <1>1, <1>2, WhileBodyDoes
<1>6. Become(<<Emit(-1), Call("statement"), <<"meet", Head(todo)[2]>>, <<"land", H>>, Emit(-1)>>)
  BY <1>1, <1>3, Zenon
<1> QED BY <1>4, <1>6, Zenon DEF Acts

\* forStatement: its initializer,
LEMMA ActForInitializer ==
  ASSUME TablesOK, CallsOK, ForInitializer PROVE Acts
<1>1. Good(Now) /\ Head(todo)[1] = "forInitializer" /\ Pre(Head(todo), Now) /\ Arg = Head(todo)[2]
  BY NextCall DEF ForInitializer, Arg
<1>2. Now.cur = current /\ Now.prev = previous /\ H = Now.top.height /\ Now.err = hadError
      /\ (classes = <<>> <=> Now.classes = 0) /\ (~hadError => Now.m = Len(env))
  BY NowIs
<1>3. CASE current = ";"
  <2>1. Become(<<Advance>>)
    BY <1>3 DEF ForInitializer
  <2>2. Fulfils(<<Advance>>, Now, Head(todo), Now)
    BY <1>1, <1>2, <1>3, ForNothing
  <2> QED BY <2>1, <2>2, Zenon DEF Acts
<1>4. CASE current = "var"
  <2>1. Become(<<Advance, Call("varDeclaration")>>)
    BY <1>4 DEF ForInitializer
  <2>2. Fulfils(<<Advance, Call("varDeclaration")>>, Now, Head(todo), Now)
    BY <1>1, <1>2, <1>4, ForVar
  <2> QED BY <2>1, <2>2, Zenon DEF Acts
<1>5. CASE current \notin {";", "var"}
  <2>1. Become(<<Expression, Consume(";"), Emit(-1)>>)
    BY <1>5 DEF ForInitializer, ExpressionStatement
  <2>2. Fulfils(<<Expression, Consume(";"), Emit(-1)>>, Now, Head(todo), Now)
    BY <1>1, <1>2, <1>5, ForExpression
  <2> QED BY <2>1, <2>2, Zenon DEF Acts
<1> QED BY <1>3, <1>4, <1>5

\* its condition,
LEMMA ActForCondition ==
  ASSUME TablesOK, CallsOK, ForCondition PROVE Acts
<1>1. Good(Now) /\ Head(todo)[1] = "forCondition" /\ Pre(Head(todo), Now) /\ Arg = Head(todo)[2]
  BY NextCall DEF ForCondition, Arg
<1>2. Now.cur = current /\ Now.prev = previous /\ H = Now.top.height /\ Now.err = hadError
      /\ (classes = <<>> <=> Now.classes = 0) /\ (~hadError => Now.m = Len(env))
  BY NowIs
<1>3. CASE current = ";"
  <2>1. Become(<<Advance, <<"forIncrement", H, <<>>>>>>)
    BY <1>3 DEF ForCondition
  <2>2. Fulfils(<<Advance, <<"forIncrement", H, <<>>>>>>, Now, Head(todo), Now)
    BY <1>1, <1>2, <1>3, ForAlwaysDoes
  <2> QED BY <2>1, <2>2, Zenon DEF Acts
<1>4. CASE current # ";"
  <2>1. Become(<<Expression, Consume(";"), <<"forExit", H>>>>)
    BY <1>4 DEF ForCondition
  <2>2. Fulfils(<<Expression, Consume(";"), <<"forExit", H>>>>, Now, Head(todo), Now)
    BY <1>1, <1>2, <1>4, ForConditionDoes
  <2> QED BY <2>1, <2>2, Zenon DEF Acts
<1> QED BY <1>3, <1>4

\* and its exit.
LEMMA ActForExit ==
  ASSUME TablesOK, CallsOK, ForExit PROVE Acts
<1>1. Good(Now) /\ Head(todo)[1] = "forExit" /\ Pre(Head(todo), Now) /\ Arg = Head(todo)[2]
  BY NextCall DEF ForExit, Arg
<1>2. Now.cur = current /\ Now.prev = previous /\ H = Now.top.height /\ Now.err = hadError
      /\ (classes = <<>> <=> Now.classes = 0) /\ (~hadError => Now.m = Len(env))
  BY NowIs
<1>3. Become(<<Emit(-1), <<"forIncrement", Arg, <<<<"land", H>>, Emit(-1)>>>>>>)
  BY DEF ForExit
<1>4. Fulfils(<<Emit(-1), <<"forIncrement", Head(todo)[2], <<<<"land", H>>, Emit(-1)>>>>>>, Now, Head(todo), Now)
  BY <1>1, <1>2, ForExitDoes
<1>6. Become(<<Emit(-1), <<"forIncrement", Head(todo)[2], <<<<"land", H>>, Emit(-1)>>>>>>)
  BY <1>1, <1>3, Zenon
<1> QED BY <1>4, <1>6, Zenon DEF Acts

\* parsePrecedence.
LEMMA ActParsePrecedence ==
  ASSUME TablesOK, CallsOK, DoParsePrecedence PROVE Acts
<1>1. Good(Now) /\ Head(todo)[1] = "parsePrecedence" /\ Pre(Head(todo), Now) /\ Arg = Head(todo)[2]
  BY NextCall DEF DoParsePrecedence, Arg
<1>2. Now.cur = current /\ Now.prev = previous /\ H = Now.top.height /\ Now.err = hadError
      /\ (classes = <<>> <=> Now.classes = 0) /\ (~hadError => Now.m = Len(env))
  BY NowIs
<1>3. Become(<<Advance, <<"prefix", Arg>>>>)
  BY DEF DoParsePrecedence
<1>4. Fulfils(<<Advance, <<"prefix", Head(todo)[2]>>>>, Now, Head(todo), Now)
  BY <1>1, <1>2, ParsePrecedenceDoes
<1>6. Become(<<Advance, <<"prefix", Head(todo)[2]>>>>)
  BY <1>1, <1>3, Zenon
<1> QED BY <1>4, <1>6, Zenon DEF Acts

\* dot.
LEMMA ActDot ==
  ASSUME TablesOK, CallsOK, Dot PROVE Acts
<1>1. Good(Now) /\ Head(todo)[1] = "dot" /\ Pre(Head(todo), Now) /\ Arg = Head(todo)[2]
  BY NextCall DEF Dot, Arg
<1>2. Now.cur = current /\ Now.prev = previous /\ H = Now.top.height /\ Now.err = hadError
      /\ (classes = <<>> <=> Now.classes = 0) /\ (~hadError => Now.m = Len(env))
  BY NowIs
<1>3. CASE Arg /\ current = "="
  <2>1. Become(<<Advance, Expression, Emit(-1)>>)
    BY <1>3 DEF Dot
  <2>2. Fulfils(<<Advance, Expression, Emit(-1)>>, Now, Head(todo), Now)
    BY <1>1, <1>2, <1>3, DotSetDoes
  <2> QED BY <2>1, <2>2, Zenon DEF Acts
<1>4. CASE ~(Arg /\ current = "=") /\ current = "("
  <2>1. Become(<<Advance, <<"argumentList", 0, "call">>>>)
    BY <1>4 DEF Dot
  <2>2. Fulfils(<<Advance, <<"argumentList", 0, "call">>>>, Now, Head(todo), Now)
    BY <1>1, <1>2, <1>4, DotInvokeDoes
  <2> QED BY <2>1, <2>2, Zenon DEF Acts
<1>5. CASE ~(Arg /\ current = "=") /\ current # "("
  <2>1. Become(<<Emit(0)>>)
    BY <1>5 DEF Dot
  <2>2. Fulfils(<<Emit(0)>>, Now, Head(todo), Now)
    BY <1>1, <1>2, <1>5, DotGetDoes
  <2> QED BY <2>1, <2>2, Zenon DEF Acts
<1> QED BY <1>3, <1>4, <1>5

\* this_.
LEMMA ActThis ==
  ASSUME TablesOK, CallsOK, This PROVE Acts
<1>1. Good(Now) /\ Head(todo)[1] = "this" /\ Pre(Head(todo), Now) /\ Arg = Head(todo)[2]
  BY NextCall DEF This, Arg
<1>2. Now.cur = current /\ Now.prev = previous /\ H = Now.top.height /\ Now.err = hadError
      /\ (classes = <<>> <=> Now.classes = 0) /\ (~hadError => Now.m = Len(env))
  BY NowIs
<1>3. CASE classes = <<>>
  <2>1. Become(<<Error>>)
    BY <1>3 DEF This
  <2>2. Fulfils(<<Error>>, Now, Head(todo), Now)
    BY <1>1, <1>2, <1>3, ThisNowhere
  <2> QED BY <2>1, <2>2, Zenon DEF Acts
<1>4. CASE classes # <<>>
  <2>1. Become(<<NamedVariable("this", FALSE)>>)
    BY <1>4 DEF This
  <2>3. Now.classes > 0
    BY <1>1, <1>2, <1>4, GoodTypes
  <2>2. Fulfils(<<NamedVariable("this", FALSE)>>, Now, Head(todo), Now)
    BY <1>1, <1>2, <1>4, <2>3, ThisInside
  <2> QED BY <2>1, <2>2, Zenon DEF Acts
<1> QED BY <1>3, <1>4

\* super_ behind the method's name.
LEMMA ActSuperRest ==
  ASSUME TablesOK, CallsOK, SuperRest PROVE Acts
<1>1. Good(Now) /\ Head(todo)[1] = "superRest" /\ Pre(Head(todo), Now) /\ Arg = Head(todo)[2]
  BY NextCall DEF SuperRest, Arg
<1>2. Now.cur = current /\ Now.prev = previous /\ H = Now.top.height /\ Now.err = hadError
      /\ (classes = <<>> <=> Now.classes = 0) /\ (~hadError => Now.m = Len(env))
  BY NowIs
<1>3. CASE current = "("
  <2>1. Become(<<Advance, <<"argumentList", 0, "super">>>>)
    BY <1>3 DEF SuperRest
  <2>2. Fulfils(<<Advance, <<"argumentList", 0, "super">>>>, Now, Head(todo), Now)
    BY <1>1, <1>2, <1>3, SuperCalls
  <2> QED BY <2>1, <2>2, Zenon DEF Acts
<1>4. CASE current # "("
  <2>1. Become(<<NamedVariable("super", FALSE), Emit(-1)>>)
    BY <1>4 DEF SuperRest
  <2>2. Fulfils(<<NamedVariable("super", FALSE), Emit(-1)>>, Now, Head(todo), Now)
    BY <1>1, <1>2, <1>4, SuperGets
  <2> QED BY <2>1, <2>2, Zenon DEF Acts
<1> QED BY <1>3, <1>4

\* The parameters of a function.
LEMMA ActParameters ==
  ASSUME TablesOK, CallsOK, Parameters PROVE Acts
<1>1. Good(Now) /\ Head(todo)[1] = "parameters" /\ Pre(Head(todo), Now) /\ Arg = Head(todo)[2]
  BY NextCall DEF Parameters, Arg
<1>2. Now.cur = current /\ Now.prev = previous /\ H = Now.top.height /\ Now.err = hadError
      /\ (classes = <<>> <=> Now.classes = 0) /\ (~hadError => Now.m = Len(env))
  BY NowIs
<1>3. CASE current = ")"
  <2>1. Become(<<Consume(")"), Consume("{"), Call("block")>>)
    BY <1>3 DEF Parameters
  <2>2. Fulfils(<<Consume(")"), Consume("{"), Call("block")>>, Now, Head(todo), Now)
    BY <1>1, <1>2, <1>3, NoParameters
  <2> QED BY <2>1, <2>2, Zenon DEF Acts
<1>4. CASE current # ")"
  <2>1. Become(<<Call("parameter"), Call("moreParameters")>>)
    BY <1>4 DEF Parameters
  <2>2. Fulfils(<<Call("parameter"), Call("moreParameters")>>, Now, Head(todo), Now)
    BY <1>1, <1>2, <1>4, SomeParameters
  <2> QED BY <2>1, <2>2, Zenon DEF Acts
<1> QED BY <1>3, <1>4

\* The next of them.
LEMMA ActMoreParameters ==
  ASSUME TablesOK, CallsOK, MoreParameters PROVE Acts
<1>1. Good(Now) /\ Head(todo)[1] = "moreParameters" /\ Pre(Head(todo), Now) /\ Arg = Head(todo)[2]
  BY NextCall DEF MoreParameters, Arg
<1>2. Now.cur = current /\ Now.prev = previous /\ H = Now.top.height /\ Now.err = hadError
      /\ (classes = <<>> <=> Now.classes = 0) /\ (~hadError => Now.m = Len(env))
  BY NowIs
<1>3. CASE current = ","
  <2>1. Become(<<Advance, Call("parameter"), Call("moreParameters")>>)
    BY <1>3 DEF MoreParameters
  <2>2. Fulfils(<<Advance, Call("parameter"), Call("moreParameters")>>, Now, Head(todo), Now)
    BY <1>1, <1>2, <1>3, NextParameter
  <2> QED BY <2>1, <2>2, Zenon DEF Acts
<1>4. CASE current # ","
  <2>1. Become(<<Consume(")"), Consume("{"), Call("block")>>)
    BY <1>4 DEF MoreParameters
  <2>2. Fulfils(<<Consume(")"), Consume("{"), Call("block")>>, Now, Head(todo), Now)
    BY <1>1, <1>2, <1>4, LastParameter
  <2> QED BY <2>1, <2>2, Zenon DEF Acts
<1> QED BY <1>3, <1>4

\* classDeclaration,
LEMMA ActClassDeclaration ==
  ASSUME TablesOK, CallsOK, ClassDeclaration PROVE Acts
<1>1. Good(Now) /\ Head(todo)[1] = "classDeclaration" /\ Pre(Head(todo), Now) /\ Arg = Head(todo)[2]
  BY NextCall DEF ClassDeclaration, Arg
<1>2. Now.cur = current /\ Now.prev = previous /\ H = Now.top.height /\ Now.err = hadError
      /\ (classes = <<>> <=> Now.classes = 0) /\ (~hadError => Now.m = Len(env))
  BY NowIs
<1>3. Become(<<Consume("id"), Call("className")>>)
  BY DEF ClassDeclaration
<1>4. Fulfils(<<Consume("id"), Call("className")>>, Now, Head(todo), Now)
  BY <1>1, <1>2, ClassDeclarationDoes
<1> QED BY <1>3, <1>4, Zenon DEF Acts

\* behind the name,
LEMMA ActClassName ==
  ASSUME TablesOK, CallsOK, ClassName PROVE Acts
<1>1. Good(Now) /\ Head(todo)[1] = "className" /\ Pre(Head(todo), Now) /\ Arg = Head(todo)[2]
  BY NextCall DEF ClassName, Arg
<1>2. Now.cur = current /\ Now.prev = previous /\ H = Now.top.height /\ Now.err = hadError
      /\ (classes = <<>> <=> Now.classes = 0) /\ (~hadError => Now.m = Len(env))
  BY NowIs
<1>3. Become(<<Call("declareVariable"), Emit(1), Call("defineVariable"), Call("beginClass"),
            <<"inherit", previous>>>>)
  BY DEF ClassName
<1>4. Fulfils(<<Call("declareVariable"), Emit(1), Call("defineVariable"), Call("beginClass"),
            <<"inherit", previous>>>>, Now, Head(todo), Now)
  BY <1>1, <1>2, ClassNameDoes
<1> QED BY <1>3, <1>4, Zenon DEF Acts

\* and at the superclass.
LEMMA ActInherit ==
  ASSUME TablesOK, CallsOK, Inherit PROVE Acts
<1>1. Good(Now) /\ Head(todo)[1] = "inherit" /\ Pre(Head(todo), Now) /\ Arg = Head(todo)[2]
  BY NextCall DEF Inherit, Arg
<1>2. Now.cur = current /\ Now.prev = previous /\ H = Now.top.height /\ Now.err = hadError
      /\ (classes = <<>> <=> Now.classes = 0) /\ (~hadError => Now.m = Len(env))
  BY NowIs
<1>3. CASE current = "<"
  <2>1. Become(<<Advance, Consume("id"), <<"superclass", Arg>>>>)
    BY <1>3 DEF Inherit
  <2>2. Fulfils(<<Advance, Consume("id"), <<"superclass", Head(todo)[2]>>>>, Now, Head(todo), Now)
    BY <1>1, <1>2, <1>3, InheritDoes
  <2>4. Become(<<Advance, Consume("id"), <<"superclass", Head(todo)[2]>>>>)
    BY <1>1, <2>1, Zenon
  <2> QED BY <2>2, <2>4, Zenon DEF Acts
<1>4. CASE current # "<"
  <2>1. Become(ClassBody(Arg) \o <<Call("endClass")>>)
    BY <1>4 DEF Inherit
  <2>2. Fulfils(ClassBody(Head(todo)[2]) \o <<Call("endClass")>>, Now, Head(todo), Now)
    BY <1>1, <1>2, <1>4, NoSuperclassDoes
  <2>4. Become(ClassBody(Head(todo)[2]) \o <<Call("endClass")>>)
    BY <1>1, <2>1, Zenon
  <2> QED BY <2>2, <2>4, Zenon DEF Acts
<1> QED BY <1>3, <1>4

\* The methods of a class.
LEMMA ActMethods ==
  ASSUME TablesOK, CallsOK, Methods PROVE Acts
<1>1. Good(Now) /\ Head(todo)[1] = "methods" /\ Pre(Head(todo), Now) /\ Arg = Head(todo)[2]
  BY NextCall DEF Methods, Arg
<1>2. Now.cur = current /\ Now.prev = previous /\ H = Now.top.height /\ Now.err = hadError
      /\ (classes = <<>> <=> Now.classes = 0) /\ (~hadError => Now.m = Len(env))
  BY NowIs
<1>3. CASE current \notin {"}", "EOF"}
  <2>1. Become(<<Consume("id"), Call("method"), Call("methods")>>)
    BY <1>3 DEF Methods, When
  <2>2. Fulfils(<<Consume("id"), Call("method"), Call("methods")>>, Now, Head(todo), Now)
    BY <1>1, <1>2, <1>3, MethodsDoes
  <2> QED BY <2>1, <2>2, Zenon DEF Acts
<1>4. CASE current \in {"}", "EOF"}
  <2>1. Become(<<>>)
    BY <1>4 DEF Methods, When
  <2>2. Fulfils(<<>>, Now, Head(todo), Now)
    BY <1>1, <1>2, <1>4, NothingToDo
  <2> QED BY <2>1, <2>2, Zenon DEF Acts
<1> QED BY <1>3, <1>4

\* method.
LEMMA ActMethod ==
  ASSUME TablesOK, CallsOK, Method PROVE Acts
<1>1. Good(Now) /\ Head(todo)[1] = "method" /\ Pre(Head(todo), Now) /\ Arg = Head(todo)[2]
  BY NextCall DEF Method, Arg
<1>2. Now.cur = current /\ Now.prev = previous /\ H = Now.top.height /\ Now.err = hadError
      /\ (classes = <<>> <=> Now.classes = 0) /\ (~hadError => Now.m = Len(env))
  BY NowIs
<1>3. CASE previous = "init"
  <2>1. Become(<<<<"function", "initializer">>, Emit(-1)>>)
    BY <1>3 DEF Method
  <2>3. "initializer" \in MethodTypes
    BY <1>1, <1>2, <1>3 DEF MethodTypes
  <2>2. Fulfils(<<<<"function", "initializer">>, Emit(-1)>>, Now, Head(todo), Now)
    BY <1>1, <1>2, <1>3, <2>3, MethodDoes
  <2> QED BY <2>1, <2>2, Zenon DEF Acts
<1>4. CASE previous # "init"
  <2>1. Become(<<<<"function", "method">>, Emit(-1)>>)
    BY <1>4 DEF Method
  <2>3. "method" \in MethodTypes
    BY <1>1, <1>2, <1>4 DEF MethodTypes
  <2>2. Fulfils(<<<<"function", "method">>, Emit(-1)>>, Now, Head(todo), Now)
    BY <1>1, <1>2, <1>4, <2>3, MethodDoes
  <2> QED BY <2>1, <2>2, Zenon DEF Acts
<1> QED BY <1>3, <1>4

\* synchronize.
LEMMA ActSynchronize ==
  ASSUME TablesOK, CallsOK, Synchronize PROVE Acts
<1>1. Good(Now) /\ Head(todo)[1] = "synchronize" /\ Pre(Head(todo), Now) /\ Arg = Head(todo)[2]
  BY NextCall DEF Synchronize, Arg
<1>2. Now.cur = current /\ Now.prev = previous /\ H = Now.top.height /\ Now.err = hadError
      /\ (classes = <<>> <=> Now.classes = 0) /\ (~hadError => Now.m = Len(env))
  BY NowIs
<1>3. CASE previous \notin {"EOF", ";"} /\ current \notin Starters
  <2>1. Become(<<Advance, Call("synchronize")>>)
    BY <1>3 DEF Synchronize, When
  <2>2. Fulfils(<<Advance, Call("synchronize")>>, Now, Head(todo), Now)
    BY <1>1, <1>2, <1>3, SynchronizeDoes
  <2> QED BY <2>1, <2>2, Zenon DEF Acts
<1>4. CASE ~(previous \notin {"EOF", ";"} /\ current \notin Starters)
  <2>1. Become(<<>>)
    BY <1>4 DEF Synchronize, When
  <2>2. Fulfils(<<>>, Now, Head(todo), Now)
    BY <1>1, <1>2, <1>4, NothingToDo
  <2> QED BY <2>1, <2>2, Zenon DEF Acts
<1> QED BY <1>3, <1>4

-----------------------------------------------------------------------------
(* Parsing functions that put lists together *)

\* The prefix of an expression.
LEMMA ActPrefix ==
  ASSUME TablesOK, CallsOK, Prefix PROVE Acts
<1>1. Good(Now) /\ Head(todo)[1] = "prefix" /\ Pre(Head(todo), Now) /\ Arg = Head(todo)[2]
  BY NextCall DEF Prefix, Arg
<1>2. Now.cur = current /\ Now.prev = previous /\ H = Now.top.height /\ Now.err = hadError
      /\ (classes = <<>> <=> Now.classes = 0) /\ (~hadError => Now.m = Len(env))
      /\ Current.type = Now.top.type
  BY NowIs
<1> DEFINE g1 == Grouping \o <<<<"infix", Arg>>>>
           g2 == DoUnary \o <<<<"infix", Arg>>>>
           g3 == <<Emit(1)>> \o <<<<"infix", Arg>>>>
           g4 == <<NamedVariable(previous, Arg <= Assignment)>> \o <<<<"infix", Arg>>>>
           g5 == <<Call("this")>> \o <<<<"infix", Arg>>>>
           g6 == <<Call("super")>> \o <<<<"infix", Arg>>>>
<1>0. Become(CASE previous = "("          -> g1
               [] previous \in {"-", "!"} -> g2
               [] previous \in Literals   -> g3
               [] previous \in Names      -> g4
               [] previous = "this"       -> g5
               [] previous = "super"      -> g6
               [] OTHER                   -> <<Error>>)
  BY DEF Prefix
<1> HIDE DEF g1, g2, g3, g4, g5, g6
<1>3. CASE previous = "("
  <2>1. Become(g1)
    BY <1>0, <1>3, CompilerAssumption DEF Literals
  <2>2. Grouping \o <<<<"infix", Arg>>>> = <<Expression, Consume(")"), <<"infix", Arg>>>>
    BY Glue21, Zenon DEF Grouping
  <2>3. Fulfils(<<Expression, Consume(")"), <<"infix", Head(todo)[2]>>>>, Now, Head(todo), Now)
    BY <1>1, <1>2, <1>3, GroupingDoes
  <2>4. Become(<<Expression, Consume(")"), <<"infix", Head(todo)[2]>>>>)
    BY <1>1, <2>1, <2>2, Zenon DEF g1
  <2> QED BY <2>3, <2>4, Zenon DEF Acts
<1>4. CASE previous \in {"-", "!"}
  <2>1. Become(g2)
    BY <1>0, <1>4, CompilerAssumption DEF Literals
  <2>2. DoUnary \o <<<<"infix", Arg>>>> = <<ParsePrecedence(Unary), Emit(0), <<"infix", Arg>>>>
    BY Glue21, Zenon DEF DoUnary
  <2>3. Fulfils(<<ParsePrecedence(Unary), Emit(0), <<"infix", Head(todo)[2]>>>>, Now, Head(todo), Now)
    BY <1>1, <1>2, <1>4, UnaryDoes
  <2>4. Become(<<ParsePrecedence(Unary), Emit(0), <<"infix", Head(todo)[2]>>>>)
    BY <1>1, <2>1, <2>2, Zenon DEF g2
  <2> QED BY <2>3, <2>4, Zenon DEF Acts
<1>5. CASE previous \in Literals
  <2>1. Become(g3)
    BY <1>0, <1>5, CompilerAssumption DEF Literals
  <2>2. <<Emit(1)>> \o <<<<"infix", Arg>>>> = <<Emit(1), <<"infix", Arg>>>>
    BY Glue11, Zenon
  <2>3. Fulfils(<<Emit(1), <<"infix", Head(todo)[2]>>>>, Now, Head(todo), Now)
    BY <1>1, <1>2, <1>5, LiteralDoes
  <2>4. Become(<<Emit(1), <<"infix", Head(todo)[2]>>>>)
    BY <1>1, <2>1, <2>2, Zenon DEF g3
  <2> QED BY <2>3, <2>4, Zenon DEF Acts
<1>6. CASE previous \in Names /\ previous \notin {"(", "-", "!"} \cup Literals
  <2>1. Become(g4)
    BY <1>0, <1>6, CompilerAssumption DEF Literals
  <2>2. <<NamedVariable(previous, Arg <= Assignment)>> \o <<<<"infix", Arg>>>> = <<NamedVariable(previous, Arg <= Assignment), <<"infix", Arg>>>>
    BY Glue11, Zenon
  <2>3. (Head(todo)[2] <= Assignment) \in BOOLEAN /\ previous \in Names
    BY <1>6
  <2>4. Fulfils(<<NamedVariable(previous, Head(todo)[2] <= Assignment), <<"infix", Head(todo)[2]>>>>, Now, Head(todo), Now)
    BY <1>1, <1>2, <1>6, <2>3, VariableDoes
  <2>5. Become(<<NamedVariable(previous, Head(todo)[2] <= Assignment), <<"infix", Head(todo)[2]>>>>)
    BY <1>1, <2>1, <2>2, Zenon DEF g4
  <2> QED BY <2>4, <2>5, Zenon DEF Acts
<1>7. CASE previous = "this"
  <2>1. Become(g5)
    BY <1>0, <1>7, CompilerAssumption DEF Literals
  <2>2. <<Call("this")>> \o <<<<"infix", Arg>>>> = <<Call("this"), <<"infix", Arg>>>>
    BY Glue11, Zenon
  <2>3. Fulfils(<<Call("this"), <<"infix", Head(todo)[2]>>>>, Now, Head(todo), Now)
    BY <1>1, <1>2, <1>7, ThisDoes
  <2>4. Become(<<Call("this"), <<"infix", Head(todo)[2]>>>>)
    BY <1>1, <2>1, <2>2, Zenon DEF g5
  <2> QED BY <2>3, <2>4, Zenon DEF Acts
<1>8. CASE previous = "super" /\ previous \notin Names
  <2>1. Become(g6)
    BY <1>0, <1>8 DEF Literals
  <2>2. <<Call("super")>> \o <<<<"infix", Arg>>>> = <<Call("super"), <<"infix", Arg>>>>
    BY Glue11, Zenon
  <2>3. Fulfils(<<Call("super"), <<"infix", Head(todo)[2]>>>>, Now, Head(todo), Now)
    BY <1>1, <1>2, <1>8, SuperDoes
  <2>4. Become(<<Call("super"), <<"infix", Head(todo)[2]>>>>)
    BY <1>1, <2>1, <2>2, Zenon DEF g6
  <2> QED BY <2>3, <2>4, Zenon DEF Acts
<1>9. CASE previous \notin {"(", "-", "!", "this", "super"} \cup Literals \cup Names
  <2>1. Become(<<Error>>)
    BY <1>0, <1>9
  <2>2. Fulfils(<<Error>>, Now, Head(todo), Now)
    BY <1>1, NoPrefixDoes
  <2> QED BY <2>1, <2>2, Zenon DEF Acts
<1> QED BY <1>3, <1>4, <1>5, <1>6, <1>7, <1>8, <1>9

\* The infix operators.
LEMMA ActInfix ==
  ASSUME TablesOK, CallsOK, Infix PROVE Acts
<1>1. Good(Now) /\ Head(todo)[1] = "infix" /\ Pre(Head(todo), Now) /\ Arg = Head(todo)[2]
  BY NextCall DEF Infix, Arg
<1>2. Now.cur = current /\ Now.prev = previous /\ H = Now.top.height /\ Now.err = hadError
      /\ (classes = <<>> <=> Now.classes = 0) /\ (~hadError => Now.m = Len(env))
      /\ Current.type = Now.top.type
  BY NowIs
<1>0. Arg \in Nat \ {0}
  BY <1>1, AtInfix
<1>3. CASE Arg <= Precedence(current) /\ current \in Binaries
  <2>1. Become(<<Advance>> \o Binary(current) \o <<<<"infix", Arg>>>>)
    BY <1>1, <1>3 DEF Infix, Binaries
  <2>2. <<Advance>> \o Binary(current) = <<Advance, ParsePrecedence(Precedence(current) + 1), Emit(-1)>>
    BY Glue12, Zenon DEF Binary
  <2>3. <<Advance, ParsePrecedence(Precedence(current) + 1), Emit(-1)>> \o <<<<"infix", Arg>>>> = <<Advance, ParsePrecedence(Precedence(current) + 1), Emit(-1), <<"infix", Arg>>>>
    BY Glue31, Zenon
  <2>4. Precedence(current) + 1 \in Nat \ {0}
    BY Precedences
  <2>5. Fulfils(<<Advance, ParsePrecedence(Precedence(current) + 1), Emit(-1), <<"infix", Head(todo)[2]>>>>, Now, Head(todo), Now)
    BY <1>1, <1>2, <1>3, <2>4, BinaryDoes
  <2>6. Become(<<Advance, ParsePrecedence(Precedence(current) + 1), Emit(-1), <<"infix", Head(todo)[2]>>>>)
    BY <1>1, <2>1, <2>2, <2>3, Zenon
  <2> QED BY <2>5, <2>6, Zenon DEF Acts
<1>4. CASE Arg <= Precedence(current) /\ current = "("
  <2>1. Become(<<Advance>> \o <<<<"argumentList", 0, "call">>>> \o <<<<"infix", Arg>>>>)
    BY <1>1, <1>4 DEF Infix, Binaries
  <2>2. <<Advance>> \o <<<<"argumentList", 0, "call">>>> = <<Advance, <<"argumentList", 0, "call">>>>
    BY Glue11, Zenon
  <2>3. <<Advance, <<"argumentList", 0, "call">>>> \o <<<<"infix", Arg>>>> = <<Advance, <<"argumentList", 0, "call">>, <<"infix", Arg>>>>
    BY Glue21, Zenon
  <2>4. Fulfils(<<Advance, <<"argumentList", 0, "call">>, <<"infix", Head(todo)[2]>>>>, Now, Head(todo), Now)
    BY <1>1, <1>2, <1>4, CallDoes
  <2>5. Become(<<Advance, <<"argumentList", 0, "call">>, <<"infix", Head(todo)[2]>>>>)
    BY <1>1, <2>1, <2>2, <2>3, Zenon
  <2> QED BY <2>4, <2>5, Zenon DEF Acts
<1>5. CASE Arg <= Precedence(current) /\ current = "."
  <2>1. Become(<<Advance>> \o <<Consume("id"), <<"dot", Arg <= Assignment>>>> \o <<<<"infix", Arg>>>>)
    BY <1>1, <1>5 DEF Infix, Binaries
  <2>2. <<Advance>> \o <<Consume("id"), <<"dot", Arg <= Assignment>>>> = <<Advance, Consume("id"), <<"dot", Arg <= Assignment>>>>
    BY Glue12, Zenon
  <2>3. <<Advance, Consume("id"), <<"dot", Arg <= Assignment>>>> \o <<<<"infix", Arg>>>> = <<Advance, Consume("id"), <<"dot", Arg <= Assignment>>, <<"infix", Arg>>>>
    BY Glue31, Zenon
  <2>4. Fulfils(<<Advance, Consume("id"), <<"dot", Head(todo)[2] <= Assignment>>, <<"infix", Head(todo)[2]>>>>, Now, Head(todo), Now)
    BY <1>1, <1>2, <1>5, DotDoes
  <2>5. Become(<<Advance, Consume("id"), <<"dot", Head(todo)[2] <= Assignment>>, <<"infix", Head(todo)[2]>>>>)
    BY <1>1, <2>1, <2>2, <2>3, Zenon
  <2> QED BY <2>4, <2>5, Zenon DEF Acts
<1>6. CASE Arg <= Precedence(current) /\ current = "and"
  <2>1. Become(<<Advance>> \o And \o <<<<"infix", Arg>>>>)
    BY <1>1, <1>6 DEF Infix, Binaries
  <2>2. <<Advance>> \o And = <<Advance, Emit(-1), ParsePrecedence(AndPrec), <<"meet", H>>>>
    BY Glue13, Zenon DEF And
  <2>3. <<Advance, Emit(-1), ParsePrecedence(AndPrec), <<"meet", H>>>> \o <<<<"infix", Arg>>>> = <<Advance, Emit(-1), ParsePrecedence(AndPrec), <<"meet", H>>, <<"infix", Arg>>>>
    BY Glue41, Zenon
  <2>4. Fulfils(<<Advance, Emit(-1), ParsePrecedence(AndPrec), <<"meet", H>>, <<"infix", Head(todo)[2]>>>>, Now, Head(todo), Now)
    BY <1>1, <1>2, <1>6, AndDoes
  <2>5. Become(<<Advance, Emit(-1), ParsePrecedence(AndPrec), <<"meet", H>>, <<"infix", Head(todo)[2]>>>>)
    BY <1>1, <2>1, <2>2, <2>3, Zenon
  <2> QED BY <2>4, <2>5, Zenon DEF Acts
<1>7. CASE Arg <= Precedence(current) /\ current = "or"
  <2>1. Become(<<Advance>> \o Or \o <<<<"infix", Arg>>>>)
    BY <1>1, <1>7 DEF Infix, Binaries
  <2>2. <<Advance>> \o Or = <<Advance, <<"land", H>>, Emit(-1), ParsePrecedence(OrPrec), <<"meet", H>>>>
    BY Glue14, Zenon DEF Or
  <2>3. <<Advance, <<"land", H>>, Emit(-1), ParsePrecedence(OrPrec), <<"meet", H>>>> \o <<<<"infix", Arg>>>> = <<Advance, <<"land", H>>, Emit(-1), ParsePrecedence(OrPrec), <<"meet", H>>, <<"infix", Arg>>>>
    BY Glue51, Zenon
  <2>4. Fulfils(<<Advance, <<"land", H>>, Emit(-1), ParsePrecedence(OrPrec), <<"meet", H>>, <<"infix", Head(todo)[2]>>>>, Now, Head(todo), Now)
    BY <1>1, <1>2, <1>7, OrDoes
  <2>5. Become(<<Advance, <<"land", H>>, Emit(-1), ParsePrecedence(OrPrec), <<"meet", H>>, <<"infix", Head(todo)[2]>>>>)
    BY <1>1, <2>1, <2>2, <2>3, Zenon
  <2> QED BY <2>4, <2>5, Zenon DEF Acts
<1>8. CASE ~(Arg <= Precedence(current)) /\ Arg <= Assignment /\ current = "="
  <2>1. Become(<<Advance, Error>>)
    BY <1>8 DEF Infix, When
  <2>2. Fulfils(<<Advance, Error>>, Now, Head(todo), Now)
    BY <1>1, BadTargetDoes
  <2> QED BY <2>1, <2>2, Zenon DEF Acts
<1>9. CASE ~(Arg <= Precedence(current)) /\ ~(Arg <= Assignment /\ current = "=")
  <2>1. Become(<<>>)
    BY <1>9 DEF Infix, When
  <2>2. Fulfils(<<>>, Now, Head(todo), Now)
    BY <1>1, NothingToDo
  <2> QED BY <2>1, <2>2, Zenon DEF Acts
<1>10. Arg <= Precedence(current) => current \in Binaries \cup {"(", ".", "and", "or"}
  BY <1>0 DEF Precedence, None, Binaries
<1> QED BY <1>3, <1>4, <1>5, <1>6, <1>7, <1>8, <1>9, <1>10

\* forStatement: its increment and its body.
LEMMA ActForIncrement ==
  ASSUME TablesOK, CallsOK, ForIncrement PROVE Acts
<1>1. Good(Now) /\ Head(todo)[1] = "forIncrement" /\ Pre(Head(todo), Now) /\ Arg = Head(todo)[2]
  BY NextCall DEF ForIncrement, Arg
<1>2. Now.cur = current /\ Now.prev = previous /\ H = Now.top.height /\ Now.err = hadError
      /\ (classes = <<>> <=> Now.classes = 0) /\ (~hadError => Now.m = Len(env))
      /\ Current.type = Now.top.type
  BY NowIs
<1>3. CASE current = ")"
  <2>1. Become(<<Advance, Call("statement"), <<"meet", Arg>>>> \o Arg2)
    BY <1>3 DEF ForIncrement
  <2>2. Fulfils(<<Advance, Call("statement"), <<"meet", Head(todo)[2]>>>>,
                Now, Call("statement"), Now)
    BY <1>1, <1>2, ForBodyDoes
  <2> DEFINE w == <<Advance, Call("statement"), <<"meet", Head(todo)[2]>>>>
  <2>3. Become(w \o Head(todo)[3])
    BY <1>1, <2>1, Zenon DEF Arg2
  <2> HIDE DEF w
  <2>4. Fulfils(w \o Head(todo)[3], Now, Head(todo), Now)
    BY <1>1, <2>2, ForDoes DEF w
  <2> QED BY <2>3, <2>4, Zenon DEF Acts
<1>4. CASE current # ")"
  <2>1. Become(<<Expression, Emit(-1), Consume(")"), <<"meet", Arg>>, <<"land", H>>,
       Call("statement"), <<"meet", H>>>> \o Arg2)
    BY <1>4 DEF ForIncrement
  <2>2. Fulfils(<<Expression, Emit(-1), Consume(")"), <<"meet", Head(todo)[2]>>, <<"land", H>>,
       Call("statement"), <<"meet", H>>>>,
                Now, Call("statement"), Now)
    BY <1>1, <1>2, ForIncrementDoes
  <2> DEFINE w == <<Expression, Emit(-1), Consume(")"), <<"meet", Head(todo)[2]>>, <<"land", H>>,
       Call("statement"), <<"meet", H>>>>
  <2>3. Become(w \o Head(todo)[3])
    BY <1>1, <2>1, Zenon DEF Arg2
  <2> HIDE DEF w
  <2>4. Fulfils(w \o Head(todo)[3], Now, Head(todo), Now)
    BY <1>1, <2>2, ForDoes DEF w
  <2> QED BY <2>3, <2>4, Zenon DEF Acts
<1> QED BY <1>3, <1>4

\* returnStatement.
LEMMA ActReturnStatement ==
  ASSUME TablesOK, CallsOK, ReturnStatement PROVE Acts
<1>1. Good(Now) /\ Head(todo)[1] = "returnStatement" /\ Pre(Head(todo), Now) /\ Arg = Head(todo)[2]
  BY NextCall DEF ReturnStatement, Arg
<1>2. Now.cur = current /\ Now.prev = previous /\ H = Now.top.height /\ Now.err = hadError
      /\ (classes = <<>> <=> Now.classes = 0) /\ (~hadError => Now.m = Len(env))
      /\ Current.type = Now.top.type
  BY NowIs
<1> DEFINE a == When(Current.type = "script", <<Error>>)
           b == When(Current.type = "initializer", <<Error>>)
           v == <<Expression, Consume(";"), Emit(-1)>>
<1>3. IsSeq(<<Advance>>) /\ IsSeq(v)
  <2>1. IsSeq(<<Expression>>) /\ IsSeq(<<Consume(";"), Emit(-1)>>)
    BY ListsAreSeqs, TwoCalls
  <2>2. v = <<Expression>> \o <<Consume(";"), Emit(-1)>>
    BY List3, Zenon
  <2>3. IsSeq(<<Expression>> \o <<Consume(";"), Emit(-1)>>)
    BY <2>1, ListsAreSeqs
  <2> QED BY <2>2, <2>3, ListsAreSeqs, Zenon
<1>4. <<>> \o <<Advance>> = <<Advance>> /\ <<>> \o v = v
  BY <1>3, ListsAreSeqs, Zenon
<1>5. <<Error>> \o <<Advance>> = <<Error, Advance>>
  BY Glue11, Zenon
<1>6. <<Error>> \o v = <<Error, Expression, Consume(";"), Emit(-1)>>
  BY Glue13, Zenon
<1>7. CASE current = ";"
  <2>1. Become(a \o <<Advance>>)
    BY <1>7 DEF ReturnStatement
  <2>2. CASE Current.type = "script"
    <3>1. a = <<Error>>
      BY <2>2 DEF When
    <3> HIDE DEF a
    <3>2. Become(<<Error, Advance>>)
      BY <1>5, <2>1, <3>1, Zenon
    <3>3. Fulfils(<<Error, Advance>>, Now, Head(todo), Now)
      BY <1>1, ReturnNilError
    <3> QED BY <3>2, <3>3, Zenon DEF Acts
  <2>3. CASE Current.type # "script"
    <3>1. a = <<>>
      BY <2>3 DEF When
    <3> HIDE DEF a
    <3>2. Become(<<Advance>>)
      BY <1>4, <2>1, <3>1, Zenon
    <3>3. Fulfils(<<Advance>>, Now, Head(todo), Now)
      BY <1>1, ReturnNil
    <3> QED BY <3>2, <3>3, Zenon DEF Acts
  <2> QED BY <2>2, <2>3
<1>8. CASE current # ";"
  <2>1. Become(a \o (b \o v))
    BY <1>8 DEF ReturnStatement
  <2>2. CASE Current.type = "script"
    <3>1. a = <<Error>> /\ b = <<>>
      BY <2>2 DEF When
    <3> HIDE DEF a, b
    <3>2. b \o v = v
      BY <1>4, <3>1, Zenon
    <3>3. Become(<<Error, Expression, Consume(";"), Emit(-1)>>)
      BY <1>6, <2>1, <3>1, <3>2, Zenon
    <3>4. Fulfils(<<Error, Expression, Consume(";"), Emit(-1)>>, Now, Head(todo), Now)
      BY <1>1, ReturnValueError
    <3> QED BY <3>3, <3>4, Zenon DEF Acts
  <2>3. CASE Current.type = "initializer"
    <3>1. a = <<>> /\ b = <<Error>>
      BY <2>3 DEF When
    <3> HIDE DEF a, b
    <3> DEFINE w == <<Error, Expression, Consume(";"), Emit(-1)>>
    <3>2. b \o v = w
      BY <1>6, <3>1, Zenon
    <3>3. Fulfils(w, Now, Head(todo), Now)
      BY <1>1, ReturnValueError
    <3>4. IsSeq(w)
      BY <3>3 DEF Fulfils
    <3>5. <<>> \o w = w
      BY <3>4, ListsAreSeqs, Zenon
    <3> HIDE DEF w
    <3>6. Become(w)
      BY <2>1, <3>1, <3>2, <3>5, Zenon
    <3> QED BY <3>3, <3>6, Zenon DEF Acts
  <2>4. CASE Current.type \notin {"script", "initializer"}
    <3>1. a = <<>> /\ b = <<>>
      BY <2>4 DEF When
    <3> HIDE DEF a, b
    <3>2. Fulfils(v, Now, Head(todo), Now)
      BY <1>1, ReturnValue
    <3> HIDE DEF v
    <3>3. Become(v)
      BY <1>4, <2>1, <3>1, Zenon
    <3> QED BY <3>2, <3>3, Zenon DEF Acts
  <2> QED BY <2>2, <2>3, <2>4
<1> QED BY <1>7, <1>8

\* super_.
LEMMA ActSuper ==
  ASSUME TablesOK, CallsOK, Super PROVE Acts
<1>1. Good(Now) /\ Head(todo)[1] = "super" /\ Pre(Head(todo), Now) /\ Arg = Head(todo)[2]
  BY NextCall DEF Super, Arg
<1>2. Now.cur = current /\ Now.prev = previous /\ H = Now.top.height /\ Now.err = hadError
      /\ (classes = <<>> <=> Now.classes = 0) /\ (~hadError => Now.m = Len(env))
      /\ Current.type = Now.top.type
  BY NowIs
<1> DEFINE a == When(classes = <<>> \/ ~classes[Len(classes)], <<Error>>)
           v == <<Consume("."), Consume("id"), NamedVariable("this", FALSE), Call("superRest")>>
<1>3. Become(a \o v)
  BY DEF Super
<1>4. CASE classes = <<>> \/ ~classes[Len(classes)]
  <2>1. a = <<Error>>
    BY <1>4 DEF When
  <2> HIDE DEF a
  <2>2. <<Error>> \o v = <<Error, Consume("."), Consume("id"), NamedVariable("this", FALSE), Call("superRest")>>
    BY Glue14, Zenon
  <2>3. Become(<<Error, Consume("."), Consume("id"), NamedVariable("this", FALSE), Call("superRest")>>)
    BY <1>3, <2>1, <2>2, Zenon
  <2>4. Fulfils(<<Error, Consume("."), Consume("id"), NamedVariable("this", FALSE), Call("superRest")>>,
                Now, Head(todo), Now)
    BY <1>1, SuperNowhere
  <2> QED BY <2>3, <2>4, Zenon DEF Acts
<1>5. CASE ~(classes = <<>> \/ ~classes[Len(classes)])
  <2>1. a = <<>>
    BY <1>5 DEF When
  <2> HIDE DEF a
  <2>2. Now.classes > 0
    BY <1>1, <1>2, <1>5, GoodTypes
  <2>3. Fulfils(v, Now, Head(todo), Now)
    BY <1>1, <2>2, SuperInside
  <2>4. IsSeq(v)
    BY <2>3 DEF Fulfils
  <2>5. <<>> \o v = v
    BY <2>4, ListsAreSeqs, Zenon
  <2> HIDE DEF v
  <2>6. Become(v)
    BY <1>3, <2>1, <2>5, Zenon
  <2> QED BY <2>3, <2>6, Zenon DEF Acts
<1> QED BY <1>4, <1>5

\* argumentList.
LEMMA ActArgumentList ==
  ASSUME TablesOK, CallsOK, ArgumentList PROVE Acts
<1>1. Good(Now) /\ Head(todo)[1] = "argumentList" /\ Pre(Head(todo), Now) /\ Arg = Head(todo)[2]
  BY NextCall DEF ArgumentList, Arg
<1>2. Now.cur = current /\ Now.prev = previous /\ H = Now.top.height /\ Now.err = hadError
      /\ (classes = <<>> <=> Now.classes = 0) /\ (~hadError => Now.m = Len(env))
      /\ Current.type = Now.top.type
  BY NowIs
<1> DEFINE n == Head(todo)[2]
           k == Head(todo)[3]
           a == When(n = MaxArgs + 1, <<Error>>)
           b == IF k = "super" THEN <<NamedVariable("super", FALSE), Emit(-n - 1)>> ELSE <<Emit(-n)>>
           v == <<Advance, Expression, <<"argumentList", n + 1, k>>>>
<1>0. Arg = n /\ Arg2 = k /\ n \in Nat
  BY <1>1, AtArgumentList DEF Arg2
<1> DEFINE f == <<Expression, <<"argumentList", 1, Arg2>>>>
           g == When(Arg = MaxArgs + 1, <<Error>>)
                  \o <<Advance, Expression, <<"argumentList", Arg + 1, Arg2>>>>
           h == When(Arg = MaxArgs + 1, <<Error>>) \o <<Consume(")")>>
                  \o (IF Arg2 = "super" THEN <<NamedVariable("super", FALSE), Emit(-Arg - 1)>>
                      ELSE <<Emit(-Arg)>>)
<1>6. Become(CASE Arg = 0 /\ current # ")" -> f [] Arg > 0 /\ current = "," -> g [] OTHER -> h)
  BY DEF ArgumentList
<1> HIDE DEF f, g, h
<1>3. CASE n = 0 /\ current # ")"
  <2>0. Arg = 0 /\ ~(Arg > 0)
    BY <1>0, <1>3
  <2>1. Become(f)
    BY <1>3, <1>6, <2>0
  <2>2. Become(<<Expression, <<"argumentList", 1, Head(todo)[3]>>>>)
    BY <1>0, <2>1, Zenon DEF f
  <2>3. Fulfils(<<Expression, <<"argumentList", 1, Head(todo)[3]>>>>, Now, Head(todo), Now)
    BY <1>1, <1>3, ArgumentsFirst
  <2> QED BY <2>2, <2>3, Zenon DEF Acts
<1>4. CASE n > 0 /\ current = ","
  <2>5. n > 0 /\ n # 0
    <3>1. n \in Nat /\ n > 0
      BY <1>0, <1>4
    <3> HIDE DEF n
    <3> QED BY <3>1
  <2>0. Arg > 0 /\ Arg # 0
    BY <1>0, <2>5, Zenon
  <2>1. Become(g)
    BY <1>4, <1>6, <2>0
  <2>2. Become(a \o v)
    BY <1>0, <2>1, Zenon DEF g
  <2>3. CASE n = MaxArgs + 1
    <3>1. a = <<Error>>
      BY <2>3 DEF When
    <3> HIDE DEF a
    <3>2. <<Error>> \o v = <<Error, Advance, Expression, <<"argumentList", n + 1, k>>>>
      BY Glue13, Zenon
    <3>3. Become(<<Error, Advance, Expression, <<"argumentList", n + 1, k>>>>)
      BY <2>2, <3>1, <3>2, Zenon
    <3>4. Fulfils(<<Error, Advance, Expression, <<"argumentList", n + 1, k>>>>, Now, Head(todo), Now)
      BY <1>1, ArgumentsMany
    <3> QED BY <3>3, <3>4, Zenon DEF Acts
  <2>4. CASE n # MaxArgs + 1
    <3>1. a = <<>>
      BY <2>4 DEF When
    <3> HIDE DEF a
    <3>2. Fulfils(v, Now, Head(todo), Now)
      BY <1>1, ArgumentsMore
    <3>3. IsSeq(v)
      BY <3>2 DEF Fulfils
    <3>4. <<>> \o v = v
      BY <3>3, ListsAreSeqs, Zenon
    <3> HIDE DEF v
    <3>5. Become(v)
      BY <2>2, <3>1, <3>4, Zenon
    <3> QED BY <3>2, <3>5, Zenon DEF Acts
  <2> QED BY <2>3, <2>4
<1>5. CASE ~(n = 0 /\ current # ")") /\ ~(n > 0 /\ current = ",")
  <2>1. Become(h)
    BY <1>0, <1>5, <1>6
  <2>2. Become(a \o <<Consume(")")>> \o b)
    BY <1>0, <2>1, Zenon DEF h
  <2>3. <<>> \o <<Consume(")")>> = <<Consume(")")>>
    BY ListsAreSeqs, Zenon
  <2>4. <<Error>> \o <<Consume(")")>> = <<Error, Consume(")")>>
    BY Glue11, Zenon
  <2>5. CASE n = MaxArgs + 1 /\ k = "super"
    <3>1. a = <<Error>> /\ b = <<NamedVariable("super", FALSE), Emit(-n - 1)>>
      BY <2>5 DEF When
    <3> HIDE DEF a, b
    <3>2. a \o <<Consume(")")>> \o b = <<Error, Consume(")"), NamedVariable("super", FALSE), Emit(-n - 1)>>
      BY <2>4, <3>1, Glue22, Zenon
    <3>3. Become(<<Error, Consume(")"), NamedVariable("super", FALSE), Emit(-n - 1)>>)
      BY <2>2, <3>2, Zenon
    <3>4. Fulfils(<<Error, Consume(")"), NamedVariable("super", FALSE), Emit(-n - 1)>>, Now, Head(todo), Now)
      BY <1>1, ArgumentsSuperMany
    <3> QED BY <3>3, <3>4, Zenon DEF Acts
  <2>6. CASE n = MaxArgs + 1 /\ k # "super"
    <3>1. a = <<Error>> /\ b = <<Emit(-n)>>
      BY <2>6 DEF When
    <3> HIDE DEF a, b
    <3>2. a \o <<Consume(")")>> \o b = <<Error, Consume(")"), Emit(-n)>>
      BY <2>4, <3>1, Glue21, Zenon
    <3>3. Become(<<Error, Consume(")"), Emit(-n)>>)
      BY <2>2, <3>2, Zenon
    <3>4. Fulfils(<<Error, Consume(")"), Emit(-n)>>, Now, Head(todo), Now)
      BY <1>1, ArgumentsCallMany
    <3> QED BY <3>3, <3>4, Zenon DEF Acts
  <2>7. CASE n # MaxArgs + 1 /\ k = "super"
    <3>1. a = <<>> /\ b = <<NamedVariable("super", FALSE), Emit(-n - 1)>>
      BY <2>7 DEF When
    <3> HIDE DEF a, b
    <3>2. a \o <<Consume(")")>> \o b = <<Consume(")"), NamedVariable("super", FALSE), Emit(-n - 1)>>
      BY <2>3, <3>1, Glue12, Zenon
    <3>3. Become(<<Consume(")"), NamedVariable("super", FALSE), Emit(-n - 1)>>)
      BY <2>2, <3>2, Zenon
    <3>4. Fulfils(<<Consume(")"), NamedVariable("super", FALSE), Emit(-n - 1)>>, Now, Head(todo), Now)
      BY <1>1, ArgumentsSuper
    <3> QED BY <3>3, <3>4, Zenon DEF Acts
  <2>8. CASE n # MaxArgs + 1 /\ k # "super"
    <3>1. a = <<>> /\ b = <<Emit(-n)>>
      BY <2>8 DEF When
    <3> HIDE DEF a, b
    <3>2. a \o <<Consume(")")>> \o b = <<Consume(")"), Emit(-n)>>
      BY <2>3, <3>1, Glue11, Zenon
    <3>3. Become(<<Consume(")"), Emit(-n)>>)
      BY <2>2, <3>2, Zenon
    <3>4. Fulfils(<<Consume(")"), Emit(-n)>>, Now, Head(todo), Now)
      BY <1>1, ArgumentsCall
    <3> QED BY <3>3, <3>4, Zenon DEF Acts
  <2> QED BY <2>5, <2>6, <2>7, <2>8
<1> QED BY <1>3, <1>4, <1>5

\* classDeclaration behind the superclass's name.
LEMMA ActSuperclass ==
  ASSUME TablesOK, CallsOK, Superclass PROVE Acts
<1>1. Good(Now) /\ Head(todo)[1] = "superclass" /\ Pre(Head(todo), Now) /\ Arg = Head(todo)[2]
  BY NextCall DEF Superclass, Arg
<1>2. Now.cur = current /\ Now.prev = previous /\ H = Now.top.height /\ Now.err = hadError
      /\ (classes = <<>> <=> Now.classes = 0) /\ (~hadError => Now.m = Len(env))
      /\ Current.type = Now.top.type
  BY NowIs
<1> DEFINE w == When(previous = Head(todo)[2], <<Error>>)
           x == <<NamedVariable(previous, FALSE)>> \o w
                \o <<Call("beginScope"), <<"addLocal", "super">>, Call("defineVariable"),
                     NamedVariable(Head(todo)[2], FALSE), Emit(-1), Call("hasSuperclass")>>
                \o ClassBody(Head(todo)[2])
                \o <<<<"endScope", Len(env)>>, Call("endClass")>>
<1>3. w \in {<<>>, <<Error>>}
  BY DEF When
<1>4. Become(x)
  <2>1. Become(<<NamedVariable(previous, FALSE)>> \o When(previous = Arg, <<Error>>)
               \o <<Call("beginScope"), <<"addLocal", "super">>, Call("defineVariable"),
                    NamedVariable(Arg, FALSE), Emit(-1), Call("hasSuperclass")>>
               \o ClassBody(Arg) \o <<<<"endScope", Len(env)>>, Call("endClass")>>)
    BY Zenon DEF Superclass
  <2> QED BY <1>1, <2>1, Zenon
<1>5. ~Now.err => Len(env) = Now.m
  BY <1>2
<1>6. Fulfils(x, Now, Head(todo), Now)
  <2> HIDE DEF w
  <2> QED BY <1>1, <1>2, <1>3, <1>5, SuperclassDoes, Zenon
<1> QED BY <1>4, <1>6, Zenon DEF Acts

\* Whatever a parsing function that only calls others reads, its calls fulfil its
\* contract.
LEMMA GrammarActs ==
  ASSUME TablesOK, CallsOK, Grammar PROVE Acts
BY ActConsume, ActProgram, ActDeclaration, ActVarDeclaration, ActInitializer, ActFunDeclaration,
   ActStatement, ActBlock, ActIfThen, ActIfElse, ActElse, ActWhileBody, ActForInitializer,
   ActForCondition, ActForExit, ActForIncrement, ActReturnStatement, ActParsePrecedence,
   ActPrefix, ActInfix, ActDot, ActArgumentList, ActThis, ActSuper, ActSuperRest, ActParameters,
   ActMoreParameters, ActClassDeclaration, ActClassName, ActInherit, ActSuperclass, ActMethods,
   ActMethod, ActSynchronize DEF Grammar

\* The steps of parsing functions that only call others.
LEMMA GrammarStep ==
  ASSUME IInv, Grammar, UNCHANGED <<input, parser, compilers, classes, ghosts>>
  PROVE  IInv'
<1>1. TablesOK /\ CallsOK /\ UpvaluesOK /\ CapturesOK /\ NamesResolve
  BY DEF IInv
<1>2. PICK calls : Become(calls) /\ Fulfils(calls, Now, Head(todo), Now)
  BY <1>1, GrammarActs DEF Acts
<1>3. /\ hadError' = hadError /\ panicMode' = panicMode /\ current' = current
      /\ previous' = previous /\ compilers' = compilers /\ classes' = classes /\ env' = env
      /\ captured' = captured /\ access' = access
  BY DEF parser, ghosts
<1>4. Now' = Now
  BY <1>3 DEF Now
<1>5. todo # <<>>
  BY DEF Grammar, Doing, DoConsume, Program, Declaration, VarDeclaration, Initializer,
     FunDeclaration, Statement, Block, IfThen, IfElse, Else, WhileBody, ForInitializer,
     ForCondition, ForExit, ForIncrement, ReturnStatement, DoParsePrecedence, Prefix, Infix, Dot,
     ArgumentList, This, Super, SuperRest, Parameters, MoreParameters, ClassDeclaration,
     ClassName, Inherit, Superclass, Methods, Method, Synchronize
<1>6. CallsOK'
  BY <1>1, <1>2, <1>4, <1>5, CallsGo DEF CallsOK
<1>7. TablesOK' /\ UpvaluesOK' /\ CapturesOK' /\ NamesResolve'
  BY <1>1, <1>3 DEF TablesOK, UpvaluesOK, CapturesOK, NamesResolve
<1> QED BY <1>6, <1>7 DEF IInv

-----------------------------------------------------------------------------
(* Steps that the contracts do not see, or only the tokens of *)

\* The variables that the contracts see are a list.
LEMMA EnvIsList ==
  ASSUME NEW err \in BOOLEAN, NEW vs, ~err => IsSeq(vs), NEW t,
         t.m = (IF err THEN 0 ELSE Len(vs)), t.env = (IF err THEN <<>> ELSE vs)
  PROVE  t.m \in Nat /\ t.env = [e \in 1..t.m |-> t.env[e]]
<1>1. CASE err
  <2>1. t.m = 0 /\ t.env = <<>>
    BY <1>1
  <2> QED BY <2>1
<1>2. CASE ~err
  <2>1. t.m = Len(vs) /\ t.env = vs
    BY <1>2
  <2>2. Len(vs) \in Nat /\ vs = [e \in 1..Len(vs) |-> vs[e]]
    BY <1>2, SeqFacts
  <2> QED BY <2>1, <2>2
<1> QED BY <1>1, <1>2

\* A step that leaves the outlines of the Compilers as they are.
LEMMA SameOutlines ==
  ASSUME NEW err \in BOOLEAN, NEW err2 \in BOOLEAN, err => err2,
         NEW prev, NEW cur, NEW prev2, NEW cur2, NEW comps, NEW new, NEW vs, NEW n,
         ~err => IsSeq(vs), Len(comps) \in Nat \ {0}, Len(new) = Len(comps),
         \A k \in 1..Len(comps) : Outline(new[k]) = Outline(comps[k]),
         NEW s, s = View(err, prev, cur, comps, vs, n), Good(s),
         NEW t, t = View(err2, prev2, cur2, new, vs, n)
  PROVE  /\ Good(t) /\ Expr(s, t, 0) /\ t.err = err2 /\ t.prev = prev2 /\ t.cur = cur2
         /\ s.level > 0 /\ t.level > 0 /\ s.err = err /\ s.prev = prev /\ s.cur = cur
         /\ t.full = new
<1>1. /\ s.err = err /\ s.level = Len(comps) /\ s.classes = n
      /\ s.prev = prev /\ s.cur = cur /\ t.prev = prev2 /\ t.cur = cur2 /\ t.full = new
      /\ s.top = Outline(comps[Len(comps)]) /\ t.err = err2 /\ t.level = Len(comps)
      /\ t.classes = n /\ t.top = Outline(new[Len(comps)])
      /\ s.outer = [k \in 1..(Len(comps) - 1) |-> Outline(comps[k])]
      /\ t.outer = [k \in 1..(Len(comps) - 1) |-> Outline(new[k])]
  BY DEF View
<1>2. t.top = s.top /\ t.outer = s.outer
  BY <1>1
<1>3. t.m \in Nat /\ t.env = [e \in 1..t.m |-> t.env[e]]
  <2>1. ~err2 => IsSeq(vs)
    BY Zenon
  <2>2. t.m = (IF err2 THEN 0 ELSE Len(vs)) /\ t.env = (IF err2 THEN <<>> ELSE vs)
    BY DEF View
  <2> QED BY <2>1, <2>2, EnvIsList
<1>4. ~t.err => SameEnv(s, t)
  BY <1>1 DEF View, SameEnv
<1>5. s.level > 0 /\ t.level > 0 /\ s.top.height \in Int
  BY <1>1, GoodTypes
<1>6. Expr(s, t, 0)
  BY <1>1, <1>2, <1>4, <1>5 DEF Expr, Stays, SameLocals
<1>7. Good(t)
  BY <1>1, <1>2, <1>3, <1>5, <1>6, ExprGood
<1> QED BY <1>1, <1>5, <1>6, <1>7

\* A call that fulfils its own contract where an earlier one has been.
LEMMA CallAgain ==
  ASSUME NEW c, NEW s, NEW t, Pre(c, t), \A u : Rel(c, t, u) => Rel(c, s, u)
  PROVE  Fulfils(<<c>>, t, c, s)
BY FulfilsNone, Step1

\* The next call stays the next one.
LEMMA CallsStay ==
  ASSUME CallsOK, todo # <<>>, todo' = todo, Good(Now'), Fulfils(<<Head(todo)>>, Now', Head(todo), Now)
  PROVE  CallsOK'
<1>1. IsSeq(todo)
  BY DEF CallsOK
<1>2. todo = <<Head(todo)>> \o Tail(todo)
  <2>1. PICK S : todo \in Seq(S)
    BY <1>1 DEF IsSeq
  <2>2. Head(todo) \in S /\ Tail(todo) \in Seq(S) /\ <<Head(todo)>> \in Seq(S)
    BY <2>1
  <2>3. /\ <<Head(todo)>> \o Tail(todo) \in Seq(S)
        /\ Len(<<Head(todo)>> \o Tail(todo)) = Len(todo)
    BY <2>1, <2>2, ConcatProperties, HeadTailProperties
  <2>4. \A i \in 1..Len(todo) : (<<Head(todo)>> \o Tail(todo))[i] = todo[i]
    BY <2>1, <2>2, <2>3, ConcatProperties, HeadTailProperties
  <2> QED BY <2>1, <2>3, <2>4, SeqEqual
<1>3. Become(<<Head(todo)>>)
  BY <1>2, Zenon DEF Become
<1> QED BY <1>3, CallsGo

\* The state in which the current function goes on.
LEMMA LevelPositive ==
  ASSUME TablesOK, Now.level > 0
  PROVE  /\ Len(compilers) \in Nat \ {0} /\ CompsOK(compilers) /\ Len(compilers) \in 1..Len(compilers)
         /\ IsSeq(compilers) /\ IsComp(Current) /\ Current = compilers[Len(compilers)]
         /\ Level = Len(compilers) /\ Now.level = Level
<1>1. CompsOK(compilers) /\ IsSeq(compilers) /\ Now.level = Level
  BY NowIs DEF TablesOK, CompsOK
<1>2. Len(compilers) \in Nat
  BY <1>1, SeqFacts
<1>3. Len(compilers) \in Nat \ {0} /\ Len(compilers) \in 1..Len(compilers)
  BY <1>1, <1>2 DEF Level
<1> QED BY <1>1, <1>3 DEF Current, Level, CompsOK

\* A step that changes only tokens and errors.
LEMMA TokenStep ==
  ASSUME TablesOK, CallsOK, Now.level > 0, hadError' \in BOOLEAN, hadError => hadError',
         UNCHANGED <<compilers, classes, env>>
  PROVE  /\ Good(Now') /\ Expr(Now, Now', 0) /\ Now'.err = hadError' /\ Now'.prev = previous'
         /\ Now'.cur = current' /\ Now.prev = previous /\ Now.cur = current /\ Now.err = hadError
         /\ Now'.level > 0 /\ Good(Now)
<1>1. Len(compilers) \in Nat \ {0} /\ Good(Now) /\ hadError \in BOOLEAN /\ (~hadError => IsSeq(env))
  BY LevelPositive DEF CallsOK, TablesOK
<1> DEFINE s == Now
           t == View(hadError', previous', current', compilers, env, Len(classes))
<1>2. Now' = t
  BY DEF Now
<1>3. s = View(hadError, previous, current, compilers, env, Len(classes))
  BY DEF Now
<1> HIDE DEF t, s
<1>4. t = View(hadError', previous', current', compilers, env, Len(classes))
  BY DEF t
<1>5. /\ Good(t) /\ Expr(s, t, 0) /\ t.err = hadError' /\ t.prev = previous' /\ t.cur = current'
      /\ s.prev = previous /\ s.cur = current /\ s.err = hadError /\ t.level > 0
  BY <1>1, <1>3, <1>4, SameOutlines DEF s
<1> QED BY <1>1, <1>2, <1>5 DEF s

\* What no token changes.
LEMMA RestStays ==
  ASSUME IInv, CallsOK', hadError' \in BOOLEAN, panicMode' \in BOOLEAN, hadError => hadError',
         panicMode' => hadError', UNCHANGED <<compilers, classes, env, captured, access>>
  PROVE  IInv'
<1>1. compilers' = compilers /\ classes' = classes /\ env' = env /\ captured' = captured
      /\ access' = access
  OBVIOUS
<1>2. TablesOK' /\ UpvaluesOK' /\ CapturesOK' /\ NamesResolve'
  BY <1>1 DEF IInv, TablesOK, UpvaluesOK, CapturesOK, NamesResolve
<1> QED BY <1>2 DEF IInv

-----------------------------------------------------------------------------
(* Tokens and errors *)

\* error.
LEMMA ErrorStep ==
  ASSUME IInv, ReportError PROVE IInv'
<1>1. TablesOK /\ CallsOK /\ Doing("error") /\ Become(<<>>)
  BY DEF IInv, ReportError
<1>2. /\ hadError' = TRUE /\ panicMode' = TRUE
      /\ UNCHANGED <<compilers, classes, env, captured, access>>
  BY DEF ReportError, ghosts
<1>3. /\ todo # <<>> /\ Head(todo)[1] = "error" /\ Good(Now) /\ Pre(Head(todo), Now)
  BY <1>1, NextCall
<1>4. Now.level > 0
  BY <1>3, AtError
<1>5. Good(Now') /\ Expr(Now, Now', 0) /\ Now'.err = TRUE
  BY <1>1, <1>2, <1>4, TokenStep
<1>6. Rel(Head(todo), Now, Now')
  BY <1>3, <1>5, AtError
<1>7. CallsOK'
  BY <1>1, <1>3, <1>5, <1>6, CallsGo, FulfilsNone
<1> QED BY <1>2, <1>7, RestStays

\* advance.
LEMMA AdvanceStep ==
  ASSUME IInv, AdvanceBegin PROVE IInv'
<1>1. TablesOK /\ CallsOK /\ Doing("advance") /\ Become(<<Call("scan")>>)
  BY DEF IInv, AdvanceBegin
<1>2. /\ hadError' = hadError /\ panicMode' = panicMode /\ previous' = current
      /\ UNCHANGED <<compilers, classes, env, captured, access>>
      /\ hadError' \in BOOLEAN /\ panicMode' \in BOOLEAN /\ (panicMode' => hadError')
  BY <1>1 DEF AdvanceBegin, ghosts, TablesOK
<1>3. /\ todo # <<>> /\ Head(todo)[1] = "advance" /\ Good(Now) /\ Pre(Head(todo), Now)
  BY <1>1, NextCall
<1>4. Now.level > 0
  BY <1>3, AtAdvance
<1>5. Good(Now') /\ Expr(Now, Now', 0) /\ Now'.prev = previous' /\ Now.cur = current
  BY <1>1, <1>2, <1>4, TokenStep
<1>6. Fulfils(<<Call("scan")>>, Now', Head(todo), Now)
  BY <1>2, <1>3, <1>4, <1>5, AdvanceDoes
<1>7. CallsOK'
  BY <1>1, <1>3, <1>5, <1>6, CallsGo
<1> QED BY <1>2, <1>7, RestStays

\* A token has been scanned, or an error token.
LEMMA ScanStep ==
  ASSUME IInv, Scan PROVE IInv'
<1>1. TablesOK /\ CallsOK /\ Doing("scan")
  BY DEF IInv, Scan
<1>2. /\ previous' = previous
      /\ UNCHANGED <<compilers, classes, env, captured, access>>
      /\ \/ Become(<<>>) /\ UNCHANGED <<hadError, panicMode>>
         \/ todo' = todo /\ hadError' = TRUE /\ panicMode' = TRUE
  BY DEF Scan, Scanned, ghosts
<1>3. /\ hadError' \in BOOLEAN /\ panicMode' \in BOOLEAN /\ (panicMode' => hadError')
      /\ (hadError => hadError')
  <2>1. hadError \in BOOLEAN /\ panicMode \in BOOLEAN /\ (panicMode => hadError)
    BY <1>1 DEF TablesOK
  <2>2. CASE UNCHANGED <<hadError, panicMode>>
    BY <2>1, <2>2
  <2>3. CASE hadError' = TRUE /\ panicMode' = TRUE
    BY <2>1, <2>3
  <2> QED BY <1>2, <2>2, <2>3
<1>4. /\ todo # <<>> /\ Head(todo)[1] = "scan" /\ Good(Now) /\ Pre(Head(todo), Now)
  BY <1>1, NextCall
<1>5. Now.level > 0
  BY <1>4, AtScan
<1>6. /\ Good(Now') /\ Expr(Now, Now', 0) /\ Now'.prev = previous' /\ Now.prev = previous
      /\ Now'.level > 0
  BY <1>1, <1>2, <1>3, <1>5, TokenStep
<1>7. CASE Become(<<>>)
  <2>1. Rel(Head(todo), Now, Now')
    BY <1>2, <1>4, <1>6, AtScan, ExprKeeps
  <2>2. CallsOK'
    BY <1>1, <1>4, <1>6, <1>7, <2>1, CallsGo, FulfilsNone
  <2> QED BY <1>2, <1>3, <2>2, RestStays
<1>8. CASE todo' = todo
  <2>1. Pre(Head(todo), Now')
    BY <1>4, <1>6, AtScan
  <2>2. ASSUME NEW u, Rel(Head(todo), Now', u) PROVE Rel(Head(todo), Now, u)
    <3>1. Good(u) /\ Expr(Now', u, 0) /\ u.prev = Now'.prev
      BY <1>4, <2>2, AtScan
    <3>2. Expr(Now, u, 0)
      BY <1>4, <1>5, <1>6, <3>1, ExprTwice
    <3>3. u.prev = Now.prev
      BY <1>2, <1>6, <3>1
    <3> QED BY <1>4, <3>1, <3>2, <3>3, AtScan, ExprKeeps
  <2>3. Fulfils(<<Head(todo)>>, Now', Head(todo), Now)
    BY <2>1, <2>2, CallAgain
  <2>4. CallsOK'
    BY <1>1, <1>4, <1>6, <1>8, <2>3, CallsStay
  <2> QED BY <1>2, <1>3, <2>4, RestStays
<1> QED BY <1>2, <1>7, <1>8

\* declaration: synchronize if an error was reported.
LEMMA RecoverStep ==
  ASSUME IInv, Recover PROVE IInv'
<1>1. TablesOK /\ CallsOK /\ Doing("recover") /\ Become(When(panicMode, <<Call("synchronize")>>))
  BY DEF IInv, Recover
<1>2. /\ hadError' = hadError /\ panicMode' = FALSE
      /\ UNCHANGED <<compilers, classes, env, captured, access>>
      /\ hadError' \in BOOLEAN /\ panicMode' \in BOOLEAN /\ panicMode \in BOOLEAN
  BY <1>1 DEF Recover, ghosts, TablesOK
<1>3. /\ todo # <<>> /\ Head(todo)[1] = "recover" /\ Good(Now) /\ Pre(Head(todo), Now)
  BY <1>1, NextCall
<1>4. Now.level > 0
  BY <1>3, AtRecover
<1>5. Good(Now') /\ Expr(Now, Now', 0)
  BY <1>1, <1>2, <1>4, TokenStep
<1>6. CallsOK'
  <2>1. CASE panicMode
    <3>1. Become(<<Call("synchronize")>>)
      BY <1>1, <2>1 DEF When
    <3>2. Fulfils(<<Call("synchronize")>>, Now', Head(todo), Now)
      BY <1>3, <1>5, RecoverDoes
    <3> QED BY <1>1, <1>3, <1>5, <3>1, <3>2, CallsGo
  <2>2. CASE ~panicMode
    <3>1. Become(<<>>)
      BY <1>1, <2>2 DEF When
    <3>2. Rel(Head(todo), Now, Now')
      BY <1>3, <1>5, AtRecover, ExprKeeps
    <3> QED BY <1>1, <1>3, <1>5, <3>1, <3>2, CallsGo, FulfilsNone
  <2> QED BY <1>2, <2>1, <2>2
<1> QED BY <1>2, <1>6, RestStays

\* defineVariable of a function that has been marked.
LEMMA DefineFunctionStep ==
  ASSUME IInv, DefineFunction PROVE IInv'
<1>1. TablesOK /\ CallsOK /\ Doing("defineFunction") /\ Become(When(Current.depth = 0, <<Emit(-1)>>))
  BY DEF IInv, DefineFunction
<1>2. /\ hadError' = hadError /\ panicMode' = panicMode
      /\ UNCHANGED <<compilers, classes, env, captured, access>>
      /\ hadError' \in BOOLEAN /\ panicMode' \in BOOLEAN /\ (panicMode' => hadError')
  BY <1>1 DEF DefineFunction, parser, ghosts, TablesOK
<1>3. /\ todo # <<>> /\ Head(todo)[1] = "defineFunction" /\ Good(Now) /\ Pre(Head(todo), Now)
  BY <1>1, NextCall
<1>4. Now.level > 0
  BY <1>3, AtDefineFunction
<1>5. Good(Now') /\ Expr(Now, Now', 0) /\ Now'.level > 0
  BY <1>1, <1>2, <1>4, TokenStep
<1>6. Current.depth = Now.top.depth
  BY <1>1, NowIs
<1>7. CallsOK'
  <2>1. CASE Current.depth = 0
    <3>1. Become(<<Emit(-1)>>)
      BY <1>1, <2>1 DEF When
    <3>2. Pre(Emit(-1), Now')
      BY <1>5, CanEmit
    <3>3. ASSUME NEW u, Rel(Emit(-1), Now', u) PROVE Fulfils(<<>>, u, Head(todo), Now)
      <4>1. Good(u) /\ Expr(Now', u, -1)
        BY <3>3, OfEmit
      <4>2. Expr(Now, u, -1)
        BY <1>3, <1>4, <1>5, <4>1, ExprTwice
      <4>3. Rel(Head(todo), Now, u)
        BY <1>3, <1>6, <2>1, <4>1, <4>2, AtDefineFunction, ExprKeeps
      <4> QED BY <4>3, FulfilsNone
    <3>4. Fulfils(<<Emit(-1)>>, Now', Head(todo), Now)
      BY <3>2, <3>3, Step1
    <3> QED BY <1>1, <1>3, <1>5, <3>1, <3>4, CallsGo
  <2>2. CASE Current.depth # 0
    <3>1. Become(<<>>)
      BY <1>1, <2>2 DEF When
    <3>2. Rel(Head(todo), Now, Now')
      BY <1>3, <1>5, <1>6, <2>2, AtDefineFunction, ExprKeeps
    <3> QED BY <1>1, <1>3, <1>5, <3>1, <3>2, CallsGo, FulfilsNone
  <2> QED BY <2>1, <2>2
<1> QED BY <1>2, <1>7, RestStays

-----------------------------------------------------------------------------
(* The current Compiler changes *)

\* A Compiler with one of its fields replaced.
WithHeight(c, x) == [c EXCEPT !.height = x]
WithDepth(c, x) == [c EXCEPT !.depth = x]
WithArity(c, x) == [c EXCEPT !.arity = x]
WithUpvalues(c, x) == [c EXCEPT !.upvalues = x]
WithLocals(c, x) == [c EXCEPT !.locals = x]

\* Its height,
LEMMA WithHeightIs ==
  ASSUME NEW c, IsComp(c), NEW x
  PROVE  LET e == WithHeight(c, x) IN
           /\ IsComp(e) /\ e.height = x
           /\ e.type = c.type /\ e.depth = c.depth /\ e.arity = c.arity /\ e.upvalues = c.upvalues /\ e.locals = c.locals
<1> DEFINE ty == c.type
           d == c.depth
           a == c.arity
           u == c.upvalues
           l == c.locals
           h == c.height
           e == WithHeight(c, x)
<1>1. c = [type |-> ty, depth |-> d, arity |-> a, upvalues |-> u, locals |-> l, height |-> h]
  BY DEF IsComp
<1>2. /\ IsSeq(u) /\ Len(u) <= MaxUpvalues /\ IsSeq(l) /\ \A i \in 1..Len(l) : IsLocal(l[i])
  BY DEF IsComp
<1> HIDE DEF ty, d, a, u, l, h
<1>3. e = [type |-> ty, depth |-> d, arity |-> a, upvalues |-> u, locals |-> l, height |-> x]
  BY <1>1 DEF WithHeight
<1> HIDE DEF e
<1>4. e.type = ty /\ e.depth = d /\ e.arity = a /\ e.upvalues = u /\ e.locals = l /\ e.height = x
  BY <1>3
<1>5. e = [type |-> e.type, depth |-> e.depth, arity |-> e.arity, upvalues |-> e.upvalues, locals |-> e.locals, height |-> e.height]
  BY <1>3, <1>4
<1>6. IsComp(e)
  BY <1>2, <1>4, <1>5 DEF IsComp
<1> QED BY <1>4, <1>6 DEF e, ty, d, a, u, l, h

\* its depth,
LEMMA WithDepthIs ==
  ASSUME NEW c, IsComp(c), NEW x
  PROVE  LET e == WithDepth(c, x) IN
           /\ IsComp(e) /\ e.depth = x
           /\ e.type = c.type /\ e.arity = c.arity /\ e.upvalues = c.upvalues /\ e.locals = c.locals /\ e.height = c.height
<1> DEFINE ty == c.type
           d == c.depth
           a == c.arity
           u == c.upvalues
           l == c.locals
           h == c.height
           e == WithDepth(c, x)
<1>1. c = [type |-> ty, depth |-> d, arity |-> a, upvalues |-> u, locals |-> l, height |-> h]
  BY DEF IsComp
<1>2. /\ IsSeq(u) /\ Len(u) <= MaxUpvalues /\ IsSeq(l) /\ \A i \in 1..Len(l) : IsLocal(l[i])
  BY DEF IsComp
<1> HIDE DEF ty, d, a, u, l, h
<1>3. e = [type |-> ty, depth |-> x, arity |-> a, upvalues |-> u, locals |-> l, height |-> h]
  BY <1>1 DEF WithDepth
<1> HIDE DEF e
<1>4. e.type = ty /\ e.depth = x /\ e.arity = a /\ e.upvalues = u /\ e.locals = l /\ e.height = h
  BY <1>3
<1>5. e = [type |-> e.type, depth |-> e.depth, arity |-> e.arity, upvalues |-> e.upvalues, locals |-> e.locals, height |-> e.height]
  BY <1>3, <1>4
<1>6. IsComp(e)
  BY <1>2, <1>4, <1>5 DEF IsComp
<1> QED BY <1>4, <1>6 DEF e, ty, d, a, u, l, h

\* its arity,
LEMMA WithArityIs ==
  ASSUME NEW c, IsComp(c), NEW x
  PROVE  LET e == WithArity(c, x) IN
           /\ IsComp(e) /\ e.arity = x
           /\ e.type = c.type /\ e.depth = c.depth /\ e.upvalues = c.upvalues /\ e.locals = c.locals /\ e.height = c.height
<1> DEFINE ty == c.type
           d == c.depth
           a == c.arity
           u == c.upvalues
           l == c.locals
           h == c.height
           e == WithArity(c, x)
<1>1. c = [type |-> ty, depth |-> d, arity |-> a, upvalues |-> u, locals |-> l, height |-> h]
  BY DEF IsComp
<1>2. /\ IsSeq(u) /\ Len(u) <= MaxUpvalues /\ IsSeq(l) /\ \A i \in 1..Len(l) : IsLocal(l[i])
  BY DEF IsComp
<1> HIDE DEF ty, d, a, u, l, h
<1>3. e = [type |-> ty, depth |-> d, arity |-> x, upvalues |-> u, locals |-> l, height |-> h]
  BY <1>1 DEF WithArity
<1> HIDE DEF e
<1>4. e.type = ty /\ e.depth = d /\ e.arity = x /\ e.upvalues = u /\ e.locals = l /\ e.height = h
  BY <1>3
<1>5. e = [type |-> e.type, depth |-> e.depth, arity |-> e.arity, upvalues |-> e.upvalues, locals |-> e.locals, height |-> e.height]
  BY <1>3, <1>4
<1>6. IsComp(e)
  BY <1>2, <1>4, <1>5 DEF IsComp
<1> QED BY <1>4, <1>6 DEF e, ty, d, a, u, l, h

\* its upvalues,
LEMMA WithUpvaluesIs ==
  ASSUME NEW c, IsComp(c), NEW x, IsSeq(x), Len(x) <= MaxUpvalues
  PROVE  LET e == WithUpvalues(c, x) IN
           /\ IsComp(e) /\ e.upvalues = x
           /\ e.type = c.type /\ e.depth = c.depth /\ e.arity = c.arity /\ e.locals = c.locals /\ e.height = c.height
<1> DEFINE ty == c.type
           d == c.depth
           a == c.arity
           u == c.upvalues
           l == c.locals
           h == c.height
           e == WithUpvalues(c, x)
<1>1. c = [type |-> ty, depth |-> d, arity |-> a, upvalues |-> u, locals |-> l, height |-> h]
  BY DEF IsComp
<1>2. /\ IsSeq(u) /\ Len(u) <= MaxUpvalues /\ IsSeq(l) /\ \A i \in 1..Len(l) : IsLocal(l[i])
  BY DEF IsComp
<1> HIDE DEF ty, d, a, u, l, h
<1>3. e = [type |-> ty, depth |-> d, arity |-> a, upvalues |-> x, locals |-> l, height |-> h]
  BY <1>1 DEF WithUpvalues
<1> HIDE DEF e
<1>4. e.type = ty /\ e.depth = d /\ e.arity = a /\ e.upvalues = x /\ e.locals = l /\ e.height = h
  BY <1>3
<1>5. e = [type |-> e.type, depth |-> e.depth, arity |-> e.arity, upvalues |-> e.upvalues, locals |-> e.locals, height |-> e.height]
  BY <1>3, <1>4
<1>6. IsComp(e)
  BY <1>2, <1>4, <1>5 DEF IsComp
<1> QED BY <1>4, <1>6 DEF e, ty, d, a, u, l, h

\* or its locals.
LEMMA WithLocalsIs ==
  ASSUME NEW c, IsComp(c), NEW x, IsSeq(x), \A i \in 1..Len(x) : IsLocal(x[i])
  PROVE  LET e == WithLocals(c, x) IN
           /\ IsComp(e) /\ e.locals = x
           /\ e.type = c.type /\ e.depth = c.depth /\ e.arity = c.arity /\ e.upvalues = c.upvalues /\ e.height = c.height
<1> DEFINE ty == c.type
           d == c.depth
           a == c.arity
           u == c.upvalues
           l == c.locals
           h == c.height
           e == WithLocals(c, x)
<1>1. c = [type |-> ty, depth |-> d, arity |-> a, upvalues |-> u, locals |-> l, height |-> h]
  BY DEF IsComp
<1>2. /\ IsSeq(u) /\ Len(u) <= MaxUpvalues /\ IsSeq(l) /\ \A i \in 1..Len(l) : IsLocal(l[i])
  BY DEF IsComp
<1> HIDE DEF ty, d, a, u, l, h
<1>3. e = [type |-> ty, depth |-> d, arity |-> a, upvalues |-> u, locals |-> x, height |-> h]
  BY <1>1 DEF WithLocals
<1> HIDE DEF e
<1>4. e.type = ty /\ e.depth = d /\ e.arity = a /\ e.upvalues = u /\ e.locals = x /\ e.height = h
  BY <1>3
<1>5. e = [type |-> e.type, depth |-> e.depth, arity |-> e.arity, upvalues |-> e.upvalues, locals |-> e.locals, height |-> e.height]
  BY <1>3, <1>4
<1>6. IsComp(e)
  BY <1>2, <1>4, <1>5 DEF IsComp
<1> QED BY <1>4, <1>6 DEF e, ty, d, a, u, l, h

\* What functions of the outside have captured is as before.
LEMMA UpvaluesStay ==
  ASSUME NEW comps, CompsOK(comps), UpvaluesIn(comps), NEW new, Len(new) = Len(comps),
         \A k \in 1..Len(comps) : new[k].upvalues = comps[k].upvalues,
         \A k \in 1..(Len(comps) - 1) : \A i : IsCaptured(comps, k, i) => IsCaptured(new, k, i)
  PROVE  UpvaluesIn(new)
<1>1. Len(comps) \in Nat
  BY SeqFacts DEF CompsOK
<1>2. ASSUME NEW m \in 1..Len(new), NEW q \in 1..Len(new[m].upvalues)
      PROVE  LET u == new[m].upvalues[q] IN
             /\ u.slot \in (1..(m - 1)) \X Nat /\ IsCaptured(new, u.slot[1], u.slot[2])
             /\ u.isLocal \in BOOLEAN /\ u.index \in Nat
             /\ u.isLocal => u.slot = <<m - 1, u.index>>
             /\ ~u.isLocal => /\ u.index < Len(new[m - 1].upvalues)
                              /\ u.slot = new[m - 1].upvalues[u.index + 1].slot
  <2> DEFINE u == comps[m].upvalues[q]
  <2>1. m \in 1..Len(comps) /\ q \in 1..Len(comps[m].upvalues) /\ new[m].upvalues[q] = u
    BY <1>2
  <2>2. /\ u.slot \in (1..(m - 1)) \X Nat /\ IsCaptured(comps, u.slot[1], u.slot[2])
        /\ u.isLocal \in BOOLEAN /\ u.index \in Nat
        /\ u.isLocal => u.slot = <<m - 1, u.index>>
        /\ ~u.isLocal => /\ u.index < Len(comps[m - 1].upvalues)
                         /\ u.slot = comps[m - 1].upvalues[u.index + 1].slot
    BY <2>1 DEF UpvaluesIn
  <2> HIDE DEF u
  <2>3. u.slot[1] \in 1..(m - 1)
    BY <2>2
  <2>4. m - 1 \in 1..Len(comps) /\ u.slot[1] \in 1..(Len(comps) - 1)
    BY <1>1, <2>1, <2>3
  <2>5. new[m - 1].upvalues = comps[m - 1].upvalues /\ IsCaptured(new, u.slot[1], u.slot[2])
    BY <2>2, <2>4
  <2> QED BY <2>1, <2>2, <2>5
<1> QED BY <1>2 DEF UpvaluesIn

\* The current Compiler is replaced by another one.
LEMMA TopStep ==
  ASSUME TablesOK, CallsOK, Now.level > 0, NEW c, IsComp(c), c.type = Current.type,
         c.upvalues = Current.upvalues, compilers' = Replaced(compilers, Len(compilers), c),
         hadError' \in BOOLEAN, hadError => hadError'
  PROVE  /\ CompsOK(compilers') /\ Stays(Now, Now') /\ Now'.top = Outline(c)
         /\ Now.top = Outline(Current) /\ Now'.err = hadError' /\ Now'.classes = Len(classes')
         /\ Now.err = hadError /\ Now.classes = Len(classes)
         /\ Len(compilers') = Len(compilers) /\ compilers'[Len(compilers)] = c
         /\ \A k \in 1..(Len(compilers) - 1) : compilers'[k] = compilers[k]
         /\ UpvaluesOK => UpvaluesOK'
         /\ Now'.m = (IF hadError' THEN 0 ELSE Len(env'))
         /\ Now'.env = (IF hadError' THEN <<>> ELSE env')
<1>1. /\ Len(compilers) \in Nat \ {0} /\ CompsOK(compilers) /\ Current = compilers[Len(compilers)]
      /\ hadError \in BOOLEAN
  BY LevelPositive DEF TablesOK
<1> DEFINE s == Now
           new == compilers'
           t == View(hadError', previous', current', new, env', Len(classes'))
<1>2. Now' = t
  BY DEF Now
<1>3. s = View(hadError, previous, current, compilers, env, Len(classes))
  BY DEF Now
<1>4. /\ t.err = hadError' /\ t.classes = Len(classes') /\ t.m = (IF hadError' THEN 0 ELSE Len(env'))
      /\ t.env = (IF hadError' THEN <<>> ELSE env') /\ s.err = hadError /\ s.classes = Len(classes)
  BY <1>3 DEF View
<1> HIDE DEF t, s, new
<1>5. t = View(hadError', previous', current', new, env', Len(classes'))
  BY DEF t
<1>6. new = Replaced(compilers, Len(compilers), c)
  BY DEF new
<1>7. /\ CompsOK(new) /\ Stays(s, t) /\ s.top = Outline(Current) /\ t.top = Outline(c)
      /\ Len(new) = Len(compilers) /\ new[Len(compilers)] = c
      /\ \A k \in 1..(Len(compilers) - 1) : new[k] = compilers[k]
  BY <1>1, <1>3, <1>5, <1>6, TopReplaced
<1>8. UpvaluesIn(compilers) => UpvaluesIn(new)
  <2>1. \A k \in 1..Len(compilers) : new[k].upvalues = compilers[k].upvalues
    BY <1>1, <1>7
  <2>2. \A k \in 1..(Len(compilers) - 1) : \A i :
          IsCaptured(compilers, k, i) => IsCaptured(new, k, i)
    BY <1>7 DEF IsCaptured
  <2> QED BY <1>1, <1>7, <2>1, <2>2, UpvaluesStay
<1> QED BY <1>2, <1>4, <1>7, <1>8 DEF s, new, UpvaluesOK

\* What has been captured is as before, if it is in the current function.
LEMMA CapturesStay ==
  ASSUME CapturesOK, captured' = captured, Len(compilers) \in Nat \ {0},
         Len(compilers') = Len(compilers),
         \A k \in 1..(Len(compilers) - 1) : compilers'[k] = compilers[k],
         \A i : IsCaptured(compilers, Len(compilers), i) => IsCaptured(compilers', Len(compilers), i)
  PROVE  CapturesOK'
<1>1. ASSUME NEW v \in captured
      PROVE  v \in Nat \X Nat /\ IsCaptured(compilers', v[1], v[2])
  <2>1. v \in Nat \X Nat /\ IsCaptured(compilers, v[1], v[2])
    BY DEF CapturesOK
  <2>2. v[1] \in 1..Len(compilers)
    BY <2>1 DEF IsCaptured
  <2>3. CASE v[1] = Len(compilers)
    BY <2>1, <2>3
  <2>4. CASE v[1] # Len(compilers)
    <3>1. v[1] \in 1..(Len(compilers) - 1)
      BY <2>2, <2>4
    <3>2. compilers'[v[1]] = compilers[v[1]]
      BY <3>1
    <3> QED BY <2>1, <2>2, <3>2 DEF IsCaptured
  <2> QED BY <2>3, <2>4
<1> QED BY <1>1 DEF CapturesOK

-----------------------------------------------------------------------------
(* The stack *)

\* Only the height of the stack changes.
LEMMA HeightStep ==
  ASSUME IInv, Now.level > 0, NEW x \in Int,
         compilers' = Replaced(compilers, Len(compilers), WithHeight(Current, x)),
         UNCHANGED <<hadError, panicMode, classes, env, captured, access>>
  PROVE  /\ Good(Now') /\ Expr(Now, Now', x - Now.top.height) /\ Now.top.height \in Int
         /\ TablesOK' /\ UpvaluesOK' /\ CapturesOK' /\ NamesResolve'
<1>1. TablesOK /\ CallsOK /\ UpvaluesOK /\ CapturesOK /\ NamesResolve /\ Good(Now)
  BY DEF IInv, CallsOK
<1>2. /\ Len(compilers) \in Nat \ {0} /\ IsComp(Current) /\ Current = compilers[Len(compilers)]
      /\ Level = Len(compilers)
  BY <1>1, LevelPositive
<1> DEFINE c == WithHeight(Current, x)
<1> HIDE DEF c
<1>4. compilers' = Replaced(compilers, Len(compilers), c)
  BY DEF c
<1>5. /\ IsComp(c) /\ c.type = Current.type /\ c.depth = Current.depth
      /\ c.upvalues = Current.upvalues /\ c.locals = Current.locals /\ c.height = x
  BY <1>2, WithHeightIs DEF c
<1>6. hadError' \in BOOLEAN /\ hadError' = hadError /\ panicMode' = panicMode
      /\ classes' = classes /\ env' = env
  BY <1>1 DEF TablesOK
<1>7. /\ CompsOK(compilers') /\ Stays(Now, Now') /\ Now'.top = Outline(c)
      /\ Now.top = Outline(Current) /\ Now'.err = hadError' /\ Now'.classes = Len(classes')
      /\ Now.err = hadError /\ Now.classes = Len(classes)
      /\ Len(compilers') = Len(compilers) /\ compilers'[Len(compilers)] = c
      /\ \A k \in 1..(Len(compilers) - 1) : compilers'[k] = compilers[k]
      /\ UpvaluesOK'
      /\ Now'.m = (IF hadError' THEN 0 ELSE Len(env'))
      /\ Now'.env = (IF hadError' THEN <<>> ELSE env')
  BY <1>1, <1>4, <1>5, <1>6, TopStep
<1>8. /\ Now'.top.depth = Now.top.depth /\ Now'.top.height = x /\ Now'.top.n = Now.top.n
      /\ Now'.top.locals = Now.top.locals /\ Now'.top.type = Now.top.type
  BY <1>5, <1>7 DEF Outline
<1>9. ~hadError => Now'.m = Now.m /\ Now'.env = Now.env
  BY <1>1, <1>6, <1>7, NowIs
<1>10. Now.top.height \in Int
  BY <1>1, GoodTypes
<1>11. Expr(Now, Now', x - Now.top.height)
  BY <1>6, <1>7, <1>8, <1>9, <1>10 DEF Expr, SameLocals, SameEnv
<1>12. Now'.m \in Nat /\ Now'.env = [e \in 1..Now'.m |-> Now'.env[e]]
  <2>1. ~hadError' => IsSeq(env')
    BY <1>1, <1>6 DEF TablesOK
  <2> QED BY <1>6, <1>7, <2>1, EnvIsList
<1>13. Good(Now')
  <2>1. Now'.err \in BOOLEAN /\ Now'.top.height \in Int
    BY <1>6, <1>7, <1>8
  <2> QED BY <1>1, <1>11, <1>12, <2>1, ExprGood
<1>14. TablesOK'
  BY <1>1, <1>6, <1>7 DEF TablesOK
<1>15. CapturesOK'
  <2>1. \A i : IsCaptured(compilers, Len(compilers), i) => IsCaptured(compilers', Len(compilers), i)
    BY <1>2, <1>5, <1>7 DEF IsCaptured
  <2> QED BY <1>1, <1>2, <1>7, <2>1, CapturesStay
<1>16. NamesResolve'
  BY <1>1, <1>6 DEF NamesResolve
<1> QED BY <1>7, <1>10, <1>11, <1>13, <1>14, <1>15, <1>16

\* emitByte and its kin.
LEMMA EmitStep ==
  ASSUME IInv, DoEmit PROVE IInv'
<1>1. TablesOK /\ CallsOK /\ Doing("emit") /\ Become(<<>>)
  BY DEF IInv, DoEmit
<1>2. /\ UNCHANGED <<hadError, panicMode, classes, env, captured, access>>
      /\ compilers' = [compilers EXCEPT ![Level].height = compilers[Level].height + Arg]
  BY DEF DoEmit, parser, ghosts
<1>3. /\ todo # <<>> /\ Head(todo)[1] = "emit" /\ Good(Now) /\ Pre(Head(todo), Now)
  BY <1>1, NextCall
<1>4. Now.level > 0 /\ Head(todo)[2] \in Int
  BY <1>3, AtEmit
<1>5. compilers[Level].height = Now.top.height /\ Now.top.height \in Int /\ Arg = Head(todo)[2]
  BY <1>1, <1>3, <1>4, NowIs, GoodTypes DEF H, Current, Arg
<1> DEFINE x == compilers[Level].height + Arg
<1>6. x \in Int /\ x - Now.top.height = Head(todo)[2]
  BY <1>4, <1>5
<1> HIDE DEF x
<1>7. /\ Good(Now') /\ Expr(Now, Now', x - Now.top.height) /\ TablesOK' /\ UpvaluesOK'
      /\ CapturesOK' /\ NamesResolve'
  <2>1. compilers' = Replaced(compilers, Len(compilers), WithHeight(Current, x))
    BY <1>2 DEF x, Replaced, WithHeight, Current, Level
  <2> QED BY <1>2, <1>4, <1>6, <2>1, HeightStep
<1>8. Rel(Head(todo), Now, Now')
  BY <1>3, <1>6, <1>7, AtEmit, ExprKeeps
<1>9. CallsOK'
  BY <1>1, <1>3, <1>7, <1>8, CallsGo, FulfilsNone
<1> QED BY <1>7, <1>9 DEF IInv

\* patchJump behind an unconditional jump,
LEMMA LandStep ==
  ASSUME IInv, Land PROVE IInv'
<1>1. TablesOK /\ CallsOK /\ Doing("land") /\ Become(<<>>)
  BY DEF IInv, Land
<1>2. /\ UNCHANGED <<hadError, panicMode, classes, env, captured, access>>
      /\ compilers' = [compilers EXCEPT ![Level].height = Arg]
  BY DEF Land, parser, ghosts
<1>3. /\ todo # <<>> /\ Head(todo)[1] = "land" /\ Good(Now) /\ Pre(Head(todo), Now)
  BY <1>1, NextCall
<1>4. Now.level > 0 /\ Head(todo)[2] \in Int /\ Arg = Head(todo)[2] /\ Arg \in Int
  BY <1>3, AtLand DEF Arg
<1>8. compilers' = Replaced(compilers, Len(compilers), WithHeight(Current, Arg))
  BY <1>2 DEF Replaced, WithHeight, Current, Level
<1>5. /\ Good(Now') /\ Expr(Now, Now', Arg - Now.top.height) /\ TablesOK' /\ UpvaluesOK'
      /\ CapturesOK' /\ NamesResolve'
  BY <1>2, <1>4, <1>8, HeightStep
<1>6. Rel(Head(todo), Now, Now')
  BY <1>3, <1>4, <1>5, AtLand, ExprKeeps
<1>7. CallsOK'
  BY <1>1, <1>3, <1>5, <1>6, CallsGo, FulfilsNone
<1> QED BY <1>5, <1>7 DEF IInv

\* and where two paths come together.
LEMMA MeetStep ==
  ASSUME IInv, Meet PROVE IInv'
<1>1. TablesOK /\ CallsOK /\ Doing("meet") /\ Become(<<>>)
  BY DEF IInv, Meet
<1>2. /\ UNCHANGED <<hadError, panicMode, classes, env, captured, access>>
      /\ compilers' = [compilers EXCEPT ![Level].height =
                         IF compilers[Level].height = Arg THEN compilers[Level].height ELSE Clash]
  BY DEF Meet, parser, ghosts
<1>3. /\ todo # <<>> /\ Head(todo)[1] = "meet" /\ Good(Now) /\ Pre(Head(todo), Now)
  BY <1>1, NextCall
<1>4. /\ Now.level > 0 /\ Head(todo)[2] \in Int /\ Arg = Head(todo)[2] /\ Arg \in Int
      /\ ~Now.err => Now.top.height = Arg
  BY <1>3, AtMeet DEF Arg
<1>5. compilers[Level].height = Now.top.height /\ Now.top.height \in Int /\ Now.err = hadError
  BY <1>1, <1>3, <1>4, NowIs, GoodTypes DEF H, Current
<1> DEFINE x == IF compilers[Level].height = Arg THEN compilers[Level].height ELSE Clash
<1>6. x \in Int /\ (~Now.err => x - Now.top.height = 0)
  BY <1>4, <1>5 DEF Clash
<1>7. compilers' = Replaced(compilers, Len(compilers), WithHeight(Current, x))
  BY <1>2 DEF Replaced, WithHeight, Current, Level
<1> HIDE DEF x
<1>8. /\ Good(Now') /\ Expr(Now, Now', x - Now.top.height) /\ TablesOK' /\ UpvaluesOK'
      /\ CapturesOK' /\ NamesResolve'
  BY <1>2, <1>4, <1>6, <1>7, HeightStep
<1>9. Expr(Now, Now', 0)
  <2>1. ~Now'.err => ~Now.err
    BY <1>8 DEF Expr, Stays
  <2> QED BY <1>6, <1>8, <2>1 DEF Expr
<1>10. Rel(Head(todo), Now, Now')
  BY <1>3, <1>8, <1>9, AtMeet, ExprKeeps
<1>11. CallsOK'
  BY <1>1, <1>3, <1>8, <1>10, CallsGo, FulfilsNone
<1> QED BY <1>8, <1>11 DEF IInv

-----------------------------------------------------------------------------
(* The variables in scope *)

\* What EnvOK says, one variable and one local at a time.
EnvHas(s, v) ==
  LET c == CompAt(s, v.slot[1])
      i == v.slot[2] + 1
  IN /\ v.slot \in (1..s.level) \X Nat
     /\ i \in 1..c.n /\ InScope(c, i) /\ c.locals[i].name = v.name
EnvSees(s, k, i) == \E e \in 1..s.m : s.env[e].slot = <<k, i - 1>>
EnvSorted(s) == \A e, f \in 1..s.m : e < f => Before(s.env[e].slot, s.env[f].slot)

\* The variables in scope, in these terms.
LEMMA EnvParts ==
  ASSUME NEW s
  PROVE  EnvOK(s) <=>
           /\ \A e \in 1..s.m : EnvHas(s, s.env[e])
           /\ \A k \in 1..s.level : \A i \in 1..CompAt(s, k).n :
                InScope(CompAt(s, k), i) => EnvSees(s, k, i)
           /\ EnvSorted(s)
BY DEF EnvOK, EnvHas, EnvSees, EnvSorted

\* The innermost scope ends.
LEMMA EnvCut ==
  ASSUME NEW s, NEW t, EnvOK(s), s.level \in Nat, s.level > 0, s.m \in Nat, s.top.depth \in Nat,
         t.level = s.level, t.outer = s.outer,
         t.top.type = s.top.type, t.top.n = s.top.n, t.top.locals = s.top.locals,
         t.top.depth = s.top.depth - 1,
         NEW a, ~s.err, ScopeSplit(s, a), t.m = a, \A e \in 1..a : t.env[e] = s.env[e]
  PROVE  EnvOK(t)
<1>1. /\ \A e \in 1..s.m : EnvHas(s, s.env[e])
      /\ \A k \in 1..s.level : \A i \in 1..CompAt(s, k).n :
           InScope(CompAt(s, k), i) => EnvSees(s, k, i)
      /\ EnvSorted(s)
  BY EnvParts
<1>2. /\ a \in 0..s.m
      /\ \A e \in 1..s.m : e <= a <=> \/ s.env[e].slot[1] < s.level
                                      \/ s.top.locals[s.env[e].slot[2] + 1].depth < s.top.depth
  BY DEF ScopeSplit
<1>3. ASSUME NEW e \in 1..t.m PROVE EnvHas(t, t.env[e])
  <2> DEFINE v == s.env[e]
             k == v.slot[1]
             i == v.slot[2] + 1
  <2>1. e \in 1..s.m /\ t.env[e] = v /\ e <= a
    BY <1>2
  <2>2. /\ v.slot \in (1..s.level) \X Nat /\ i \in 1..CompAt(s, k).n
        /\ InScope(CompAt(s, k), i) /\ CompAt(s, k).locals[i].name = v.name
    BY <1>1, <2>1 DEF EnvHas
  <2>3. k < s.level \/ s.top.locals[i].depth < s.top.depth
    BY <1>2, <2>1
  <2> HIDE DEF v
  <2>4. CASE k = s.level
    <3>1. CompAt(s, k) = s.top /\ CompAt(t, k) = t.top
      BY <2>4 DEF CompAt
    <3>2. s.top.locals[i].depth < s.top.depth
      BY <2>2, <2>3, <2>4
    <3>3. InScope(t.top, i)
      BY <2>2, <3>1, <3>2 DEF InScope
    <3> QED BY <2>1, <2>2, <3>1, <3>3 DEF EnvHas
  <2>5. CASE k # s.level
    <3>1. CompAt(t, k) = CompAt(s, k)
      BY <2>5 DEF CompAt
    <3> QED BY <2>1, <2>2, <3>1 DEF EnvHas
  <2> QED BY <2>4, <2>5
<1>4. ASSUME NEW k \in 1..t.level, NEW i \in 1..CompAt(t, k).n, InScope(CompAt(t, k), i)
      PROVE  EnvSees(t, k, i)
  <2>1. /\ i \in 1..CompAt(s, k).n /\ InScope(CompAt(s, k), i)
        /\ k < s.level \/ s.top.locals[i].depth < s.top.depth
    BY <1>4 DEF CompAt, InScope
  <2>2. PICK e \in 1..s.m : s.env[e].slot = <<k, i - 1>>
    BY <1>1, <2>1 DEF EnvSees
  <2>3. s.env[e].slot[1] = k /\ s.env[e].slot[2] + 1 = i
    BY <2>1, <2>2
  <2>4. e <= a
    BY <1>2, <2>1, <2>3
  <2>5. e \in 1..t.m /\ t.env[e] = s.env[e]
    BY <1>2, <2>4
  <2> QED BY <2>2, <2>5 DEF EnvSees
<1>5. EnvSorted(t)
  BY <1>1, <1>2 DEF EnvSorted
<1> QED BY <1>3, <1>4, <1>5, EnvParts

\* A variable enters its scope: the local declared last.
LEMMA EnvGrows ==
  ASSUME NEW s, NEW t, EnvOK(s), s.level \in Nat, s.level > 0, s.m \in Nat, s.top.depth \in Nat,
         s.top.n \in Nat, s.top.n > 1, t.level = s.level, t.outer = s.outer,
         t.top.type = s.top.type, t.top.depth = s.top.depth, t.top.n = s.top.n,
         \A i \in 1..(s.top.n - 1) : t.top.locals[i] = s.top.locals[i],
         t.top.locals[s.top.n].depth = s.top.depth, Unmarked(s),
         t.top.locals[s.top.n].name = s.top.locals[s.top.n].name,
         t.m = s.m + 1, \A e \in 1..s.m : t.env[e] = s.env[e],
         t.env[t.m].slot = <<s.level, s.top.n - 1>>,
         t.env[t.m].name = s.top.locals[s.top.n].name
  PROVE  EnvOK(t)
<1>1. /\ \A e \in 1..s.m : EnvHas(s, s.env[e])
      /\ \A k \in 1..s.level : \A i \in 1..CompAt(s, k).n :
           InScope(CompAt(s, k), i) => EnvSees(s, k, i)
      /\ EnvSorted(s)
  BY EnvParts
<1>2. /\ \A k : k # s.level => CompAt(t, k) = CompAt(s, k)
      /\ CompAt(s, s.level) = s.top /\ CompAt(t, s.level) = t.top
  BY DEF CompAt
<1>3. ~InScope(s.top, s.top.n) /\ InScope(t.top, s.top.n)
  BY DEF InScope, Unmarked
<1>4. \A i \in 1..(s.top.n - 1) : InScope(t.top, i) <=> InScope(s.top, i)
  BY DEF InScope
<1>5. ASSUME NEW e \in 1..s.m
      PROVE  /\ s.env[e].slot \in (1..s.level) \X Nat
             /\ s.env[e].slot[1] = s.level => s.env[e].slot[2] + 1 \in 1..(s.top.n - 1)
  <2>1. EnvHas(s, s.env[e])
    BY <1>1
  <2> DEFINE v == s.env[e]
  <2>2. /\ v.slot \in (1..s.level) \X Nat
        /\ v.slot[1] = s.level => v.slot[2] + 1 \in 1..s.top.n /\ InScope(s.top, v.slot[2] + 1)
    BY <1>2, <2>1 DEF EnvHas
  <2> HIDE DEF v
  <2>3. v.slot[1] = s.level => v.slot[2] + 1 # s.top.n
    BY <1>3, <2>2
  <2>4. v.slot[1] = s.level => v.slot[2] + 1 \in 1..(s.top.n - 1)
    BY <2>2, <2>3
  <2> QED BY <2>2, <2>4 DEF v
<1>6. ASSUME NEW e \in 1..t.m PROVE EnvHas(t, t.env[e])
  <2>1. CASE e = t.m
    <3> DEFINE v == t.env[e]
    <3>1. v.slot = <<s.level, s.top.n - 1>> /\ v.name = t.top.locals[s.top.n].name
      BY <2>1
    <3> HIDE DEF v
    <3>2. v.slot[1] = s.level /\ v.slot[2] + 1 = s.top.n /\ v.slot \in (1..s.level) \X Nat
      BY <3>1
    <3>3. EnvHas(t, v)
      BY <1>2, <1>3, <3>1, <3>2 DEF EnvHas
    <3> QED BY <3>3 DEF v
  <2>2. CASE e # t.m
    <3> DEFINE v == s.env[e]
               k == v.slot[1]
               i == v.slot[2] + 1
    <3>1. e \in 1..s.m /\ t.env[e] = v
      BY <2>2
    <3>2. /\ v.slot \in (1..s.level) \X Nat /\ i \in 1..CompAt(s, k).n
          /\ InScope(CompAt(s, k), i) /\ CompAt(s, k).locals[i].name = v.name
      BY <1>1, <3>1 DEF EnvHas
    <3>3. k = s.level => i \in 1..(s.top.n - 1)
      BY <1>5, <3>1
    <3> HIDE DEF v
    <3>4. CASE k = s.level
      BY <1>2, <1>4, <3>1, <3>2, <3>3, <3>4 DEF EnvHas
    <3>5. CASE k # s.level
      <4>1. CompAt(t, k) = CompAt(s, k)
        BY <1>2, <3>5
      <4> QED BY <3>1, <3>2, <4>1 DEF EnvHas
    <3> QED BY <3>4, <3>5
  <2> QED BY <2>1, <2>2
<1>7. ASSUME NEW k \in 1..t.level, NEW i \in 1..CompAt(t, k).n, InScope(CompAt(t, k), i)
      PROVE  EnvSees(t, k, i)
  <2>1. CASE k = s.level /\ i = s.top.n
    BY <2>1 DEF EnvSees
  <2>2. CASE ~(k = s.level /\ i = s.top.n)
    <3>1. i \in 1..CompAt(s, k).n /\ InScope(CompAt(s, k), i)
      <4>1. CASE k = s.level
        <5>1. i \in 1..(s.top.n - 1)
          BY <1>2, <1>7, <2>2, <4>1
        <5> QED BY <1>2, <1>4, <1>7, <4>1, <5>1
      <4>2. CASE k # s.level
        BY <1>2, <1>7, <4>2
      <4> QED BY <4>1, <4>2
    <3>2. PICK e \in 1..s.m : s.env[e].slot = <<k, i - 1>>
      BY <1>1, <3>1 DEF EnvSees
    <3>3. e \in 1..t.m /\ t.env[e].slot = <<k, i - 1>>
      BY <3>2
    <3> QED BY <3>3 DEF EnvSees
  <2> QED BY <2>1, <2>2
<1>8. ASSUME NEW e \in 1..t.m, NEW f \in 1..t.m, e < f PROVE Before(t.env[e].slot, t.env[f].slot)
  <2>1. e \in 1..s.m /\ t.env[e] = s.env[e]
    BY <1>8
  <2>2. CASE f = t.m
    <3> DEFINE p == s.env[e].slot
               q == t.env[f].slot
    <3>1. p \in (1..s.level) \X Nat /\ (p[1] = s.level => p[2] + 1 \in 1..(s.top.n - 1))
      BY <1>5, <2>1
    <3>2. q = <<s.level, s.top.n - 1>>
      BY <2>2
    <3> HIDE DEF p, q
    <3>3. q[1] = s.level /\ q[2] = s.top.n - 1 /\ p[1] \in 1..s.level /\ p[2] \in Nat
      BY <3>1, <3>2
    <3>4. Before(p, q)
      BY <3>1, <3>3 DEF Before
    <3> QED BY <2>1, <3>4 DEF p, q
  <2>3. CASE f # t.m
    <3>1. f \in 1..s.m /\ t.env[f] = s.env[f]
      BY <2>3
    <3> QED BY <1>1, <1>8, <2>1, <3>1 DEF EnvSorted
  <2> QED BY <2>2, <2>3
<1>9. EnvSorted(t)
  BY <1>8 DEF EnvSorted
<1> QED BY <1>6, <1>7, <1>9, EnvParts

\* A function ends: what is left is in the functions around it.
LEMMA EnvPops ==
  ASSUME NEW s, NEW t, EnvOK(s), s.level \in Nat, s.level > 1, s.m \in Nat,
         t.level = s.level - 1, \A k \in 1..t.level : CompAt(t, k) = CompAt(s, k),
         NEW a, ~s.err, LevelSplit(s, a), t.m = a, \A e \in 1..a : t.env[e] = s.env[e]
  PROVE  EnvOK(t)
<1>1. /\ \A e \in 1..s.m : EnvHas(s, s.env[e])
      /\ \A k \in 1..s.level : \A i \in 1..CompAt(s, k).n :
           InScope(CompAt(s, k), i) => EnvSees(s, k, i)
      /\ EnvSorted(s)
  BY EnvParts
<1>2. a \in 0..s.m /\ \A e \in 1..s.m : e <= a <=> s.env[e].slot[1] < s.level
  BY DEF LevelSplit
<1>3. ASSUME NEW e \in 1..t.m PROVE EnvHas(t, t.env[e])
  <2> DEFINE v == s.env[e]
             k == v.slot[1]
             i == v.slot[2] + 1
  <2>1. e \in 1..s.m /\ t.env[e] = v /\ k < s.level
    BY <1>2
  <2>2. /\ v.slot \in (1..s.level) \X Nat /\ i \in 1..CompAt(s, k).n
        /\ InScope(CompAt(s, k), i) /\ CompAt(s, k).locals[i].name = v.name
    BY <1>1, <2>1 DEF EnvHas
  <2> HIDE DEF v
  <2>3. k \in 1..t.level /\ v.slot \in (1..t.level) \X Nat
    BY <2>1, <2>2
  <2>4. CompAt(t, k) = CompAt(s, k)
    BY <2>3
  <2> QED BY <2>1, <2>2, <2>3, <2>4 DEF EnvHas
<1>4. ASSUME NEW k \in 1..t.level, NEW i \in 1..CompAt(t, k).n, InScope(CompAt(t, k), i)
      PROVE  EnvSees(t, k, i)
  <2>1. k \in 1..s.level /\ i \in 1..CompAt(s, k).n /\ InScope(CompAt(s, k), i) /\ k < s.level
    BY <1>4
  <2>2. PICK e \in 1..s.m : s.env[e].slot = <<k, i - 1>>
    BY <1>1, <2>1 DEF EnvSees
  <2>3. s.env[e].slot[1] = k
    BY <2>2
  <2>4. e <= a
    BY <1>2, <2>1, <2>3
  <2>5. e \in 1..t.m /\ t.env[e] = s.env[e]
    BY <1>2, <2>4
  <2> QED BY <2>2, <2>5 DEF EnvSees
<1>5. EnvSorted(t)
  BY <1>1, <1>2 DEF EnvSorted
<1> QED BY <1>3, <1>4, <1>5, EnvParts

-----------------------------------------------------------------------------
(* Classes and the end of compile *)

\* Only the chain of classes changes.
LEMMA ClassesStep ==
  ASSUME IInv, Now.level > 0, IsSeq(classes'),
         UNCHANGED <<hadError, panicMode, compilers, env, captured, access>>
  PROVE  /\ TablesOK' /\ UpvaluesOK' /\ CapturesOK' /\ NamesResolve' /\ Good(Now')
         /\ Stays(Now, Now') /\ Now'.top = Now.top /\ SameEnv(Now, Now')
         /\ Now'.classes = Len(classes') /\ Now.classes = Len(classes) /\ Len(classes) \in Nat
         /\ Len(classes') \in Nat
<1>1. TablesOK /\ CallsOK /\ UpvaluesOK /\ CapturesOK /\ NamesResolve /\ Good(Now)
  BY DEF IInv, CallsOK
<1>2. /\ hadError' = hadError /\ panicMode' = panicMode /\ compilers' = compilers /\ env' = env
      /\ captured' = captured /\ access' = access
  OBVIOUS
<1>3. TablesOK' /\ UpvaluesOK' /\ CapturesOK' /\ NamesResolve'
  BY <1>1, <1>2 DEF TablesOK, UpvaluesOK, CapturesOK, NamesResolve
<1>4. /\ Now'.err = Now.err /\ Now'.level = Now.level /\ Now'.outer = Now.outer
      /\ Now'.top = Now.top /\ Now'.m = Now.m /\ Now'.env = Now.env
      /\ Now'.classes = Len(classes') /\ Now.classes = Len(classes)
  BY <1>2 DEF Now, View
<1>5. Len(classes) \in Nat /\ Len(classes') \in Nat
  BY <1>1, SeqFacts DEF TablesOK
<1>6. Stays(Now, Now') /\ SameEnv(Now, Now')
  BY <1>4 DEF Stays, SameEnv
<1>7. Good(Now')
  <2>1. /\ Now'.m \in Nat /\ Now'.env = [e \in 1..Now'.m |-> Now'.env[e]] /\ Now'.err \in BOOLEAN
        /\ Now'.level > 0 => CompOK(Now'.top, Now'.top.depth + 1)
        /\ ~Now.err => EnvOK(Now)
    BY <1>1, <1>4 DEF Good
  <2>2. ~Now'.err => EnvOK(Now')
    BY <1>4, <1>6, <2>1, EnvTop
  <2> QED BY <1>1, <1>4, <1>5, <1>6, <2>1, <2>2, GoodStays
<1> QED BY <1>3, <1>4, <1>5, <1>6, <1>7

\* classDeclaration, behind the definition of its name,
LEMMA BeginClassStep ==
  ASSUME IInv, BeginClass PROVE IInv'
<1>1. TablesOK /\ CallsOK /\ Doing("beginClass") /\ Become(<<>>)
  BY DEF IInv, BeginClass
<1>2. UNCHANGED <<hadError, panicMode, compilers, env, captured, access>>
  BY DEF BeginClass, parser, ghosts
<1>3. /\ todo # <<>> /\ Head(todo)[1] = "beginClass" /\ Good(Now) /\ Pre(Head(todo), Now)
  BY <1>1, NextCall
<1>4. Now.level > 0
  BY <1>3, AtBeginClass
<1>5. IsSeq(classes') /\ Len(classes') = Len(classes) + 1
  BY <1>1, AppendFacts DEF BeginClass, TablesOK
<1>6. /\ TablesOK' /\ UpvaluesOK' /\ CapturesOK' /\ NamesResolve' /\ Good(Now')
      /\ Stays(Now, Now') /\ Now'.top = Now.top /\ SameEnv(Now, Now')
      /\ Now'.classes = Len(classes') /\ Now.classes = Len(classes)
  BY <1>2, <1>4, <1>5, ClassesStep
<1>7. Rel(Head(todo), Now, Now')
  <2>1. Classes(Now, Now', 1)
    BY <1>5, <1>6 DEF Classes, SameLocals
  <2> QED BY <1>3, <1>6, <2>1, AtBeginClass DEF Stays
<1>8. CallsOK'
  BY <1>1, <1>3, <1>6, <1>7, CallsGo, FulfilsNone
<1> QED BY <1>6, <1>8 DEF IInv

\* behind the superclass,
LEMMA HasSuperclassStep ==
  ASSUME IInv, HasSuperclass PROVE IInv'
<1>1. TablesOK /\ CallsOK /\ Doing("hasSuperclass") /\ Become(<<>>)
  BY DEF IInv, HasSuperclass
<1>2. UNCHANGED <<hadError, panicMode, compilers, env, captured, access>>
  BY DEF HasSuperclass, parser, ghosts
<1>3. /\ todo # <<>> /\ Head(todo)[1] = "hasSuperclass" /\ Good(Now) /\ Pre(Head(todo), Now)
  BY <1>1, NextCall
<1>4. Now.level > 0 /\ Now.classes > 0
  BY <1>3, AtHasSuperclass
<1>5. IsSeq(classes') /\ Len(classes') = Len(classes)
  <2>1. IsSeq(classes) /\ Len(classes) \in Nat /\ Len(classes) > 0
    BY <1>1, <1>4, NowIs, SeqFacts DEF TablesOK
  <2>2. Len(classes) \in 1..Len(classes)
    BY <2>1
  <2>3. classes' = Replaced(classes, Len(classes), TRUE)
    BY DEF HasSuperclass, Replaced
  <2> QED BY <2>1, <2>2, <2>3, ReplaceFacts
<1>6. /\ TablesOK' /\ UpvaluesOK' /\ CapturesOK' /\ NamesResolve' /\ Good(Now')
      /\ Stays(Now, Now') /\ Now'.top = Now.top /\ SameEnv(Now, Now')
      /\ Now'.classes = Len(classes') /\ Now.classes = Len(classes)
  BY <1>2, <1>4, <1>5, ClassesStep
<1>7. Rel(Head(todo), Now, Now')
  <2>1. Now.top.height \in Int
    BY <1>3, <1>4, GoodTypes
  <2>2. Expr(Now, Now', 0)
    BY <1>5, <1>6, <2>1 DEF Expr, SameLocals
  <2> QED BY <1>3, <1>6, <2>2, AtHasSuperclass DEF Stays
<1>8. CallsOK'
  BY <1>1, <1>3, <1>6, <1>7, CallsGo, FulfilsNone
<1> QED BY <1>6, <1>8 DEF IInv

\* and behind its body.
LEMMA EndClassStep ==
  ASSUME IInv, EndClass PROVE IInv'
<1>1. TablesOK /\ CallsOK /\ Doing("endClass") /\ Become(<<>>)
  BY DEF IInv, EndClass
<1>2. UNCHANGED <<hadError, panicMode, compilers, env, captured, access>>
  BY DEF EndClass, parser, ghosts
<1>3. /\ todo # <<>> /\ Head(todo)[1] = "endClass" /\ Good(Now) /\ Pre(Head(todo), Now)
  BY <1>1, NextCall
<1>4. Now.level > 0 /\ Now.classes > 0
  BY <1>3, AtEndClass
<1>5. IsSeq(classes') /\ Len(classes') = Len(classes) - 1
  <2>1. IsSeq(classes) /\ Len(classes) \in Nat /\ Len(classes) > 0
    BY <1>1, <1>4, NowIs, SeqFacts DEF TablesOK
  <2>2. Len(classes) - 1 \in 0..Len(classes)
    BY <2>1
  <2>3. classes' = SubSeq(classes, 1, Len(classes) - 1)
    BY DEF EndClass
  <2> QED BY <2>1, <2>2, <2>3, CutFacts
<1>6. /\ TablesOK' /\ UpvaluesOK' /\ CapturesOK' /\ NamesResolve' /\ Good(Now')
      /\ Stays(Now, Now') /\ Now'.top = Now.top /\ SameEnv(Now, Now')
      /\ Now'.classes = Len(classes') /\ Now.classes = Len(classes) /\ Len(classes) \in Nat
  BY <1>2, <1>4, <1>5, ClassesStep
<1>7. Rel(Head(todo), Now, Now')
  <2>1. Classes(Now, Now', -1)
    BY <1>5, <1>6 DEF Classes, SameLocals
  <2> QED BY <1>3, <1>6, <2>1, AtEndClass DEF Stays
<1>8. CallsOK'
  BY <1>1, <1>3, <1>6, <1>7, CallsGo, FulfilsNone
<1> QED BY <1>6, <1>8 DEF IInv

\* endCompiler of the script.
LEMMA EndCompileStep ==
  ASSUME IInv, EndCompile PROVE IInv'
<1>1. TablesOK /\ CallsOK /\ Doing("endCompile") /\ Become(<<>>) /\ NamesResolve
  BY DEF IInv, EndCompile
<1>2. /\ UNCHANGED <<hadError, panicMode, classes, env, access>>
      /\ compilers' = <<>> /\ captured' = {}
  BY DEF EndCompile, parser
<1>3. /\ todo # <<>> /\ Head(todo)[1] = "endCompile" /\ Good(Now) /\ Pre(Head(todo), Now)
  BY <1>1, NextCall
<1>4. Now.classes = 0
  BY <1>3, AtEndCompile
<1>5. Len(<<>>) = 0 /\ IsSeq(<<>>)
  BY DEF IsSeq
<1>6. TablesOK' /\ UpvaluesOK' /\ CapturesOK' /\ NamesResolve'
  <2>1. CompsOK(<<>>) /\ UpvaluesIn(<<>>)
    BY <1>5 DEF CompsOK, UpvaluesIn
  <2> QED BY <1>1, <1>2, <2>1 DEF TablesOK, UpvaluesOK, CapturesOK, NamesResolve
<1>7. /\ Now'.level = 0 /\ Now'.err = Now.err /\ Now'.m = Now.m /\ Now'.env = Now.env
      /\ Now'.classes = Now.classes /\ Now'.outer = [k \in 1..(0 - 1) |-> Outline(<<>>[k])]
  BY <1>2, <1>5 DEF Now, View
<1>8. Good(Now')
  <2>1. /\ Now.err \in BOOLEAN /\ Now.m \in Nat /\ Now.env = [e \in 1..Now.m |-> Now.env[e]]
    BY <1>3 DEF Good
  <2>2. Now'.outer = [k \in 1..(Now'.level - 1) |-> Now'.outer[k]]
    BY <1>7
  <2>3. 1..(Now'.level - 1) = {} /\ 2..Now'.level = {}
    BY <1>7
  <2> QED BY <1>4, <1>7, <2>1, <2>2, <2>3 DEF Good
<1>9. Rel(Head(todo), Now, Now')
  BY <1>3, <1>4, <1>7, <1>8, AtEndCompile
<1>10. CallsOK'
  BY <1>1, <1>3, <1>8, <1>9, CallsGo, FulfilsNone
<1> QED BY <1>6, <1>10 DEF IInv

-----------------------------------------------------------------------------
(* Scopes *)

\* What is left to show when the current Compiler has been replaced.
LEMMA TopGood ==
  ASSUME IInv, Now.level > 0, CompsOK(compilers'), Stays(Now, Now'),
         hadError' \in BOOLEAN, panicMode' \in BOOLEAN, panicMode' => hadError',
         hadError => hadError', classes' = classes, access' = access, ~hadError' => IsSeq(env'),
         Now'.err = hadError', Now'.classes = Len(classes'),
         Now'.m = (IF hadError' THEN 0 ELSE Len(env')),
         Now'.env = (IF hadError' THEN <<>> ELSE env'),
         CompOK(Now'.top, Now'.top.depth + 1), ~hadError' => EnvOK(Now')
  PROVE  TablesOK' /\ NamesResolve' /\ Good(Now')
<1>1. TablesOK /\ NamesResolve /\ Good(Now)
  BY DEF IInv, CallsOK
<1>2. TablesOK' /\ NamesResolve'
  BY <1>1 DEF TablesOK, NamesResolve
<1>3. Now'.m \in Nat /\ Now'.env = [e \in 1..Now'.m |-> Now'.env[e]]
  BY EnvIsList
<1>4. Len(classes) \in Nat
  BY <1>1, SeqFacts DEF TablesOK
<1> QED BY <1>1, <1>2, <1>3, <1>4, GoodStays

\* A Compiler's outline is all right at another depth.
LEMMA CompAgain ==
  ASSUME NEW c, NEW d, CompOK(c, d), NEW e, NEW x, e.type = c.type, e.n = c.n,
         e.locals = c.locals, e.height = c.height, e.depth \in Nat,
         \A i \in 1..c.n : c.locals[i].depth \in -1..x
  PROVE  CompOK(e, x)
BY DEF CompOK

\* beginScope.
LEMMA BeginScopeStep ==
  ASSUME IInv, BeginScope PROVE IInv'
<1>1. /\ TablesOK /\ CallsOK /\ UpvaluesOK /\ CapturesOK /\ Doing("beginScope") /\ Become(<<>>)
  BY DEF IInv, BeginScope
<1>2. /\ UNCHANGED <<hadError, panicMode, classes, env, captured, access>>
      /\ compilers' = [compilers EXCEPT ![Level].depth = compilers[Level].depth + 1]
  BY DEF BeginScope, parser, ghosts
<1>3. /\ todo # <<>> /\ Head(todo)[1] = "beginScope" /\ Good(Now) /\ Pre(Head(todo), Now)
  BY <1>1, NextCall
<1>4. Now.level > 0 /\ Bounded(Now)
  BY <1>3, AtBeginScope
<1>5. /\ Len(compilers) \in Nat \ {0} /\ IsComp(Current) /\ Current = compilers[Len(compilers)]
  BY <1>1, <1>4, LevelPositive
<1> DEFINE x == Current.depth + 1
           c == WithDepth(Current, x)
<1>6. compilers' = Replaced(compilers, Len(compilers), c)
  BY <1>2 DEF Replaced, WithDepth, Current, Level
<1>7. /\ IsComp(c) /\ c.type = Current.type /\ c.upvalues = Current.upvalues
      /\ c.locals = Current.locals /\ c.height = Current.height /\ c.depth = x
  BY <1>5, WithDepthIs
<1> HIDE DEF c, x
<1>8. /\ hadError' \in BOOLEAN /\ hadError' = hadError /\ panicMode' = panicMode
      /\ classes' = classes /\ env' = env /\ panicMode' \in BOOLEAN /\ (panicMode' => hadError')
      /\ (~hadError' => IsSeq(env'))
  BY <1>1, <1>2 DEF TablesOK
<1>9. /\ CompsOK(compilers') /\ Stays(Now, Now') /\ Now'.top = Outline(c)
      /\ Now.top = Outline(Current) /\ Now'.err = hadError' /\ Now'.classes = Len(classes')
      /\ Now.err = hadError /\ Now.classes = Len(classes)
      /\ Len(compilers') = Len(compilers) /\ compilers'[Len(compilers)] = c
      /\ \A k \in 1..(Len(compilers) - 1) : compilers'[k] = compilers[k]
      /\ UpvaluesOK'
      /\ Now'.m = (IF hadError' THEN 0 ELSE Len(env'))
      /\ Now'.env = (IF hadError' THEN <<>> ELSE env')
  BY <1>1, <1>4, <1>6, <1>7, <1>8, TopStep
<1>10. /\ Now'.top.depth = Now.top.depth + 1 /\ Now'.top.height = Now.top.height
       /\ Now'.top.n = Now.top.n /\ Now'.top.locals = Now.top.locals
       /\ Now'.top.type = Now.top.type
  BY <1>7, <1>9 DEF Outline, x
<1>11. Now.top.depth \in Nat /\ Now.top.n \in Nat
  BY <1>3, <1>4, GoodTypes
<1>12. ~hadError' => SameEnv(Now, Now')
  BY <1>1, <1>8, <1>9, NowIs DEF SameEnv
<1>13. CompOK(Now'.top, Now'.top.depth + 1)
  <2>1. CompOK(Now.top, Now.top.depth + 1)
    BY <1>3, <1>4 DEF Good
  <2>2. /\ \A i \in 1..Now.top.n : Now.top.locals[i].depth \in -1..(Now'.top.depth + 1)
        /\ Now'.top.depth \in Nat
    <3>1. \A i \in 1..Now.top.n : Now.top.locals[i].depth \in -1..(Now.top.depth + 1)
      BY <2>1 DEF CompOK
    <3> QED BY <1>10, <1>11, <3>1
  <2> QED BY <1>10, <2>1, <2>2, CompAgain
<1>14. ASSUME ~hadError' PROVE EnvOK(Now')
  <2>1. EnvOK(Now) /\ Now'.level = Now.level /\ Now'.outer = Now.outer
    BY <1>3, <1>4, <1>8, <1>9, <1>14 DEF Good, Stays
  <2>2. \A i \in 1..Now.top.n : InScope(Now'.top, i) <=> InScope(Now.top, i)
    BY <1>4, <1>10, <1>11 DEF InScope, Bounded, BoundedBy
  <2> QED BY <1>10, <1>12, <1>14, <2>1, <2>2, EnvTop
<1>15. TablesOK' /\ NamesResolve' /\ Good(Now')
  <2>1. access' = access
    BY <1>2
  <2> QED BY <1>4, <1>8, <1>9, <1>13, <1>14, <2>1, TopGood
<1>16. CapturesOK'
  <2>1. \A i : IsCaptured(compilers, Len(compilers), i) => IsCaptured(compilers', Len(compilers), i)
    BY <1>5, <1>7, <1>9 DEF IsCaptured
  <2>2. captured' = captured
    BY <1>2
  <2> QED BY <1>1, <1>5, <1>9, <2>1, <2>2, CapturesStay
<1>17. Rel(Head(todo), Now, Now')
  <2>1. Now'.classes = Now.classes /\ SameLocals(Now, Now') /\ (Now.err => Now'.err)
    BY <1>8, <1>9, <1>10 DEF SameLocals
  <2> QED BY <1>3, <1>9, <1>10, <1>12, <1>15, <2>1, AtBeginScope
<1>18. CallsOK'
  BY <1>1, <1>3, <1>15, <1>17, CallsGo, FulfilsNone
<1> QED BY <1>9, <1>15, <1>16, <1>18 DEF IInv

\* endScope, up to its loop.
LEMMA EndScopeStep ==
  ASSUME IInv, EndScope PROVE IInv'
<1>1. /\ TablesOK /\ CallsOK /\ UpvaluesOK /\ CapturesOK /\ Doing("endScope")
      /\ Become(<<Call("dropLocals")>>)
  BY DEF IInv, EndScope
<1>2. /\ UNCHANGED <<hadError, panicMode, classes, captured, access>>
      /\ env' = SubSeq(env, 1, Arg)
      /\ compilers' = [compilers EXCEPT ![Level].depth = compilers[Level].depth - 1]
  BY DEF EndScope, parser, ghosts
<1>3. /\ todo # <<>> /\ Head(todo)[1] = "endScope" /\ Good(Now) /\ Pre(Head(todo), Now)
  BY <1>1, NextCall
<1>4. /\ Now.level > 0 /\ Now.top.depth > 0 /\ Tidy(Now) /\ Bounded(Now)
      /\ ScopeSplit(Now, Arg) /\ Arg = Head(todo)[2]
  BY <1>3, AtEndScope, TidyBounded DEF Arg
<1>5. /\ Len(compilers) \in Nat \ {0} /\ IsComp(Current) /\ Current = compilers[Len(compilers)]
  BY <1>1, <1>4, LevelPositive
<1> DEFINE x == Current.depth - 1
           c == WithDepth(Current, x)
<1>6. compilers' = Replaced(compilers, Len(compilers), c)
  BY <1>2 DEF Replaced, WithDepth, Current, Level
<1>7. /\ IsComp(c) /\ c.type = Current.type /\ c.upvalues = Current.upvalues
      /\ c.locals = Current.locals /\ c.height = Current.height /\ c.depth = x
  BY <1>5, WithDepthIs
<1> HIDE DEF c, x
<1>8. /\ hadError' \in BOOLEAN /\ hadError' = hadError /\ panicMode' = panicMode
      /\ classes' = classes /\ panicMode' \in BOOLEAN /\ (panicMode' => hadError')
  BY <1>1, <1>2 DEF TablesOK
<1>9. /\ CompsOK(compilers') /\ Stays(Now, Now') /\ Now'.top = Outline(c)
      /\ Now.top = Outline(Current) /\ Now'.err = hadError' /\ Now'.classes = Len(classes')
      /\ Now.err = hadError /\ Now.classes = Len(classes)
      /\ Len(compilers') = Len(compilers) /\ compilers'[Len(compilers)] = c
      /\ \A k \in 1..(Len(compilers) - 1) : compilers'[k] = compilers[k]
      /\ UpvaluesOK'
      /\ Now'.m = (IF hadError' THEN 0 ELSE Len(env'))
      /\ Now'.env = (IF hadError' THEN <<>> ELSE env')
  BY <1>1, <1>4, <1>6, <1>7, <1>8, TopStep
<1>10. /\ Now'.top.depth = Now.top.depth - 1 /\ Now'.top.height = Now.top.height
       /\ Now'.top.n = Now.top.n /\ Now'.top.locals = Now.top.locals
       /\ Now'.top.type = Now.top.type
  BY <1>7, <1>9 DEF Outline, x
<1>11. Now.top.depth \in Nat /\ Now.top.n \in Nat
  BY <1>3, <1>4, GoodTypes
<1>12. ~hadError' => /\ IsSeq(env') /\ Now'.m = Arg /\ Arg \in 0..Now.m
                     /\ \A e \in 1..Arg : Now'.env[e] = Now.env[e]
  <2>1. SUFFICES ASSUME ~hadError'
                 PROVE  /\ IsSeq(env') /\ Now'.m = Arg /\ Arg \in 0..Now.m
                        /\ \A e \in 1..Arg : Now'.env[e] = Now.env[e]
    OBVIOUS
  <2>2. IsSeq(env) /\ Now.m = Len(env) /\ Now.env = env /\ ~Now.err
    BY <1>1, <1>8, <1>9, <2>1, NowIs DEF TablesOK
  <2>3. Arg \in 0..Len(env)
    BY <1>4, <2>2 DEF ScopeSplit
  <2>4. /\ IsSeq(SubSeq(env, 1, Arg)) /\ Len(SubSeq(env, 1, Arg)) = Arg
        /\ \A e \in 1..Arg : SubSeq(env, 1, Arg)[e] = env[e]
    BY <2>2, <2>3, CutFacts
  <2> QED BY <1>2, <1>9, <2>1, <2>2, <2>3, <2>4
<1>13. CompOK(Now'.top, Now'.top.depth + 1)
  <2>1. CompOK(Now.top, Now.top.depth + 1)
    BY <1>3, <1>4 DEF Good
  <2>2. /\ \A i \in 1..Now.top.n : Now.top.locals[i].depth \in -1..(Now'.top.depth + 1)
        /\ Now'.top.depth \in Nat
    <3>1. \A i \in 1..Now.top.n : Now.top.locals[i].depth \in -1..(Now.top.depth + 1)
      BY <2>1 DEF CompOK
    <3>2. \A i \in 1..Now.top.n : Now.top.locals[i].depth <= Now.top.depth
      BY <1>4 DEF Bounded, BoundedBy
    <3> QED BY <1>4, <1>10, <1>11, <3>1, <3>2
  <2> QED BY <1>10, <2>1, <2>2, CompAgain
<1>14. ASSUME ~hadError' PROVE EnvOK(Now')
  <2>1. /\ EnvOK(Now) /\ Now'.level = Now.level /\ Now'.outer = Now.outer /\ ~Now.err
        /\ Now.level \in Nat /\ Now.m \in Nat
    BY <1>3, <1>4, <1>8, <1>9, <1>14 DEF Good, Stays
  <2> QED BY <1>4, <1>10, <1>11, <1>12, <1>14, <2>1, EnvCut
<1>15. TablesOK' /\ NamesResolve' /\ Good(Now')
  <2>1. access' = access
    BY <1>2
  <2> QED BY <1>4, <1>8, <1>9, <1>12, <1>13, <1>14, <2>1, TopGood
<1>16. CapturesOK'
  <2>1. \A i : IsCaptured(compilers, Len(compilers), i) => IsCaptured(compilers', Len(compilers), i)
    BY <1>5, <1>7, <1>9 DEF IsCaptured
  <2>2. captured' = captured
    BY <1>2
  <2> QED BY <1>1, <1>5, <1>9, <2>1, <2>2, CapturesStay
<1>17. Fulfils(<<Call("dropLocals")>>, Now', Head(todo), Now)
  <2>1. Now'.level > 0 /\ Now'.level = Now.level
    BY <1>4, <1>9 DEF Stays
  <2>2. TidyTo(Now'.top.n, Now'.top.locals, Now'.top.depth + 1)
    <3>1. Now'.top.depth + 1 = Now.top.depth
      BY <1>10, <1>11
    <3> QED BY <1>4, <1>10, <3>1 DEF Tidy
  <2>3. Pre(Call("dropLocals"), Now')
    BY <2>1, <2>2, CanDropLocals
  <2>4. ASSUME NEW u, Rel(Call("dropLocals"), Now', u) PROVE Fulfils(<<>>, u, Head(todo), Now)
    <3>1. /\ Good(u) /\ (Now'.err => u.err) /\ Stays(Now', u) /\ u.top.depth = Now'.top.depth
          /\ u.classes = Now'.classes /\ Tidy(u)
          /\ ~u.err => Dropped(Now', u, Now'.top.depth) /\ SameEnv(Now', u)
      BY <2>4, OfDropLocals
    <3>2. Stays(Now, u) /\ (Now.err => u.err)
      BY <1>9, <3>1 DEF Stays
    <3>3. ASSUME ~u.err
          PROVE  /\ Dropped(Now, u, Now.top.depth - 1)
                 /\ u.m = Arg /\ \A e \in 1..u.m : u.env[e] = Now.env[e]
      <4>1. ~hadError'
        BY <1>9, <3>1, <3>3
      <4>2. Dropped(Now, u, Now.top.depth - 1)
        BY <1>10, <3>1, <3>3 DEF Dropped
      <4> QED BY <1>12, <3>1, <3>3, <4>1, <4>2 DEF SameEnv
    <3>4. u.top.depth = Now.top.depth - 1 /\ u.classes = Now.classes
      BY <1>8, <1>9, <1>10, <3>1
    <3>5. Rel(Head(todo), Now, u)
      BY <1>3, <1>4, <3>1, <3>2, <3>3, <3>4, AtEndScope
    <3> QED BY <3>5, FulfilsNone
  <2> QED BY <2>3, <2>4, Step1
<1>18. CallsOK'
  BY <1>1, <1>3, <1>15, <1>17, CallsGo
<1> QED BY <1>9, <1>15, <1>16, <1>18 DEF IInv

\* What the contracts see of a Compiler, part by part.
LEMMA OutlineParts ==
  ASSUME NEW c, IsComp(c), NEW o, o = Outline(c)
  PROVE  /\ o.type = c.type /\ o.depth = c.depth /\ o.height = c.height
         /\ o.n = Len(c.locals) /\ o.n \in Nat /\ IsSeq(c.locals)
         /\ \A i \in 1..Len(c.locals) : /\ o.locals[i].name = c.locals[i].name
                                        /\ o.locals[i].depth = c.locals[i].depth
<1>1. IsSeq(c.locals)
  BY DEF IsComp
<1> QED BY <1>1, OutlineIs

\* The locals that the contracts see are a list.
LEMMA OutlineList ==
  ASSUME NEW c, IsComp(c), NEW o, o = Outline(c)
  PROVE  o.locals = [i \in 1..o.n |-> o.locals[i]]
<1>1. IsSeq(c.locals)
  BY DEF IsComp
<1> QED BY <1>1, OutlineIs

\* The current Compiler.
LEMMA TopIs ==
  ASSUME TablesOK, Now.level > 0
  PROVE  /\ IsComp(Current) /\ Now.top = Outline(Current) /\ IsSeq(Current.locals)
         /\ Now.top.type = Current.type /\ Now.top.depth = Current.depth
         /\ Now.top.height = Current.height
         /\ Now.top.n = Len(Current.locals) /\ Now.top.n \in Nat
         /\ \A i \in 1..Len(Current.locals) : /\ Now.top.locals[i].name = Current.locals[i].name
                                              /\ Now.top.locals[i].depth = Current.locals[i].depth
<1>1. IsComp(Current)
  BY LevelPositive
<1>2. Now.top = Outline(Current)
  BY NowIs
<1> QED BY <1>1, <1>2, OutlineParts

\* A Compiler without its last local.
Shorter(c) == WithHeight(WithLocals(c, SubSeq(c.locals, 1, Len(c.locals) - 1)), c.height - 1)

\* It is a Compiler, with the other locals as they were.
LEMMA ShorterIs ==
  ASSUME NEW c, IsComp(c), Len(c.locals) > 0
  PROVE  LET e == Shorter(c) IN
           /\ IsComp(e) /\ e.type = c.type /\ e.depth = c.depth /\ e.upvalues = c.upvalues
           /\ e.height = c.height - 1 /\ IsSeq(e.locals) /\ Len(e.locals) = Len(c.locals) - 1
           /\ \A i \in 1..(Len(c.locals) - 1) : e.locals[i] = c.locals[i]
<1> DEFINE n == Len(c.locals) - 1
           l == SubSeq(c.locals, 1, n)
           b == WithLocals(c, l)
<1>1. IsSeq(c.locals) /\ \A i \in 1..Len(c.locals) : IsLocal(c.locals[i])
  BY DEF IsComp
<1>2. n \in 0..Len(c.locals) /\ Len(c.locals) \in Nat
  BY <1>1, SeqFacts
<1>3. IsSeq(l) /\ Len(l) = n /\ \A i \in 1..n : l[i] = c.locals[i]
  BY <1>1, <1>2, CutFacts
<1>4. \A i \in 1..Len(l) : IsLocal(l[i])
  BY <1>1, <1>2, <1>3
<1> HIDE DEF l
<1>5. /\ IsComp(b) /\ b.locals = l /\ b.type = c.type /\ b.depth = c.depth
      /\ b.upvalues = c.upvalues
  BY <1>3, <1>4, WithLocalsIs
<1> HIDE DEF b
<1> DEFINE e == WithHeight(b, c.height - 1)
<1>6. /\ IsComp(e) /\ e.locals = b.locals /\ e.type = b.type /\ e.depth = b.depth
      /\ e.upvalues = b.upvalues /\ e.height = c.height - 1
  BY <1>5, WithHeightIs
<1>7. Shorter(c) = e
  BY DEF Shorter, l, b
<1> HIDE DEF e
<1> QED BY <1>3, <1>5, <1>6, <1>7

\* endScope's loop: one local less,
LEMMA DropLocalStep ==
  ASSUME IInv, DropLocal PROVE IInv'
<1>1. /\ TablesOK /\ CallsOK /\ UpvaluesOK /\ CapturesOK /\ Doing("dropLocals")
      /\ OutOfScope(Current)
  BY DEF IInv, DropLocal
<1> DEFINE n == Len(Current.locals)
           d == Current.depth
           c == Shorter(Current)
<1>2. /\ UNCHANGED <<hadError, panicMode, todo, classes, env, access>>
      /\ captured' = IF Current.locals[n].isCaptured THEN captured \ {<<Level, n - 1>>}
                     ELSE captured
  BY DEF DropLocal, parser
<1>3. /\ todo # <<>> /\ Head(todo)[1] = "dropLocals" /\ Good(Now) /\ Pre(Head(todo), Now)
  BY <1>1, NextCall
<1>4. Now.level > 0 /\ TidyTo(Now.top.n, Now.top.locals, Now.top.depth + 1)
  BY <1>3, AtDropLocals
<1>5. /\ Len(compilers) \in Nat \ {0} /\ IsComp(Current) /\ Current = compilers[Len(compilers)]
      /\ Level = Len(compilers)
  BY <1>1, <1>4, LevelPositive
<1>6. /\ Now.top = Outline(Current) /\ IsSeq(Current.locals)
      /\ Now.top.n = n /\ Now.top.depth = d /\ Now.top.height = Current.height
      /\ \A i \in 1..n : /\ Now.top.locals[i].name = Current.locals[i].name
                         /\ Now.top.locals[i].depth = Current.locals[i].depth
  BY <1>1, <1>4, TopIs
<1>7. n \in Nat /\ n > 1 /\ d \in Nat /\ Now.top.height \in Int
      /\ Now.top.locals[n].depth > d
  <2>1. n \in Nat \ {0} /\ d \in Nat /\ Now.top.height \in Int
    BY <1>3, <1>4, <1>6, GoodTypes
  <2>2. Current.locals[n].depth > d
    BY <1>1 DEF OutOfScope
  <2>3. Now.top.locals[n].depth > d
    BY <1>6, <2>1, <2>2
  <2>4. Now.top.locals[1].depth = 0
    BY <1>4 DEF TidyTo
  <2> QED BY <2>1, <2>3, <2>4
<1>8. compilers' = Replaced(compilers, Len(compilers), c)
  BY <1>5 DEF DropLocal, Replaced, Shorter, WithHeight, WithLocals, Current, Level
<1>9. /\ IsComp(c) /\ c.type = Current.type /\ c.depth = d /\ c.upvalues = Current.upvalues
      /\ c.height = Current.height - 1 /\ IsSeq(c.locals) /\ Len(c.locals) = n - 1
      /\ \A i \in 1..(n - 1) : c.locals[i] = Current.locals[i]
  BY <1>5, <1>7, ShorterIs
<1> HIDE DEF c
<1>10. /\ hadError' \in BOOLEAN /\ hadError' = hadError /\ panicMode' = panicMode
       /\ classes' = classes /\ env' = env /\ panicMode' \in BOOLEAN /\ (panicMode' => hadError')
       /\ (~hadError' => IsSeq(env')) /\ access' = access
  BY <1>1, <1>2 DEF TablesOK
<1>11. /\ CompsOK(compilers') /\ Stays(Now, Now') /\ Now'.top = Outline(c)
       /\ Now'.err = hadError' /\ Now'.classes = Len(classes')
       /\ Now.err = hadError /\ Now.classes = Len(classes)
       /\ Len(compilers') = Len(compilers) /\ compilers'[Len(compilers)] = c
       /\ \A k \in 1..(Len(compilers) - 1) : compilers'[k] = compilers[k]
       /\ UpvaluesOK'
       /\ Now'.m = (IF hadError' THEN 0 ELSE Len(env'))
       /\ Now'.env = (IF hadError' THEN <<>> ELSE env')
  BY <1>1, <1>4, <1>8, <1>9, <1>10, TopStep
<1>12. /\ Now'.top.type = Now.top.type /\ Now'.top.depth = Now.top.depth
       /\ Now'.top.height = Now.top.height - 1 /\ Now'.top.n = Now.top.n - 1
       /\ \A i \in 1..Now'.top.n : /\ Now'.top.locals[i].name = Now.top.locals[i].name
                                   /\ Now'.top.locals[i].depth = Now.top.locals[i].depth
  <2>1. /\ Now'.top.type = c.type /\ Now'.top.depth = c.depth /\ Now'.top.height = c.height
        /\ Now'.top.n = Len(c.locals)
        /\ \A i \in 1..Len(c.locals) : /\ Now'.top.locals[i].name = c.locals[i].name
                                       /\ Now'.top.locals[i].depth = c.locals[i].depth
    BY <1>9, <1>11, OutlineParts
  <2>2. Now.top.type = Current.type
    BY <1>1, NowIs
  <2>3. 1..Now'.top.n = 1..(n - 1) /\ \A i \in 1..(n - 1) : i \in 1..n
    BY <1>7, <1>9, <2>1
  <2>4. ASSUME NEW i \in 1..(n - 1)
        PROVE  /\ Now'.top.locals[i].name = Now.top.locals[i].name
               /\ Now'.top.locals[i].depth = Now.top.locals[i].depth
    <3>1. /\ Now'.top.locals[i].name = c.locals[i].name
          /\ Now'.top.locals[i].depth = c.locals[i].depth
      BY <1>9, <2>1
    <3>2. c.locals[i] = Current.locals[i]
      BY <1>9
    <3>3. /\ Now.top.locals[i].name = Current.locals[i].name
          /\ Now.top.locals[i].depth = Current.locals[i].depth
      BY <1>6, <2>3
    <3> QED BY <3>1, <3>2, <3>3
  <2>5. /\ Now'.top.height = Now.top.height - 1 /\ Now'.top.n = Now.top.n - 1
        /\ Now'.top.type = Now.top.type /\ Now'.top.depth = Now.top.depth
    BY <1>6, <1>9, <2>1, <2>2
  <2> QED BY <2>3, <2>4, <2>5
<1>13. \A i \in 1..Now'.top.n : Now'.top.locals[i] = Now.top.locals[i]
  BY <1>6, <1>7, <1>9, <1>11 DEF Outline
<1>14. ~hadError' => SameEnv(Now, Now')
  BY <1>1, <1>10, <1>11, NowIs DEF SameEnv
<1>15. CompOK(Now'.top, Now'.top.depth + 1)
  <2>1. CompOK(Now.top, Now.top.depth + 1)
    BY <1>3, <1>4 DEF Good
  <2>2. Now'.top.n \in 1..MaxLocals /\ Now'.top.height \in Int /\ 1 \in 1..Now'.top.n
    <3>1. Now.top.n \in 1..MaxLocals
      BY <2>1 DEF CompOK
    <3> QED BY <1>6, <1>7, <1>12, <3>1, CompilerAssumption
  <2>3. \A i \in 1..Now'.top.n : Now'.top.locals[i].depth \in -1..(Now'.top.depth + 1)
    <3>1. \A i \in 1..Now.top.n : Now.top.locals[i].depth \in -1..(Now.top.depth + 1)
      BY <2>1 DEF CompOK
    <3>2. \A i \in 1..Now'.top.n : i \in 1..Now.top.n
      BY <1>6, <1>7, <1>12
    <3> QED BY <1>12, <3>1, <3>2
  <2>4. Now'.top.locals = [i \in 1..Now'.top.n |-> Now'.top.locals[i]]
    BY <1>9, <1>11, OutlineList
  <2>5. /\ Now'.top.type \in Types /\ Now'.top.depth \in Nat
        /\ Now'.top.locals[1].name = IF Now'.top.type = "function" THEN NoName ELSE "this"
    BY <1>12, <2>1, <2>2 DEF CompOK
  <2> QED BY <2>2, <2>3, <2>4, <2>5 DEF CompOK
<1>16. ASSUME ~hadError' PROVE EnvOK(Now')
  <2>1. EnvOK(Now) /\ Now'.level = Now.level /\ Now'.outer = Now.outer
    BY <1>3, <1>4, <1>10, <1>11, <1>16 DEF Good, Stays
  <2>2. \A i \in 1..Now'.top.n : InScope(Now'.top, i) <=> InScope(Now.top, i)
    BY <1>12 DEF InScope
  <2>3. ~InScope(Now.top, n)
    BY <1>6, <1>7 DEF InScope
  <2>4. \A i \in 1..Now.top.n : InScope(Now.top, i) => i \in 1..Now'.top.n
    BY <1>6, <1>7, <1>12, <2>3
  <2>5. \A i \in 1..Now'.top.n : i \in 1..Now.top.n
    BY <1>6, <1>7, <1>12
  <2> QED BY <1>12, <1>14, <1>16, <2>1, <2>2, <2>4, <2>5, EnvTop
<1>17. TablesOK' /\ NamesResolve' /\ Good(Now')
  BY <1>4, <1>10, <1>11, <1>15, <1>16, TopGood
<1>18. CapturesOK'
  <2>1. ASSUME NEW v \in captured'
        PROVE  v \in Nat \X Nat /\ IsCaptured(compilers', v[1], v[2])
    <3>1. v \in captured /\ (Current.locals[n].isCaptured => v # <<Level, n - 1>>)
      BY <1>2
    <3>2. v \in Nat \X Nat /\ IsCaptured(compilers, v[1], v[2])
      BY <1>1, <3>1 DEF CapturesOK
    <3>3. /\ v[1] \in 1..Len(compilers) /\ v[2] \in Nat /\ v = <<v[1], v[2]>>
          /\ v[2] < Len(compilers[v[1]].locals) /\ compilers[v[1]].locals[v[2] + 1].isCaptured
      BY <3>2 DEF IsCaptured
    <3>4. CASE v[1] = Len(compilers)
      <4>1. v[2] < n /\ Current.locals[v[2] + 1].isCaptured
        BY <1>5, <3>3, <3>4
      <4>2. v[2] # n - 1
        BY <1>5, <1>7, <3>1, <3>3, <3>4, <4>1
      <4>3. v[2] < n - 1 /\ v[2] + 1 \in 1..(n - 1)
        BY <1>7, <3>3, <4>1, <4>2
      <4> QED BY <1>5, <1>9, <1>11, <3>2, <3>3, <3>4, <4>1, <4>3, SMTT(30) DEF IsCaptured
    <3>5. CASE v[1] # Len(compilers)
      <4>1. v[1] \in 1..(Len(compilers) - 1)
        BY <1>5, <3>3, <3>5
      <4>2. compilers'[v[1]] = compilers[v[1]]
        BY <1>11, <4>1
      <4> QED BY <1>11, <3>2, <3>3, <4>2 DEF IsCaptured
    <3> QED BY <3>4, <3>5
  <2> QED BY <2>1 DEF CapturesOK
<1>19. Fulfils(<<Head(todo)>>, Now', Head(todo), Now)
  <2>1. Pre(Head(todo), Now')
    <3>1. TidyTo(Now'.top.n, Now'.top.locals, Now'.top.depth + 1)
      <4>1. Now'.top.locals[1].depth = 0
        BY <1>4, <1>6, <1>7, <1>12 DEF TidyTo
      <4>2. ASSUME NEW i \in 1..Now'.top.n
            PROVE  /\ Now'.top.locals[i].depth \in 0..(Now'.top.depth + 1)
                   /\ \A j \in 1..i : Now'.top.locals[j].depth <= Now'.top.locals[i].depth
        <5>1. i \in 1..Now.top.n /\ \A j \in 1..i : j \in 1..Now'.top.n
          BY <1>6, <1>7, <1>12
        <5>2. /\ Now.top.locals[i].depth \in 0..(Now.top.depth + 1)
              /\ \A j \in 1..i : Now.top.locals[j].depth <= Now.top.locals[i].depth
          BY <1>4, <5>1 DEF TidyTo
        <5> QED BY <1>12, <5>1, <5>2
      <4> QED BY <4>1, <4>2 DEF TidyTo
    <3>2. Now'.level > 0
      BY <1>4, <1>11 DEF Stays
    <3> QED BY <1>3, <3>1, <3>2, AtDropLocals
  <2>2. ASSUME NEW u, Rel(Head(todo), Now', u) PROVE Rel(Head(todo), Now, u)
    <3>1. /\ Good(u) /\ (Now'.err => u.err) /\ Stays(Now', u) /\ u.top.depth = Now'.top.depth
          /\ u.classes = Now'.classes /\ Tidy(u)
          /\ ~u.err => Dropped(Now', u, Now'.top.depth) /\ SameEnv(Now', u)
      BY <1>3, <2>2, AtDropLocals
    <3>2. Stays(Now, u) /\ (Now.err => u.err) /\ u.top.depth = Now.top.depth
          /\ u.classes = Now.classes
      BY <1>10, <1>11, <1>12, <3>1 DEF Stays
    <3>3. ASSUME ~u.err PROVE Dropped(Now, u, Now.top.depth) /\ SameEnv(Now, u)
      <4>1. ~hadError' /\ SameEnv(Now', u) /\ SameEnv(Now, Now')
        BY <1>11, <1>14, <3>1, <3>3
      <4>2. /\ u.top.n <= Now'.top.n /\ u.top.height - u.top.n = Now'.top.height - Now'.top.n
            /\ \A i \in 1..u.top.n : u.top.locals[i] = Now'.top.locals[i]
            /\ \A i \in (u.top.n + 1)..Now'.top.n : Now'.top.locals[i].depth > Now'.top.depth
        BY <3>1, <3>3 DEF Dropped
      <4>3. u.top.n \in Nat /\ u.top.height \in Int
        <5>1. u.level > 0
          BY <1>4, <3>2 DEF Stays
        <5> QED BY <3>1, <5>1, GoodTypes
      <4>4. u.top.n <= Now.top.n /\ u.top.height - u.top.n = Now.top.height - Now.top.n
        BY <1>6, <1>7, <1>12, <4>2, <4>3
      <4>5. \A i \in 1..u.top.n : u.top.locals[i] = Now.top.locals[i]
        <5>1. \A i \in 1..u.top.n : i \in 1..Now'.top.n
          BY <1>6, <1>7, <1>12, <4>2, <4>3
        <5> QED BY <1>13, <4>2, <5>1
      <4>6. ASSUME NEW i \in (u.top.n + 1)..Now.top.n PROVE Now.top.locals[i].depth > Now.top.depth
        <5>1. CASE i = n
          BY <1>6, <1>7, <5>1
        <5>2. CASE i # n
          <6>1. i \in (u.top.n + 1)..Now'.top.n /\ i \in 1..Now'.top.n
            BY <1>6, <1>7, <1>12, <4>3, <5>2
          <6> QED BY <1>12, <4>2, <6>1
        <5> QED BY <5>1, <5>2
      <4> QED BY <4>1, <4>4, <4>5, <4>6 DEF Dropped, SameEnv
    <3> QED BY <1>3, <3>1, <3>2, <3>3, AtDropLocals
  <2> QED BY <2>1, <2>2, CallAgain
<1>20. CallsOK'
  <2>1. todo' = todo
    BY <1>2
  <2> QED BY <1>1, <1>3, <1>17, <1>19, <2>1, CallsStay
<1> QED BY <1>11, <1>17, <1>18, <1>20 DEF IInv

\* or none that is to go.
LEMMA DropEndStep ==
  ASSUME IInv, DropEnd PROVE IInv'
<1>1. TablesOK /\ CallsOK /\ Doing("dropLocals") /\ ~OutOfScope(Current) /\ Become(<<>>)
  BY DEF IInv, DropEnd
<1>2. /\ hadError' = hadError /\ panicMode' = panicMode
      /\ UNCHANGED <<compilers, classes, env, captured, access>>
      /\ hadError' \in BOOLEAN /\ panicMode' \in BOOLEAN /\ (panicMode' => hadError')
  BY <1>1 DEF DropEnd, parser, ghosts, TablesOK
<1>3. /\ todo # <<>> /\ Head(todo)[1] = "dropLocals" /\ Good(Now) /\ Pre(Head(todo), Now)
  BY <1>1, NextCall
<1>4. Now.level > 0 /\ TidyTo(Now.top.n, Now.top.locals, Now.top.depth + 1)
  BY <1>3, AtDropLocals
<1>5. Good(Now') /\ Expr(Now, Now', 0) /\ Now'.level > 0
  BY <1>1, <1>2, <1>4, TokenStep
<1>6. Tidy(Now)
  <2>1. IsComp(Current) /\ IsSeq(Current.locals)
    BY <1>1, <1>4, LevelPositive DEF IsComp
  <2> DEFINE n == Len(Current.locals)
  <2>2. /\ Now.top.n = n /\ Now.top.depth = Current.depth
        /\ \A i \in 1..n : Now.top.locals[i].depth = Current.locals[i].depth
    BY <1>1, <1>4, TopIs
  <2>3. n \in Nat \ {0} /\ Now.top.depth \in Nat
    BY <1>3, <1>4, <2>2, GoodTypes
  <2>4. ~(Current.locals[n].depth > Current.depth)
    <3>1. Current.locals # <<>>
      BY <2>1, <2>3, SeqFacts
    <3> QED BY <1>1, <3>1 DEF OutOfScope
  <2>5. /\ Now.top.locals[n].depth \in 0..(Now.top.depth + 1)
        /\ \A j \in 1..n : Now.top.locals[j].depth <= Now.top.locals[n].depth
    BY <1>4, <2>2, <2>3 DEF TidyTo
  <2>6. Now.top.locals[n].depth <= Now.top.depth
    <3>1. Now.top.locals[n].depth = Current.locals[n].depth
      BY <2>2, <2>3
    <3> QED BY <2>2, <2>3, <2>4, <2>5, <3>1
  <2> HIDE DEF n
  <2>7. /\ Now.top.locals[1].depth = 0
        /\ \A i \in 1..n : /\ Now.top.locals[i].depth \in 0..(Now.top.depth + 1)
                           /\ \A j \in 1..i : Now.top.locals[j].depth <= Now.top.locals[i].depth
    BY <1>4, <2>2 DEF TidyTo
  <2>8. \A i \in 1..n : Now.top.locals[i].depth \in 0..Now.top.depth
    BY <2>3, <2>5, <2>6, <2>7
  <2> QED BY <2>2, <2>7, <2>8 DEF Tidy, TidyTo
<1>7. Rel(Head(todo), Now, Now')
  <2>1. Tidy(Now') /\ (Now.err => Now'.err) /\ Now'.classes = Now.classes
    BY <1>5, <1>6, ExprKeeps
  <2>2. Now.top.n \in Nat /\ Now.top.height \in Int /\ Now.top.depth \in Nat
    BY <1>3, <1>4, GoodTypes
  <2>3. /\ Stays(Now, Now') /\ Now'.top.depth = Now.top.depth
        /\ Now'.top.n = Now.top.n /\ Now'.top.locals = Now.top.locals
        /\ ~Now'.err => SameEnv(Now, Now') /\ Now'.top.height = Now.top.height
    BY <1>5, <2>2 DEF Expr, SameLocals
  <2>4. ~Now'.err => Dropped(Now, Now', Now.top.depth)
    BY <2>2, <2>3 DEF Dropped
  <2> QED BY <1>3, <1>5, <2>1, <2>3, <2>4, AtDropLocals
<1>8. CallsOK'
  BY <1>1, <1>3, <1>5, <1>7, CallsGo, FulfilsNone
<1> QED BY <1>2, <1>8, RestStays

-----------------------------------------------------------------------------
(* Declarations *)

\* errorAt, where it is one step among others.
LEMMA ErrorIfIs ==
  ASSUME TablesOK, NEW b \in BOOLEAN, ErrorIf(b)
  PROVE  /\ hadError' \in BOOLEAN /\ panicMode' \in BOOLEAN /\ (panicMode' => hadError')
         /\ (hadError => hadError') /\ (b => hadError')
<1>1. hadError \in BOOLEAN /\ panicMode \in BOOLEAN /\ (panicMode => hadError)
  BY DEF TablesOK
<1>2. CASE b
  BY <1>1, <1>2 DEF ErrorIf
<1>3. CASE ~b
  BY <1>1, <1>3 DEF ErrorIf
<1> QED BY <1>2, <1>3

\* A Compiler with one more local.
Longer(c, l) == WithLocals(c, Append(c.locals, l))

\* It is a Compiler, with the locals before as they were.
LEMMA LongerIs ==
  ASSUME NEW c, IsComp(c), NEW l, IsLocal(l)
  PROVE  LET e == Longer(c, l) IN
           /\ IsComp(e) /\ e.type = c.type /\ e.depth = c.depth /\ e.upvalues = c.upvalues
           /\ e.height = c.height /\ Len(e.locals) = Len(c.locals) + 1
           /\ \A i \in 1..Len(c.locals) : e.locals[i] = c.locals[i]
           /\ e.locals[Len(c.locals) + 1] = l
<1> DEFINE x == Append(c.locals, l)
<1>1. IsSeq(c.locals) /\ \A i \in 1..Len(c.locals) : IsLocal(c.locals[i])
  BY DEF IsComp
<1>2. Len(c.locals) \in Nat
  BY <1>1, SeqFacts
<1>3. /\ IsSeq(x) /\ Len(x) = Len(c.locals) + 1 /\ x[Len(c.locals) + 1] = l
      /\ \A i \in 1..Len(c.locals) : x[i] = c.locals[i]
  BY <1>1, AppendFacts
<1> HIDE DEF x
<1>4. \A i \in 1..Len(x) : IsLocal(x[i])
  <2>1. \A i \in 1..Len(x) : i \in 1..Len(c.locals) \/ i = Len(c.locals) + 1
    BY <1>2, <1>3
  <2> QED BY <1>1, <1>3, <2>1
<1> DEFINE e == WithLocals(c, x)
<1>5. /\ IsComp(e) /\ e.locals = x /\ e.type = c.type /\ e.depth = c.depth
      /\ e.upvalues = c.upvalues /\ e.height = c.height
  BY <1>3, <1>4, WithLocalsIs
<1>6. Longer(c, l) = e
  BY DEF Longer, x
<1> HIDE DEF e
<1> QED BY <1>3, <1>5, <1>6

\* A Compiler whose last local gets a depth.
Initialized(c, d) ==
  WithLocals(c, Replaced(c.locals, Len(c.locals), [c.locals[Len(c.locals)] EXCEPT !.depth = d]))

\* It is a Compiler, with the other locals as they were.
LEMMA InitializedIs ==
  ASSUME NEW c, IsComp(c), NEW d, Len(c.locals) > 0
  PROVE  LET e == Initialized(c, d)
             n == Len(c.locals) IN
           /\ IsComp(e) /\ e.type = c.type /\ e.depth = c.depth /\ e.upvalues = c.upvalues
           /\ e.height = c.height /\ Len(e.locals) = n
           /\ \A i \in 1..(n - 1) : e.locals[i] = c.locals[i]
           /\ e.locals[n].name = c.locals[n].name /\ e.locals[n].depth = d
           /\ e.locals[n].isCaptured = c.locals[n].isCaptured
<1> DEFINE n == Len(c.locals)
           o == c.locals[n]
           l == [o EXCEPT !.depth = d]
           x == Replaced(c.locals, n, l)
<1>1. IsSeq(c.locals) /\ \A i \in 1..Len(c.locals) : IsLocal(c.locals[i])
  BY DEF IsComp
<1>2. n \in Nat /\ n \in 1..n
  BY <1>1, SeqFacts
<1>3. l.name = o.name /\ l.depth = d /\ l.isCaptured = o.isCaptured /\ IsLocal(l)
  <2>1. IsLocal(o)
    BY <1>1, <1>2
  <2> DEFINE nm == o.name
             dp == o.depth
             ic == o.isCaptured
  <2>2. o = [name |-> nm, depth |-> dp, isCaptured |-> ic]
    BY <2>1 DEF IsLocal
  <2> HIDE DEF o, nm, dp, ic
  <2>3. l = [name |-> nm, depth |-> d, isCaptured |-> ic]
    BY <2>2
  <2> HIDE DEF l
  <2>4. l.name = nm /\ l.depth = d /\ l.isCaptured = ic
    BY <2>3
  <2>5. IsLocal(l)
    BY <2>3, <2>4 DEF IsLocal
  <2> QED BY <2>4, <2>5 DEF nm, ic
<1> HIDE DEF l
<1>4. /\ IsSeq(x) /\ Len(x) = n /\ x[n] = l /\ \A i \in 1..n : i # n => x[i] = c.locals[i]
  BY <1>1, <1>2, ReplaceFacts
<1> HIDE DEF x
<1>5. \A i \in 1..Len(x) : IsLocal(x[i])
  BY <1>1, <1>3, <1>4
<1>6. \A i \in 1..(n - 1) : x[i] = c.locals[i]
  BY <1>2, <1>4
<1> DEFINE e == WithLocals(c, x)
<1>7. /\ IsComp(e) /\ e.locals = x /\ e.type = c.type /\ e.depth = c.depth
      /\ e.upvalues = c.upvalues /\ e.height = c.height
  BY <1>4, <1>5, WithLocalsIs
<1>8. Initialized(c, d) = e
  BY DEF Initialized, x, l
<1> HIDE DEF e
<1> QED BY <1>3, <1>4, <1>6, <1>7, <1>8

\* Tidy locals, however many of them.
LEMMA TidyLess ==
  ASSUME NEW n \in Nat, NEW m \in Nat, m <= n, m > 0, NEW d, NEW x, NEW y, TidyTo(n, x, d),
         \A i \in 1..m : y[i].depth = x[i].depth
  PROVE  TidyTo(m, y, d)
<1>1. y[1].depth = 0
  BY DEF TidyTo
<1>2. ASSUME NEW i \in 1..m
      PROVE  y[i].depth \in 0..d /\ \A j \in 1..i : y[j].depth <= y[i].depth
  <2>1. i \in 1..n /\ \A j \in 1..i : j \in 1..m
    OBVIOUS
  <2>2. x[i].depth \in 0..d /\ \A j \in 1..i : x[j].depth <= x[i].depth
    BY <2>1 DEF TidyTo
  <2> QED BY <2>1, <2>2
<1> QED BY <1>1, <1>2 DEF TidyTo

\* addLocal.
LEMMA AddLocalStep ==
  ASSUME IInv, Now.level > 0, Tidy(Now), Now.top.depth > 0, NEW name, NEW clash \in BOOLEAN,
         AddLocal(name, clash), UNCHANGED <<classes, env, captured, access>>
  PROVE  /\ Good(Now') /\ TablesOK' /\ UpvaluesOK' /\ CapturesOK' /\ NamesResolve'
         /\ Declares(Now, Now') /\ (Now.err => Now'.err)
<1>1. TablesOK /\ CallsOK /\ UpvaluesOK /\ CapturesOK /\ NamesResolve /\ Good(Now)
  BY DEF IInv, CallsOK
<1> DEFINE n == Len(Current.locals)
           l == [name |-> name, depth |-> -1, isCaptured |-> FALSE]
           c == Longer(Current, l)
<1>2. /\ IsComp(Current) /\ IsSeq(Current.locals)
      /\ Now.top.type = Current.type /\ Now.top.depth = Current.depth
      /\ Now.top.height = Current.height /\ Now.top.n = n
      /\ \A i \in 1..n : /\ Now.top.locals[i].name = Current.locals[i].name
                         /\ Now.top.locals[i].depth = Current.locals[i].depth
  BY <1>1, TopIs
<1>3. /\ Len(compilers) \in Nat \ {0} /\ Current = compilers[Len(compilers)]
      /\ Level = Len(compilers)
  BY <1>1, LevelPositive
<1>4. /\ CompOK(Now.top, Now.top.depth + 1) /\ n \in 1..MaxLocals /\ n \in Nat \ {0}
      /\ Now.top.depth \in Nat /\ Now.top.height \in Int /\ Bounded(Now)
  <2>1. CompOK(Now.top, Now.top.depth + 1)
    BY <1>1 DEF Good
  <2>2. Now.top.n \in 1..MaxLocals
    BY <2>1 DEF CompOK
  <2> QED BY <1>1, <1>2, <2>1, <2>2, GoodTypes, TidyBounded
<1>5. /\ hadError' \in BOOLEAN /\ panicMode' \in BOOLEAN /\ (panicMode' => hadError')
      /\ (hadError => hadError') /\ (n = MaxLocals \/ clash => hadError')
  <2>1. ErrorIf(n = MaxLocals \/ clash) /\ (n = MaxLocals \/ clash) \in BOOLEAN
    BY DEF AddLocal
  <2> QED BY <1>1, <2>1, ErrorIfIs
<1>6. classes' = classes /\ env' = env /\ captured' = captured /\ access' = access
  OBVIOUS
<1>7. ~hadError' => IsSeq(env')
  BY <1>1, <1>5, <1>6 DEF TablesOK
<1>8. CASE n = MaxLocals
  <2>1. compilers' = compilers /\ hadError'
    BY <1>5, <1>8 DEF AddLocal
  <2>2. Good(Now') /\ Expr(Now, Now', 0) /\ Now'.err = hadError'
    BY <1>1, <1>5, <1>6, <2>1, TokenStep
  <2>3. TablesOK' /\ UpvaluesOK' /\ CapturesOK' /\ NamesResolve'
    BY <1>1, <1>5, <1>6, <1>7, <2>1 DEF TablesOK, UpvaluesOK, CapturesOK, NamesResolve
  <2>4. AlmostTidy(Now)
    <3>1. n > 1
      BY <1>4, <1>8, CompilerAssumption
    <3>2. TidyTo(n - 1, Now.top.locals, Now.top.depth)
      BY <1>2, <1>4, <3>1, TidyLess DEF Tidy
    <3> QED BY <1>2, <3>1, <3>2 DEF AlmostTidy
  <2>5. /\ Stays(Now, Now') /\ Now'.top.depth = Now.top.depth /\ Now'.classes = Now.classes
        /\ Now'.top.n = Now.top.n /\ Now'.top.locals = Now.top.locals
    BY <2>2 DEF Expr, SameLocals
  <2>6. AlmostTidy(Now') /\ Bounded(Now')
    BY <1>4, <2>4, <2>5 DEF AlmostTidy, Bounded
  <2>7. Declares(Now, Now')
    BY <2>1, <2>2, <2>5, <2>6 DEF Declares
  <2> QED BY <2>1, <2>2, <2>3, <2>7
<1>9. CASE n # MaxLocals
  <2>1. compilers' = Replaced(compilers, Len(compilers), c)
    BY <1>3, <1>9 DEF AddLocal, Replaced, Longer, WithLocals, Current, Level
  <2>2. IsLocal(l) /\ l.depth = -1 /\ l.name = name
    BY DEF IsLocal
  <2> HIDE DEF l
  <2>3. /\ IsComp(c) /\ c.type = Current.type /\ c.depth = Current.depth
        /\ c.upvalues = Current.upvalues /\ c.height = Current.height
        /\ Len(c.locals) = n + 1 /\ \A i \in 1..n : c.locals[i] = Current.locals[i]
        /\ c.locals[n + 1] = l
    BY <1>2, <2>2, LongerIs
  <2> HIDE DEF c
  <2>4. /\ CompsOK(compilers') /\ Stays(Now, Now') /\ Now'.top = Outline(c)
        /\ Now'.err = hadError' /\ Now'.classes = Len(classes')
        /\ Now.err = hadError /\ Now.classes = Len(classes)
        /\ Len(compilers') = Len(compilers) /\ compilers'[Len(compilers)] = c
        /\ \A k \in 1..(Len(compilers) - 1) : compilers'[k] = compilers[k]
        /\ UpvaluesOK'
        /\ Now'.m = (IF hadError' THEN 0 ELSE Len(env'))
        /\ Now'.env = (IF hadError' THEN <<>> ELSE env')
    BY <1>1, <1>5, <2>1, <2>3, TopStep
  <2>5. /\ Now'.top.type = Now.top.type /\ Now'.top.depth = Now.top.depth
        /\ Now'.top.height = Now.top.height /\ Now'.top.n = n + 1
        /\ \A i \in 1..n : /\ Now'.top.locals[i].name = Now.top.locals[i].name
                           /\ Now'.top.locals[i].depth = Now.top.locals[i].depth
        /\ Now'.top.locals[n + 1].depth = -1
    <3>1. /\ Now'.top.type = c.type /\ Now'.top.depth = c.depth /\ Now'.top.height = c.height
          /\ Now'.top.n = Len(c.locals)
          /\ \A i \in 1..Len(c.locals) : /\ Now'.top.locals[i].name = c.locals[i].name
                                         /\ Now'.top.locals[i].depth = c.locals[i].depth
      BY <2>3, <2>4, OutlineParts
    <3>2. /\ Len(c.locals) = n + 1 /\ n + 1 \in 1..Len(c.locals)
          /\ \A i \in 1..n : i \in 1..Len(c.locals)
      BY <1>4, <2>3
    <3> QED BY <1>2, <2>2, <2>3, <3>1, <3>2
  <2>6. \A i \in 1..n : Now'.top.locals[i] = Now.top.locals[i]
    <3>1. Now.top = Outline(Current)
      BY <1>1, NowIs
    <3> QED BY <1>4, <2>3, <2>4, <3>1 DEF Outline
  <2>7. ~hadError' => SameEnv(Now, Now')
    BY <1>1, <1>5, <1>6, <2>4, NowIs DEF SameEnv
  <2>8. CompOK(Now'.top, Now'.top.depth + 1)
    <3>1. Now'.top.n \in 1..MaxLocals /\ 1 \in 1..n
      BY <1>4, <1>9, <2>5, CompilerAssumption
    <3>2. ASSUME NEW i \in 1..Now'.top.n
          PROVE  Now'.top.locals[i].depth \in -1..(Now'.top.depth + 1)
      <4>1. \A j \in 1..n : Now.top.locals[j].depth \in -1..(Now.top.depth + 1)
        BY <1>2, <1>4 DEF CompOK
      <4>2. i \in 1..n \/ i = n + 1
        BY <1>4, <2>5
      <4>3. CASE i \in 1..n
        <5>1. Now'.top.locals[i].depth = Now.top.locals[i].depth
          BY <2>5, <4>3
        <5> QED BY <2>5, <4>1, <4>3, <5>1
      <4>4. CASE i = n + 1
        <5>1. Now'.top.locals[i].depth = -1
          BY <2>5, <4>4
        <5> QED BY <1>4, <2>5, <5>1
      <4> QED BY <4>2, <4>3, <4>4
    <3>3. Now'.top.locals = [i \in 1..Now'.top.n |-> Now'.top.locals[i]]
      BY <2>3, <2>4, OutlineList
    <3>4. /\ Now'.top.type \in Types /\ Now'.top.depth \in Nat
          /\ Now'.top.locals[1].name = IF Now'.top.type = "function" THEN NoName ELSE "this"
      BY <1>4, <2>5, <3>1 DEF CompOK
    <3> QED BY <1>4, <2>5, <3>1, <3>2, <3>3, <3>4 DEF CompOK
  <2>9. ASSUME ~hadError' PROVE EnvOK(Now')
    <3>1. EnvOK(Now) /\ Now'.level = Now.level /\ Now'.outer = Now.outer
      BY <1>1, <1>5, <2>4, <2>9 DEF Good, Stays
    <3>2. \A i \in 1..n : InScope(Now'.top, i) <=> InScope(Now.top, i)
      BY <2>5 DEF InScope
    <3>3. ~InScope(Now'.top, n + 1)
      BY <2>5 DEF InScope
    <3>4. \A i \in 1..Now'.top.n : i \in 1..n \/ i = n + 1
      BY <1>4, <2>5
    <3>5. \A i \in 1..n : i \in 1..Now'.top.n /\ i \in 1..Now.top.n
      BY <1>2, <1>4, <2>5
    <3>6. \A i \in 1..Now'.top.n : InScope(Now'.top, i) => i \in 1..Now.top.n /\ InScope(Now.top, i)
      BY <3>2, <3>3, <3>4, <3>5
    <3>7. \A i \in 1..Now.top.n : InScope(Now.top, i) =>
            /\ i \in 1..Now'.top.n /\ InScope(Now'.top, i)
            /\ Now'.top.locals[i].name = Now.top.locals[i].name
      BY <1>2, <2>5, <3>2, <3>5
    <3> QED BY <2>7, <2>9, <3>1, <3>6, <3>7, EnvTop
  <2>10. TablesOK' /\ NamesResolve' /\ Good(Now')
    BY <1>5, <1>6, <1>7, <2>4, <2>8, <2>9, TopGood
  <2>11. CapturesOK'
    <3>1. ASSUME NEW i, IsCaptured(compilers, Len(compilers), i)
          PROVE  IsCaptured(compilers', Len(compilers), i)
      <4>1. i \in Nat /\ i < n /\ Current.locals[i + 1].isCaptured
        BY <1>3, <3>1 DEF IsCaptured
      <4>2. i + 1 \in 1..n /\ i < n + 1
        BY <1>4, <4>1
      <4> QED BY <1>3, <2>3, <2>4, <4>1, <4>2 DEF IsCaptured
    <3> QED BY <1>1, <1>3, <1>6, <2>4, <3>1, CapturesStay
  <2>12. AlmostTidy(Now') /\ Bounded(Now') /\ Unmarked(Now')
    <3>1. TidyTo(n, Now'.top.locals, Now'.top.depth)
      <4>1. TidyTo(n, Now.top.locals, Now.top.depth)
        BY <1>2 DEF Tidy
      <4>2. n \in Nat /\ n <= n /\ n > 0
        BY <1>4
      <4>3. \A i \in 1..n : Now'.top.locals[i].depth = Now.top.locals[i].depth
        BY <2>5
      <4>4. TidyTo(n, Now'.top.locals, Now.top.depth)
        BY <4>1, <4>2, <4>3, TidyLess
      <4> QED BY <2>5, <4>4
    <3>2. AlmostTidy(Now')
      BY <1>4, <2>5, <3>1 DEF AlmostTidy
    <3>3. ASSUME NEW i \in 1..Now'.top.n PROVE Now'.top.locals[i].depth <= Now'.top.depth
      <4>1. i \in 1..n \/ i = n + 1
        BY <1>4, <2>5
      <4>2. \A j \in 1..n : Now.top.locals[j].depth <= Now.top.depth
        BY <1>2, <1>4 DEF Bounded, BoundedBy
      <4> QED BY <1>4, <2>5, <4>1, <4>2
    <3> QED BY <2>5, <3>2, <3>3 DEF Bounded, BoundedBy, Unmarked
  <2>13. Declares(Now, Now')
    <3>1. Now'.classes = Now.classes
      BY <1>6, <2>4
    <3> QED BY <1>2, <2>4, <2>5, <2>6, <2>7, <2>12, <3>1 DEF Declares
  <2> QED BY <1>5, <2>4, <2>10, <2>11, <2>13
<1> QED BY <1>8, <1>9

\* addLocal of super, in classDeclaration.
LEMMA AddSuperStep ==
  ASSUME IInv, AddSuper PROVE IInv'
<1>1. TablesOK /\ CallsOK /\ Doing("addLocal") /\ Become(<<>>)
  BY DEF IInv, AddSuper
<1>2. AddLocal(Arg, FALSE) /\ UNCHANGED <<classes, env, captured, access>>
  BY DEF AddSuper, ghosts
<1>3. /\ todo # <<>> /\ Head(todo)[1] = "addLocal" /\ Good(Now) /\ Pre(Head(todo), Now)
  BY <1>1, NextCall
<1>4. Now.level > 0 /\ Tidy(Now) /\ Now.top.depth > 0
  BY <1>3, AtAddLocal
<1>5. /\ Good(Now') /\ TablesOK' /\ UpvaluesOK' /\ CapturesOK' /\ NamesResolve'
      /\ Declares(Now, Now') /\ (Now.err => Now'.err)
  BY <1>2, <1>4, AddLocalStep
<1>6. Rel(Head(todo), Now, Now')
  BY <1>3, <1>5, AtAddLocal
<1>7. CallsOK'
  BY <1>1, <1>3, <1>5, <1>6, CallsGo, FulfilsNone
<1> QED BY <1>5, <1>7 DEF IInv

\* declareVariable.
LEMMA DeclareVariableStep ==
  ASSUME IInv, DeclareVariable PROVE IInv'
<1>1. TablesOK /\ CallsOK /\ Doing("declareVariable") /\ Become(<<>>)
  BY DEF IInv, DeclareVariable
<1>2. UNCHANGED <<classes, env, captured, access>>
  BY DEF DeclareVariable, ghosts
<1>3. /\ todo # <<>> /\ Head(todo)[1] = "declareVariable" /\ Good(Now) /\ Pre(Head(todo), Now)
  BY <1>1, NextCall
<1>4. Now.level > 0 /\ Tidy(Now)
  BY <1>3, AtDeclareVariable
<1>5. Now.top.depth = Current.depth /\ Now.top.depth \in Nat /\ Now.top.height \in Int
  BY <1>1, <1>3, <1>4, NowIs, GoodTypes
<1>6. CASE Current.depth = 0
  <2>1. UNCHANGED <<compilers, hadError, panicMode>>
    BY <1>6 DEF DeclareVariable
  <2>2. hadError' \in BOOLEAN /\ hadError' = hadError /\ panicMode' \in BOOLEAN
        /\ (panicMode' => hadError')
    BY <1>1, <2>1 DEF TablesOK
  <2>3. Good(Now') /\ Expr(Now, Now', 0)
    BY <1>1, <1>2, <1>4, <2>1, <2>2, TokenStep
  <2>4. Declares(Now, Now') /\ (Now.err => Now'.err)
    BY <1>5, <1>6, <2>3 DEF Declares, Expr, Stays
  <2>5. Rel(Head(todo), Now, Now')
    BY <1>3, <2>3, <2>4, AtDeclareVariable
  <2>6. CallsOK'
    BY <1>1, <1>3, <2>3, <2>5, CallsGo, FulfilsNone
  <2> QED BY <1>2, <2>1, <2>2, <2>6, RestStays
<1>7. CASE Current.depth # 0
  <2> DEFINE clash == \E i \in InThisScope : Current.locals[i].name = previous
  <2>1. AddLocal(previous, clash) /\ clash \in BOOLEAN
    BY <1>7 DEF DeclareVariable
  <2> HIDE DEF clash
  <2>2. Now.top.depth > 0
    BY <1>5, <1>7
  <2>3. /\ Good(Now') /\ TablesOK' /\ UpvaluesOK' /\ CapturesOK' /\ NamesResolve'
        /\ Declares(Now, Now') /\ (Now.err => Now'.err)
    BY <1>2, <1>4, <2>1, <2>2, AddLocalStep
  <2>4. Rel(Head(todo), Now, Now')
    BY <1>3, <2>3, AtDeclareVariable
  <2>5. CallsOK'
    BY <1>1, <1>3, <2>3, <2>4, CallsGo, FulfilsNone
  <2> QED BY <2>3, <2>5 DEF IInv
<1> QED BY <1>6, <1>7

\* markInitialized, of a local: the variable enters its scope.
LEMMA MarkStep ==
  ASSUME IInv, Now.level > 0, Now.top.depth > 0, AlmostTidy(Now), ~Now.err => Unmarked(Now),
         compilers' = Marked, NEW slot, Enters(slot), ~Now.err => slot = Now.top.n - 1,
         UNCHANGED <<hadError, panicMode, classes, captured, access>>
  PROVE  /\ Good(Now') /\ TablesOK' /\ UpvaluesOK' /\ CapturesOK' /\ NamesResolve'
         /\ (Now.err => Now'.err) /\ \A k : Defines(Now, Now', k)
<1>1. TablesOK /\ CallsOK /\ UpvaluesOK /\ CapturesOK /\ NamesResolve /\ Good(Now)
  BY DEF IInv, CallsOK
<1> DEFINE n == Len(Current.locals)
           d == Current.depth
           c == Initialized(Current, d)
           new == [name |-> Current.locals[n].name, slot |-> <<Level, slot>>]
<1>2. /\ IsComp(Current) /\ IsSeq(Current.locals) /\ Now.top = Outline(Current)
      /\ Now.top.type = Current.type /\ Now.top.depth = d
      /\ Now.top.height = Current.height /\ Now.top.n = n
      /\ \A i \in 1..n : /\ Now.top.locals[i].name = Current.locals[i].name
                         /\ Now.top.locals[i].depth = Current.locals[i].depth
  BY <1>1, TopIs
<1>3. /\ Len(compilers) \in Nat \ {0} /\ Current = compilers[Len(compilers)]
      /\ Level = Len(compilers) /\ Now.level = Len(compilers)
  BY <1>1, LevelPositive
<1>4. /\ CompOK(Now.top, Now.top.depth + 1) /\ n \in Nat /\ n > 1 /\ d \in Nat
      /\ TidyTo(n - 1, Now.top.locals, d) /\ Now.top.height \in Int /\ Now.m \in Nat
  BY <1>1, <1>2, GoodTypes DEF Good, AlmostTidy
<1>5. compilers' = Replaced(compilers, Len(compilers), c)
  BY <1>3 DEF Marked, Replaced, Initialized, WithLocals, Current, Level
<1>6. /\ IsComp(c) /\ c.type = Current.type /\ c.depth = d /\ c.upvalues = Current.upvalues
      /\ c.height = Current.height /\ Len(c.locals) = n
      /\ \A i \in 1..(n - 1) : c.locals[i] = Current.locals[i]
      /\ c.locals[n].name = Current.locals[n].name /\ c.locals[n].depth = d
      /\ c.locals[n].isCaptured = Current.locals[n].isCaptured
  BY <1>2, <1>4, InitializedIs
<1> HIDE DEF c
<1>7. /\ hadError' \in BOOLEAN /\ hadError' = hadError /\ panicMode' = panicMode
      /\ classes' = classes /\ panicMode' \in BOOLEAN /\ (panicMode' => hadError')
      /\ captured' = captured /\ access' = access
  BY <1>1 DEF TablesOK
<1>8. /\ CompsOK(compilers') /\ Stays(Now, Now') /\ Now'.top = Outline(c)
      /\ Now'.err = hadError' /\ Now'.classes = Len(classes')
      /\ Now.err = hadError /\ Now.classes = Len(classes)
      /\ Len(compilers') = Len(compilers) /\ compilers'[Len(compilers)] = c
      /\ \A k \in 1..(Len(compilers) - 1) : compilers'[k] = compilers[k]
      /\ UpvaluesOK'
      /\ Now'.m = (IF hadError' THEN 0 ELSE Len(env'))
      /\ Now'.env = (IF hadError' THEN <<>> ELSE env')
  BY <1>1, <1>5, <1>6, <1>7, TopStep
<1>9. /\ Now'.top.type = Now.top.type /\ Now'.top.depth = d
      /\ Now'.top.height = Now.top.height /\ Now'.top.n = n
      /\ \A i \in 1..n : Now'.top.locals[i].name = Now.top.locals[i].name
      /\ \A i \in 1..(n - 1) : Now'.top.locals[i].depth = Now.top.locals[i].depth
      /\ Now'.top.locals[n].depth = d
  <2>1. /\ Now'.top.type = c.type /\ Now'.top.depth = c.depth /\ Now'.top.height = c.height
        /\ Now'.top.n = Len(c.locals)
        /\ \A i \in 1..Len(c.locals) : /\ Now'.top.locals[i].name = c.locals[i].name
                                       /\ Now'.top.locals[i].depth = c.locals[i].depth
    BY <1>6, <1>8, OutlineParts
  <2>2. n \in 1..n /\ (\A i \in 1..(n - 1) : i \in 1..n) /\ \A i \in 1..n : i = n \/ i \in 1..(n - 1)
    BY <1>4
  <2>3. ASSUME NEW i \in 1..n PROVE Now'.top.locals[i].name = Now.top.locals[i].name
    <3>1. c.locals[i].name = Current.locals[i].name
      BY <1>6, <2>2
    <3> QED BY <1>2, <1>6, <2>1, <3>1
  <2>4. ASSUME NEW i \in 1..(n - 1) PROVE Now'.top.locals[i].depth = Now.top.locals[i].depth
    <3>1. i \in 1..n /\ c.locals[i] = Current.locals[i]
      BY <1>6, <2>2
    <3> QED BY <1>2, <1>6, <2>1, <3>1
  <2>5. Now'.top.locals[n].depth = d
    BY <1>6, <2>1, <2>2
  <2>6. /\ Now'.top.type = Now.top.type /\ Now'.top.depth = d
        /\ Now'.top.height = Now.top.height /\ Now'.top.n = n
    BY <1>2, <1>6, <2>1
  <2> QED BY <2>3, <2>4, <2>5, <2>6
<1>10. \A i \in 1..(n - 1) : Now'.top.locals[i] = Now.top.locals[i]
  <2>1. \A i \in 1..(n - 1) : i \in 1..n
    BY <1>4
  <2>2. \A i \in 1..n : Now.top.locals[i] = [name |-> Current.locals[i].name, depth |-> Current.locals[i].depth]
    BY <1>2 DEF Outline
  <2>3. \A i \in 1..n : Now'.top.locals[i] = [name |-> c.locals[i].name, depth |-> c.locals[i].depth]
    BY <1>6, <1>8 DEF Outline
  <2> QED BY <1>6, <2>1, <2>2, <2>3
<1>11. ~hadError' => /\ IsSeq(env') /\ Now'.m = Now.m + 1
                     /\ \A e \in 1..Now.m : Now'.env[e] = Now.env[e]
                     /\ Now'.env[Now'.m].slot = <<Now.level, n - 1>>
                     /\ Now'.env[Now'.m].name = Now.top.locals[n].name
  <2> SUFFICES ASSUME ~hadError'
               PROVE  /\ IsSeq(env') /\ Now'.m = Now.m + 1
                      /\ \A e \in 1..Now.m : Now'.env[e] = Now.env[e]
                      /\ Now'.env[Now'.m].slot = <<Now.level, n - 1>>
                      /\ Now'.env[Now'.m].name = Now.top.locals[n].name
    OBVIOUS
  <2>1. IsSeq(env) /\ Now.m = Len(env) /\ Now.env = env /\ ~Now.err
    BY <1>1, <1>7, <1>8, NowIs DEF TablesOK
  <2>2. env' = Append(env, new)
    BY DEF Enters
  <2>3. new.slot = <<Now.level, n - 1>> /\ new.name = Now.top.locals[n].name
    <3>1. slot = n - 1 /\ n \in 1..n
      BY <1>2, <1>4, <2>1
    <3> QED BY <1>2, <1>3, <3>1
  <2> HIDE DEF new
  <2>4. /\ IsSeq(env') /\ Len(env') = Len(env) + 1
        /\ \A e \in 1..Len(env) : env'[e] = env[e]
        /\ env'[Len(env) + 1] = new
    BY <2>1, <2>2, AppendFacts
  <2> QED BY <1>8, <2>1, <2>3, <2>4
<1>12. CompOK(Now'.top, Now'.top.depth + 1)
  <2>1. n \in 1..MaxLocals /\ 1 \in 1..n
    BY <1>2, <1>4 DEF CompOK
  <2>2. ASSUME NEW i \in 1..Now'.top.n
        PROVE  Now'.top.locals[i].depth \in -1..(Now'.top.depth + 1)
    <3>1. \A j \in 1..n : Now.top.locals[j].depth \in -1..(d + 1)
      BY <1>2, <1>4 DEF CompOK
    <3>2. CASE i = n
      <4>1. Now'.top.locals[i].depth = d
        BY <1>9, <3>2
      <4> QED BY <1>4, <1>9, <4>1
    <3>3. CASE i # n
      <4>1. i \in 1..(n - 1) /\ i \in 1..n
        BY <1>4, <1>9, <3>3
      <4>2. Now'.top.locals[i].depth = Now.top.locals[i].depth
        BY <1>9, <4>1
      <4> QED BY <1>9, <3>1, <4>1, <4>2
    <3> QED BY <3>2, <3>3
  <2>3. Now'.top.locals = [i \in 1..Now'.top.n |-> Now'.top.locals[i]]
    BY <1>6, <1>8, OutlineList
  <2>4. /\ Now'.top.type \in Types /\ Now'.top.depth \in Nat
        /\ Now'.top.locals[1].name = IF Now'.top.type = "function" THEN NoName ELSE "this"
    BY <1>4, <1>9, <2>1 DEF CompOK
  <2> QED BY <1>4, <1>9, <2>1, <2>2, <2>3, <2>4 DEF CompOK
<1>13. ASSUME ~hadError' PROVE EnvOK(Now')
  <2>1. /\ EnvOK(Now) /\ Now'.level = Now.level /\ Now'.outer = Now.outer /\ Unmarked(Now)
        /\ Now.level \in Nat
    BY <1>1, <1>7, <1>8, <1>13 DEF Good, Stays
  <2>2. /\ Now'.m = Now.m + 1 /\ \A e \in 1..Now.m : Now'.env[e] = Now.env[e]
        /\ Now'.env[Now'.m].slot = <<Now.level, Now.top.n - 1>>
        /\ Now'.env[Now'.m].name = Now.top.locals[Now.top.n].name
    BY <1>2, <1>11, <1>13
  <2>3. /\ Now'.top.type = Now.top.type /\ Now'.top.depth = Now.top.depth
        /\ Now'.top.n = Now.top.n /\ Now'.top.locals[Now.top.n].depth = Now.top.depth
        /\ Now'.top.locals[Now.top.n].name = Now.top.locals[Now.top.n].name
        /\ \A i \in 1..(Now.top.n - 1) : Now'.top.locals[i] = Now.top.locals[i]
    BY <1>2, <1>4, <1>9, <1>10
  <2> QED BY <1>2, <1>4, <2>1, <2>2, <2>3, EnvGrows
<1>14. TablesOK' /\ NamesResolve' /\ Good(Now')
  BY <1>7, <1>8, <1>11, <1>12, <1>13, TopGood
<1>15. CapturesOK'
  <2>1. ASSUME NEW i, IsCaptured(compilers, Len(compilers), i)
        PROVE  IsCaptured(compilers', Len(compilers), i)
    <3>1. i \in Nat /\ i < n /\ Current.locals[i + 1].isCaptured
      BY <1>3, <2>1 DEF IsCaptured
    <3>2. i + 1 = n \/ i + 1 \in 1..(n - 1)
      BY <1>4, <3>1
    <3>3. c.locals[i + 1].isCaptured = Current.locals[i + 1].isCaptured
      BY <1>6, <3>2
    <3> QED BY <1>3, <1>6, <1>8, <3>1, <3>3 DEF IsCaptured
  <2> QED BY <1>1, <1>3, <1>7, <1>8, <2>1, CapturesStay
<1>16. Tidy(Now')
  <2>1. /\ Now.top.locals[1].depth = 0
        /\ \A i \in 1..(n - 1) : /\ Now.top.locals[i].depth \in 0..d
                                 /\ \A j \in 1..i : Now.top.locals[j].depth <= Now.top.locals[i].depth
    BY <1>4 DEF TidyTo
  <2>2. Now'.top.locals[1].depth = 0
    BY <1>4, <1>9, <2>1
  <2>3. ASSUME NEW i \in 1..n
        PROVE  /\ Now'.top.locals[i].depth \in 0..d
               /\ \A j \in 1..i : Now'.top.locals[j].depth <= Now'.top.locals[i].depth
    <3>1. CASE i = n
      <4>1. Now'.top.locals[i].depth = d
        BY <1>9, <3>1
      <4>2. ASSUME NEW j \in 1..i PROVE Now'.top.locals[j].depth <= d
        <5>1. CASE j = n
          BY <1>4, <1>9, <5>1
        <5>2. CASE j # n
          <6>1. j \in 1..(n - 1)
            BY <1>4, <3>1, <5>2
          <6>2. Now'.top.locals[j].depth = Now.top.locals[j].depth
            BY <1>9, <6>1
          <6> QED BY <1>4, <2>1, <6>1, <6>2
        <5> QED BY <5>1, <5>2
      <4> QED BY <1>4, <4>1, <4>2
    <3>2. CASE i # n
      <4>1. i \in 1..(n - 1) /\ \A j \in 1..i : j \in 1..(n - 1)
        BY <1>4, <3>2
      <4>2. /\ Now'.top.locals[i].depth = Now.top.locals[i].depth
            /\ \A j \in 1..i : Now'.top.locals[j].depth = Now.top.locals[j].depth
        BY <1>9, <4>1
      <4> QED BY <2>1, <4>1, <4>2
    <3> QED BY <3>1, <3>2
  <2> QED BY <1>9, <2>2, <2>3 DEF Tidy, TidyTo
<1>17. ASSUME NEW k PROVE Defines(Now, Now', k)
  <2>1. Now'.classes = Now.classes /\ Now'.top.depth = Now.top.depth /\ Now.top.depth # 0
    BY <1>2, <1>4, <1>7, <1>8, <1>9
  <2>2. ~Now'.err => /\ Now'.top.height = Now.top.height /\ Now'.top.n = Now.top.n
                     /\ Now'.top.locals[Now.top.n].depth = Now.top.depth
                     /\ \A i \in 1..(Now.top.n - 1) : Now'.top.locals[i] = Now.top.locals[i]
                     /\ Now'.m = Now.m + 1 /\ (\A e \in 1..Now.m : Now'.env[e] = Now.env[e])
                     /\ Now'.env[Now'.m].slot = <<Now.level, Now.top.n - 1>>
    BY <1>2, <1>8, <1>9, <1>10, <1>11
  <2> QED BY <1>8, <1>16, <2>1, <2>2 DEF Defines
<1> QED BY <1>7, <1>8, <1>14, <1>15, <1>17

\* A global variable is defined by an instruction.
LEMMA DefinesGlobal ==
  ASSUME NEW s, NEW t, NEW k, Good(s), Expr(s, t, k), s.top.depth = 0, Tidy(s)
  PROVE  Defines(s, t, k)
<1>1. Tidy(t) /\ Stays(s, t) /\ t.top.depth = s.top.depth /\ t.classes = s.classes
  BY ExprKeeps DEF Expr
<1>2. ~t.err => SameLocals(s, t) /\ SameEnv(s, t) /\ t.top.height = s.top.height + k
  BY DEF Expr
<1> QED BY <1>1, <1>2 DEF Defines

\* markInitialized.
LEMMA MarkInitializedStep ==
  ASSUME IInv, MarkInitialized PROVE IInv'
<1>1. TablesOK /\ CallsOK /\ Doing("markInitialized") /\ Become(<<>>)
  BY DEF IInv, MarkInitialized
<1>2. UNCHANGED <<hadError, panicMode, classes, captured, access>>
  BY DEF MarkInitialized, parser
<1>3. /\ todo # <<>> /\ Head(todo)[1] = "markInitialized" /\ Good(Now) /\ Pre(Head(todo), Now)
  BY <1>1, NextCall
<1>4. Now.level > 0 /\ Ready(Now, -1)
  BY <1>3, AtMarkInitialized
<1>5. /\ Now.top.depth = Current.depth /\ Now.top.depth \in Nat /\ Now.top.height \in Int
      /\ H = Now.top.height /\ Now.top.n \in Nat
  BY <1>1, <1>3, <1>4, NowIs, GoodTypes
<1>6. CASE Current.depth = 0
  <2>1. UNCHANGED <<compilers, env>>
    BY <1>6 DEF MarkInitialized
  <2>2. hadError' \in BOOLEAN /\ hadError' = hadError /\ panicMode' \in BOOLEAN
        /\ (panicMode' => hadError')
    BY <1>1, <1>2 DEF TablesOK
  <2>3. Good(Now') /\ Expr(Now, Now', 0)
    BY <1>1, <1>2, <1>4, <2>1, <2>2, TokenStep
  <2>4. Defines(Now, Now', 0) /\ (Now.err => Now'.err)
    <3>1. Tidy(Now) /\ Now.top.depth = 0
      BY <1>4, <1>5, <1>6 DEF Ready
    <3> QED BY <1>3, <2>3, <3>1, DefinesGlobal, ExprKeeps
  <2>5. Rel(Head(todo), Now, Now')
    BY <1>3, <2>3, <2>4, AtMarkInitialized
  <2>6. CallsOK'
    BY <1>1, <1>3, <2>3, <2>5, CallsGo, FulfilsNone
  <2> QED BY <1>2, <2>1, <2>2, <2>6, RestStays
<1>7. CASE Current.depth # 0
  <2>1. compilers' = Marked /\ Enters(H)
    BY <1>7 DEF MarkInitialized
  <2>2. /\ Now.top.depth > 0 /\ AlmostTidy(Now) /\ (~Now.err => Unmarked(Now))
        /\ (~Now.err => H = Now.top.n - 1)
    <3>1. AlmostTidy(Now) /\ (~Now.err => Unmarked(Now) /\ Now.top.height = Now.top.n + (-1))
      BY <1>4, <1>5, <1>7 DEF Ready, Temps
    <3> QED BY <1>5, <1>7, <3>1
  <2>3. /\ Good(Now') /\ TablesOK' /\ UpvaluesOK' /\ CapturesOK' /\ NamesResolve'
        /\ (Now.err => Now'.err) /\ Defines(Now, Now', 0)
    BY <1>2, <1>4, <2>1, <2>2, MarkStep
  <2>4. Rel(Head(todo), Now, Now')
    BY <1>3, <2>3, AtMarkInitialized
  <2>5. CallsOK'
    BY <1>1, <1>3, <2>3, <2>4, CallsGo, FulfilsNone
  <2> QED BY <2>3, <2>5 DEF IInv
<1> QED BY <1>6, <1>7

\* defineVariable.
LEMMA DefineVariableStep ==
  ASSUME IInv, DefineVariable PROVE IInv'
<1>1. TablesOK /\ CallsOK /\ Doing("defineVariable")
  BY DEF IInv, DefineVariable
<1>2. UNCHANGED <<hadError, panicMode, classes, captured, access>>
  BY DEF DefineVariable, parser
<1>3. /\ todo # <<>> /\ Head(todo)[1] = "defineVariable" /\ Good(Now) /\ Pre(Head(todo), Now)
  BY <1>1, NextCall
<1>4. Now.level > 0 /\ Ready(Now, 0)
  BY <1>3, AtDefineVariable
<1>5. /\ Now.top.depth = Current.depth /\ Now.top.depth \in Nat /\ Now.top.height \in Int
      /\ H = Now.top.height /\ Now.top.n \in Nat
  BY <1>1, <1>3, <1>4, NowIs, GoodTypes
<1>6. CASE Current.depth = 0
  <2>1. Become(<<Emit(-1)>>) /\ UNCHANGED <<compilers, env>>
    BY <1>6 DEF DefineVariable
  <2>2. hadError' \in BOOLEAN /\ hadError' = hadError /\ panicMode' \in BOOLEAN
        /\ (panicMode' => hadError')
    BY <1>1, <1>2 DEF TablesOK
  <2>3. Good(Now') /\ Expr(Now, Now', 0) /\ Now'.level > 0
    BY <1>1, <1>2, <1>4, <2>1, <2>2, TokenStep
  <2>4. Tidy(Now) /\ Now.top.depth = 0
    BY <1>4, <1>5, <1>6 DEF Ready
  <2>5. Pre(Emit(-1), Now')
    BY <2>3, CanEmit
  <2>6. ASSUME NEW u, Rel(Emit(-1), Now', u) PROVE Fulfils(<<>>, u, Head(todo), Now)
    <3>1. Good(u) /\ Expr(Now', u, -1)
      BY <2>6, OfEmit
    <3>2. Expr(Now, u, -1)
      BY <1>3, <1>4, <2>3, <3>1, ExprTwice
    <3>3. Defines(Now, u, -1) /\ (Now.err => u.err)
      BY <1>3, <2>4, <3>2, DefinesGlobal, ExprKeeps
    <3>4. Rel(Head(todo), Now, u)
      BY <1>3, <3>1, <3>3, AtDefineVariable
    <3> QED BY <3>4, FulfilsNone
  <2>7. Fulfils(<<Emit(-1)>>, Now', Head(todo), Now)
    BY <2>5, <2>6, Step1
  <2>8. CallsOK'
    BY <1>1, <1>3, <2>1, <2>3, <2>7, CallsGo
  <2> QED BY <1>2, <2>1, <2>2, <2>8, RestStays
<1>7. CASE Current.depth # 0
  <2>1. compilers' = Marked /\ Enters(H - 1) /\ Become(<<>>)
    BY <1>7 DEF DefineVariable
  <2>2. /\ Now.top.depth > 0 /\ AlmostTidy(Now) /\ (~Now.err => Unmarked(Now))
        /\ (~Now.err => H - 1 = Now.top.n - 1)
    <3>1. AlmostTidy(Now) /\ (~Now.err => Unmarked(Now) /\ Now.top.height = Now.top.n + 0)
      BY <1>4, <1>5, <1>7 DEF Ready, Temps
    <3> QED BY <1>5, <1>7, <3>1
  <2>3. /\ Good(Now') /\ TablesOK' /\ UpvaluesOK' /\ CapturesOK' /\ NamesResolve'
        /\ (Now.err => Now'.err) /\ Defines(Now, Now', -1)
    BY <1>2, <1>4, <2>1, <2>2, MarkStep
  <2>4. Rel(Head(todo), Now, Now')
    BY <1>3, <2>3, AtDefineVariable
  <2>5. CallsOK'
    BY <1>1, <1>3, <2>1, <2>3, <2>4, CallsGo, FulfilsNone
  <2> QED BY <2>3, <2>5 DEF IInv
<1> QED BY <1>6, <1>7

-----------------------------------------------------------------------------
(* Functions *)

\* A step that changes of the current Compiler what the contracts do not see.
LEMMA SameTop ==
  ASSUME IInv, Now.level > 0, NEW c, IsComp(c), c.type = Current.type, c.depth = Current.depth,
         c.height = Current.height, c.locals = Current.locals, c.upvalues = Current.upvalues,
         compilers' = Replaced(compilers, Len(compilers), c),
         hadError' \in BOOLEAN, panicMode' \in BOOLEAN, panicMode' => hadError',
         hadError => hadError', UNCHANGED <<classes, env, captured, access>>
  PROVE  /\ Good(Now') /\ Expr(Now, Now', 0)
         /\ TablesOK' /\ UpvaluesOK' /\ CapturesOK' /\ NamesResolve'
<1>1. TablesOK /\ CallsOK /\ UpvaluesOK /\ CapturesOK /\ NamesResolve /\ Good(Now)
  BY DEF IInv, CallsOK
<1>2. /\ Len(compilers) \in Nat \ {0} /\ Current = compilers[Len(compilers)]
  BY <1>1, LevelPositive
<1>3. classes' = classes /\ env' = env /\ captured' = captured /\ access' = access
  OBVIOUS
<1>4. /\ CompsOK(compilers') /\ Stays(Now, Now') /\ Now'.top = Outline(c)
      /\ Now.top = Outline(Current) /\ Now'.err = hadError' /\ Now'.classes = Len(classes')
      /\ Now.err = hadError /\ Now.classes = Len(classes)
      /\ Len(compilers') = Len(compilers) /\ compilers'[Len(compilers)] = c
      /\ \A k \in 1..(Len(compilers) - 1) : compilers'[k] = compilers[k]
      /\ UpvaluesOK'
      /\ Now'.m = (IF hadError' THEN 0 ELSE Len(env'))
      /\ Now'.env = (IF hadError' THEN <<>> ELSE env')
  BY <1>1, TopStep
<1>5. Now'.top = Now.top
  BY <1>4 DEF Outline
<1>6. ~hadError' => SameEnv(Now, Now')
  BY <1>1, <1>3, <1>4, NowIs DEF SameEnv
<1>7. CompOK(Now.top, Now.top.depth + 1) /\ Now.top.height \in Int
  BY <1>1, GoodTypes DEF Good
<1>8. ASSUME ~hadError' PROVE EnvOK(Now')
  <2>1. EnvOK(Now) /\ Now'.level = Now.level /\ Now'.outer = Now.outer
    BY <1>1, <1>4, <1>8 DEF Good, Stays
  <2> QED BY <1>5, <1>6, <1>8, <2>1, EnvTop
<1>9. TablesOK' /\ NamesResolve' /\ Good(Now')
  <2>1. ~hadError' => IsSeq(env')
    BY <1>1, <1>3 DEF TablesOK
  <2>2. CompOK(Now'.top, Now'.top.depth + 1)
    BY <1>5, <1>7
  <2> QED BY <1>3, <1>4, <1>8, <2>1, <2>2, TopGood
<1>10. CapturesOK'
  <2>1. \A i : IsCaptured(compilers, Len(compilers), i) => IsCaptured(compilers', Len(compilers), i)
    BY <1>2, <1>4 DEF IsCaptured
  <2> QED BY <1>1, <1>2, <1>3, <1>4, <2>1, CapturesStay
<1>11. Expr(Now, Now', 0)
  BY <1>3, <1>4, <1>5, <1>6, <1>7 DEF Expr, SameLocals
<1> QED BY <1>4, <1>9, <1>10, <1>11

\* One parameter.
LEMMA ParameterStep ==
  ASSUME IInv, Parameter PROVE IInv'
<1>1. /\ TablesOK /\ CallsOK /\ Doing("parameter")
      /\ Become(<<Consume("id"), Call("declareVariable"), Emit(1), Call("defineVariable")>>)
  BY DEF IInv, Parameter
<1>2. /\ UNCHANGED <<classes, env, captured, access>> /\ ErrorIf(Current.arity >= MaxArgs)
      /\ compilers' = [compilers EXCEPT ![Level].arity = compilers[Level].arity + 1]
  BY DEF Parameter, ghosts
<1>3. /\ todo # <<>> /\ Head(todo)[1] = "parameter" /\ Good(Now) /\ Pre(Head(todo), Now)
  BY <1>1, NextCall
<1>4. Now.level > 0
  BY <1>3, AtParameter, ExprOKIs DEF StmtOK
<1>5. IsComp(Current)
  BY <1>1, <1>4, LevelPositive
<1> DEFINE x == Current.arity + 1
           c == WithArity(Current, x)
<1>6. compilers' = Replaced(compilers, Len(compilers), c)
  BY <1>2 DEF Replaced, WithArity, Current, Level
<1> HIDE DEF x
<1>7. /\ IsComp(c) /\ c.type = Current.type /\ c.depth = Current.depth
      /\ c.height = Current.height /\ c.locals = Current.locals /\ c.upvalues = Current.upvalues
  BY <1>5, WithArityIs
<1> HIDE DEF c
<1>8. /\ hadError' \in BOOLEAN /\ panicMode' \in BOOLEAN /\ (panicMode' => hadError')
      /\ (hadError => hadError')
  <2> DEFINE b == Current.arity >= MaxArgs
  <2>1. ErrorIf(b) /\ b \in BOOLEAN
    BY <1>2
  <2> HIDE DEF b
  <2> QED BY <1>1, <2>1, ErrorIfIs
<1>9. /\ Good(Now') /\ Expr(Now, Now', 0)
      /\ TablesOK' /\ UpvaluesOK' /\ CapturesOK' /\ NamesResolve'
  BY <1>2, <1>4, <1>6, <1>7, <1>8, SameTop
<1>10. Fulfils(<<Consume("id"), Call("declareVariable"), Emit(1), Call("defineVariable")>>,
               Now', Head(todo), Now)
  BY <1>3, <1>9, ParameterDoes
<1>11. CallsOK'
  BY <1>1, <1>3, <1>9, <1>10, CallsGo
<1> QED BY <1>9, <1>11 DEF IInv

\* What the contracts see of one more function,
LEMMA PushView ==
  ASSUME NEW comps, CompsOK(comps), Len(comps) > 0, NEW c, NEW new,
         Len(new) = Len(comps) + 1, new[Len(comps) + 1] = c,
         \A k \in 1..Len(comps) : new[k] = comps[k],
         NEW err, NEW err2, NEW prev, NEW cur, NEW vs, NEW n, NEW prev2, NEW cur2, NEW vs2, NEW n2,
         NEW s, s = View(err, prev, cur, comps, vs, n),
         NEW t, t = View(err2, prev2, cur2, new, vs2, n2)
  PROVE  /\ s.level = Len(comps) /\ s.level \in Nat \ {0} /\ t.level = s.level + 1
         /\ t.top = Outline(c)
         /\ \A k \in 1..s.level : t.outer[k] = CompAt(s, k) /\ CompAt(t, k) = CompAt(s, k)
         /\ t.outer[s.level] = s.top /\ CompAt(t, t.level) = t.top
         /\ \A k \in 1..(s.level - 1) : t.outer[k] = s.outer[k]
<1>1. IsSeq(comps) /\ Len(comps) \in Nat \ {0}
  BY SeqFacts DEF CompsOK
<1>2. /\ Len(new) = Len(comps) + 1 /\ new[Len(comps) + 1] = c
      /\ \A k \in 1..Len(comps) : new[k] = comps[k]
  OBVIOUS
<1>3. /\ s.level = Len(comps) /\ s.top = Outline(comps[Len(comps)])
      /\ s.outer = [k \in 1..(Len(comps) - 1) |-> Outline(comps[k])]
      /\ t.level = Len(new) /\ t.top = Outline(new[Len(new)])
      /\ t.outer = [k \in 1..(Len(new) - 1) |-> Outline(new[k])]
  BY DEF View
<1>4. t.level = s.level + 1 /\ t.top = Outline(c) /\ Len(new) - 1 = Len(comps)
  BY <1>1, <1>2, <1>3
<1>5. ASSUME NEW k \in 1..s.level PROVE CompAt(s, k) = Outline(comps[k])
  <2>1. CASE k = s.level
    BY <1>3, <2>1 DEF CompAt
  <2>2. CASE k # s.level
    <3>1. k \in 1..(Len(comps) - 1)
      BY <1>1, <1>3, <2>2
    <3> QED BY <1>3, <2>2, <3>1 DEF CompAt
  <2> QED BY <2>1, <2>2
<1>6. ASSUME NEW k \in 1..s.level PROVE t.outer[k] = CompAt(s, k)
  BY <1>2, <1>3, <1>4, <1>5
<1>7. ASSUME NEW k \in 1..s.level PROVE CompAt(t, k) = CompAt(s, k)
  <2>1. k # t.level
    BY <1>1, <1>3, <1>4
  <2>2. CompAt(t, k) = t.outer[k]
    BY <2>1 DEF CompAt
  <2> QED BY <1>6, <2>2
<1>9. t.outer[s.level] = s.top /\ CompAt(t, t.level) = t.top
  BY <1>1, <1>3, <1>6 DEF CompAt
<1>10. ASSUME NEW k \in 1..(s.level - 1) PROVE t.outer[k] = s.outer[k]
  BY <1>1, <1>3, <1>6 DEF CompAt
<1> QED BY <1>1, <1>3, <1>4, <1>6, <1>7, <1>9, <1>10

\* and of one less.
LEMMA PopView ==
  ASSUME NEW comps, CompsOK(comps), Len(comps) > 1, NEW new,
         Len(new) = Len(comps) - 1, \A k \in 1..Len(new) : new[k] = comps[k],
         NEW err, NEW err2, NEW prev, NEW cur, NEW vs, NEW n, NEW prev2, NEW cur2, NEW vs2, NEW n2,
         NEW s, s = View(err, prev, cur, comps, vs, n),
         NEW t, t = View(err2, prev2, cur2, new, vs2, n2)
  PROVE  /\ s.level = Len(comps) /\ s.level \in Nat /\ t.level = s.level - 1
         /\ t.top = s.outer[s.level - 1]
         /\ \A k \in 1..(t.level - 1) : t.outer[k] = s.outer[k]
         /\ \A k \in 1..t.level : CompAt(t, k) = s.outer[k] /\ CompAt(s, k) = s.outer[k]
<1>1. IsSeq(comps) /\ Len(comps) \in Nat
  BY SeqFacts DEF CompsOK
<1>2. Len(new) = Len(comps) - 1 /\ \A k \in 1..(Len(comps) - 1) : new[k] = comps[k]
  BY <1>1
<1>3. /\ s.level = Len(comps)
      /\ s.outer = [k \in 1..(Len(comps) - 1) |-> Outline(comps[k])]
      /\ t.level = Len(new) /\ t.top = Outline(new[Len(new)])
      /\ t.outer = [k \in 1..(Len(new) - 1) |-> Outline(new[k])]
  BY DEF View
<1>4. ASSUME NEW k \in 1..t.level PROVE s.outer[k] = Outline(new[k]) /\ k # s.level
  BY <1>1, <1>2, <1>3
<1>5. t.level \in 1..t.level
  BY <1>1, <1>2, <1>3
<1>6. t.top = s.outer[s.level - 1] /\ t.level = s.level - 1
  BY <1>1, <1>2, <1>3, <1>4, <1>5
<1>7. \A k \in 1..(t.level - 1) : t.outer[k] = s.outer[k]
  <2>1. \A k \in 1..(t.level - 1) : k \in 1..t.level
    BY <1>1, <1>2, <1>3
  <2>2. \A k \in 1..(t.level - 1) : s.outer[k] = Outline(new[k])
    BY <1>4, <2>1
  <2> QED BY <1>3, <2>2
<1>8. ASSUME NEW k \in 1..t.level PROVE CompAt(t, k) = s.outer[k] /\ CompAt(s, k) = s.outer[k]
  <2>1. CompAt(s, k) = s.outer[k]
    BY <1>4 DEF CompAt
  <2>2. CASE k = t.level
    BY <1>6, <2>1, <2>2 DEF CompAt
  <2>3. CASE k # t.level
    <3>1. k \in 1..(t.level - 1)
      BY <1>5, <2>3
    <3> QED BY <1>7, <2>1, <2>3, <3>1 DEF CompAt
  <2> QED BY <2>1, <2>2, <2>3
<1> QED BY <1>1, <1>3, <1>6, <1>7, <1>8

\* A function begins: t is inside of it, s is before.
Opens(s, t, type, a) ==
  /\ s.level \in Nat \ {0} /\ t.level = s.level + 1 /\ t.err = s.err /\ t.classes = s.classes
  /\ t.outer[s.level] = s.top /\ \A k \in 1..(s.level - 1) : t.outer[k] = s.outer[k]
  /\ t.top.type = type /\ t.top.depth = 1 /\ t.top.height = 1 /\ t.top.n = 1
  /\ t.top.locals[1].depth = 0
  /\ ~t.err => /\ a = s.m /\ t.m >= s.m /\ \A e \in 1..s.m : t.env[e] = s.env[e]
               /\ \A e \in (s.m + 1)..t.m : t.env[e].slot[1] = t.level

\* function: the parameters, the body and the closure.
LEMMA FunctionDoes ==
  ASSUME NEW s, NEW t, NEW c, NEW a, Good(s), Good(t), c[1] = "function", Pre(c, s),
         Opens(s, t, c[2], a)
  PROVE  Fulfils(<<Consume("("), Call("parameters"), <<"endFunction", a>>>>, t, c, s)
<1>1. /\ c[2] \in Types \ {"script"} /\ s.level > 0 /\ Bounded(s)
      /\ c[2] \in MethodTypes \/ ClassOK(s)
  BY AtFunction
<1>2. /\ s.level \in Nat \ {0} /\ t.level = s.level + 1 /\ t.err = s.err /\ t.classes = s.classes
      /\ t.outer[s.level] = s.top /\ \A k \in 1..(s.level - 1) : t.outer[k] = s.outer[k]
      /\ t.top.type = c[2] /\ t.top.depth = 1 /\ t.top.height = 1 /\ t.top.n = 1
      /\ t.top.locals[1].depth = 0
  BY DEF Opens
<1>3. ~t.err => /\ a = s.m /\ t.m >= s.m /\ (\A e \in 1..s.m : t.env[e] = s.env[e])
                /\ \A e \in (s.m + 1)..t.m : t.env[e].slot[1] = t.level
  BY DEF Opens
<1>4. StmtOK(t, 0)
  <2>1. Tidy(t) /\ Bounded(t)
    BY <1>2 DEF Tidy, TidyTo, Bounded, BoundedBy
  <2>2. Temps(t, 0)
    BY <1>2 DEF Temps
  <2>3. ASSUME ~t.err, t.classes > 0 PROVE InMethod(t)
    <3>1. CASE c[2] \in MethodTypes
      BY <1>2, <3>1 DEF InMethod, HasMethod
    <3>2. CASE ClassOK(s)
      <4>1. \/ s.top.type \in MethodTypes
            \/ \E k \in 1..(s.level - 1) : s.outer[k].type \in MethodTypes
        BY <1>2, <2>3, <3>2 DEF ClassOK, InMethod, HasMethod
      <4>2. \E k \in 1..(t.level - 1) : t.outer[k].type \in MethodTypes
        <5>1. CASE s.top.type \in MethodTypes
          <6>1. s.level \in 1..(t.level - 1)
            BY <1>2
          <6> QED BY <1>2, <5>1, <6>1
        <5>2. CASE \E k \in 1..(s.level - 1) : s.outer[k].type \in MethodTypes
          <6>1. PICK k \in 1..(s.level - 1) : s.outer[k].type \in MethodTypes
            BY <5>2
          <6>2. k \in 1..(t.level - 1) /\ t.outer[k] = s.outer[k]
            BY <1>2
          <6> QED BY <6>1, <6>2
        <5> QED BY <4>1, <5>1, <5>2
      <4> QED BY <4>2 DEF InMethod, HasMethod
    <3> QED BY <1>1, <3>1, <3>2
  <2>4. ExprOK(t)
    BY <1>2, <2>1, <2>3 DEF ExprOK, ClassOK
  <2> QED BY <2>1, <2>2, <2>4 DEF StmtOK
<1>5. Pre(Consume("("), t)
  BY <1>2, CanConsume
<1>6. ASSUME NEW u, Rel(Consume("("), t, u)
      PROVE  Fulfils(<<Call("parameters"), <<"endFunction", a>>>>, u, c, s)
  <2>1. Good(u) /\ Expr(t, u, 0)
    BY <1>6, OfConsume
  <2>2. StmtOK(u, 0)
    <3>1. ExprOK(u) /\ Tidy(u)
      BY <1>4, <2>1, ExprKeeps DEF StmtOK
    <3>2. Temps(u, 0)
      BY <1>2, <2>1 DEF Temps, Expr, SameLocals
    <3> QED BY <3>1, <3>2 DEF StmtOK
  <2>3. Pre(Call("parameters"), u)
    BY <2>2, CanParameters
  <2>4. ASSUME NEW v, Rel(Call("parameters"), u, v)
        PROVE  Fulfils(<<<<"endFunction", a>>>>, v, c, s)
    <3>1. Good(v) /\ Decl(u, v)
      BY <2>4, OfParameters
    <3>2. /\ v.level = t.level /\ v.outer = t.outer /\ v.classes = t.classes /\ (t.err => v.err)
      BY <2>1, <3>1 DEF Expr, Decl, Stays
    <3>3. ASSUME ~v.err
          PROVE  /\ ~t.err /\ v.m >= t.m /\ (\A e \in 1..t.m : v.env[e] = t.env[e])
                 /\ \A e \in (t.m + 1)..v.m : v.env[e].slot[1] = t.level
      BY <2>1, <3>1, <3>3 DEF Expr, Decl, Stays, SameEnv, MoreEnv
    <3>4. s.m \in Nat /\ t.m \in Nat /\ v.m \in Nat
      BY <3>1, GoodTypes
    <3>5. ASSUME ~v.err
          PROVE  a \in 0..v.m /\ \A e \in 1..v.m : e <= a <=> v.env[e].slot[1] < v.level
      <4>1. a = s.m /\ a \in 0..v.m
        BY <1>3, <3>3, <3>4, <3>5
      <4>2. ASSUME NEW e \in 1..v.m, e <= a PROVE v.env[e].slot[1] < v.level
        <5>1. e \in 1..s.m /\ e \in 1..t.m
          BY <1>3, <3>3, <3>4, <3>5, <4>1, <4>2
        <5>2. v.env[e] = s.env[e]
          BY <1>3, <3>3, <3>5, <5>1
        <5>3. s.env[e].slot[1] \in 1..s.level
          <6>1. ~s.err /\ Good(s) /\ s.level > 0
            BY <1>2, <3>3, <3>5
          <6> QED BY <5>1, <6>1, GoodEnv
        <5> QED BY <1>2, <3>2, <5>2, <5>3
      <4>3. ASSUME NEW e \in 1..v.m, ~(e <= a) PROVE v.env[e].slot[1] = v.level
        <5>1. CASE e \in 1..t.m
          <6>1. e \in (s.m + 1)..t.m
            BY <3>4, <4>1, <4>3, <5>1
          <6> QED BY <1>3, <3>2, <3>3, <3>5, <5>1, <6>1
        <5>2. CASE e \notin 1..t.m
          <6>1. e \in (t.m + 1)..v.m
            BY <3>4, <5>2
          <6> QED BY <3>2, <3>3, <3>5, <6>1
        <5> QED BY <5>1, <5>2
      <4> QED BY <1>2, <3>2, <4>1, <4>2, <4>3
    <3>6. Pre(<<"endFunction", a>>, v)
      <4>1. v.level > 1
        BY <1>2, <3>2
      <4>2. LevelSplit(v, a)
        BY <3>5 DEF LevelSplit
      <4> QED BY <4>1, <4>2, CanEndFunction
    <3>7. ASSUME NEW w, Rel(<<"endFunction", a>>, v, w) PROVE Fulfils(<<>>, w, c, s)
      <4>1. Good(w) /\ (v.err => w.err) /\ Leaves(v, w, a)
        BY <3>7, OfEndFunction
      <4>2. v.level - 1 = s.level /\ v.outer[v.level - 1] = s.top
        BY <1>2, <3>2
      <4>3. /\ w.level = s.level /\ w.classes = s.classes
            /\ w.outer = [k \in 1..(s.level - 1) |-> v.outer[k]]
            /\ w.top.type = s.top.type /\ w.top.depth = s.top.depth
            /\ w.top.n = s.top.n /\ w.top.locals = s.top.locals
            /\ ~w.err => /\ w.top.height = s.top.height + 1
                         /\ w.m = a /\ \A e \in 1..w.m : w.env[e] = v.env[e]
        BY <1>2, <3>2, <4>1, <4>2 DEF Leaves
      <4>4. w.outer = s.outer
        <5>1. s.outer = [k \in 1..(s.level - 1) |-> s.outer[k]]
          BY DEF Good
        <5>2. \A k \in 1..(s.level - 1) : v.outer[k] = s.outer[k]
          BY <1>2, <3>2
        <5> QED BY <4>3, <5>1, <5>2
      <4>5. ASSUME ~w.err PROVE SameEnv(s, w)
        <5>1. ~v.err /\ a = s.m /\ w.m = s.m
          BY <1>3, <3>3, <4>1, <4>3, <4>5
        <5>2. \A e \in 1..s.m : w.env[e] = s.env[e]
          <6>1. \A e \in 1..s.m : e \in 1..t.m
            BY <1>3, <3>3, <3>4, <5>1
          <6> QED BY <1>3, <3>3, <4>3, <4>5, <5>1, <6>1
        <5>3. s.env = [e \in 1..s.m |-> s.env[e]] /\ w.env = [e \in 1..w.m |-> w.env[e]]
          BY <4>1 DEF Good
        <5>4. w.env = s.env
          BY <5>1, <5>2, <5>3
        <5> QED BY <5>1, <5>4 DEF SameEnv
      <4>6. s.err => w.err
        BY <1>2, <3>2, <4>1
      <4>7. Expr(s, w, 1)
        BY <4>3, <4>4, <4>5, <4>6 DEF Expr, Stays, SameLocals
      <4>8. Rel(c, s, w)
        BY <4>1, <4>6, <4>7, AtFunction
      <4> QED BY <4>8, FulfilsNone
    <3> QED BY <3>6, <3>7, Step1
  <2> QED BY <2>3, <2>4, Step2
<1> QED BY <1>5, <1>6, Step3

\* The variables in scope of a new function: those outside, and this in a method.
LEMMA EnvPushes ==
  ASSUME NEW s, NEW t, EnvOK(s), s.level \in Nat, s.level > 0, s.m \in Nat, ~s.err, NEW a,
         Opens(s, t, t.top.type, a), \A k \in 1..s.level : CompAt(t, k) = CompAt(s, k),
         ~t.err,
         IF t.top.type \in MethodTypes
         THEN /\ t.m = s.m + 1 /\ t.env[t.m].slot = <<t.level, 0>>
              /\ t.env[t.m].name = t.top.locals[1].name
         ELSE t.m = s.m
  PROVE  EnvOK(t)
<1>1. /\ \A e \in 1..s.m : EnvHas(s, s.env[e])
      /\ \A k \in 1..s.level : \A i \in 1..CompAt(s, k).n :
           InScope(CompAt(s, k), i) => EnvSees(s, k, i)
      /\ EnvSorted(s)
  BY EnvParts
<1>2. /\ t.level = s.level + 1 /\ t.top.depth = 1 /\ t.top.n = 1 /\ t.top.locals[1].depth = 0
      /\ \A e \in 1..s.m : t.env[e] = s.env[e]
  BY DEF Opens
<1>3. CompAt(t, t.level) = t.top
  BY DEF CompAt
<1>4. InScope(t.top, 1) <=> t.top.type \in MethodTypes
  BY <1>2 DEF InScope
<1>5. ASSUME NEW e \in 1..t.m, e \notin 1..s.m
      PROVE  t.top.type \in MethodTypes /\ e = t.m /\ t.m = s.m + 1
  BY <1>5
<1>6. ASSUME NEW e \in 1..t.m PROVE EnvHas(t, t.env[e])
  <2>1. CASE e \in 1..s.m
    <3> DEFINE v == s.env[e]
               k == v.slot[1]
               i == v.slot[2] + 1
    <3>1. t.env[e] = v
      BY <1>2, <2>1
    <3>2. /\ v.slot \in (1..s.level) \X Nat /\ i \in 1..CompAt(s, k).n
          /\ InScope(CompAt(s, k), i) /\ CompAt(s, k).locals[i].name = v.name
      BY <1>1, <2>1 DEF EnvHas
    <3> HIDE DEF v
    <3>3. k \in 1..s.level /\ v.slot \in (1..t.level) \X Nat
      BY <1>2, <3>2
    <3>4. CompAt(t, k) = CompAt(s, k)
      BY <3>3
    <3> QED BY <3>1, <3>2, <3>3, <3>4 DEF EnvHas
  <2>2. CASE e \notin 1..s.m
    <3> DEFINE v == t.env[e]
    <3>1. /\ v.slot = <<t.level, 0>> /\ v.name = t.top.locals[1].name /\ InScope(t.top, 1)
      BY <1>4, <1>5, <2>2
    <3> HIDE DEF v
    <3>2. v.slot[1] = t.level /\ v.slot[2] + 1 = 1 /\ v.slot \in (1..t.level) \X Nat
      BY <1>2, <3>1
    <3>3. EnvHas(t, v)
      BY <1>2, <1>3, <3>1, <3>2 DEF EnvHas
    <3> QED BY <3>3 DEF v
  <2> QED BY <2>1, <2>2
<1>7. ASSUME NEW k \in 1..t.level, NEW i \in 1..CompAt(t, k).n, InScope(CompAt(t, k), i)
      PROVE  EnvSees(t, k, i)
  <2>1. CASE k = t.level
    <3>1. i = 1 /\ t.top.type \in MethodTypes
      BY <1>2, <1>3, <1>4, <1>7, <2>1
    <3>2. t.m \in 1..t.m /\ t.env[t.m].slot = <<k, i - 1>>
      BY <2>1, <3>1
    <3> QED BY <3>2 DEF EnvSees
  <2>2. CASE k # t.level
    <3>1. k \in 1..s.level
      BY <1>2, <2>2
    <3>2. i \in 1..CompAt(s, k).n /\ InScope(CompAt(s, k), i)
      BY <1>7, <3>1
    <3>3. PICK e \in 1..s.m : s.env[e].slot = <<k, i - 1>>
      BY <1>1, <3>1, <3>2 DEF EnvSees
    <3>4. e \in 1..t.m /\ t.env[e].slot = <<k, i - 1>>
      BY <1>2, <3>3
    <3> QED BY <3>4 DEF EnvSees
  <2> QED BY <2>1, <2>2
<1>8. ASSUME NEW e \in 1..t.m, NEW f \in 1..t.m, e < f PROVE Before(t.env[e].slot, t.env[f].slot)
  <2>1. e \in 1..s.m /\ t.env[e] = s.env[e]
    BY <1>2, <1>5, <1>8
  <2>2. CASE f \in 1..s.m
    <3>1. t.env[f] = s.env[f]
      BY <1>2, <2>2
    <3> QED BY <1>1, <1>8, <2>1, <2>2, <3>1 DEF EnvSorted
  <2>3. CASE f \notin 1..s.m
    <3> DEFINE p == s.env[e].slot
               q == t.env[f].slot
    <3>1. p \in (1..s.level) \X Nat
      BY <1>1, <2>1 DEF EnvHas
    <3>2. q = <<t.level, 0>>
      BY <1>5, <2>3
    <3> HIDE DEF p, q
    <3>3. q[1] = t.level /\ p[1] \in 1..s.level
      BY <3>1, <3>2
    <3>4. Before(p, q)
      BY <1>2, <3>3 DEF Before
    <3> QED BY <2>1, <3>4 DEF p, q
  <2> QED BY <2>2, <2>3
<1>9. EnvSorted(t)
  BY <1>8 DEF EnvSorted
<1> QED BY <1>6, <1>7, <1>9, EnvParts

\* A new Compiler.
LEMMA NewIs ==
  ASSUME NEW type, NEW c, c = NewCompiler(type)
  PROVE  /\ IsComp(c) /\ c.type = type /\ c.depth = 0 /\ c.height = 1 /\ c.upvalues = <<>>
         /\ Len(c.locals) = 1 /\ c.locals[1].depth = 0
         /\ c.locals[1].name = IF type = "function" THEN NoName ELSE "this"
<1> DEFINE nm == IF type = "function" THEN NoName ELSE "this"
           l == [name |-> nm, depth |-> 0, isCaptured |-> FALSE]
           x == <<l>>
           u == <<>>
<1>1. c = [type |-> type, depth |-> 0, arity |-> 0, upvalues |-> u, locals |-> x, height |-> 1]
  BY DEF NewCompiler
<1> HIDE DEF nm
<1>2. IsLocal(l) /\ l.depth = 0 /\ l.name = nm
  BY DEF IsLocal
<1> HIDE DEF l
<1>3. IsSeq(x) /\ Len(x) = 1 /\ x[1] = l
  <2>1. x \in Seq({l})
    OBVIOUS
  <2> QED BY <2>1 DEF IsSeq
<1>4. IsSeq(u) /\ Len(u) <= MaxUpvalues
  BY CompilerAssumption DEF IsSeq
<1> HIDE DEF x, u
<1>5. c.type = type /\ c.depth = 0 /\ c.arity = 0 /\ c.upvalues = u /\ c.locals = x /\ c.height = 1
  BY <1>1
<1>6. c = [type |-> c.type, depth |-> c.depth, arity |-> c.arity, upvalues |-> c.upvalues,
           locals |-> c.locals, height |-> c.height]
  BY <1>1, <1>5
<1>7. \A i \in 1..Len(x) : IsLocal(x[i])
  BY <1>2, <1>3
<1>8. IsComp(c)
  BY <1>3, <1>4, <1>5, <1>6, <1>7 DEF IsComp
<1> QED BY <1>2, <1>3, <1>5, <1>8 DEF nm, u

\* The outline of a new Compiler.
LEMMA NewOK ==
  ASSUME NEW c, IsComp(c), c.type \in Types, c.depth \in Nat, c.height \in Int, Len(c.locals) = 1,
         c.locals[1].depth = 0, c.locals[1].name = IF c.type = "function" THEN NoName ELSE "this",
         NEW o, o = Outline(c)
  PROVE  /\ CompOK(o, o.depth + 1) /\ o.type = c.type /\ o.depth = c.depth /\ o.height = c.height
         /\ o.n = 1 /\ o.locals[1].depth = 0 /\ o.locals[1].name = c.locals[1].name
<1>1. /\ o.type = c.type /\ o.depth = c.depth /\ o.height = c.height
      /\ o.n = Len(c.locals)
      /\ \A i \in 1..Len(c.locals) : /\ o.locals[i].name = c.locals[i].name
                                     /\ o.locals[i].depth = c.locals[i].depth
  BY OutlineParts
<1>2. o.n = 1 /\ o.locals[1].depth = 0 /\ o.locals[1].name = c.locals[1].name
  BY <1>1
<1>3. o.locals = [i \in 1..o.n |-> o.locals[i]]
  BY OutlineList
<1>4. \A i \in 1..o.n : o.locals[i].depth \in -1..(o.depth + 1)
  <2>1. \A i \in 1..o.n : i = 1
    BY <1>2
  <2> QED BY <1>1, <1>2, <2>1
<1>5. o.n \in 1..MaxLocals
  BY <1>2, CompilerAssumption
<1>6. CompOK(o, o.depth + 1)
  BY <1>1, <1>2, <1>3, <1>4, <1>5 DEF CompOK
<1> QED BY <1>1, <1>2, <1>6

\* function, behind initCompiler.
LEMMA BeginFunctionStep ==
  ASSUME IInv, BeginFunction PROVE IInv'
<1>1. /\ TablesOK /\ CallsOK /\ UpvaluesOK /\ CapturesOK /\ NamesResolve /\ Doing("function")
      /\ Become(<<Consume("("), Call("parameters"), <<"endFunction", Len(env)>>>>)
  BY DEF IInv, BeginFunction
<1> DEFINE c == WithDepth(NewCompiler(Arg), 1)
           new == [name |-> "this", slot |-> <<Level + 1, 0>>]
<1>2. /\ UNCHANGED <<hadError, panicMode, classes, captured, access>>
      /\ env' = IF Arg = "function" THEN env ELSE Append(env, new)
      /\ compilers' = Append(compilers, c)
  BY DEF BeginFunction, parser, WithDepth
<1>3. /\ todo # <<>> /\ Head(todo)[1] = "function" /\ Good(Now) /\ Pre(Head(todo), Now)
  BY <1>1, NextCall
<1>4. Now.level > 0 /\ Arg = Head(todo)[2] /\ Arg \in Types \ {"script"} /\ Bounded(Now)
  BY <1>3, AtFunction DEF Arg
<1>5. /\ Len(compilers) \in Nat \ {0} /\ CompsOK(compilers) /\ IsSeq(compilers)
      /\ Level = Len(compilers) /\ Now.level = Level
  BY <1>1, <1>4, LevelPositive
<1>6. /\ IsComp(c) /\ c.type = Arg /\ c.depth = 1 /\ c.height = 1 /\ c.upvalues = <<>>
      /\ Len(c.locals) = 1 /\ c.locals[1].depth = 0
      /\ c.locals[1].name = IF c.type = "function" THEN NoName ELSE "this"
  <2> DEFINE b == NewCompiler(Arg)
  <2>1. /\ IsComp(b) /\ b.type = Arg /\ b.height = 1 /\ b.upvalues = <<>>
        /\ Len(b.locals) = 1 /\ b.locals[1].depth = 0
        /\ b.locals[1].name = IF Arg = "function" THEN NoName ELSE "this"
    BY NewIs
  <2> HIDE DEF b
  <2>2. c = WithDepth(b, 1)
    BY DEF b
  <2> HIDE DEF c
  <2> QED BY <2>1, <2>2, WithDepthIs
<1> HIDE DEF c
<1>7. /\ IsSeq(compilers') /\ Len(compilers') = Len(compilers) + 1
      /\ (\A k \in 1..Len(compilers) : compilers'[k] = compilers[k])
      /\ compilers'[Len(compilers) + 1] = c
  BY <1>2, <1>5, AppendFacts
<1>8. CompsOK(compilers')
  <2>1. \A k \in 1..Len(compilers') : k \in 1..Len(compilers) \/ k = Len(compilers) + 1
    BY <1>5, <1>7
  <2> QED BY <1>5, <1>6, <1>7, <2>1 DEF CompsOK
<1>9. UpvaluesOK'
  <2>1. ASSUME NEW m \in 1..Len(compilers'), NEW q \in 1..Len(compilers'[m].upvalues)
        PROVE  LET u == compilers'[m].upvalues[q] IN
               /\ u.slot \in (1..(m - 1)) \X Nat /\ IsCaptured(compilers', u.slot[1], u.slot[2])
               /\ u.isLocal \in BOOLEAN /\ u.index \in Nat
               /\ u.isLocal => u.slot = <<m - 1, u.index>>
               /\ ~u.isLocal => /\ u.index < Len(compilers'[m - 1].upvalues)
                                /\ u.slot = compilers'[m - 1].upvalues[u.index + 1].slot
    <3>1. m \in 1..Len(compilers)
      <4>1. m # Len(compilers) + 1
        BY <1>6, <1>7
      <4> QED BY <1>5, <1>7, <4>1
    <3> DEFINE u == compilers[m].upvalues[q]
    <3>2. compilers'[m].upvalues[q] = u /\ q \in 1..Len(compilers[m].upvalues)
      BY <1>7, <3>1
    <3>3. /\ u.slot \in (1..(m - 1)) \X Nat /\ IsCaptured(compilers, u.slot[1], u.slot[2])
          /\ u.isLocal \in BOOLEAN /\ u.index \in Nat
          /\ u.isLocal => u.slot = <<m - 1, u.index>>
          /\ ~u.isLocal => /\ u.index < Len(compilers[m - 1].upvalues)
                           /\ u.slot = compilers[m - 1].upvalues[u.index + 1].slot
      BY <1>1, <3>1, <3>2 DEF UpvaluesOK, UpvaluesIn
    <3> HIDE DEF u
    <3>4. u.slot[1] \in 1..(m - 1)
      BY <3>3
    <3>5. m - 1 \in 1..Len(compilers) /\ u.slot[1] \in 1..Len(compilers)
      BY <1>5, <3>1, <3>4
    <3>6. compilers'[m - 1] = compilers[m - 1] /\ compilers'[u.slot[1]] = compilers[u.slot[1]]
      BY <1>7, <3>5
    <3>7. IsCaptured(compilers', u.slot[1], u.slot[2])
      BY <1>5, <1>7, <3>3, <3>5, <3>6 DEF IsCaptured
    <3> QED BY <3>2, <3>3, <3>6, <3>7
  <2> QED BY <2>1 DEF UpvaluesOK, UpvaluesIn
<1>10. CapturesOK'
  <2>1. ASSUME NEW v \in captured
        PROVE  v \in Nat \X Nat /\ IsCaptured(compilers', v[1], v[2])
    <3>1. v \in Nat \X Nat /\ IsCaptured(compilers, v[1], v[2])
      BY <1>1 DEF CapturesOK
    <3>2. v[1] \in 1..Len(compilers) /\ v[1] \in 1..Len(compilers')
      BY <1>5, <1>7, <3>1 DEF IsCaptured
    <3>3. compilers'[v[1]] = compilers[v[1]]
      BY <1>7, <3>2
    <3> QED BY <3>1, <3>2, <3>3 DEF IsCaptured
  <2>2. captured' = captured
    BY <1>2
  <2> QED BY <2>1, <2>2 DEF CapturesOK
<1>11. /\ hadError' \in BOOLEAN /\ hadError' = hadError /\ panicMode' = panicMode
       /\ classes' = classes /\ panicMode' \in BOOLEAN /\ (panicMode' => hadError')
       /\ access' = access /\ IsSeq(classes) /\ CompsOK(compilers)
  BY <1>1, <1>2 DEF TablesOK
<1>12. ~hadError => IsSeq(env) /\ Len(env) \in Nat /\ IsSeq(env')
  <2>1. SUFFICES ASSUME ~hadError PROVE IsSeq(env) /\ Len(env) \in Nat /\ IsSeq(env')
    OBVIOUS
  <2>2. IsSeq(env) /\ Len(env) \in Nat
    BY <1>1, <2>1, SeqFacts DEF TablesOK
  <2> HIDE DEF new
  <2>3. IsSeq(Append(env, new))
    BY <2>2, AppendFacts
  <2> QED BY <1>2, <2>2, <2>3
<1>13. TablesOK' /\ NamesResolve'
  BY <1>1, <1>8, <1>11, <1>12 DEF TablesOK, NamesResolve
<1> DEFINE s == Now
           t == View(hadError', previous', current', compilers', env', Len(classes'))
<1>14. Now' = t
  BY DEF Now
<1>15. s = View(hadError, previous, current, compilers, env, Len(classes))
  BY DEF Now
<1>16. /\ t.err = hadError /\ t.classes = Len(classes) /\ s.err = hadError
       /\ s.classes = Len(classes)
       /\ ~hadError => s.m = Len(env) /\ s.env = env /\ t.m = Len(env') /\ t.env = env'
       /\ t.m = (IF hadError THEN 0 ELSE Len(env')) /\ t.env = (IF hadError THEN <<>> ELSE env')
  BY <1>11, <1>15 DEF View
<1>17. Good(s)
  BY <1>3
<1> HIDE DEF s, t, new
<1>18. t = View(hadError', previous', current', compilers', env', Len(classes'))
  BY DEF t
<1>19. /\ s.level = Len(compilers) /\ s.level \in Nat \ {0} /\ t.level = s.level + 1
       /\ t.top = Outline(c)
       /\ \A k \in 1..s.level : t.outer[k] = CompAt(s, k) /\ CompAt(t, k) = CompAt(s, k)
       /\ t.outer[s.level] = s.top /\ CompAt(t, t.level) = t.top
       /\ \A k \in 1..(s.level - 1) : t.outer[k] = s.outer[k]
  <2> DEFINE cs == compilers'
             es == env'
  <2>1. /\ Len(cs) = Len(compilers) + 1 /\ cs[Len(compilers) + 1] = c
        /\ \A k \in 1..Len(compilers) : cs[k] = compilers[k]
    BY <1>7
  <2>2. t = View(hadError', previous', current', cs, es, Len(classes'))
    BY <1>18
  <2>3. CompsOK(compilers) /\ Len(compilers) > 0
    BY <1>5
  <2> HIDE DEF cs, es
  <2> QED BY <1>15, <2>1, <2>2, <2>3, PushView
<1>20. /\ CompOK(t.top, t.top.depth + 1) /\ t.top.type = Arg /\ t.top.depth = 1
       /\ t.top.height = 1 /\ t.top.n = 1 /\ t.top.locals[1].depth = 0
       /\ t.top.locals[1].name = IF Arg = "function" THEN NoName ELSE "this"
  <2>1. c.type \in Types /\ c.depth \in Nat /\ c.height \in Int
    BY <1>4, <1>6
  <2> QED BY <1>6, <1>19, <2>1, NewOK
<1>21. ~hadError =>
         /\ \A e \in 1..s.m : t.env[e] = s.env[e]
         /\ IF Arg = "function" THEN t.m = s.m
            ELSE t.m = s.m + 1 /\ t.env[t.m].slot = <<t.level, 0>> /\ t.env[t.m].name = "this"
  <2> SUFFICES ASSUME ~hadError
               PROVE  /\ \A e \in 1..s.m : t.env[e] = s.env[e]
                      /\ IF Arg = "function" THEN t.m = s.m
                         ELSE /\ t.m = s.m + 1 /\ t.env[t.m].slot = <<t.level, 0>>
                              /\ t.env[t.m].name = "this"
    OBVIOUS
  <2>1. CASE Arg = "function"
    <3>1. env' = env
      BY <1>2, <2>1
    <3> QED BY <1>16, <2>1, <3>1
  <2>2. CASE Arg # "function"
    <3>1. env' = Append(env, new)
      BY <1>2, <2>2
    <3>2. /\ Len(env') = Len(env) + 1 /\ env'[Len(env) + 1] = new
          /\ \A e \in 1..Len(env) : env'[e] = env[e]
      BY <1>12, <3>1, AppendFacts
    <3>3. new.slot = <<t.level, 0>> /\ new.name = "this"
      BY <1>5, <1>19 DEF new
    <3> QED BY <1>12, <1>16, <2>2, <3>2, <3>3
  <2> QED BY <2>1, <2>2
<1>22. Opens(s, t, Arg, Len(env))
  <2>1. ASSUME ~t.err
        PROVE  /\ Len(env) = s.m /\ t.m >= s.m /\ (\A e \in 1..s.m : t.env[e] = s.env[e])
               /\ \A e \in (s.m + 1)..t.m : t.env[e].slot[1] = t.level
    <3>1. ~hadError /\ s.m = Len(env) /\ s.m \in Nat
      BY <1>12, <1>16, <2>1
    <3>2. CASE Arg = "function"
      BY <1>21, <3>1, <3>2
    <3>3. CASE Arg # "function"
      <4>1. t.m = s.m + 1 /\ t.env[t.m].slot = <<t.level, 0>>
        BY <1>21, <3>1, <3>3
      <4>2. t.env[t.m].slot[1] = t.level
        BY <4>1
      <4>3. \A e \in (s.m + 1)..t.m : e = t.m
        BY <3>1, <4>1
      <4> QED BY <1>21, <3>1, <4>1, <4>2, <4>3
    <3> QED BY <3>2, <3>3
  <2> QED BY <1>16, <1>19, <1>20, <2>1 DEF Opens
<1>23. ASSUME ~t.err PROVE EnvOK(t)
  <2>1. EnvOK(s) /\ s.level \in Nat /\ s.level > 0 /\ s.m \in Nat /\ ~s.err
    BY <1>16, <1>17, <1>19, <1>23 DEF Good
  <2>2. IF t.top.type \in MethodTypes
        THEN /\ t.m = s.m + 1 /\ t.env[t.m].slot = <<t.level, 0>>
             /\ t.env[t.m].name = t.top.locals[1].name
        ELSE t.m = s.m
    <3>1. CASE Arg = "function"
      <4>1. t.top.type \notin MethodTypes
        BY <1>20, <3>1 DEF MethodTypes
      <4> QED BY <1>16, <1>21, <1>23, <3>1, <4>1
    <3>2. CASE Arg # "function"
      <4>1. t.top.type \in MethodTypes
        BY <1>4, <1>20, <3>2 DEF Types, MethodTypes
      <4>2. t.top.locals[1].name = "this"
        BY <1>20, <3>2
      <4> QED BY <1>16, <1>21, <1>23, <3>2, <4>1, <4>2
    <3> QED BY <3>1, <3>2
  <2>3. Opens(s, t, t.top.type, Len(env))
    BY <1>20, <1>22
  <2> QED BY <1>19, <1>23, <2>1, <2>2, <2>3, EnvPushes
<1>24. Good(t)
  <2>1. t.m \in Nat /\ t.env = [e \in 1..t.m |-> t.env[e]]
    BY <1>11, <1>12, <1>16, EnvIsList
  <2>2. t.err \in BOOLEAN /\ t.classes \in Nat /\ t.level \in Nat
    BY <1>11, <1>16, <1>19, SeqFacts
  <2>3. t.level - 1 = s.level
    BY <1>19
  <2>4. t.outer = [k \in 1..(t.level - 1) |-> t.outer[k]]
    BY <1>18 DEF View
  <2>5. ASSUME NEW k \in 1..(t.level - 1) PROVE CompOK(t.outer[k], t.outer[k].depth)
    <3>1. CASE k = s.level
      <4>1. CompOK(s.top, s.top.depth + 1)
        BY <1>17, <1>19 DEF Good
      <4>2. \A i \in 1..s.top.n : s.top.locals[i].depth \in -1..s.top.depth
        <5>1. \A i \in 1..s.top.n : s.top.locals[i].depth \in -1..(s.top.depth + 1)
          BY <4>1 DEF CompOK
        <5>2. \A i \in 1..s.top.n : s.top.locals[i].depth <= s.top.depth
          BY <1>4 DEF s, Bounded, BoundedBy
        <5>3. s.top.depth \in Nat
          BY <4>1 DEF CompOK
        <5> QED BY <5>1, <5>2, <5>3
      <4>3. CompOK(s.top, s.top.depth)
        BY <4>1, <4>2 DEF CompOK
      <4> QED BY <1>19, <3>1, <4>3
    <3>2. CASE k # s.level
      <4>1. k \in 1..(s.level - 1)
        <5>1. s.level \in Nat /\ k \in 1..s.level
          BY <1>19, <2>3
        <5> QED BY <3>2, <5>1
      <4>2. CompOK(s.outer[k], s.outer[k].depth)
        BY <1>17, <4>1 DEF Good
      <4> QED BY <1>19, <4>1, <4>2
    <3> QED BY <3>1, <3>2
  <2>6. ASSUME NEW k \in 2..t.level PROVE CompAt(t, k).type # "script"
    <3>1. CASE k = t.level
      BY <1>4, <1>19, <1>20, <3>1
    <3>2. CASE k # t.level
      <4>1. k \in 2..s.level /\ k \in 1..s.level
        BY <1>19, <3>2
      <4>2. CompAt(s, k).type # "script"
        BY <1>17, <4>1 DEF Good
      <4> QED BY <1>19, <4>1, <4>2
    <3> QED BY <3>1, <3>2
  <2> QED BY <1>20, <1>23, <2>1, <2>2, <2>4, <2>5, <2>6 DEF Good
<1>25. Fulfils(<<Consume("("), Call("parameters"), <<"endFunction", Len(env)>>>>,
               t, Head(todo), s)
  <2>1. Opens(s, t, Head(todo)[2], Len(env)) /\ Pre(Head(todo), s)
    BY <1>3, <1>4, <1>22 DEF s
  <2> QED BY <1>3, <1>17, <1>24, <2>1, FunctionDoes
<1>26. CallsOK'
  <2>1. Good(Now') /\ Fulfils(<<Consume("("), Call("parameters"), <<"endFunction", Len(env)>>>>,
                              Now', Head(todo), Now)
    BY <1>14, <1>24, <1>25 DEF s
  <2> QED BY <1>1, <1>3, <2>1, CallsGo
<1> QED BY <1>9, <1>10, <1>13, <1>26 DEF IInv

\* endCompiler, and the closure in the enclosing function.
LEMMA EndFunctionStep ==
  ASSUME IInv, EndFunction PROVE IInv'
<1>1. /\ TablesOK /\ CallsOK /\ UpvaluesOK /\ CapturesOK /\ NamesResolve /\ Doing("endFunction")
      /\ Become(<<Emit(1)>>)
  BY DEF IInv, EndFunction
<1>2. /\ UNCHANGED <<hadError, panicMode, classes, access>>
      /\ env' = SubSeq(env, 1, Arg) /\ captured' = {v \in captured : v[1] < Level}
      /\ compilers' = SubSeq(compilers, 1, Level - 1)
  BY DEF EndFunction, parser
<1>3. todo # <<>> /\ Head(todo)[1] = "endFunction" /\ Good(Now) /\ Pre(Head(todo), Now)
  BY <1>1, NextCall
<1>4. Now.level > 1 /\ Arg = Head(todo)[2] /\ LevelSplit(Now, Arg)
  BY <1>3, AtEndFunction DEF Arg
<1>5. Now.level = Len(compilers) /\ CompsOK(compilers) /\ IsSeq(compilers) /\ Level = Len(compilers)
  BY <1>1 DEF TablesOK, CompsOK, Now, View, Level
<1>6. Len(compilers) \in Nat /\ Len(compilers) > 1
  BY <1>4, <1>5, SeqFacts
<1>7. /\ IsSeq(compilers') /\ Len(compilers') = Len(compilers) - 1
      /\ \A k \in 1..(Len(compilers) - 1) : compilers'[k] = compilers[k]
  <2>1. Len(compilers) - 1 \in 0..Len(compilers)
    BY <1>6
  <2> QED BY <1>2, <1>5, <2>1, CutFacts
<1>8. CompsOK(compilers')
  <2>1. \A k \in 1..Len(compilers') : k \in 1..Len(compilers) /\ compilers'[k] = compilers[k]
    BY <1>6, <1>7
  <2> QED BY <1>5, <1>7, <2>1 DEF CompsOK
<1>9. UpvaluesOK'
  <2>1. ASSUME NEW m \in 1..Len(compilers'), NEW q \in 1..Len(compilers'[m].upvalues)
        PROVE  LET u == compilers'[m].upvalues[q] IN
               /\ u.slot \in (1..(m - 1)) \X Nat /\ IsCaptured(compilers', u.slot[1], u.slot[2])
               /\ u.isLocal \in BOOLEAN /\ u.index \in Nat
               /\ u.isLocal => u.slot = <<m - 1, u.index>>
               /\ ~u.isLocal => /\ u.index < Len(compilers'[m - 1].upvalues)
                                /\ u.slot = compilers'[m - 1].upvalues[u.index + 1].slot
    <3>1. m \in 1..Len(compilers) /\ m \in 1..(Len(compilers) - 1)
      BY <1>6, <1>7
    <3> DEFINE u == compilers[m].upvalues[q]
    <3>2. compilers'[m].upvalues[q] = u /\ q \in 1..Len(compilers[m].upvalues)
      BY <1>7, <3>1
    <3>3. /\ u.slot \in (1..(m - 1)) \X Nat /\ IsCaptured(compilers, u.slot[1], u.slot[2])
          /\ u.isLocal \in BOOLEAN /\ u.index \in Nat
          /\ u.isLocal => u.slot = <<m - 1, u.index>>
          /\ ~u.isLocal => /\ u.index < Len(compilers[m - 1].upvalues)
                           /\ u.slot = compilers[m - 1].upvalues[u.index + 1].slot
      BY <1>1, <3>1, <3>2 DEF UpvaluesOK, UpvaluesIn
    <3> HIDE DEF u
    <3>4. u.slot[1] \in 1..(m - 1)
      BY <3>3
    <3>5. m - 1 \in 1..(Len(compilers) - 1) /\ u.slot[1] \in 1..(Len(compilers) - 1)
      BY <1>6, <3>1, <3>4
    <3>6. compilers'[m - 1] = compilers[m - 1] /\ compilers'[u.slot[1]] = compilers[u.slot[1]]
      BY <1>7, <3>5
    <3>7. IsCaptured(compilers', u.slot[1], u.slot[2])
      BY <1>7, <3>3, <3>5, <3>6 DEF IsCaptured
    <3> QED BY <3>2, <3>3, <3>6, <3>7
  <2> QED BY <2>1 DEF UpvaluesOK, UpvaluesIn
<1>10. CapturesOK'
  <2>1. ASSUME NEW v \in captured, v[1] < Level
        PROVE  v \in Nat \X Nat /\ IsCaptured(compilers', v[1], v[2])
    <3>1. v \in Nat \X Nat /\ IsCaptured(compilers, v[1], v[2])
      BY <1>1 DEF CapturesOK
    <3>2. v[1] \in 1..Len(compilers)
      BY <3>1 DEF IsCaptured
    <3>3. v[1] \in 1..(Len(compilers) - 1)
      BY <1>5, <1>6, <2>1, <3>2
    <3>4. compilers'[v[1]] = compilers[v[1]]
      BY <1>7, <3>3
    <3> QED BY <1>7, <3>1, <3>3, <3>4 DEF IsCaptured
  <2> QED BY <1>2, <2>1 DEF CapturesOK
<1>11. /\ hadError' \in BOOLEAN /\ hadError' = hadError /\ panicMode' = panicMode
       /\ classes' = classes /\ panicMode' \in BOOLEAN /\ (panicMode' => hadError')
       /\ access' = access /\ IsSeq(classes)
  BY <1>1, <1>2 DEF TablesOK
<1> DEFINE s == Now
           t == View(hadError', previous', current', compilers', env', Len(classes'))
<1>12. Now' = t
  BY DEF Now
<1>13. s = View(hadError, previous, current, compilers, env, Len(classes))
  BY DEF Now
<1>14. /\ t.err = hadError /\ t.classes = Len(classes) /\ s.err = hadError
       /\ s.classes = Len(classes)
       /\ ~hadError => s.m = Len(env) /\ s.env = env /\ t.m = Len(env') /\ t.env = env'
       /\ t.m = (IF hadError THEN 0 ELSE Len(env')) /\ t.env = (IF hadError THEN <<>> ELSE env')
  BY <1>11, <1>13 DEF View
<1>15. Good(s) /\ s.level > 1 /\ LevelSplit(s, Arg)
  BY <1>3, <1>4
<1> HIDE DEF s, t
<1>16. t = View(hadError', previous', current', compilers', env', Len(classes'))
  BY DEF t
<1>17. ASSUME ~hadError
       PROVE  /\ IsSeq(env') /\ t.m = Arg /\ s.m \in Nat
              /\ \A e \in 1..Arg : t.env[e] = s.env[e]
  <2>1. IsSeq(env) /\ s.m = Len(env) /\ s.env = env /\ t.m = Len(env') /\ t.env = env'
    BY <1>1, <1>14, <1>17 DEF TablesOK
  <2>2. Arg \in 0..Len(env) /\ s.m \in Nat
    <3>1. Arg \in 0..s.m
      BY <1>14, <1>15, <1>17 DEF LevelSplit
    <3> QED BY <2>1, <3>1, SeqFacts
  <2>3. /\ IsSeq(env') /\ Len(env') = Arg /\ \A e \in 1..Arg : env'[e] = env[e]
    BY <1>2, <2>1, <2>2, CutFacts
  <2> QED BY <2>1, <2>2, <2>3
<1>18. TablesOK' /\ NamesResolve'
  BY <1>1, <1>8, <1>11, <1>17 DEF TablesOK, NamesResolve
<1>19. /\ s.level = Len(compilers) /\ s.level \in Nat /\ t.level = s.level - 1
       /\ t.top = s.outer[s.level - 1]
       /\ \A k \in 1..(t.level - 1) : t.outer[k] = s.outer[k]
       /\ \A k \in 1..t.level : CompAt(t, k) = s.outer[k] /\ CompAt(s, k) = s.outer[k]
  <2> DEFINE cs == compilers'
             es == env'
  <2>1. Len(cs) = Len(compilers) - 1 /\ \A k \in 1..Len(cs) : cs[k] = compilers[k]
    BY <1>6, <1>7
  <2>2. t = View(hadError', previous', current', cs, es, Len(classes'))
    BY <1>16
  <2>3. CompsOK(compilers) /\ Len(compilers) > 1
    BY <1>5, <1>6
  <2> HIDE DEF cs, es
  <2> QED BY <1>13, <2>1, <2>2, <2>3, PopView, SMTT(30)
<1>20. s.level \in Nat /\ t.level \in Nat \ {0} /\ t.level = s.level - 1 /\ t.level \in 1..(s.level - 1)
  <2>1. s.level \in Nat /\ s.level > 1 /\ t.level = s.level - 1
    BY <1>15, <1>19
  <2> QED BY <2>1
<1>21. t.outer = [k \in 1..(t.level - 1) |-> t.outer[k]]
  BY <1>16 DEF View
<1>22. CompOK(t.top, t.top.depth) /\ CompOK(t.top, t.top.depth + 1)
  <2>1. CompOK(t.top, t.top.depth)
    BY <1>15, <1>19, <1>20 DEF Good
  <2> DEFINE o == t.top
  <2> HIDE DEF o
  <2>2. \A i \in 1..o.n : o.locals[i].depth \in -1..(o.depth + 1)
    <3>1. o.depth \in Nat /\ \A i \in 1..o.n : o.locals[i].depth \in -1..o.depth
      BY <2>1 DEF CompOK, o
    <3> QED BY <3>1
  <2>3. CompOK(o, o.depth) => CompOK(o, o.depth + 1)
    BY <2>2 DEF CompOK
  <2> QED BY <2>1, <2>3 DEF o
<1>23. ASSUME ~t.err PROVE EnvOK(t)
  <2>1. EnvOK(s) /\ s.m \in Nat /\ ~s.err
    BY <1>14, <1>15, <1>17, <1>23 DEF Good
  <2>2. t.m = Arg /\ \A e \in 1..Arg : t.env[e] = s.env[e]
    BY <1>14, <1>17, <1>23
  <2>3. \A k \in 1..t.level : CompAt(t, k) = CompAt(s, k)
    BY <1>19
  <2> QED BY <1>15, <1>19, <2>1, <2>2, <2>3, EnvPops
<1>24. Good(t)
  <2>1. t.m \in Nat /\ t.env = [e \in 1..t.m |-> t.env[e]]
    BY <1>11, <1>14, <1>17, EnvIsList
  <2>2. t.err \in BOOLEAN /\ t.classes \in Nat
    BY <1>11, <1>14, SeqFacts
  <2>3. ASSUME NEW k \in 1..(t.level - 1) PROVE CompOK(t.outer[k], t.outer[k].depth)
    <3>1. k \in 1..(s.level - 1)
      BY <1>20
    <3>2. CompOK(s.outer[k], s.outer[k].depth)
      BY <1>15, <3>1 DEF Good
    <3> QED BY <1>19, <3>2
  <2>4. ASSUME NEW k \in 2..t.level PROVE CompAt(t, k).type # "script"
    <3>1. k \in 2..s.level /\ k \in 1..t.level
      BY <1>20
    <3>2. CompAt(s, k).type # "script"
      BY <1>15, <3>1 DEF Good
    <3> QED BY <1>19, <3>1, <3>2
  <2> QED BY <1>20, <1>21, <1>22, <1>23, <2>1, <2>2, <2>3, <2>4 DEF Good
<1>25. ASSUME NEW u, Rel(Emit(1), t, u) PROVE Rel(Head(todo), s, u)
  <2>1. Good(u) /\ (t.err => u.err) /\ Expr(t, u, 1)
    BY <1>25, OfEmit
  <2>2. /\ u.level = t.level /\ u.outer = t.outer /\ u.top.type = t.top.type
        /\ u.top.depth = t.top.depth /\ u.classes = t.classes
        /\ u.top.n = t.top.n /\ u.top.locals = t.top.locals
        /\ ~u.err => u.m = t.m /\ u.env = t.env /\ u.top.height = t.top.height + 1
    BY <2>1 DEF Expr, Stays, SameLocals, SameEnv
  <2>3. u.outer = [k \in 1..(u.level - 1) |-> s.outer[k]]
    BY <1>19, <1>21, <2>2
  <2>4. ASSUME ~u.err PROVE u.m = Arg /\ \A e \in 1..u.m : u.env[e] = s.env[e]
    BY <1>14, <1>17, <2>1, <2>2, <2>4
  <2>5. Leaves(s, u, Arg)
    BY <1>14, <1>19, <2>2, <2>3, <2>4 DEF Leaves
  <2>6. Head(todo)[1] = "endFunction" /\ Arg = Head(todo)[2]
    BY <1>3, <1>4
  <2>7. s.err => u.err
    BY <1>14, <2>1
  <2> QED BY <2>1, <2>5, <2>6, <2>7, AtEndFunction
<1>26. Fulfils(<<Emit(1)>>, t, Head(todo), s)
  <2>1. Pre(Emit(1), t)
    BY <1>20, CanEmit
  <2>2. ASSUME NEW u, Rel(Emit(1), t, u) PROVE Fulfils(<<>>, u, Head(todo), s)
    BY <1>25, <2>2, FulfilsNone
  <2> QED BY <2>1, <2>2, Step1
<1>27. CallsOK'
  <2>1. Good(Now') /\ Fulfils(<<Emit(1)>>, Now', Head(todo), Now)
    BY <1>12, <1>24, <1>26 DEF s
  <2> QED BY <1>1, <1>3, <2>1, CallsGo
<1> QED BY <1>9, <1>10, <1>18, <1>27 DEF IInv

-----------------------------------------------------------------------------
(* Names *)

\* Every non-empty set of naturals has a least element.
LEMMA HasLeast ==
  ASSUME NEW S \in SUBSET Nat, S # {}
  PROVE  \E x \in S : \A y \in S : x <= y
<1>1. PICK x \in S : \A y \in S : ~(<<y, x>> \in OpToRel(<, Nat))
  BY NatLessThanWellFounded, WFMin
<1>2. ASSUME NEW y \in S, y < x PROVE FALSE
  <2>1. <<y, x>> \in Nat \X Nat /\ <<y, x>>[1] < <<y, x>>[2]
    BY <1>2
  <2>2. <<y, x>> \in OpToRel(<, Nat)
    BY <2>1 DEF OpToRel
  <2> QED BY <1>1, <2>2
<1> QED BY <1>2

\* Largest returns the greatest element of a bounded set.
LEMMA LargestIs ==
  ASSUME NEW n \in Nat, NEW S \in SUBSET (1..n), S # {}
  PROVE  Largest(S) \in S /\ \A y \in S : y <= Largest(S)
<1> DEFINE T == {n - y : y \in S}
<1>1. T \in SUBSET Nat /\ T # {}
  <2>1. PICK y \in S : TRUE
    OBVIOUS
  <2>2. n - y \in T
    BY <2>1
  <2>3. \A z \in S : n - z \in Nat
    OBVIOUS
  <2> QED BY <2>2, <2>3
<1>2. PICK t \in T : \A y \in T : t <= y
  BY <1>1, HasLeast
<1>3. PICK x \in S : t = n - x
  BY <1>2
<1>4. \E z \in S : \A y \in S : y <= z
  BY <1>2, <1>3
<1> QED BY <1>4 DEF Largest

\* resolveLocal finds the last local of the name, if there is one.
LEMMA ResolveIs ==
  ASSUME NEW locals, Len(locals) \in Nat, NEW name, NEW i, i = ResolveLocal(locals, name)
  PROVE  \/ i = -1 /\ \A j \in 1..Len(locals) : locals[j].name # name
         \/ /\ i \in Nat /\ i < Len(locals) /\ i + 1 \in 1..Len(locals)
            /\ locals[i + 1].name = name
            /\ \A j \in 1..Len(locals) : locals[j].name = name => j <= i + 1
<1> DEFINE n == Len(locals)
           S == {j \in 1..n : locals[j].name = name}
<1>1. i = IF S = {} THEN -1 ELSE Largest(S) - 1
  BY DEF ResolveLocal
<1>2. CASE S = {}
  BY <1>1, <1>2
<1>3. CASE S # {}
  <2>1. Largest(S) \in S /\ \A y \in S : y <= Largest(S)
    BY <1>3, LargestIs
  <2> DEFINE x == Largest(S)
  <2>2. x \in 1..n /\ locals[x].name = name /\ \A j \in 1..n : locals[j].name = name => j <= x
    BY <2>1
  <2>3. i = x - 1
    BY <1>1, <1>3
  <2> HIDE DEF x
  <2>4. i \in Nat /\ i < n /\ i + 1 = x
    BY <2>2, <2>3
  <2> QED BY <2>2, <2>4
<1> QED BY <1>2, <1>3

\* The function l has no local of the name.
Lacks(s, l, name) == \A j \in 1..CompAt(s, l).n : CompAt(s, l).locals[j].name # name

\* The last local of the name in the innermost function that has one is in
\* scope, if it has a value.
LEMMA FoundInScope ==
  ASSUME NEW s, Good(s), s.level > 0, Bounded(s), NEW name, name # NoName,
         name = "this" => InMethod(s), NEW k \in 1..s.level, NEW i \in 1..CompAt(s, k).n,
         CompAt(s, k).locals[i].name = name, CompAt(s, k).locals[i].depth # -1,
         \A l \in 1..s.level : l > k => Lacks(s, l, name)
  PROVE  InScope(CompAt(s, k), i)
<1> DEFINE c == CompAt(s, k)
<1>1. s.level \in Nat /\ CompOK(c, c.depth + 1)
      /\ c.depth \in Nat /\ \A j \in 1..c.n : c.locals[j].depth \in -1..c.depth
  <2>1. s.level \in Nat
    BY DEF Good
  <2>2. CASE k = s.level
    <3>1. c = s.top
      BY <2>2 DEF CompAt
    <3> HIDE DEF c
    <3>2. CompOK(s.top, s.top.depth + 1)
      BY DEF Good
    <3>3. /\ s.top.depth \in Nat
          /\ \A j \in 1..s.top.n : s.top.locals[j].depth \in -1..(s.top.depth + 1)
      BY <3>2 DEF CompOK
    <3>4. \A j \in 1..s.top.n : s.top.locals[j].depth <= s.top.depth
      BY DEF Bounded, BoundedBy
    <3>5. \A j \in 1..s.top.n : s.top.locals[j].depth \in -1..s.top.depth
      BY <3>3, <3>4
    <3> QED BY <2>1, <3>1, <3>2, <3>3, <3>5
  <2>3. CASE k # s.level
    <3>1. k \in 1..(s.level - 1) /\ c = s.outer[k]
      BY <2>1, <2>3 DEF CompAt
    <3> HIDE DEF c
    <3>2. CompOK(c, c.depth)
      BY <3>1 DEF Good
    <3>3. c.depth \in Nat /\ \A j \in 1..c.n : c.locals[j].depth \in -1..c.depth
      BY <3>2 DEF CompOK
    <3>4. \A j \in 1..c.n : c.locals[j].depth \in -1..(c.depth + 1)
      BY <3>3
    <3>5. CompOK(c, c.depth + 1)
      BY <3>2, <3>4 DEF CompOK
    <3> QED BY <2>1, <3>3, <3>5
  <2> QED BY <2>2, <2>3
<1>2. c.locals[i].name = name /\ c.locals[i].depth # -1 /\ i \in 1..c.n
  OBVIOUS
<1>3. ASSUME i = 1 PROVE c.type \in MethodTypes
  <2>1. name = "this" /\ c.type # "function" /\ c.type \in Types
    <3>1. c.locals[1].name = (IF c.type = "function" THEN NoName ELSE "this") /\ c.type \in Types
      BY <1>1 DEF CompOK
    <3>2. c.locals[1].name = name
      BY <1>2, <1>3
    <3> HIDE DEF c
    <3> QED BY <3>1, <3>2
  <2>2. ASSUME c.type = "script" PROVE FALSE
    <3>1. k = 1
      <4>1. k \notin 2..s.level
        BY <2>2 DEF Good
      <4> QED BY <1>1, <4>1
    <3>2. PICK l \in 1..s.level : CompAt(s, l).type \in MethodTypes
      <4>1. \/ s.top.type \in MethodTypes
            \/ \E l \in 1..(s.level - 1) : s.outer[l].type \in MethodTypes
        BY <2>1 DEF InMethod, HasMethod
      <4>2. CASE s.top.type \in MethodTypes
        <5>1. s.level \in 1..s.level /\ CompAt(s, s.level) = s.top
          BY <1>1 DEF CompAt
        <5> QED BY <4>2, <5>1
      <4>3. CASE \E l \in 1..(s.level - 1) : s.outer[l].type \in MethodTypes
        <5>1. PICK l \in 1..(s.level - 1) : s.outer[l].type \in MethodTypes
          BY <4>3
        <5>2. l \in 1..s.level /\ l # s.level
          BY <1>1
        <5>3. CompAt(s, l) = s.outer[l]
          BY <5>2 DEF CompAt
        <5> QED BY <5>1, <5>2, <5>3
      <4> QED BY <4>1, <4>2, <4>3
    <3>3. l > k
      <4>1. l # 1
        <5>1. c.type \notin MethodTypes
          BY <2>2 DEF MethodTypes
        <5> QED BY <3>1, <3>2, <5>1
      <4> QED BY <1>1, <3>1, <4>1
    <3>4. 1 \in 1..CompAt(s, l).n /\ CompAt(s, l).locals[1].name = "this"
      <4> DEFINE o == CompAt(s, l)
      <4>1. \E d : CompOK(o, d)
        <5>1. CASE l = s.level
          <6>1. o = s.top
            BY <5>1 DEF CompAt
          <6> HIDE DEF o
          <6>2. CompOK(s.top, s.top.depth + 1)
            BY DEF Good
          <6> QED BY <6>1, <6>2
        <5>2. CASE l # s.level
          <6>1. l \in 1..(s.level - 1) /\ o = s.outer[l]
            BY <1>1, <5>2 DEF CompAt
          <6> HIDE DEF o
          <6>2. CompOK(o, o.depth)
            BY <6>1 DEF Good
          <6> QED BY <6>2
        <5> QED BY <5>1, <5>2
      <4>2. o.type # "function"
        BY <3>2 DEF MethodTypes
      <4> HIDE DEF o
      <4>3. PICK d : CompOK(o, d)
        BY <4>1
      <4>4. /\ o.n \in 1..MaxLocals
            /\ o.locals[1].name = IF o.type = "function" THEN NoName ELSE "this"
        BY <4>3 DEF CompOK
      <4>5. 1 \in 1..o.n /\ o.locals[1].name = "this"
        BY <4>2, <4>4, CompilerAssumption
      <4> QED BY <4>5 DEF o
    <3> QED BY <2>1, <3>3, <3>4 DEF Lacks
  <2> HIDE DEF c
  <2> QED BY <2>1, <2>2 DEF Types, MethodTypes
<1> HIDE DEF c
<1>4. c.locals[i].depth \in 0..c.depth
  BY <1>1, <1>2
<1>5. InScope(c, i)
  BY <1>3, <1>4 DEF InScope
<1> QED BY <1>5 DEF c

\* Local i of function k is the last one of the name, and has a value.
Finds(s, name, k, i) ==
  /\ k \in 1..s.level /\ i \in 1..CompAt(s, k).n
  /\ CompAt(s, k).locals[i].name = name /\ CompAt(s, k).locals[i].depth # -1
  /\ \A j \in 1..CompAt(s, k).n : CompAt(s, k).locals[j].name = name => j <= i
  /\ \A l \in 1..s.level : l > k => Lacks(s, l, name)

\* The last variable in scope of the name has the slot.
Denotes(s, name, slot) ==
  \E e \in 1..s.m : /\ s.env[e].name = name /\ s.env[e].slot = slot
                    /\ \A f \in 1..s.m : s.env[f].name = name => f <= e

\* The local found is the variable that is meant.
LEMMA FoundIsMeant ==
  ASSUME NEW s, Good(s), s.level > 0, ~s.err, Bounded(s), NEW name, name # NoName,
         name = "this" => InMethod(s), NEW k, NEW i, Finds(s, name, k, i)
  PROVE  Denotes(s, name, <<k, i - 1>>)
<1>0. /\ k \in 1..s.level /\ i \in 1..CompAt(s, k).n
      /\ CompAt(s, k).locals[i].name = name /\ CompAt(s, k).locals[i].depth # -1
      /\ \A j \in 1..CompAt(s, k).n : CompAt(s, k).locals[j].name = name => j <= i
      /\ \A l \in 1..s.level : l > k => Lacks(s, l, name)
  BY DEF Finds
<1>1. InScope(CompAt(s, k), i)
  BY <1>0, FoundInScope
<1>2. EnvOK(s) /\ s.m \in Nat /\ s.level \in Nat
  BY DEF Good
<1>3. /\ \A e \in 1..s.m : EnvHas(s, s.env[e])
      /\ \A l \in 1..s.level : \A j \in 1..CompAt(s, l).n :
           InScope(CompAt(s, l), j) => EnvSees(s, l, j)
      /\ EnvSorted(s)
  BY <1>2, EnvParts
<1>4. PICK e \in 1..s.m : s.env[e].slot = <<k, i - 1>>
  BY <1>0, <1>1, <1>3 DEF EnvSees
<1>5. s.env[e].slot[1] = k /\ s.env[e].slot[2] + 1 = i
  <2>1. i \in Int
    BY <1>0
  <2> QED BY <1>4, <2>1
<1>6. s.env[e].name = name
  BY <1>0, <1>3, <1>5 DEF EnvHas
<1>7. ASSUME NEW f \in 1..s.m, s.env[f].name = name PROVE f <= e
  <2> DEFINE q == s.env[f].slot
             c == CompAt(s, q[1])
             j == q[2] + 1
  <2>1. /\ q \in (1..s.level) \X Nat /\ j \in 1..c.n /\ c.locals[j].name = name
    BY <1>3, <1>7 DEF EnvHas
  <2>2. q[1] \in 1..s.level /\ q[2] \in Nat
    BY <2>1
  <2>3. ~(q[1] > k)
    <3>1. ~Lacks(s, q[1], name)
      BY <2>1 DEF Lacks
    <3> QED BY <1>0, <2>2, <3>1
  <2>4. q[1] = k => q[2] + 1 <= i
    BY <1>0, <2>1
  <2>5. ASSUME e < f PROVE FALSE
    <3>1. Before(s.env[e].slot, q)
      BY <1>3, <2>5 DEF EnvSorted
    <3> HIDE DEF q
    <3>2. k < q[1] \/ (k = q[1] /\ s.env[e].slot[2] < q[2])
      BY <1>5, <3>1 DEF Before
    <3>3. s.env[e].slot[2] = i - 1
      BY <1>4
    <3>4. k \in Int /\ i \in Int
      BY <1>0
    <3> QED BY <2>2, <2>3, <2>4, <3>2, <3>3, <3>4
  <2> QED BY <1>2, <2>5
<1> QED BY <1>4, <1>6, <1>7 DEF Denotes

\* A name that no function has a local of is in no scope.
LEMMA NotFound ==
  ASSUME NEW s, Good(s), s.level > 0, ~s.err, NEW name,
         \A l \in 1..s.level : Lacks(s, l, name)
  PROVE  \A e \in 1..s.m : s.env[e].name # name
<1>1. EnvOK(s)
  BY DEF Good
<1>2. \A e \in 1..s.m : EnvHas(s, s.env[e])
  BY <1>1, EnvParts
<1>3. ASSUME NEW e \in 1..s.m, s.env[e].name = name PROVE FALSE
  <2> DEFINE q == s.env[e].slot
  <2>1. /\ q \in (1..s.level) \X Nat /\ q[2] + 1 \in 1..CompAt(s, q[1]).n
        /\ CompAt(s, q[1]).locals[q[2] + 1].name = name
    BY <1>2, <1>3 DEF EnvHas
  <2>2. q[1] \in 1..s.level
    BY <2>1
  <2> QED BY <2>1, <2>2 DEF Lacks
<1> QED BY <1>3

\* The compilers as the contracts see them.
LEMMA CompIs ==
  ASSUME TablesOK, Now.level > 0, NEW k \in 1..Level
  PROVE  /\ CompAt(Now, k) = Outline(compilers[k]) /\ IsComp(compilers[k])
         /\ CompAt(Now, k).n = Len(compilers[k].locals) /\ Len(compilers[k].locals) \in Nat
         /\ \A i \in 1..Len(compilers[k].locals) :
              /\ CompAt(Now, k).locals[i].name = compilers[k].locals[i].name
              /\ CompAt(Now, k).locals[i].depth = compilers[k].locals[i].depth
<1>1. /\ Len(compilers) \in Nat \ {0} /\ CompsOK(compilers) /\ Level = Len(compilers)
  BY LevelPositive
<1>2. /\ Now.level = Len(compilers) /\ Now.top = Outline(compilers[Len(compilers)])
      /\ Now.outer = [l \in 1..(Len(compilers) - 1) |-> Outline(compilers[l])]
  BY DEF Now, View
<1>3. CompAt(Now, k) = Outline(compilers[k])
  <2>1. CASE k = Len(compilers)
    BY <1>2, <2>1 DEF CompAt
  <2>2. CASE k # Len(compilers)
    <3>1. k \in 1..(Len(compilers) - 1)
      BY <1>1, <2>2
    <3> QED BY <1>2, <2>2, <3>1 DEF CompAt
  <2> QED BY <2>1, <2>2
<1>4. IsComp(compilers[k])
  BY <1>1 DEF CompsOK
<1> DEFINE o == CompAt(Now, k)
<1>5. o = Outline(compilers[k])
  BY <1>3
<1> HIDE DEF o
<1>6. /\ o.n = Len(compilers[k].locals) /\ o.n \in Nat
      /\ \A i \in 1..Len(compilers[k].locals) :
              /\ o.locals[i].name = compilers[k].locals[i].name
              /\ o.locals[i].depth = compilers[k].locals[i].depth
  BY <1>4, <1>5, OutlineParts
<1> QED BY <1>4, <1>5, <1>6 DEF o

\* The functions that have a local of the name.
LEMMA OwnersAre ==
  ASSUME TablesOK, Now.level > 0, NEW name, NEW k \in 1..Level
  PROVE  k \in Owners(name) <=> ~Lacks(Now, k, name)
<1> DEFINE locals == compilers[k].locals
           i == ResolveLocal(locals, name)
<1>1. /\ CompAt(Now, k).n = Len(locals) /\ Len(locals) \in Nat
      /\ \A j \in 1..Len(locals) : CompAt(Now, k).locals[j].name = locals[j].name
  BY CompIs
<1>2. k \in Owners(name) <=> i # -1
  BY DEF Owners
<1>3. \/ i = -1 /\ \A j \in 1..Len(locals) : locals[j].name # name
      \/ i \in Nat /\ i + 1 \in 1..Len(locals) /\ locals[i + 1].name = name
  <2> DEFINE r == i
  <2>1. r = ResolveLocal(locals, name)
    OBVIOUS
  <2> HIDE DEF r, locals
  <2>2. \/ r = -1 /\ \A j \in 1..Len(locals) : locals[j].name # name
        \/ r \in Nat /\ r + 1 \in 1..Len(locals) /\ locals[r + 1].name = name
    BY <1>1, <2>1, ResolveIs
  <2> QED BY <2>2 DEF r
<1> HIDE DEF i, locals
<1> QED BY <1>1, <1>2, <1>3 DEF Lacks

\* A name of which no function has a local means a global.
LEMMA MeantGlobal ==
  ASSUME TablesOK, Good(Now), Now.level > 0, ~hadError, NEW name, Owners(name) = {}
  PROVE  Meant(name) = Global
<1>1. Level = Now.level /\ ~Now.err /\ Now.m = Len(env) /\ Now.env = env
  BY NowIs
<1>2. \A l \in 1..Now.level : Lacks(Now, l, name)
  BY <1>1, OwnersAre
<1>3. \A e \in 1..Now.m : Now.env[e].name # name
  BY <1>1, <1>2, NotFound
<1>4. {i \in 1..Len(env) : env[i].name = name} = {}
  BY <1>1, <1>3
<1> QED BY <1>4 DEF Meant

\* A name means the local that resolveLocal finds in the innermost function that
\* has one, unless the local has no value yet.
LEMMA MeantLocal ==
  ASSUME TablesOK, Good(Now), Now.level > 0, ~hadError, Bounded(Now), NEW name, name # NoName,
         name = "this" => InMethod(Now), NEW k \in Owners(name),
         \A l \in Owners(name) : l <= k, NEW i, i = ResolveLocal(compilers[k].locals, name),
         compilers[k].locals[i + 1].depth # -1
  PROVE  Meant(name) = <<k, i>>
<1>1. Level = Now.level /\ ~Now.err /\ Now.m = Len(env) /\ Now.env = env /\ IsSeq(env)
  BY NowIs DEF TablesOK
<1>2. k \in 1..Level /\ i # -1
  BY DEF Owners
<1>3. Len(compilers) \in Nat \ {0} /\ Level = Len(compilers)
  BY LevelPositive
<1> DEFINE locals == compilers[k].locals
           o == CompAt(Now, k)
<1>4. /\ o.n = Len(locals) /\ Len(locals) \in Nat
      /\ \A j \in 1..Len(locals) : /\ o.locals[j].name = locals[j].name
                                   /\ o.locals[j].depth = locals[j].depth
  BY <1>2, CompIs
<1>5. i = ResolveLocal(locals, name) /\ locals[i + 1].depth # -1
  OBVIOUS
<1> HIDE DEF locals
<1>6. /\ i \in Nat /\ i + 1 \in 1..Len(locals) /\ locals[i + 1].name = name
      /\ \A j \in 1..Len(locals) : locals[j].name = name => j <= i + 1
  BY <1>2, <1>4, <1>5, ResolveIs
<1>7. /\ i + 1 \in 1..o.n /\ o.locals[i + 1].name = name /\ o.locals[i + 1].depth # -1
      /\ \A j \in 1..o.n : o.locals[j].name = name => j <= i + 1
  BY <1>4, <1>5, <1>6
<1>8. \A l \in 1..Now.level : l > k => Lacks(Now, l, name)
  <2>1. ASSUME NEW l \in 1..Now.level, l > k PROVE Lacks(Now, l, name)
    <3>1. l \in 1..Level /\ l \notin Owners(name)
      BY <1>1, <1>2, <1>3, <2>1
    <3> QED BY <3>1, OwnersAre
  <2> QED BY <2>1
<1>9. Denotes(Now, name, <<k, (i + 1) - 1>>)
  <2> DEFINE x == i + 1
  <2>1. Finds(Now, name, k, x)
    BY <1>1, <1>2, <1>7, <1>8 DEF Finds
  <2> HIDE DEF x
  <2>2. Denotes(Now, name, <<k, x - 1>>)
    BY <1>1, <2>1, FoundIsMeant
  <2> QED BY <2>2 DEF x
<1>10. (i + 1) - 1 = i
  BY <1>6
<1>11. PICK e \in 1..Len(env) : /\ env[e].name = name /\ env[e].slot = <<k, i>>
                                /\ \A f \in 1..Len(env) : env[f].name = name => f <= e
  BY <1>1, <1>9, <1>10 DEF Denotes
<1> DEFINE S == {x \in 1..Len(env) : env[x].name = name}
<1>12. Len(env) \in Nat
  BY <1>1, SeqFacts
<1>13. e \in S /\ \A y \in S : y <= e
  BY <1>11
<1>14. Largest(S) \in S /\ \A y \in S : y <= Largest(S)
  BY <1>12, <1>13, LargestIs
<1>15. Largest(S) = e
  <2>1. Largest(S) <= e /\ e <= Largest(S) /\ Largest(S) \in Int /\ e \in Int
    BY <1>12, <1>13, <1>14
  <2> QED BY <2>1
<1>16. Meant(name) = env[Largest(S)].slot
  BY <1>13 DEF Meant
<1> QED BY <1>11, <1>15, <1>16

\* An access to a local of the current function, or to a global.
LEMMA NamedHereStep ==
  ASSUME IInv, NamedHere PROVE IInv'
<1> DEFINE i == ResolveLocal(Current.locals, Arg)
           b == i # -1 /\ Current.locals[i + 1].depth = -1
<1>1. TablesOK /\ CallsOK /\ UpvaluesOK /\ CapturesOK /\ NamesResolve /\ Doing("namedVariable")
  BY DEF IInv, NamedHere
<1>2. /\ (Owners(Arg) = {} \/ i # -1) /\ ErrorIf(b) /\ Become(GetOrSet)
      /\ UNCHANGED <<compilers, classes, env, captured>>
  BY DEF NamedHere
<1>3. access' = [got |-> IF i = -1 THEN Global ELSE <<Level, i>>, want |-> Meant(Arg)]
  BY DEF NamedHere
<1>4. /\ todo # <<>> /\ Head(todo)[1] = "namedVariable" /\ Good(Now) /\ Pre(Head(todo), Now)
  BY <1>1, NextCall
<1>5. /\ Arg2 \in BOOLEAN /\ Now.level > 0 /\ Bounded(Now)
      /\ ~Now.err => Arg # NoName /\ (Arg = "this" => InMethod(Now))
  BY <1>4, AtNamedVariable DEF Arg, Arg2
<1>6. /\ hadError' \in BOOLEAN /\ panicMode' \in BOOLEAN /\ (panicMode' => hadError')
      /\ (hadError => hadError') /\ (b => hadError')
  <2>1. b \in BOOLEAN
    OBVIOUS
  <2> HIDE DEF b
  <2> QED BY <1>1, <1>2, <2>1, ErrorIfIs
<1>7. Good(Now') /\ Expr(Now, Now', 0) /\ Now.err = hadError
  <2> HIDE DEF b, i
  <2> QED BY <1>1, <1>2, <1>5, <1>6, TokenStep
<1>8. Current = compilers[Level] /\ Level \in 1..Level /\ Level = Len(compilers)
  BY <1>1, <1>5, LevelPositive
<1>9. NamesResolve'
  <2>1. SUFFICES ASSUME ~hadError' PROVE access'.got = access'.want
    BY DEF NamesResolve
  <2>2. ~hadError /\ ~b
    BY <1>1, <1>6, <2>1 DEF TablesOK
  <2>3. Arg # NoName /\ (Arg = "this" => InMethod(Now))
    BY <1>5, <1>7, <2>2
  <2>4. access'.got = (IF i = -1 THEN Global ELSE <<Level, i>>) /\ access'.want = Meant(Arg)
    BY <1>3
  <2>5. CASE i = -1
    <3>1. Owners(Arg) = {}
      BY <1>2, <2>5
    <3>2. Meant(Arg) = Global
      BY <1>1, <1>4, <1>5, <2>2, <3>1, MeantGlobal
    <3> QED BY <2>4, <2>5, <3>2
  <2>6. CASE i # -1
    <3>1. Level \in Owners(Arg)
      BY <1>8, <2>6 DEF Owners
    <3>2. \A l \in Owners(Arg) : l <= Level
      BY <1>8 DEF Owners
    <3>3. compilers[Level].locals[i + 1].depth # -1 /\ i = ResolveLocal(compilers[Level].locals, Arg)
      BY <1>8, <2>2, <2>6
    <3> HIDE DEF i
    <3>4. Meant(Arg) = <<Level, i>>
      BY <1>1, <1>4, <1>5, <2>2, <2>3, <3>1, <3>2, <3>3, MeantLocal
    <3> QED BY <2>4, <2>6, <3>4
  <2> QED BY <2>5, <2>6
<1>10. CallsOK'
  <2>1. CASE Arg2 /\ current = "="
    <3>1. Become(<<Advance, Expression, Emit(0)>>)
      BY <1>2, <2>1 DEF GetOrSet
    <3>2. Fulfils(<<Advance, Expression, Emit(0)>>, Now', Head(todo), Now)
      BY <1>4, <1>7, <2>1, SetDoes DEF Arg2
    <3> QED BY <1>1, <1>4, <1>7, <3>1, <3>2, CallsGo
  <2>2. CASE ~(Arg2 /\ current = "=")
    <3>1. Become(<<Emit(1)>>)
      BY <1>2, <2>2 DEF GetOrSet
    <3>2. Fulfils(<<Emit(1)>>, Now', Head(todo), Now)
      BY <1>4, <1>7, GetDoes
    <3> QED BY <1>1, <1>4, <1>7, <3>1, <3>2, CallsGo
  <2> QED BY <2>1, <2>2
<1>11. compilers' = compilers /\ classes' = classes /\ env' = env /\ captured' = captured
  BY <1>2
<1>12. TablesOK'
  BY <1>1, <1>6, <1>11 DEF TablesOK
<1>13. UpvaluesOK' /\ CapturesOK'
  BY <1>1, <1>11 DEF UpvaluesOK, CapturesOK
<1> QED BY <1>9, <1>10, <1>12, <1>13 DEF IInv

\* A Compiler with a local marked as captured.
Holding(c, i) ==
  WithLocals(c, Replaced(c.locals, i, [c.locals[i] EXCEPT !.isCaptured = TRUE]))

\* Nothing else changes with the mark.
LEMMA HoldingIs ==
  ASSUME NEW c, IsComp(c), NEW i \in 1..Len(c.locals)
  PROVE  LET e == Holding(c, i) IN
           /\ IsComp(e) /\ e.type = c.type /\ e.depth = c.depth /\ e.upvalues = c.upvalues
           /\ e.height = c.height /\ Len(e.locals) = Len(c.locals)
           /\ \A j \in 1..Len(c.locals) : /\ e.locals[j].name = c.locals[j].name
                                          /\ e.locals[j].depth = c.locals[j].depth
                                          /\ c.locals[j].isCaptured => e.locals[j].isCaptured
           /\ e.locals[i].isCaptured
<1> DEFINE n == Len(c.locals)
           o == c.locals[i]
           y == TRUE
           l == [o EXCEPT !.isCaptured = y]
           x == Replaced(c.locals, i, l)
<1>1. IsSeq(c.locals) /\ \A j \in 1..n : IsLocal(c.locals[j])
  BY DEF IsComp
<1>2. l.name = o.name /\ l.depth = o.depth /\ l.isCaptured = y /\ IsLocal(l)
  <2>1. IsLocal(o)
    BY <1>1
  <2> DEFINE nm == o.name
             dp == o.depth
             ic == o.isCaptured
  <2>2. o = [name |-> nm, depth |-> dp, isCaptured |-> ic]
    BY <2>1 DEF IsLocal
  <2> HIDE DEF o, y, nm, dp, ic
  <2>3. l = [name |-> nm, depth |-> dp, isCaptured |-> y]
    BY <2>2
  <2> HIDE DEF l
  <2>4. l.name = nm /\ l.depth = dp /\ l.isCaptured = y
    BY <2>3
  <2>5. IsLocal(l)
    BY <2>3, <2>4 DEF IsLocal
  <2> QED BY <2>4, <2>5 DEF nm, dp
<1> HIDE DEF l
<1>3. /\ IsSeq(x) /\ Len(x) = n /\ x[i] = l /\ \A j \in 1..n : j # i => x[j] = c.locals[j]
  BY <1>1, ReplaceFacts
<1> HIDE DEF x
<1>4. \A j \in 1..Len(x) : IsLocal(x[j])
  BY <1>1, <1>2, <1>3
<1>5. ASSUME NEW j \in 1..n
      PROVE  /\ x[j].name = c.locals[j].name /\ x[j].depth = c.locals[j].depth
             /\ c.locals[j].isCaptured => x[j].isCaptured
  <2>1. CASE j = i
    BY <1>2, <1>3, <2>1
  <2>2. CASE j # i
    BY <1>3, <2>2
  <2> QED BY <2>1, <2>2
<1> DEFINE e == WithLocals(c, x)
<1>6. /\ IsComp(e) /\ e.locals = x /\ e.type = c.type /\ e.depth = c.depth
      /\ e.upvalues = c.upvalues /\ e.height = c.height
  BY <1>3, <1>4, WithLocalsIs
<1>7. Holding(c, i) = e
  BY DEF Holding, x, l
<1> HIDE DEF e
<1> QED BY <1>2, <1>3, <1>5, <1>6, <1>7

\* Compilers that differ in upvalues, marks and arity only have one outline.
LEMMA SameOutline ==
  ASSUME NEW c, NEW e, e.type = c.type, e.depth = c.depth, e.height = c.height,
         Len(e.locals) = Len(c.locals),
         \A j \in 1..Len(c.locals) : /\ e.locals[j].name = c.locals[j].name
                                     /\ e.locals[j].depth = c.locals[j].depth
  PROVE  Outline(e) = Outline(c)
<1>1. [i \in 1..Len(e.locals) |-> [name |-> e.locals[i].name, depth |-> e.locals[i].depth]]
      = [i \in 1..Len(c.locals) |-> [name |-> c.locals[i].name, depth |-> c.locals[i].depth]]
  OBVIOUS
<1> DEFINE a == [i \in 1..Len(e.locals) |-> [name |-> e.locals[i].name, depth |-> e.locals[i].depth]]
           b == [i \in 1..Len(c.locals) |-> [name |-> c.locals[i].name, depth |-> c.locals[i].depth]]
<1>2. a = b
  BY <1>1
<1>3. /\ Outline(e) = [type |-> e.type, depth |-> e.depth, height |-> e.height,
                       n |-> Len(e.locals), locals |-> a]
      /\ Outline(c) = [type |-> c.type, depth |-> c.depth, height |-> c.height,
                       n |-> Len(c.locals), locals |-> b]
  BY DEF Outline
<1> HIDE DEF a, b
<1> QED BY <1>2, <1>3

\* One Compiler, anywhere in the chain, is replaced by one of the same outline.
LEMMA OneReplaced ==
  ASSUME IInv, Now.level > 0, NEW k \in 1..Level, NEW c, IsComp(c),
         Outline(c) = Outline(compilers[k]), compilers' = Replaced(compilers, k, c),
         hadError' \in BOOLEAN, panicMode' \in BOOLEAN, panicMode' => hadError',
         hadError => hadError', UNCHANGED <<classes, env>>
  PROVE  /\ Good(Now') /\ Expr(Now, Now', 0) /\ TablesOK' /\ Now'.full = compilers'
         /\ Now'.err = hadError' /\ Now'.level = Level
         /\ Len(compilers') = Len(compilers) /\ compilers'[k] = c
         /\ \A l \in 1..Len(compilers) : l # k => compilers'[l] = compilers[l]
<1>1. TablesOK /\ Good(Now)
  BY DEF IInv, CallsOK
<1>2. /\ Len(compilers) \in Nat \ {0} /\ CompsOK(compilers) /\ IsSeq(compilers)
      /\ Level = Len(compilers)
  BY <1>1, LevelPositive
<1>3. /\ IsSeq(compilers') /\ Len(compilers') = Len(compilers) /\ compilers'[k] = c
      /\ \A l \in 1..Len(compilers) : l # k => compilers'[l] = compilers[l]
  BY <1>2, ReplaceFacts
<1>4. CompsOK(compilers')
  BY <1>2, <1>3 DEF CompsOK
<1>5. \A l \in 1..Len(compilers) : Outline(compilers'[l]) = Outline(compilers[l])
  BY <1>3
<1>6. TablesOK'
  BY <1>1, <1>4 DEF TablesOK
<1> DEFINE s == Now
           cs == compilers'
           er == hadError'
           pr == previous'
           cu == current'
           t == View(er, pr, cu, cs, env, Len(classes))
<1>7. Now' = t
  BY DEF Now
<1>8. s = View(hadError, previous, current, compilers, env, Len(classes)) /\ Good(s)
  BY <1>1 DEF Now
<1>9. /\ Len(cs) = Len(compilers)
      /\ \A l \in 1..Len(compilers) : Outline(cs[l]) = Outline(compilers[l])
  BY <1>3, <1>5
<1>10. /\ hadError \in BOOLEAN /\ er \in BOOLEAN /\ (hadError => er) /\ (~hadError => IsSeq(env))
  BY <1>1 DEF TablesOK
<1> HIDE DEF s, t, cs, er, pr, cu
<1>11. t = View(er, pr, cu, cs, env, Len(classes))
  BY DEF t
<1>12. Good(t) /\ Expr(s, t, 0) /\ t.err = er /\ t.full = cs
  BY <1>2, <1>8, <1>9, <1>10, <1>11, SameOutlines
<1>13. t.level = Len(cs)
  BY <1>11 DEF View
<1> QED BY <1>2, <1>3, <1>6, <1>7, <1>9, <1>12, <1>13 DEF s, cs, er

\* An access to a local of an enclosing function: it is marked, and the
\* functions in between get upvalues next.
LEMMA NamedOuterStep ==
  ASSUME IInv, NamedOuter PROVE IInv'
<1> DEFINE k == Largest(Owners(Arg))
           i == ResolveLocal(compilers[k].locals, Arg)
           b == compilers[k].locals[i + 1].depth = -1
           call == <<"upvalue", k + 1, i, TRUE, Meant(Arg)>>
           c == Holding(compilers[k], i + 1)
<1>1. TablesOK /\ CallsOK /\ UpvaluesOK /\ CapturesOK /\ NamesResolve /\ Doing("namedVariable")
  BY DEF IInv, NamedOuter
<1>2. /\ Owners(Arg) # {} /\ Level \notin Owners(Arg)
      /\ ErrorIf(b) /\ Become(<<call>> \o GetOrSet)
      /\ UNCHANGED <<classes, env, captured, access>>
  BY DEF NamedOuter, ghosts
<1>3. compilers' = Captured(compilers, k, i)
  BY DEF NamedOuter
<1>4. /\ todo # <<>> /\ Head(todo)[1] = "namedVariable" /\ Good(Now) /\ Pre(Head(todo), Now)
  BY <1>1, NextCall
<1>5. /\ Arg2 \in BOOLEAN /\ Now.level > 0 /\ Bounded(Now)
      /\ ~Now.err => Arg # NoName /\ (Arg = "this" => InMethod(Now))
  BY <1>4, AtNamedVariable DEF Arg, Arg2
<1>6. /\ Len(compilers) \in Nat \ {0} /\ Level = Len(compilers) /\ CompsOK(compilers)
  BY <1>1, <1>5, LevelPositive
<1>7. /\ k \in Owners(Arg) /\ \A l \in Owners(Arg) : l <= k
  <2>1. Owners(Arg) \in SUBSET (1..Level) /\ Level \in Nat
    BY <1>6 DEF Owners
  <2> QED BY <1>2, <2>1, LargestIs
<1> HIDE DEF k
<1>8. k \in 1..Level /\ k # Level /\ i # -1
  BY <1>2, <1>7 DEF Owners
<1>9. k \in 1..(Level - 1) /\ k + 1 \in 2..Level /\ (k + 1) - 1 = k
  BY <1>6, <1>8
<1>10. IsComp(compilers[k]) /\ Len(compilers[k].locals) \in Nat
  BY <1>1, <1>5, <1>8, CompIs
<1>11. i \in Nat /\ i < Len(compilers[k].locals) /\ i + 1 \in 1..Len(compilers[k].locals)
  <2> DEFINE L == compilers[k].locals
             r == i
  <2>1. r = ResolveLocal(L, Arg) /\ r # -1 /\ Len(L) \in Nat
    BY <1>8, <1>10
  <2> HIDE DEF L, r
  <2>2. r \in Nat /\ r < Len(L) /\ r + 1 \in 1..Len(L)
    BY <2>1, ResolveIs
  <2> QED BY <2>2 DEF r, L
<1>12. i = ResolveLocal(compilers[k].locals, Arg)
  OBVIOUS
<1> HIDE DEF i
<1>13. compilers' = Replaced(compilers, k, c)
  BY <1>3 DEF Captured, Replaced, Holding, WithLocals
<1>14. /\ IsComp(c) /\ c.type = compilers[k].type /\ c.depth = compilers[k].depth
       /\ c.upvalues = compilers[k].upvalues
       /\ c.height = compilers[k].height /\ Len(c.locals) = Len(compilers[k].locals)
       /\ \A j \in 1..Len(compilers[k].locals) :
            /\ c.locals[j].name = compilers[k].locals[j].name
            /\ c.locals[j].depth = compilers[k].locals[j].depth
            /\ compilers[k].locals[j].isCaptured => c.locals[j].isCaptured
       /\ c.locals[i + 1].isCaptured
  BY <1>10, <1>11, HoldingIs
<1> HIDE DEF c
<1>15. Outline(c) = Outline(compilers[k])
  BY <1>14, SameOutline
<1>16. /\ hadError' \in BOOLEAN /\ panicMode' \in BOOLEAN /\ (panicMode' => hadError')
       /\ (hadError => hadError') /\ (b => hadError')
  <2>1. b \in BOOLEAN
    OBVIOUS
  <2> HIDE DEF b
  <2> QED BY <1>1, <1>2, <2>1, ErrorIfIs
<1>17. /\ Good(Now') /\ Expr(Now, Now', 0) /\ TablesOK' /\ Now'.full = compilers'
       /\ Now'.err = hadError' /\ Now'.level = Level
       /\ Len(compilers') = Len(compilers) /\ compilers'[k] = c
       /\ \A l \in 1..Len(compilers) : l # k => compilers'[l] = compilers[l]
  <2>1. classes' = classes /\ env' = env
    BY <1>2
  <2> HIDE DEF b
  <2> QED BY <1>5, <1>8, <1>13, <1>14, <1>15, <1>16, <2>1, OneReplaced
<1>18. \A l \in Nat : \A j : IsCaptured(compilers, l, j) => IsCaptured(compilers', l, j)
  <2>1. ASSUME NEW l \in Nat, NEW j, IsCaptured(compilers, l, j) PROVE IsCaptured(compilers', l, j)
    <3>1. /\ l \in 1..Len(compilers) /\ j \in Nat /\ j < Len(compilers[l].locals)
          /\ compilers[l].locals[j + 1].isCaptured
      BY <2>1 DEF IsCaptured
    <3>2. CASE l = k
      <4>1. j + 1 \in 1..Len(compilers[k].locals)
        BY <1>10, <3>1, <3>2
      <4>2. j < Len(c.locals) /\ c.locals[j + 1].isCaptured
        BY <1>14, <3>1, <3>2, <4>1
      <4> QED BY <1>17, <3>1, <3>2, <4>2 DEF IsCaptured
    <3>3. CASE l # k
      BY <1>17, <3>1, <3>3 DEF IsCaptured
    <3> QED BY <3>2, <3>3
  <2> QED BY <2>1
<1>19. UpvaluesOK'
  <2>1. \A l \in 1..Len(compilers) : compilers'[l].upvalues = compilers[l].upvalues
    <3>1. ASSUME NEW l \in 1..Len(compilers) PROVE compilers'[l].upvalues = compilers[l].upvalues
      <4>1. CASE l = k
        BY <1>14, <1>17, <4>1
      <4>2. CASE l # k
        BY <1>17, <4>2
      <4> QED BY <4>1, <4>2
    <3> QED BY <3>1
  <2>2. \A l \in 1..(Len(compilers) - 1) : \A j :
          IsCaptured(compilers, l, j) => IsCaptured(compilers', l, j)
    BY <1>6, <1>18
  <2> DEFINE cs == compilers'
  <2>3. /\ Len(cs) = Len(compilers)
        /\ \A l \in 1..Len(compilers) : cs[l].upvalues = compilers[l].upvalues
        /\ \A l \in 1..(Len(compilers) - 1) : \A j :
             IsCaptured(compilers, l, j) => IsCaptured(cs, l, j)
    BY <1>17, <2>1, <2>2
  <2> HIDE DEF cs
  <2>4. UpvaluesIn(cs)
    BY <1>1, <1>6, <2>3, UpvaluesStay DEF UpvaluesOK
  <2> QED BY <2>4 DEF UpvaluesOK, cs
<1>20. CapturesOK'
  <2>1. captured' = captured
    BY <1>2
  <2>2. ASSUME NEW v \in captured PROVE v \in Nat \X Nat /\ IsCaptured(compilers', v[1], v[2])
    <3>1. v \in Nat \X Nat /\ IsCaptured(compilers, v[1], v[2])
      BY <1>1 DEF CapturesOK
    <3>2. v[1] \in Nat
      BY <3>1
    <3> QED BY <1>18, <3>1, <3>2
  <2> QED BY <2>1, <2>2 DEF CapturesOK
<1>21. NamesResolve'
  <2>1. access' = access /\ (hadError => hadError') /\ hadError \in BOOLEAN
    BY <1>1, <1>2, <1>16 DEF TablesOK
  <2> QED BY <1>1, <2>1 DEF NamesResolve
<1>22. ASSUME ~hadError' PROVE Meant(Arg) = <<k, i>>
  <2>1. ~hadError /\ compilers[k].locals[i + 1].depth # -1
    BY <1>1, <1>16, <1>22 DEF TablesOK
  <2>2. ~Now.err
    BY <1>1, <2>1, NowIs
  <2>3. Arg # NoName /\ (Arg = "this" => InMethod(Now))
    BY <1>5, <2>2
  <2> QED BY <1>1, <1>4, <1>5, <1>7, <1>12, <2>1, <2>3, MeantLocal
<1>23. UpvalueOK(Now', k + 1, i, TRUE, Meant(Arg))
  <2> DEFINE m == k + 1
             v == Meant(Arg)
             u == Now'
  <2>1. m \in 2..u.level /\ m - 1 = k
    BY <1>9, <1>17
  <2>2. i < Len(u.full[k].locals) /\ u.full[k].locals[i + 1].isCaptured /\ i \in Nat
    BY <1>11, <1>14, <1>17
  <2>3. ~u.err => v = <<k, i>>
    BY <1>17, <1>22
  <2> HIDE DEF m, v, u
  <2>4. UpvalueOK(u, m, i, TRUE, v)
    BY <2>1, <2>2, <2>3 DEF UpvalueOK
  <2> QED BY <2>4 DEF m, v, u
<1>24. CallsOK'
  <2>1. CASE Arg2 /\ current = "="
    <3>1. <<call>> \o <<Advance, Expression, Emit(0)>> = <<call, Advance, Expression, Emit(0)>>
      BY Glue13
    <3>2. GetOrSet = <<Advance, Expression, Emit(0)>>
      BY <2>1 DEF GetOrSet
    <3>3. Become(<<call, Advance, Expression, Emit(0)>>)
      BY <1>2, <3>1, <3>2
    <3>4. Fulfils(<<call, Advance, Expression, Emit(0)>>, Now', Head(todo), Now)
      BY <1>4, <1>17, <1>23, <2>1, UpvalueSetDoes DEF Arg2
    <3> HIDE DEF call
    <3> QED BY <1>1, <1>4, <1>17, <3>3, <3>4, CallsGo
  <2>2. CASE ~(Arg2 /\ current = "=")
    <3>1. <<call>> \o <<Emit(1)>> = <<call, Emit(1)>>
      BY Glue11
    <3>2. GetOrSet = <<Emit(1)>>
      BY <2>2 DEF GetOrSet
    <3>3. Become(<<call, Emit(1)>>)
      BY <1>2, <3>1, <3>2
    <3>4. Fulfils(<<call, Emit(1)>>, Now', Head(todo), Now)
      BY <1>4, <1>17, <1>23, UpvalueGetDoes
    <3> HIDE DEF call
    <3> QED BY <1>1, <1>4, <1>17, <3>3, <3>4, CallsGo
  <2> QED BY <2>1, <2>2
<1> QED BY <1>17, <1>19, <1>20, <1>21, <1>24 DEF IInv

\* addUpvalue: the old upvalues stay, any other is the new one, and the result is
\* the index of one for the variable unless there are too many.
LEMMA AddUpvalueIs ==
  ASSUME NEW ups, IsSeq(ups), Len(ups) <= MaxUpvalues, NEW u, NEW a, a = AddUpvalue(ups, u)
  PROVE  /\ IsSeq(a.upvalues) /\ Len(a.upvalues) \in Nat /\ Len(a.upvalues) <= MaxUpvalues
         /\ Len(ups) <= Len(a.upvalues) /\ a.full \in BOOLEAN
         /\ a.arg \in Nat /\ a.arg < Len(a.upvalues)
         /\ \A q \in 1..Len(ups) : a.upvalues[q] = ups[q]
         /\ \A q \in 1..Len(a.upvalues) : q \notin 1..Len(ups) => a.upvalues[q] = u
         /\ ~a.full => /\ a.upvalues[a.arg + 1].index = u.index
                       /\ a.upvalues[a.arg + 1].isLocal = u.isLocal
<1> DEFINE n == Len(ups)
           Same == {i \in 1..n : ups[i].index = u.index /\ ups[i].isLocal = u.isLocal}
<1>1. n \in Nat /\ MaxUpvalues \in Nat \ {0}
  BY SeqFacts, CompilerAssumption
<1>2. a = IF Same # {} THEN [upvalues |-> ups, arg |-> Largest(Same) - 1, full |-> FALSE]
          ELSE IF n = MaxUpvalues THEN [upvalues |-> ups, arg |-> 0, full |-> TRUE]
          ELSE [upvalues |-> Append(ups, u), arg |-> n, full |-> FALSE]
  BY DEF AddUpvalue
<1>3. CASE Same # {}
  <2> DEFINE x == Largest(Same)
  <2>1. x \in Same
    BY <1>1, <1>3, LargestIs
  <2>2. x \in 1..n /\ ups[x].index = u.index /\ ups[x].isLocal = u.isLocal
    BY <2>1
  <2>3. a.full = FALSE
    BY <1>2, <1>3
  <2>4. a.upvalues = ups /\ a.arg = x - 1
    BY <1>2, <1>3
  <2> HIDE DEF x, Same
  <2>5. a.arg \in Nat /\ a.arg < n /\ a.arg + 1 = x
    BY <1>1, <2>2, <2>4
  <2>6. a.full \in BOOLEAN /\ ~a.full
    BY <2>3
  <2>7. \A q \in 1..Len(ups) : a.upvalues[q] = ups[q]
    BY <2>4
  <2>8. \A q \in 1..Len(a.upvalues) : q \in 1..Len(ups)
    BY <2>4
  <2>9. Len(a.upvalues) = n /\ IsSeq(a.upvalues) /\ n <= n
    BY <1>1, <2>4
  <2>10. a.upvalues[a.arg + 1].index = u.index /\ a.upvalues[a.arg + 1].isLocal = u.isLocal
    BY <2>2, <2>4, <2>5
  <2> QED BY <1>1, <2>5, <2>6, <2>7, <2>8, <2>9, <2>10
<1>4. CASE Same = {} /\ n = MaxUpvalues
  <2>1. a.full = TRUE
    BY <1>2, <1>4
  <2>2. a.upvalues = ups /\ a.arg = 0
    BY <1>2, <1>4
  <2>3. a.full \in BOOLEAN /\ a.full
    BY <2>1
  <2>4. \A q \in 1..Len(ups) : a.upvalues[q] = ups[q]
    BY <2>2
  <2>5. \A q \in 1..Len(a.upvalues) : q \in 1..Len(ups)
    BY <2>2
  <2>6. Len(a.upvalues) = n /\ IsSeq(a.upvalues) /\ n <= n /\ 0 \in Nat /\ 0 < n
    BY <1>1, <1>4, <2>2
  <2>7. a.arg \in Nat /\ a.arg < Len(a.upvalues)
    BY <2>2, <2>6
  <2> QED BY <1>1, <2>3, <2>4, <2>5, <2>6, <2>7
<1>5. CASE Same = {} /\ n # MaxUpvalues
  <2> DEFINE x == Append(ups, u)
  <2>1. a.full = FALSE
    BY <1>2, <1>5
  <2>2. a.upvalues = x /\ a.arg = n
    BY <1>2, <1>5
  <2>3. /\ IsSeq(x) /\ Len(x) = n + 1 /\ x[n + 1] = u /\ \A i \in 1..n : x[i] = ups[i]
    BY AppendFacts
  <2>4. n + 1 <= MaxUpvalues
    BY <1>1, <1>5
  <2> HIDE DEF x, Same
  <2>5. a.full \in BOOLEAN /\ ~a.full
    BY <2>1
  <2>6. \A q \in 1..Len(x) : q \notin 1..n => x[q] = u
    BY <1>1, <2>3
  <2>7. Len(x) \in Nat /\ Len(x) <= MaxUpvalues /\ n <= Len(x) /\ n < Len(x)
    BY <1>1, <2>3, <2>4
  <2>8. a.upvalues[a.arg + 1] = u
    BY <2>2, <2>3
  <2> QED BY <1>1, <2>2, <2>3, <2>5, <2>6, <2>7, <2>8
<1> QED BY <1>3, <1>4, <1>5

\* One upvalue of function m.
UpvalueIn(comps, m, u) ==
  /\ u.slot \in (1..(m - 1)) \X Nat /\ IsCaptured(comps, u.slot[1], u.slot[2])
  /\ u.isLocal \in BOOLEAN /\ u.index \in Nat
  /\ u.isLocal => u.slot = <<m - 1, u.index>>
  /\ ~u.isLocal => /\ u.index < Len(comps[m - 1].upvalues)
                   /\ u.slot = comps[m - 1].upvalues[u.index + 1].slot

\* What is said of all upvalues is said of each.
LEMMA UpvaluesAre ==
  ASSUME NEW comps
  PROVE  UpvaluesIn(comps) <=>
           \A m \in 1..Len(comps) : \A q \in 1..Len(comps[m].upvalues) :
             UpvalueIn(comps, m, comps[m].upvalues[q])
BY DEF UpvaluesIn, UpvalueIn

\* Function m gets more upvalues.
LEMMA UpvaluesGrow ==
  ASSUME NEW comps, CompsOK(comps), UpvaluesIn(comps), NEW m \in 1..Len(comps), NEW new,
         Len(new) = Len(comps), \A k \in 1..Len(comps) : new[k].locals = comps[k].locals,
         \A k \in 1..Len(comps) : k # m => new[k].upvalues = comps[k].upvalues,
         Len(new[m].upvalues) \in Nat, Len(comps[m].upvalues) <= Len(new[m].upvalues),
         \A q \in 1..Len(comps[m].upvalues) : new[m].upvalues[q] = comps[m].upvalues[q],
         NEW u, UpvalueIn(comps, m, u),
         \A q \in 1..Len(new[m].upvalues) :
           q \notin 1..Len(comps[m].upvalues) => new[m].upvalues[q] = u
  PROVE  UpvaluesIn(new)
<1>1. /\ Len(comps) \in Nat /\ \A k \in 1..Len(comps) : Len(comps[k].upvalues) \in Nat
  BY SeqFacts DEF CompsOK, IsComp
<1>2. ASSUME NEW k \in Nat, NEW i, IsCaptured(comps, k, i) PROVE IsCaptured(new, k, i)
  <2>1. k \in 1..Len(comps)
    BY <1>2 DEF IsCaptured
  <2>2. new[k].locals = comps[k].locals
    BY <2>1
  <2> QED BY <1>2, <2>2 DEF IsCaptured
<1>3. ASSUME NEW k \in 1..Len(comps), NEW q \in 1..Len(comps[k].upvalues)
      PROVE  q \in 1..Len(new[k].upvalues) /\ new[k].upvalues[q] = comps[k].upvalues[q]
  <2>1. CASE k = m
    BY <1>1, <2>1
  <2>2. CASE k # m
    BY <2>2
  <2> QED BY <2>1, <2>2
<1>4. ASSUME NEW k \in 1..Len(comps), NEW v, UpvalueIn(comps, k, v) PROVE UpvalueIn(new, k, v)
  <2>1. /\ v.slot \in (1..(k - 1)) \X Nat /\ IsCaptured(comps, v.slot[1], v.slot[2])
        /\ v.isLocal \in BOOLEAN /\ v.index \in Nat
        /\ v.isLocal => v.slot = <<k - 1, v.index>>
        /\ ~v.isLocal => /\ v.index < Len(comps[k - 1].upvalues)
                         /\ v.slot = comps[k - 1].upvalues[v.index + 1].slot
    BY <1>4 DEF UpvalueIn
  <2>2. v.slot[1] \in 1..(k - 1)
    BY <2>1
  <2>3. v.slot[1] \in Nat /\ k - 1 \in 1..Len(comps)
    BY <1>1, <2>2
  <2>4. IsCaptured(new, v.slot[1], v.slot[2])
    BY <1>2, <2>1, <2>3
  <2>5. ASSUME ~v.isLocal
        PROVE  /\ v.index < Len(new[k - 1].upvalues)
               /\ v.slot = new[k - 1].upvalues[v.index + 1].slot
    <3> DEFINE l == k - 1
               q == v.index + 1
    <3>1. l \in 1..Len(comps) /\ Len(comps[l].upvalues) \in Nat
      BY <1>1, <2>3
    <3>2. v.index < Len(comps[l].upvalues) /\ v.slot = comps[l].upvalues[q].slot
      BY <2>1, <2>5
    <3>3. q \in 1..Len(comps[l].upvalues)
      <4>1. \A x, n \in Nat : x < n => x + 1 \in 1..n
        OBVIOUS
      <4>2. v.index \in Nat
        BY <2>1
      <4> HIDE DEF l
      <4> QED BY <3>1, <3>2, <4>1, <4>2
    <3>4. q \in 1..Len(new[l].upvalues) /\ new[l].upvalues[q] = comps[l].upvalues[q]
      BY <1>3, <3>1, <3>3
    <3>5. Len(new[l].upvalues) \in Nat
      <4>1. CASE l = m
        BY <4>1
      <4>2. CASE l # m
        BY <3>1, <4>2
      <4> QED BY <4>1, <4>2
    <3>6. v.index < Len(new[l].upvalues)
      BY <2>1, <3>4, <3>5
    <3> QED BY <3>2, <3>4, <3>6
  <2> QED BY <2>1, <2>4, <2>5 DEF UpvalueIn
<1>5. ASSUME NEW k \in 1..Len(new), NEW q \in 1..Len(new[k].upvalues)
      PROVE  UpvalueIn(new, k, new[k].upvalues[q])
  <2>1. k \in 1..Len(comps)
    OBVIOUS
  <2>2. CASE q \in 1..Len(comps[k].upvalues)
    <3>1. UpvalueIn(comps, k, comps[k].upvalues[q])
      BY <2>1, <2>2, UpvaluesAre
    <3>2. new[k].upvalues[q] = comps[k].upvalues[q]
      BY <1>3, <2>1, <2>2
    <3> QED BY <1>4, <2>1, <3>1, <3>2
  <2>3. CASE q \notin 1..Len(comps[k].upvalues)
    <3>1. k = m
      BY <2>1, <2>3
    <3>2. new[k].upvalues[q] = u
      BY <2>3, <3>1
    <3> QED BY <1>4, <2>1, <3>1, <3>2
  <2> QED BY <2>2, <2>3
<1> QED BY <1>5, UpvaluesAre

\* What a function may capture: a local of the function around it that is marked,
\* or what is behind one of its upvalues.
LEMMA SlotIs ==
  ASSUME TablesOK, UpvaluesOK, Now.level > 0, NEW m, NEW index, NEW isLocal, NEW meant,
         UpvalueOK(Now, m, index, isLocal, meant), NEW u, u.index = index, u.isLocal = isLocal,
         u.slot = SlotOf(m, index, isLocal)
  PROVE  /\ UpvalueIn(compilers, m, u) /\ m \in 2..Level /\ m \in 1..Level
         /\ ~hadError => u.slot = meant
<1>1. /\ Now.full = compilers /\ Now.level = Level /\ Now.err = hadError
  BY NowIs
<1>2. Len(compilers) \in Nat \ {0} /\ Level = Len(compilers) /\ CompsOK(compilers)
  BY LevelPositive
<1> DEFINE l == m - 1
<1>3. /\ m \in 2..Level /\ index \in Nat /\ isLocal \in BOOLEAN
      /\ isLocal => /\ index < Len(compilers[l].locals) /\ compilers[l].locals[index + 1].isCaptured
                    /\ ~hadError => meant = <<l, index>>
      /\ ~isLocal => /\ index < Len(compilers[l].upvalues)
                     /\ ~hadError => meant = compilers[l].upvalues[index + 1].slot
  BY <1>1 DEF UpvalueOK
<1>4. m \in 1..Level /\ m \in Nat /\ l \in 1..Len(compilers) /\ l \in 1..(m - 1)
  BY <1>2, <1>3
<1>5. CASE isLocal
  <2>1. u.slot = <<l, index>>
    BY <1>5 DEF SlotOf
  <2> HIDE DEF l
  <2>2. u.slot \in (1..(m - 1)) \X Nat /\ u.slot[1] = l /\ u.slot[2] = index
    BY <1>3, <1>4, <2>1
  <2>3. IsCaptured(compilers, u.slot[1], u.slot[2])
    BY <1>3, <1>4, <1>5, <2>2 DEF IsCaptured
  <2>4. u.slot = <<m - 1, u.index>>
    BY <2>1 DEF l
  <2>5. UpvalueIn(compilers, m, u)
    BY <1>3, <1>5, <2>2, <2>3, <2>4 DEF UpvalueIn
  <2> QED BY <1>3, <1>4, <1>5, <2>1, <2>5
<1>6. CASE ~isLocal
  <2> DEFINE q == index + 1
             v == compilers[l].upvalues[q]
  <2>1. u.slot = v.slot
    BY <1>6 DEF SlotOf
  <2>2. Len(compilers[l].upvalues) \in Nat
    BY <1>2, <1>4, SeqFacts DEF CompsOK, IsComp
  <2>3. q \in 1..Len(compilers[l].upvalues)
    BY <1>3, <1>6, <2>2
  <2>4. UpvalueIn(compilers, l, v)
    BY <1>2, <1>4, <2>3, UpvaluesAre DEF UpvaluesOK
  <2> HIDE DEF v
  <2>5. v.slot \in (1..(l - 1)) \X Nat /\ IsCaptured(compilers, v.slot[1], v.slot[2])
    BY <2>4 DEF UpvalueIn
  <2>6. v.slot \in (1..(m - 1)) \X Nat
    <3>1. \A x \in 1..(l - 1) : x \in 1..(m - 1)
      BY <1>4
    <3> QED BY <2>5, <3>1
  <2>7. /\ u.index < Len(compilers[m - 1].upvalues)
        /\ u.slot = compilers[m - 1].upvalues[u.index + 1].slot
    BY <1>3, <1>6, <2>1 DEF v
  <2>8. UpvalueIn(compilers, m, u)
    BY <1>3, <1>6, <2>1, <2>5, <2>6, <2>7 DEF UpvalueIn
  <2> QED BY <1>3, <1>4, <1>6, <2>1, <2>8 DEF v
<1> QED BY <1>3, <1>5, <1>6

\* Upvalues of one function for one index have one slot behind them.
LEMMA OneSlot ==
  ASSUME NEW comps, NEW m, NEW u, NEW v, UpvalueIn(comps, m, u), UpvalueIn(comps, m, v),
         u.index = v.index, u.isLocal = v.isLocal
  PROVE  u.slot = v.slot
<1>1. CASE u.isLocal
  <2>1. u.slot = <<m - 1, u.index>>
    BY <1>1 DEF UpvalueIn
  <2>2. v.slot = <<m - 1, v.index>>
    BY <1>1 DEF UpvalueIn
  <2> QED BY <2>1, <2>2
<1>2. CASE ~u.isLocal
  <2>1. u.slot = comps[m - 1].upvalues[u.index + 1].slot
    BY <1>2 DEF UpvalueIn
  <2>2. v.slot = comps[m - 1].upvalues[v.index + 1].slot
    BY <1>2 DEF UpvalueIn
  <2> QED BY <2>1, <2>2
<1> QED BY <1>1, <1>2

\* resolveUpvalue on its way back.
LEMMA ResolveUpvalueStep ==
  ASSUME IInv, ResolveUpvalue PROVE IInv'
<1> DEFINE m == Arg
           index == Arg2
           isLocal == Head(todo)[4]
           meant == Head(todo)[5]
           u == [index |-> index, isLocal |-> isLocal, slot |-> SlotOf(m, index, isLocal)]
           added == AddUpvalue(compilers[m].upvalues, u)
           slot == added.upvalues[added.arg + 1].slot
           call == <<"upvalue", m + 1, added.arg, FALSE, meant>>
           c == WithUpvalues(compilers[m], added.upvalues)
<1>1. TablesOK /\ CallsOK /\ UpvaluesOK /\ CapturesOK /\ NamesResolve /\ Doing("upvalue")
  BY DEF IInv, ResolveUpvalue
<1>2. /\ ErrorIf(added.full) /\ UNCHANGED <<classes, env>>
      /\ IF m < Level THEN Become(<<call>>) /\ UNCHANGED <<captured, access>>
         ELSE /\ Become(<<>>) /\ captured' = captured \cup {slot}
              /\ access' = [got |-> slot, want |-> meant]
  BY DEF ResolveUpvalue
<1>3. compilers' = [compilers EXCEPT ![m].upvalues = added.upvalues]
  BY DEF ResolveUpvalue
<1>4. compilers' = Replaced(compilers, m, c)
  BY <1>3 DEF Replaced, WithUpvalues
<1>5. /\ todo # <<>> /\ Head(todo)[1] = "upvalue" /\ Good(Now) /\ Pre(Head(todo), Now)
  BY <1>1, NextCall
<1>6. UpvalueOK(Now, m, index, isLocal, meant)
  BY <1>5, AtUpvalue DEF Arg, Arg2
<1>7. Now.level > 0
  <2>1. m \in 2..Now.level /\ Now.level \in Nat
    BY <1>5, <1>6 DEF UpvalueOK, Good
  <2> QED BY <2>1
<1>8. u.index = index /\ u.isLocal = isLocal /\ u.slot = SlotOf(m, index, isLocal)
  OBVIOUS
<1> HIDE DEF u, m, index, isLocal, meant
<1>9. /\ UpvalueIn(compilers, m, u) /\ m \in 2..Level /\ m \in 1..Level
      /\ ~hadError => u.slot = meant
  BY <1>1, <1>6, <1>7, <1>8, SlotIs
<1>10. /\ Len(compilers) \in Nat \ {0} /\ Level = Len(compilers) /\ CompsOK(compilers)
       /\ m \in 1..Len(compilers) /\ IsComp(compilers[m])
  BY <1>1, <1>7, <1>9, LevelPositive DEF CompsOK
<1> DEFINE ups == compilers[m].upvalues
<1>11. IsSeq(ups) /\ Len(ups) <= MaxUpvalues
  BY <1>10 DEF IsComp
<1> DEFINE a == added
<1>12. /\ IsSeq(a.upvalues) /\ Len(a.upvalues) \in Nat /\ Len(a.upvalues) <= MaxUpvalues
       /\ Len(ups) <= Len(a.upvalues) /\ a.full \in BOOLEAN
       /\ a.arg \in Nat /\ a.arg < Len(a.upvalues)
       /\ \A q \in 1..Len(ups) : a.upvalues[q] = ups[q]
       /\ \A q \in 1..Len(a.upvalues) : q \notin 1..Len(ups) => a.upvalues[q] = u
       /\ ~a.full => /\ a.upvalues[a.arg + 1].index = u.index
                     /\ a.upvalues[a.arg + 1].isLocal = u.isLocal
  <2>1. a = AddUpvalue(ups, u)
    OBVIOUS
  <2> HIDE DEF a, ups
  <2> QED BY <1>11, <2>1, AddUpvalueIs
<1> HIDE DEF added
<1>13. /\ IsComp(c) /\ c.upvalues = a.upvalues /\ c.type = compilers[m].type
       /\ c.depth = compilers[m].depth /\ c.locals = compilers[m].locals
       /\ c.height = compilers[m].height
  BY <1>10, <1>12, WithUpvaluesIs
<1> HIDE DEF c
<1>14. Outline(c) = Outline(compilers[m])
  BY <1>13 DEF Outline
<1>15. /\ hadError' \in BOOLEAN /\ panicMode' \in BOOLEAN /\ (panicMode' => hadError')
       /\ (hadError => hadError') /\ (a.full => hadError')
  BY <1>1, <1>2, <1>12, ErrorIfIs
<1>16. /\ Good(Now') /\ Expr(Now, Now', 0) /\ TablesOK' /\ Now'.full = compilers'
       /\ Now'.err = hadError' /\ Now'.level = Level
       /\ Len(compilers') = Len(compilers) /\ compilers'[m] = c
       /\ \A l \in 1..Len(compilers) : l # m => compilers'[l] = compilers[l]
  <2>1. classes' = classes /\ env' = env
    BY <1>2
  <2> QED BY <1>4, <1>7, <1>9, <1>13, <1>14, <1>15, <2>1, OneReplaced
<1>17. UpvaluesIn(compilers')
  <2> DEFINE cs == compilers'
  <2>1. \A l \in 1..Len(compilers) : cs[l].locals = compilers[l].locals
    <3>1. ASSUME NEW l \in 1..Len(compilers) PROVE cs[l].locals = compilers[l].locals
      <4>1. CASE l = m
        BY <1>13, <1>16, <4>1
      <4>2. CASE l # m
        BY <1>16, <4>2
      <4> QED BY <4>1, <4>2
    <3> QED BY <3>1
  <2>2. \A l \in 1..Len(compilers) : l # m => cs[l].upvalues = compilers[l].upvalues
    BY <1>16
  <2>3. cs[m].upvalues = a.upvalues /\ Len(cs) = Len(compilers)
    BY <1>13, <1>16
  <2>4. /\ Len(cs[m].upvalues) \in Nat /\ Len(compilers[m].upvalues) <= Len(cs[m].upvalues)
        /\ \A q \in 1..Len(compilers[m].upvalues) : cs[m].upvalues[q] = compilers[m].upvalues[q]
        /\ \A q \in 1..Len(cs[m].upvalues) :
             q \notin 1..Len(compilers[m].upvalues) => cs[m].upvalues[q] = u
    BY <1>12, <2>3
  <2>5. UpvaluesIn(compilers)
    BY <1>1 DEF UpvaluesOK
  <2> HIDE DEF cs
  <2>6. UpvaluesIn(cs)
    BY <1>9, <1>10, <2>1, <2>2, <2>3, <2>4, <2>5, UpvaluesGrow
  <2> QED BY <2>6 DEF cs
<1> DEFINE v == a.upvalues[a.arg + 1]
<1>18. UpvalueIn(compilers', m, v) /\ (~a.full => v.slot = u.slot) /\ slot = v.slot
       /\ a.arg < Len(compilers'[m].upvalues) /\ v = compilers'[m].upvalues[a.arg + 1]
  <2>1. a.arg + 1 \in 1..Len(a.upvalues)
    BY <1>12
  <2>2. compilers'[m].upvalues = a.upvalues /\ m \in 1..Len(compilers')
    BY <1>10, <1>13, <1>16
  <2>3. UpvalueIn(compilers', m, v)
    BY <1>17, <2>1, <2>2, UpvaluesAre
  <2>4. ~a.full => v.slot = u.slot
    <3>1. UpvalueIn(compilers, m, v)
      <4>1. CASE a.arg + 1 \in 1..Len(ups)
        <5>1. v = ups[a.arg + 1]
          BY <1>12, <4>1
        <5>2. UpvalueIn(compilers, m, ups[a.arg + 1])
          BY <1>1, <1>10, <4>1, UpvaluesAre DEF UpvaluesOK
        <5> QED BY <5>1, <5>2
      <4>2. CASE a.arg + 1 \notin 1..Len(ups)
        <5>1. v = u
          BY <1>12, <2>1, <4>2
        <5> QED BY <1>9, <5>1
      <4> QED BY <4>1, <4>2
    <3>2. ~a.full => v.index = u.index /\ v.isLocal = u.isLocal
      BY <1>12
    <3> HIDE DEF v
    <3> QED BY <1>9, <3>1, <3>2, OneSlot
  <2> QED BY <1>12, <2>2, <2>3, <2>4
<1> HIDE DEF v, slot
<1>19. ~hadError' => slot = meant
  <2>1. hadError \in BOOLEAN
    BY <1>1 DEF TablesOK
  <2> QED BY <1>9, <1>12, <1>15, <1>18, <2>1
<1>20. \A l : \A j : IsCaptured(compilers, l, j) => IsCaptured(compilers', l, j)
  <2>1. ASSUME NEW l, NEW j, IsCaptured(compilers, l, j) PROVE IsCaptured(compilers', l, j)
    <3>1. l \in 1..Len(compilers)
      BY <2>1 DEF IsCaptured
    <3>2. compilers'[l].locals = compilers[l].locals
      <4>1. CASE l = m
        BY <1>13, <1>16, <4>1
      <4>2. CASE l # m
        BY <1>16, <3>1, <4>2
      <4> QED BY <4>1, <4>2
    <3> QED BY <1>16, <2>1, <3>2 DEF IsCaptured
  <2> QED BY <2>1
<1>21. CapturesOK'
  <2>1. ASSUME NEW w \in captured PROVE w \in Nat \X Nat /\ IsCaptured(compilers', w[1], w[2])
    BY <1>1, <1>20 DEF CapturesOK
  <2>2. slot \in Nat \X Nat /\ IsCaptured(compilers', slot[1], slot[2])
    <3>1. slot \in (1..(m - 1)) \X Nat /\ IsCaptured(compilers', slot[1], slot[2])
      <4> DEFINE cs == compilers'
      <4>1. UpvalueIn(cs, m, v) /\ slot = v.slot
        BY <1>18
      <4> HIDE DEF cs
      <4>2. v.slot \in (1..(m - 1)) \X Nat /\ IsCaptured(cs, v.slot[1], v.slot[2])
        BY <4>1 DEF UpvalueIn
      <4> QED BY <4>1, <4>2 DEF cs
    <3>2. \A x \in 1..(m - 1) : x \in Nat
      BY <1>9
    <3> QED BY <3>1, <3>2
  <2>3. captured' = captured \/ captured' = captured \cup {slot}
    BY <1>2
  <2> QED BY <2>1, <2>2, <2>3 DEF CapturesOK
<1>22. CASE m < Level
  <2>1. Become(<<call>>) /\ access' = access
    BY <1>2, <1>22
  <2> DEFINE k == m + 1
             x == a.arg
  <2>2. UpvalueOK(Now', k, x, FALSE, meant)
    <3>1. k \in 2..Now'.level /\ k - 1 = m
      BY <1>9, <1>10, <1>16, <1>22
    <3>2. /\ x \in Nat /\ x < Len(Now'.full[m].upvalues)
          /\ ~Now'.err => meant = Now'.full[m].upvalues[x + 1].slot
      BY <1>12, <1>16, <1>18, <1>19
    <3> HIDE DEF k, x
    <3> QED BY <3>1, <3>2 DEF UpvalueOK
  <2>3. Fulfils(<<<<"upvalue", k, x, FALSE, meant>>>>, Now', Head(todo), Now)
    <3> DEFINE s == Now
               t == Now'
               h == Head(todo)
               d == <<"upvalue", k, x, FALSE, meant>>
    <3>1. Pre(d, t)
      BY <2>2, CanUpvalue
    <3>2. h[1] = "upvalue" /\ Good(s) /\ Good(t) /\ Expr(s, t, 0) /\ s.level > 0
      BY <1>5, <1>7, <1>16
    <3>3. ASSUME NEW w, Rel(d, t, w) PROVE Rel(h, s, w)
      <4>1. Good(w) /\ (t.err => w.err) /\ Expr(t, w, 0)
        BY <3>3, OfUpvalue
      <4> HIDE DEF s, t, h, d
      <4>2. Expr(s, w, 0)
        <5>1. 0 = 0 + 0 /\ 0 \in Int
          OBVIOUS
        <5> QED BY <3>2, <4>1, <5>1, ExprTwice
      <4>3. s.err => w.err
        BY <4>2 DEF Expr, Stays
      <4> QED BY <3>2, <4>1, <4>2, <4>3, AtUpvalue
    <3>4. ASSUME NEW w, Rel(d, t, w) PROVE Fulfils(<<>>, w, h, s)
      BY <3>3, <3>4, FulfilsNone
    <3> HIDE DEF s, t, h, d
    <3>5. Fulfils(<<d>>, t, h, s)
      BY <3>1, <3>4, Step1
    <3> QED BY <3>5 DEF s, t, h, d
  <2>4. CallsOK'
    <3>1. Fulfils(<<call>>, Now', Head(todo), Now)
      BY <2>3
    <3> HIDE DEF call
    <3> QED BY <1>1, <1>5, <1>16, <2>1, <3>1, CallsGo
  <2>5. NamesResolve'
    <3>1. hadError \in BOOLEAN
      BY <1>1 DEF TablesOK
    <3> QED BY <1>1, <1>15, <2>1, <3>1 DEF NamesResolve
  <2>6. UpvaluesOK'
    BY <1>17 DEF UpvaluesOK
  <2> QED BY <1>16, <1>21, <2>4, <2>5, <2>6 DEF IInv
<1>23. CASE ~(m < Level)
  <2>1. Become(<<>>) /\ access' = [got |-> slot, want |-> meant]
    BY <1>2, <1>23
  <2>2. Fulfils(<<>>, Now', Head(todo), Now)
    <3>1. Now.err => Now'.err
      BY <1>16 DEF Expr, Stays
    <3>2. Rel(Head(todo), Now, Now')
      BY <1>5, <1>16, <3>1, AtUpvalue
    <3> QED BY <3>2, FulfilsNone
  <2>3. CallsOK'
    BY <1>1, <1>5, <1>16, <2>1, <2>2, CallsGo
  <2>4. NamesResolve'
    <3>1. access'.got = slot /\ access'.want = meant
      BY <2>1
    <3> QED BY <1>19, <3>1 DEF NamesResolve
  <2>5. UpvaluesOK'
    BY <1>17 DEF UpvaluesOK
  <2> QED BY <1>16, <1>21, <2>3, <2>4, <2>5 DEF IInv
<1> QED BY <1>22, <1>23

-----------------------------------------------------------------------------
(* The theorems *)

\* With no call left to do, the Compilers and the classes are gone.
LEMMA SafeDone ==
  ASSUME NEW s, s.level = 0, s.classes = 0 PROVE Safe(<<>>, s)
<1>1. Len(<<>>) = 0 /\ Len(<<>>) + 1 = 1
  OBVIOUS
<1>2. ASSUME NEW tr, Follows(tr, <<>>, s, 1) PROVE tr[1] = s
  BY <1>2 DEF Follows
<1>3. ASSUME NEW tr, Follows(tr, <<>>, s, Len(<<>>) + 1)
      PROVE  tr[Len(<<>>) + 1].level = 0 /\ tr[Len(<<>>) + 1].classes = 0
  BY <1>1, <1>2, <1>3
<1>4. \A k \in 1..Len(<<>>) : FALSE
  BY <1>1
<1> QED BY <1>3, <1>4 DEF Safe

\* A list of one Compiler.
LEMMA OneComp ==
  ASSUME NEW comps, NEW c, IsComp(c), comps = <<c>>
  PROVE  CompsOK(comps) /\ Len(comps) = 1 /\ comps[1] = c
<1>1. IsSeq(comps)
  BY ListsAreSeqs
<1>2. Len(comps) = 1 /\ comps[1] = c
  OBVIOUS
<1> QED BY <1>1, <1>2 DEF CompsOK

\* compile starts with the script's Compiler and no class.
LEMMA InitIInv ==
  ASSUME Init PROVE IInv
<1> DEFINE c == NewCompiler("script")
<1>1. /\ hadError = FALSE /\ panicMode = FALSE /\ todo = <<Advance, Call("program")>>
      /\ compilers = <<c>> /\ classes = <<>> /\ env = <<>> /\ captured = {}
      /\ access = [got |-> <<>>, want |-> <<>>]
  BY DEF Init
<1>2. /\ IsComp(c) /\ c.type = "script" /\ c.depth = 0 /\ c.height = 1 /\ c.upvalues = <<>>
      /\ Len(c.locals) = 1 /\ c.locals[1].depth = 0
      /\ c.locals[1].name = IF c.type = "function" THEN NoName ELSE "this"
  BY NewIs
<1> HIDE DEF c
<1>3. CompsOK(compilers) /\ Len(compilers) = 1 /\ compilers[1] = c
  BY <1>1, <1>2, OneComp
<1>4. IsSeq(classes) /\ IsSeq(env) /\ Len(classes) = 0 /\ Len(env) = 0
  BY <1>1, ListsAreSeqs
<1>5. TablesOK
  BY <1>1, <1>3, <1>4 DEF TablesOK
<1>6. /\ ~Now.err /\ Now.err \in BOOLEAN /\ Now.level = 1 /\ Now.classes = 0
      /\ Now.top = Outline(c)
      /\ Now.outer = [k \in 1..(Now.level - 1) |-> Now.outer[k]]
      /\ Now.m = 0 /\ Now.env = [e \in 1..Now.m |-> Now.env[e]]
  <2>1. hadError \in BOOLEAN /\ ~hadError
    BY <1>1
  <2> DEFINE s == Now
  <2>2. s = View(hadError, previous, current, compilers, env, Len(classes))
    BY DEF Now
  <2> HIDE DEF s
  <2>3. /\ s.err = hadError /\ s.level = Len(compilers) /\ s.classes = Len(classes)
        /\ s.top = Outline(compilers[Len(compilers)])
        /\ s.outer = [k \in 1..(s.level - 1) |-> s.outer[k]]
        /\ s.m = Len(env) /\ s.env = [e \in 1..s.m |-> s.env[e]]
    BY <1>4, <2>1, <2>2, ViewIs
  <2>4. /\ ~s.err /\ s.err \in BOOLEAN /\ s.level = 1 /\ s.classes = 0
        /\ s.top = Outline(c) /\ s.m = 0
    BY <1>3, <1>4, <2>1, <2>3
  <2> QED BY <2>3, <2>4 DEF s
<1> DEFINE o == Outline(c)
<1>7. /\ CompOK(o, o.depth + 1) /\ o.type = "script" /\ o.depth = 0 /\ o.height = 1
      /\ o.n = 1 /\ o.locals[1].depth = 0
  <2>1. c.type \in Types /\ c.depth \in Nat /\ c.height \in Int
    BY <1>2 DEF Types
  <2> QED BY <1>2, <2>1, NewOK
<1> HIDE DEF o
<1>8. Now.top = o
  BY <1>6 DEF o
<1>9. EnvOK(Now)
  <2>1. \A k \in 1..Now.level : CompAt(Now, k) = o
    BY <1>6, <1>8 DEF CompAt
  <2>2. \A i \in 1..o.n : ~InScope(o, i)
    BY <1>7 DEF InScope, MethodTypes
  <2> QED BY <1>6, <2>1, <2>2 DEF EnvOK
<1>10. Good(Now)
  BY <1>6, <1>7, <1>8, <1>9 DEF Good
<1>11. StmtOK(Now, 0)
  BY <1>6, <1>7, <1>8
  DEF StmtOK, ExprOK, ClassOK, Tidy, TidyTo, Bounded, BoundedBy, Temps
<1>12. Pre(Advance, Now)
  BY <1>6, CanAdvance
<1>13. ASSUME NEW t, Rel(Advance, Now, t) PROVE Safe(<<Call("program")>>, t)
  <2>1. Expr(Now, t, 0)
    BY <1>13, OfAdvance
  <2>2. /\ ExprOK(t) /\ Tidy(t) /\ t.level = 1 /\ t.classes = 0
    BY <1>6, <1>11, <2>1, ExprKeeps DEF StmtOK
  <2>3. Temps(t, 0)
    BY <1>6, <1>7, <1>8, <2>1 DEF Expr, Temps, SameLocals
  <2>4. Pre(Call("program"), t)
    BY <2>2, <2>3, CanProgram DEF StmtOK
  <2>5. \A u : Rel(Call("program"), t, u) => Safe(<<>>, u)
    BY OfProgram, SafeDone
  <2>6. Safe(<<Call("program")>> \o <<>>, t)
    BY <2>4, <2>5, SafeCons, ListsAreSeqs
  <2> QED BY <2>6, ListsAreSeqs
<1>14. Safe(<<Advance>> \o <<Call("program")>>, Now)
  BY <1>12, <1>13, SafeCons, ListsAreSeqs
<1>15. IsSeq(todo) /\ Safe(todo, Now)
  <2>1. todo = <<Advance>> \o <<Call("program")>>
    BY <1>1, List2
  <2>2. IsSeq(<<Advance>>) /\ IsSeq(<<Call("program")>>)
    BY ListsAreSeqs
  <2>3. IsSeq(<<Advance>> \o <<Call("program")>>)
    BY <2>2, ListsAreSeqs
  <2> QED BY <1>14, <2>1, <2>3
<1>16. UpvaluesOK
  <2>1. \A m \in 1..Len(compilers) : Len(compilers[m].upvalues) = 0
    BY <1>2, <1>3
  <2> QED BY <2>1 DEF UpvaluesOK, UpvaluesIn
<1>17. CapturesOK /\ NamesResolve
  BY <1>1 DEF CapturesOK, NamesResolve
<1> QED BY <1>5, <1>10, <1>15, <1>16, <1>17 DEF IInv, CallsOK

\* Every step of the compiler keeps the invariant.
LEMMA NextIInv ==
  ASSUME IInv, [Next]_vars PROVE IInv'
<1>1. CASE Next
  BY <1>1, GrammarStep, ErrorStep, AdvanceStep, ScanStep, RecoverStep, EmitStep, LandStep,
     MeetStep, BeginScopeStep, EndScopeStep, DropLocalStep, DropEndStep, AddSuperStep,
     DeclareVariableStep, MarkInitializedStep, DefineVariableStep, DefineFunctionStep,
     NamedHereStep, NamedOuterStep, ResolveUpvalueStep, BeginFunctionStep, ParameterStep,
     EndFunctionStep, EndCompileStep, BeginClassStep, HasSuperclassStep, EndClassStep
  DEF Next
<1>2. CASE UNCHANGED vars
  BY <1>2 DEF vars, input, parser, ghosts, IInv, TablesOK, CallsOK, UpvaluesOK, CapturesOK,
     NamesResolve, Now, IsCaptured
<1> QED BY <1>1, <1>2

\* The calls left to do are always safe: see IInv.
THEOREM CompilerInvariant == Spec => []IInv
BY InitIInv, NextIInv, PTL DEF Spec

\* compile's tables have their types and stay within their limits, also behind
\* an error, and all Compilers and classes have ended when compile returns.
THEOREM CompilerTypeCorrect == Spec => []TypeOK
<1>1. IInv => TypeOK
  <2> SUFFICES ASSUME IInv PROVE TypeOK
    OBVIOUS
  <2>1. TablesOK /\ CallsOK /\ Good(Now) /\ Safe(todo, Now)
    BY DEF IInv, CallsOK
  <2>2. hadError \in BOOLEAN /\ panicMode \in BOOLEAN /\ (panicMode => hadError)
    BY <2>1 DEF TablesOK
  <2>3. Now.level = Level /\ Now.classes = Len(classes)
    BY <2>1, NowIs
  <2>4. IsSeq(compilers) /\ IsSeq(classes) /\ Level \in Nat /\ Level = Len(compilers)
    BY <2>1, SeqFacts DEF TablesOK, CompsOK, Level
  <2>5. ASSUME NEW k \in 1..Level
        PROVE  /\ compilers[k].type \in {"script", "function", "method", "initializer"}
               /\ compilers[k].depth \in Nat
               /\ Len(compilers[k].locals) \in 1..MaxLocals
               /\ Len(compilers[k].upvalues) \in 0..MaxUpvalues
               /\ \A i \in 1..Len(compilers[k].locals) :
                    compilers[k].locals[i].depth \in -1..(compilers[k].depth + 1)
    <3> DEFINE o == CompAt(Now, k)
    <3>1. Now.level > 0
      BY <2>3, <2>4
    <3>2. /\ o = Outline(compilers[k]) /\ IsComp(compilers[k])
          /\ o.n = Len(compilers[k].locals)
          /\ \A i \in 1..Len(compilers[k].locals) :
               o.locals[i].depth = compilers[k].locals[i].depth
      BY <2>1, <3>1, CompIs
    <3>3. /\ o.type \in Types /\ o.depth \in Nat /\ o.n \in 1..MaxLocals
          /\ \A i \in 1..o.n : o.locals[i].depth \in -1..(o.depth + 1)
      <4>1. CASE k = Level
        <5>1. o = Now.top
          BY <2>3, <4>1 DEF CompAt
        <5> HIDE DEF o
        <5>2. CompOK(o, o.depth + 1)
          BY <2>1, <3>1, <5>1 DEF Good
        <5> QED BY <5>2 DEF CompOK
      <4>2. CASE k # Level
        <5>1. o = Now.outer[k] /\ k \in 1..(Now.level - 1)
          BY <2>3, <2>4, <4>2 DEF CompAt
        <5> HIDE DEF o
        <5>2. CompOK(o, o.depth)
          BY <2>1, <5>1 DEF Good
        <5>3. /\ o.type \in Types /\ o.depth \in Nat /\ o.n \in 1..MaxLocals
              /\ \A i \in 1..o.n : o.locals[i].depth \in -1..o.depth
          BY <5>2 DEF CompOK
        <5>4. \A d : d \in -1..o.depth => d \in -1..(o.depth + 1)
          BY <5>3
        <5> QED BY <5>3, <5>4
      <4> QED BY <4>1, <4>2
    <3> HIDE DEF o
    <3>4. o.type = compilers[k].type /\ o.depth = compilers[k].depth
      BY <3>2 DEF Outline
    <3>5. Len(compilers[k].upvalues) \in 0..MaxUpvalues
      <4>1. IsSeq(compilers[k].upvalues) /\ Len(compilers[k].upvalues) <= MaxUpvalues
        BY <3>2 DEF IsComp
      <4>2. Len(compilers[k].upvalues) \in Nat
        BY <4>1, SeqFacts
      <4> QED BY <4>1, <4>2, CompilerAssumption
    <3> QED BY <3>2, <3>3, <3>4, <3>5 DEF Types
  <2>6. ASSUME todo = <<>> PROVE compilers = <<>> /\ classes = <<>>
    <3>1. Now.level = 0 /\ Now.classes = 0
      BY <2>1, <2>6, SafeNone
    <3> QED BY <2>3, <2>4, <3>1, SeqFacts
  <2> QED BY <2>2, <2>5, <2>6 DEF TypeOK
<1> QED BY <1>1, CompilerInvariant, PTL

\* Between two declarations the stack holds the locals and nothing else, on
\* every path through the code that the jumps allow: whatever the declarations
\* before have emitted, each local is in the slot that is its index.
THEOREM CompilerStackMatchesLocals == Spec => []StackMatchesLocals
<1>1. IInv => StackMatchesLocals
  <2> SUFFICES ASSUME IInv, ~hadError, Doing("recover")
               PROVE  Current.height = Len(Current.locals)
    BY DEF StackMatchesLocals
  <2>1. TablesOK /\ CallsOK
    BY DEF IInv
  <2>2. Head(todo)[1] = "recover" /\ Pre(Head(todo), Now)
    BY <2>1, NextCall
  <2>3. Now.level > 0 /\ Temps(Now, 0)
    BY <2>2, AtRecover
  <2>4. /\ Now.top.height = Current.height /\ Now.top.n = Len(Current.locals)
        /\ Now.top.n \in Nat /\ Now.err = hadError
    BY <2>1, <2>3, TopIs, NowIs
  <2> QED BY <2>3, <2>4 DEF Temps
<1> QED BY <1>1, CompilerInvariant, PTL

\* namedVariable, resolveLocal and resolveUpvalue find the variable that the
\* scopes of the source mean, through any number of enclosing functions.
THEOREM CompilerNamesResolve == Spec => []NamesResolve
<1>1. IInv => NamesResolve
  BY DEF IInv
<1> QED BY <1>1, CompilerInvariant, PTL

\* endScope and endCompiler leave no captured local to OP_POP: whatever a
\* function has captured is still in its slot or was closed.
THEOREM CompilerCapturedAreClosed == Spec => []CapturedAreClosed
<1>1. IInv => CapturedAreClosed
  BY DEF IInv, CapturesOK, IsCaptured, CapturedAreClosed
<1> QED BY <1>1, CompilerInvariant, PTL
=============================================================================
