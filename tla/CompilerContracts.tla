-------------------------- MODULE CompilerContracts --------------------------
(***************************************************************************)
(* The contracts of the compiler's functions: Pre, what holds when a       *)
(* function is called, and Rel, what it does until it has returned.  The   *)
(* calls left to do are safe when each of them, by its contract, leads     *)
(* from the present state to the end of compile without a broken Pre.      *)
(*                                                                         *)
(* The lemmas say, for every parsing function, that the calls it makes     *)
(* fulfil its contract when those it calls fulfil theirs.                  *)
(***************************************************************************)
EXTENDS Compiler, SequenceTheorems, NaturalsInduction, WellFoundedInduction, TLAPS

Types == {"script", "function", "method", "initializer"}
MethodTypes == {"method", "initializer"}

-----------------------------------------------------------------------------
(* The states of the contracts *)

\* What the contracts see of a Compiler: not its upvalues and marks.
Outline(c) ==
  [type |-> c.type, depth |-> c.depth, height |-> c.height, n |-> Len(c.locals),
   locals |-> [i \in 1..Len(c.locals) |->
                 [name |-> c.locals[i].name, depth |-> c.locals[i].depth]]]

\* err, the tokens, the Compilers, the variables in scope and the number of
\* classes.  Behind an error the variables are of no interest.
View(err, prev, cur, comps, vs, n) ==
  [err |-> err, prev |-> prev, cur |-> cur, level |-> Len(comps),
   outer |-> [k \in 1..(Len(comps) - 1) |-> Outline(comps[k])], top |-> Outline(comps[Len(comps)]),
   m |-> IF err THEN 0 ELSE Len(vs), env |-> IF err THEN <<>> ELSE vs, classes |-> n,
   full |-> comps]
Now == View(hadError, previous, current, compilers, env, Len(classes))

\* The locals are in order of their scopes, none of them deeper than d.
TidyTo(n, locals, d) ==
  /\ locals[1].depth = 0
  /\ \A i \in 1..n : /\ locals[i].depth \in 0..d
                     /\ \A j \in 1..i : locals[j].depth <= locals[i].depth
Tidy(s) == TidyTo(s.top.n, s.top.locals, s.top.depth)

\* The same without the local declared last, and there is such a one.
AlmostTidy(s) == s.top.n > 1 /\ TidyTo(s.top.n - 1, s.top.locals, s.top.depth)

BoundedBy(n, locals, d) == \A i \in 1..n : locals[i].depth <= d
Bounded(s) == BoundedBy(s.top.n, s.top.locals, s.top.depth)

\* The local declared last has no value yet.
Unmarked(s) == s.top.locals[s.top.n].depth = -1

HasMethod(level, outer, type) ==
  type \in MethodTypes \/ \E k \in 1..(level - 1) : outer[k].type \in MethodTypes
InMethod(s) == HasMethod(s.level, s.outer, s.top.type)

CompOK(c, d) ==
  /\ c.type \in Types /\ c.depth \in Nat /\ c.height \in Int /\ c.n \in 1..MaxLocals
  /\ c.locals = [i \in 1..c.n |-> c.locals[i]]
  /\ \A i \in 1..c.n : c.locals[i].depth \in -1..d
  /\ c.locals[1].name = IF c.type = "function" THEN NoName ELSE "this"

\* A local that a name can mean.  Slot 0 is nameless except in a method.
InScope(c, i) == c.locals[i].depth \in 0..c.depth /\ (i = 1 => c.type \in MethodTypes)
CompAt(s, k) == IF k = s.level THEN s.top ELSE s.outer[k]
Before(a, b) == a[1] < b[1] \/ (a[1] = b[1] /\ a[2] < b[2])

\* The variables in scope are the locals of all functions, in their order.
EnvOK(s) ==
  /\ \A e \in 1..s.m :
       LET c == CompAt(s, s.env[e].slot[1])
           i == s.env[e].slot[2] + 1
       IN /\ s.env[e].slot \in (1..s.level) \X Nat
          /\ i \in 1..c.n /\ InScope(c, i) /\ c.locals[i].name = s.env[e].name
  /\ \A k \in 1..s.level : \A i \in 1..CompAt(s, k).n :
       InScope(CompAt(s, k), i) => \E e \in 1..s.m : s.env[e].slot = <<k, i - 1>>
  /\ \A e, f \in 1..s.m : e < f => Before(s.env[e].slot, s.env[f].slot)

Good(s) ==
  /\ s.err \in BOOLEAN /\ s.level \in Nat /\ s.classes \in Nat /\ s.m \in Nat
  /\ s.level > 0 => CompOK(s.top, s.top.depth + 1)
  /\ s.outer = [k \in 1..(s.level - 1) |-> s.outer[k]] /\ s.env = [e \in 1..s.m |-> s.env[e]]
  /\ \A k \in 1..(s.level - 1) : CompOK(s.outer[k], s.outer[k].depth)
  /\ \A k \in 2..s.level : CompAt(s, k).type # "script"
  /\ ~s.err /\ s.level > 0 => EnvOK(s)

-----------------------------------------------------------------------------
(* Contracts *)

Exprs == {"parsePrecedence", "prefix", "infix", "dot", "argumentList", "this", "super",
          "superRest", "initializer", "returnStatement"}
Pures == {"advance", "scan", "consume", "error", "emit", "meet", "synchronize", "recover",
          "namedVariable", "upvalue", "methods", "method", "function", "hasSuperclass"}
Stmts == {"statement", "ifThen", "ifElse", "else", "whileBody", "forCondition", "forExit",
          "forIncrement"}
Decls == {"declaration", "varDeclaration", "funDeclaration", "classDeclaration", "className",
          "block", "forInitializer", "parameters", "moreParameters", "parameter"}

\* this is used in methods only.
ClassOK(s) == ~s.err /\ s.classes > 0 => InMethod(s)
ExprOK(s) == s.level > 0 /\ Bounded(s) /\ ClassOK(s)

\* There are k values on the stack beside the locals.
Temps(s, k) == ~s.err => s.top.height = s.top.n + k
StmtOK(s, k) == ExprOK(s) /\ Tidy(s) /\ Temps(s, k)

\* A variable, if it is a local one, has been declared; it gets the value that is
\* k values beside the locals.
Ready(s, k) ==
  IF s.top.depth = 0 THEN Tidy(s) ELSE AlmostTidy(s) /\ (~s.err => Unmarked(s) /\ Temps(s, k))

\* The variables in scope from a + 1 on are those of the innermost scope, or of
\* the current function.
ScopeSplit(s, a) ==
  ~s.err => /\ a \in 0..s.m
            /\ \A e \in 1..s.m :
                 e <= a <=> \/ s.env[e].slot[1] < s.level
                            \/ s.top.locals[s.env[e].slot[2] + 1].depth < s.top.depth
LevelSplit(s, a) ==
  ~s.err => a \in 0..s.m /\ \A e \in 1..s.m : e <= a <=> s.env[e].slot[1] < s.level

\* What is to be done behind forStatement's body.
ExitOK(s, exit) ==
  \/ exit = <<>>
  \/ /\ exit = <<<<"land", exit[1][2]>>, Emit(-1)>> /\ exit[1][2] \in Int
     /\ ~s.err => exit[1][2] = s.top.height + 1

\* Upvalue index of function m, or the local of the function around it.
UpvalueOK(s, m, index, isLocal, meant) ==
  /\ m \in 2..s.level /\ index \in Nat /\ isLocal \in BOOLEAN
  /\ isLocal => /\ index < Len(s.full[m - 1].locals)
                /\ s.full[m - 1].locals[index + 1].isCaptured
                /\ ~s.err => meant = <<m - 1, index>>
  /\ ~isLocal => /\ index < Len(s.full[m - 1].upvalues)
                 /\ ~s.err => meant = s.full[m - 1].upvalues[index + 1].slot

Pre(c, s) ==
  /\ c[1] \in Exprs => ExprOK(s)
  /\ c[1] \in {"parsePrecedence", "prefix", "infix"} => c[2] \in Nat \ {0}
  /\ c[1] = "argumentList" => c[2] \in Nat
  /\ c[1] \in {"advance", "scan", "error", "consume", "synchronize", "beginClass"} => s.level > 0
  /\ c[1] = "emit" => c[2] \in Int /\ s.level > 0
  /\ c[1] = "land" => c[2] \in Int /\ s.level > 0
  /\ c[1] = "meet" => c[2] \in Int /\ s.level > 0 /\ (~s.err => s.top.height = c[2])
  /\ c[1] = "recover" => s.level > 0 /\ Temps(s, 0)
  /\ c[1] = "namedVariable" =>
       /\ c[3] \in BOOLEAN /\ s.level > 0 /\ Bounded(s) /\ (c[3] => ExprOK(s))
       /\ ~s.err => c[2] # NoName /\ (c[2] = "this" => InMethod(s))
  /\ c[1] = "upvalue" => /\ UpvalueOK(s, c[2], c[3], c[4], c[5])
  /\ c[1] \in {"methods", "method"} => s.level > 0 /\ Bounded(s)
  /\ c[1] = "function" =>
       /\ c[2] \in Types \ {"script"} /\ s.level > 0 /\ Bounded(s)
       /\ c[2] \in MethodTypes \/ ClassOK(s)
  /\ c[1] \in {"statement", "else", "forCondition"} \cup Decls => StmtOK(s, 0)
  /\ c[1] = "className" => (~s.err => s.prev \in Names)
  /\ c[1] = "ifThen" => StmtOK(s, 1)
  /\ c[1] = "ifElse" => StmtOK(s, 0) /\ c[2] \in Int /\ (~s.err => c[2] = s.top.height + 1)
  /\ c[1] \in {"whileBody", "forExit"} =>
       StmtOK(s, 1) /\ c[2] \in Int /\ (~s.err => c[2] = s.top.height - 1)
  /\ c[1] = "forIncrement" =>
       /\ StmtOK(s, 0) /\ c[2] \in Int /\ (~s.err => c[2] = s.top.height)
       /\ ExitOK(s, c[3])
  /\ c[1] = "beginScope" => s.level > 0 /\ Bounded(s)
  /\ c[1] = "endScope" => s.level > 0 /\ s.top.depth > 0 /\ Tidy(s) /\ ScopeSplit(s, c[2])
  /\ c[1] = "dropLocals" => s.level > 0 /\ TidyTo(s.top.n, s.top.locals, s.top.depth + 1)
  /\ c[1] = "declareVariable" => s.level > 0 /\ Tidy(s)
  /\ c[1] = "addLocal" => s.level > 0 /\ Tidy(s) /\ s.top.depth > 0
  /\ c[1] = "markInitialized" => s.level > 0 /\ Ready(s, -1)
  /\ c[1] = "defineVariable" => s.level > 0 /\ Ready(s, 0)
  /\ c[1] = "defineFunction" => s.level > 0
  /\ c[1] = "endFunction" => s.level > 1 /\ LevelSplit(s, c[2])
  /\ c[1] \in {"hasSuperclass", "endClass"} => s.level > 0 /\ s.classes > 0
  /\ c[1] \in {"inherit", "superclass"} =>
       /\ s.level > 0 /\ Bounded(s) /\ Tidy(s) /\ Temps(s, 0) /\ s.classes > 0
       /\ ~s.err => c[2] \in Names
  /\ c[1] = "superclass" => (~s.err => s.prev \in Names)
  /\ c[1] = "program" => /\ StmtOK(s, 0) /\ s.level = 1 /\ s.classes = 0
  /\ c[1] = "endCompile" => s.level = 1 /\ s.classes = 0

\* How a call changes the height of the stack.
Delta(c) ==
  CASE c[1] = "emit" -> c[2]
    [] c[1] = "argumentList" -> -c[2]
    [] c[1] \in {"parsePrecedence", "prefix", "this", "super", "initializer", "namedVariable",
                 "function"} -> 1
    [] c[1] \in {"ifThen", "whileBody", "forExit"} -> -1
    [] OTHER -> 0

\* Calls that stay in their function, change nothing but the stack, are a
\* statement, or declare variables in the current scope.
Stays(s, t) ==
  /\ t.level = s.level /\ t.outer = s.outer /\ t.top.type = s.top.type
  /\ s.err => t.err
SameLocals(s, t) == t.top.n = s.top.n /\ t.top.locals = s.top.locals
SameEnv(s, t) == t.m = s.m /\ t.env = s.env

Expr(s, t, k) ==
  /\ Stays(s, t) /\ t.top.depth = s.top.depth /\ t.classes = s.classes /\ SameLocals(s, t)
  /\ ~t.err => SameEnv(s, t) /\ t.top.height = s.top.height + k

Stmt(s, t, k) ==
  /\ Stays(s, t) /\ t.top.depth = s.top.depth /\ Tidy(t)
  /\ ~t.err => SameLocals(s, t) /\ SameEnv(s, t) /\ t.top.height = s.top.height + k

\* t has the locals of s, and others of depth d; and likewise the variables.
MoreLocals(s, t, d) ==
  /\ t.top.n >= s.top.n /\ t.top.height - t.top.n = s.top.height - s.top.n
  /\ \A i \in 1..s.top.n : t.top.locals[i] = s.top.locals[i]
  /\ \A i \in (s.top.n + 1)..t.top.n : t.top.locals[i].depth = d
MoreEnv(s, t) ==
  /\ t.m >= s.m /\ \A e \in 1..s.m : t.env[e] = s.env[e]
  /\ \A e \in (s.m + 1)..t.m : t.env[e].slot[1] = s.level /\ t.env[e].slot[2] >= s.top.n

\* t is inside of a scope opened in s.
Inside(s, t) ==
  /\ Stays(s, t) /\ t.top.depth = s.top.depth + 1 /\ t.classes = s.classes /\ Tidy(t)
  /\ ~t.err => MoreLocals(s, t, s.top.depth + 1) /\ MoreEnv(s, t)

Decl(s, t) ==
  /\ Stays(s, t) /\ t.top.depth = s.top.depth /\ t.classes = s.classes /\ Tidy(t)
  /\ ~t.err => MoreLocals(s, t, s.top.depth) /\ MoreEnv(s, t)

\* Locals deeper than d are gone.
Dropped(s, t, d) ==
  /\ t.top.n <= s.top.n /\ t.top.height - t.top.n = s.top.height - s.top.n
  /\ \A i \in 1..t.top.n : t.top.locals[i] = s.top.locals[i]
  /\ \A i \in (t.top.n + 1)..s.top.n : s.top.locals[i].depth > d

\* A local without a value has been added, or there was no room.
Declares(s, t) ==
  /\ Stays(s, t) /\ t.top.depth = s.top.depth /\ t.classes = s.classes
  /\ ~t.err => SameEnv(s, t) /\ t.top.height = s.top.height
  /\ IF s.top.depth = 0 THEN SameLocals(s, t)
     ELSE /\ AlmostTidy(t) /\ Bounded(t)
          /\ ~t.err => /\ t.top.n = s.top.n + 1 /\ Unmarked(t)
                       /\ \A i \in 1..s.top.n : t.top.locals[i] = s.top.locals[i]

\* The local declared last has got its value.
Defines(s, t, k) ==
  /\ Stays(s, t) /\ t.top.depth = s.top.depth /\ t.classes = s.classes /\ Tidy(t)
  /\ ~t.err =>
       IF s.top.depth = 0 THEN SameLocals(s, t) /\ SameEnv(s, t) /\ t.top.height = s.top.height + k
       ELSE /\ t.top.height = s.top.height /\ t.top.n = s.top.n
            /\ t.top.locals[s.top.n].depth = s.top.depth
            /\ \A i \in 1..(s.top.n - 1) : t.top.locals[i] = s.top.locals[i]
            /\ t.m = s.m + 1 /\ (\A e \in 1..s.m : t.env[e] = s.env[e])
            /\ t.env[t.m].slot = <<s.level, s.top.n - 1>>

\* The function around the current one goes on; its closure is on the stack.
Leaves(s, t, a) ==
  LET o == s.outer[s.level - 1] IN
    /\ t.level = s.level - 1 /\ t.classes = s.classes
    /\ t.outer = [k \in 1..(t.level - 1) |-> s.outer[k]]
    /\ t.top.type = o.type /\ t.top.depth = o.depth /\ t.top.n = o.n /\ t.top.locals = o.locals
    /\ ~t.err => /\ t.top.height = o.height + 1
                 /\ t.m = a /\ \A e \in 1..t.m : t.env[e] = s.env[e]

\* A class is entered or left.
Classes(s, t, k) ==
  /\ Stays(s, t) /\ t.top.depth = s.top.depth /\ SameLocals(s, t) /\ t.classes = s.classes + k
  /\ ~t.err => SameEnv(s, t) /\ t.top.height = s.top.height

Rel(c, s, t) ==
  /\ Good(t) /\ (s.err => t.err)
  /\ c[1] \in Exprs \cup Pures => Expr(s, t, Delta(c))
  /\ c[1] = "advance" => t.prev = s.cur
  /\ c[1] = "scan" => t.prev = s.prev
  /\ c[1] = "consume" /\ c[2] = "id" => (~t.err => t.prev \in Names)
  /\ c[1] = "error" => t.err
  /\ c[1] = "land" => Expr(s, t, c[2] - s.top.height)
  /\ c[1] \in Stmts => Stmt(s, t, Delta(c)) /\ t.classes = s.classes
  /\ c[1] \in Decls => Decl(s, t)
  /\ c[1] = "beginScope" =>
       /\ Stays(s, t) /\ t.top.depth = s.top.depth + 1 /\ t.classes = s.classes /\ SameLocals(s, t)
       /\ ~t.err => SameEnv(s, t) /\ t.top.height = s.top.height
  /\ c[1] = "endScope" =>
       /\ Stays(s, t) /\ t.top.depth = s.top.depth - 1 /\ t.classes = s.classes /\ Tidy(t)
       /\ ~t.err => /\ Dropped(s, t, s.top.depth - 1)
                    /\ t.m = c[2] /\ \A e \in 1..t.m : t.env[e] = s.env[e]
  /\ c[1] = "dropLocals" =>
       /\ Stays(s, t) /\ t.top.depth = s.top.depth /\ t.classes = s.classes /\ Tidy(t)
       /\ ~t.err => Dropped(s, t, s.top.depth) /\ SameEnv(s, t)
  /\ c[1] \in {"declareVariable", "addLocal"} => Declares(s, t)
  /\ c[1] = "markInitialized" => Defines(s, t, 0)
  /\ c[1] = "defineVariable" => Defines(s, t, -1)
  /\ c[1] = "defineFunction" => Expr(s, t, IF s.top.depth = 0 THEN -1 ELSE 0)
  /\ c[1] = "endFunction" => Leaves(s, t, c[2])
  /\ c[1] = "beginClass" => Classes(s, t, 1)
  /\ c[1] = "endClass" => Classes(s, t, -1)
  /\ c[1] \in {"inherit", "superclass"} => Stmt(s, t, 0) /\ t.classes = s.classes - 1
  /\ c[1] \in {"program", "endCompile"} => t.level = 0 /\ t.classes = 0

\* The calls td, each by its contract, can be done from s on.
Follows(tr, td, s, k) == tr[1] = s /\ \A i \in 1..(k - 1) : Rel(td[i], tr[i], tr[i + 1])
Safe(td, s) ==
  \A tr : /\ \A k \in 1..Len(td) : Follows(tr, td, s, k) => Pre(td[k], tr[k])
          /\ Follows(tr, td, s, Len(td) + 1) =>
               tr[Len(td) + 1].level = 0 /\ tr[Len(td) + 1].classes = 0

-----------------------------------------------------------------------------
(* Lists of calls *)

IsSeq(x) == \E S : x \in Seq(S)

\* The calls are done in their order.
LEMMA SafeFirst ==
  ASSUME NEW td, IsSeq(td), td # <<>>, NEW s
  PROVE  /\ IsSeq(Tail(td)) /\ Len(td) \in Nat \ {0}
         /\ Safe(td, s) => Pre(td[1], s) /\ \A t : Rel(td[1], s, t) => Safe(Tail(td), t)
         /\ Pre(td[1], s) /\ (\A t : Rel(td[1], s, t) => Safe(Tail(td), t)) => Safe(td, s)
<1>1. /\ IsSeq(Tail(td)) /\ Len(td) \in Nat \ {0} /\ Len(Tail(td)) = Len(td) - 1
      /\ \A i \in 1..(Len(td) - 1) : Tail(td)[i] = td[i + 1]
  <2>1. PICK S : td \in Seq(S)
    BY DEF IsSeq
  <2>2. /\ Tail(td) \in Seq(S) /\ Len(td) \in Nat \ {0} /\ Len(Tail(td)) = Len(td) - 1
        /\ \A i \in 1..(Len(td) - 1) : Tail(td)[i] = td[i + 1]
    BY <2>1
  <2> QED BY <2>2 DEF IsSeq
<1>2. ASSUME Safe(td, s)
      PROVE  Pre(td[1], s) /\ \A t : Rel(td[1], s, t) => Safe(Tail(td), t)
  <2>1. Pre(td[1], s)
    <3> DEFINE tr == [i \in Nat |-> s]
    <3>1. tr[1] = s /\ Follows(tr, td, s, 1)
      BY DEF Follows
    <3> HIDE DEF tr
    <3> QED BY <1>1, <1>2, <3>1 DEF Safe
  <2>2. ASSUME NEW t, Rel(td[1], s, t), NEW tr PROVE
          /\ \A k \in 1..Len(Tail(td)) : Follows(tr, Tail(td), t, k) => Pre(Tail(td)[k], tr[k])
          /\ Follows(tr, Tail(td), t, Len(Tail(td)) + 1) =>
               tr[Len(Tail(td)) + 1].level = 0 /\ tr[Len(Tail(td)) + 1].classes = 0
    <3> DEFINE tr2 == [i \in Nat |-> IF i = 1 THEN s ELSE tr[i - 1]]
    <3>1. tr2[1] = s /\ \A i \in Nat \ {0} : tr2[i + 1] = tr[i]
      OBVIOUS
    <3> HIDE DEF tr2
    <3>2. ASSUME NEW k \in 1..Len(td), Follows(tr, Tail(td), t, k) PROVE Follows(tr2, td, s, k + 1)
      <4>1. tr[1] = t /\ \A i \in 1..(k - 1) : Rel(Tail(td)[i], tr[i], tr[i + 1])
        BY <3>2 DEF Follows
      <4>2. ASSUME NEW i \in 1..k PROVE Rel(td[i], tr2[i], tr2[i + 1])
        <5>1. CASE i = 1
          BY <2>2, <3>1, <4>1, <5>1
        <5>2. CASE i # 1
          <6>1. i - 1 \in 1..(k - 1) /\ i - 1 \in 1..(Len(td) - 1) /\ (i - 1) + 1 = i
            BY <1>1, <5>2
          <6>2. Rel(Tail(td)[i - 1], tr[i - 1], tr[i])
            BY <4>1, <6>1
          <6>3. Tail(td)[i - 1] = td[i]
            BY <1>1, <6>1
          <6>4. tr2[i] = tr[i - 1] /\ tr2[i + 1] = tr[i]
            BY <3>1, <6>1
          <6> QED BY <6>2, <6>3, <6>4
        <5> QED BY <5>1, <5>2
      <4> QED BY <3>1, <4>2, <1>1 DEF Follows
    <3>3. ASSUME NEW k \in 1..Len(Tail(td)), Follows(tr, Tail(td), t, k) PROVE Pre(Tail(td)[k], tr[k])
      <4>1. k \in 1..(Len(td) - 1) /\ k + 1 \in 1..Len(td) /\ k \in 1..Len(td)
        BY <1>1
      <4>2. Pre(td[k + 1], tr2[k + 1])
        BY <1>2, <3>2, <3>3, <4>1 DEF Safe
      <4> QED BY <1>1, <3>1, <4>1, <4>2
    <3>4. ASSUME Follows(tr, Tail(td), t, Len(Tail(td)) + 1)
          PROVE  tr[Len(Tail(td)) + 1].level = 0 /\ tr[Len(Tail(td)) + 1].classes = 0
      <4>1. Len(Tail(td)) + 1 = Len(td) /\ Len(td) \in 1..Len(td)
        BY <1>1
      <4>2. tr2[Len(td) + 1].level = 0 /\ tr2[Len(td) + 1].classes = 0
        BY <1>2, <3>2, <3>4, <4>1 DEF Safe
      <4> QED BY <1>1, <3>1, <4>1, <4>2
    <3> QED BY <3>3, <3>4
  <2> QED BY <2>1, <2>2 DEF Safe
<1>3. ASSUME Pre(td[1], s), \A t : Rel(td[1], s, t) => Safe(Tail(td), t), NEW tr
      PROVE  /\ \A k \in 1..Len(td) : Follows(tr, td, s, k) => Pre(td[k], tr[k])
             /\ Follows(tr, td, s, Len(td) + 1) =>
                  tr[Len(td) + 1].level = 0 /\ tr[Len(td) + 1].classes = 0
  <2> DEFINE tr2 == [i \in Nat |-> tr[i + 1]]
  <2>1. \A i \in Nat : tr2[i] = tr[i + 1]
    OBVIOUS
  <2> HIDE DEF tr2
  <2>2. ASSUME NEW k \in 1..Len(td), Follows(tr, td, s, k + 1)
        PROVE  Safe(Tail(td), tr[2]) /\ Follows(tr2, Tail(td), tr[2], k)
    <3>1. tr[1] = s /\ \A i \in 1..k : Rel(td[i], tr[i], tr[i + 1])
      BY <1>1, <2>2 DEF Follows
    <3>2. Safe(Tail(td), tr[2])
      <4>1. Rel(td[1], tr[1], tr[1 + 1])
        BY <1>1, <3>1
      <4> QED BY <1>3, <3>1, <4>1
    <3>3. ASSUME NEW i \in 1..(k - 1) PROVE Rel(Tail(td)[i], tr2[i], tr2[i + 1])
      <4>1. i + 1 \in 1..k /\ i \in 1..(Len(td) - 1) /\ i \in Nat /\ i + 1 \in Nat
        BY <1>1
      <4>2. Rel(td[i + 1], tr[i + 1], tr[(i + 1) + 1])
        BY <3>1, <4>1
      <4> QED BY <1>1, <2>1, <4>1, <4>2
    <3>4. tr2[1] = tr[2]
      BY <2>1
    <3> QED BY <3>2, <3>3, <3>4 DEF Follows
  <2>3. ASSUME NEW k \in 1..Len(td), Follows(tr, td, s, k) PROVE Pre(td[k], tr[k])
    <3>1. CASE k = 1
      BY <1>3, <2>3, <3>1 DEF Follows
    <3>2. CASE k # 1
      <4>1. k - 1 \in 1..Len(td) /\ (k - 1) + 1 = k /\ k - 1 \in 1..Len(Tail(td))
            /\ k - 1 \in 1..(Len(td) - 1) /\ k - 1 \in Nat
        BY <1>1, <3>2
      <4>2. Safe(Tail(td), tr[2]) /\ Follows(tr2, Tail(td), tr[2], k - 1)
        BY <2>2, <2>3, <4>1
      <4>3. Pre(Tail(td)[k - 1], tr2[k - 1])
        BY <4>1, <4>2 DEF Safe
      <4> QED BY <1>1, <2>1, <4>1, <4>3
    <3> QED BY <3>1, <3>2
  <2>4. ASSUME Follows(tr, td, s, Len(td) + 1)
        PROVE  tr[Len(td) + 1].level = 0 /\ tr[Len(td) + 1].classes = 0
    <3>1. Len(td) \in 1..Len(td) /\ Len(Tail(td)) + 1 = Len(td) /\ Len(td) \in Nat
      BY <1>1
    <3>2. Safe(Tail(td), tr[2]) /\ Follows(tr2, Tail(td), tr[2], Len(td))
      BY <2>2, <2>4, <3>1
    <3>3. tr2[Len(td)].level = 0 /\ tr2[Len(td)].classes = 0
      BY <3>1, <3>2 DEF Safe
    <3> QED BY <2>1, <3>1, <3>3
  <2> QED BY <2>3, <2>4
<1> QED BY <1>1, <1>2, <1>3 DEF Safe

\* When nothing is left to do, compile has returned.
LEMMA SafeNone ==
  ASSUME NEW s PROVE Safe(<<>>, s) => s.level = 0 /\ s.classes = 0
<1> DEFINE tr == [i \in Nat |-> s]
<1>1. tr[1] = s /\ Follows(tr, <<>>, s, 1)
  BY DEF Follows
<1> HIDE DEF tr
<1>2. Len(<<>>) + 1 = 1
  OBVIOUS
<1> QED BY <1>1, <1>2 DEF Safe

-----------------------------------------------------------------------------
(* The contract of each function, whatever its arguments *)

\* advance.
LEMMA AtAdvance ==
  ASSUME NEW c, c[1] = "advance", NEW s, NEW t
  PROVE  /\ Pre(c, s) <=> (s.level > 0)
         /\ Rel(c, s, t) <=>
              Good(t) /\ (s.err => t.err) /\ Expr(s, t, 0) /\ t.prev = s.cur
BY DEF Pre, Rel, Delta, Exprs, Pures, Stmts, Decls

\* scan.
LEMMA AtScan ==
  ASSUME NEW c, c[1] = "scan", NEW s, NEW t
  PROVE  /\ Pre(c, s) <=> (s.level > 0)
         /\ Rel(c, s, t) <=>
              Good(t) /\ (s.err => t.err) /\ Expr(s, t, 0) /\ t.prev = s.prev
BY DEF Pre, Rel, Delta, Exprs, Pures, Stmts, Decls

\* consume.
LEMMA AtConsume ==
  ASSUME NEW c, c[1] = "consume", NEW s, NEW t
  PROVE  /\ Pre(c, s) <=> (s.level > 0)
         /\ Rel(c, s, t) <=>
              Good(t) /\ (s.err => t.err) /\ Expr(s, t, 0) /\ (c[2] = "id" /\ ~t.err => t.prev \in Names)
BY DEF Pre, Rel, Delta, Exprs, Pures, Stmts, Decls

\* error.
LEMMA AtError ==
  ASSUME NEW c, c[1] = "error", NEW s, NEW t
  PROVE  /\ Pre(c, s) <=> (s.level > 0)
         /\ Rel(c, s, t) <=>
              Good(t) /\ (s.err => t.err) /\ Expr(s, t, 0) /\ t.err
BY DEF Pre, Rel, Delta, Exprs, Pures, Stmts, Decls

\* emit.
LEMMA AtEmit ==
  ASSUME NEW c, c[1] = "emit", NEW s, NEW t
  PROVE  /\ Pre(c, s) <=> (c[2] \in Int /\ s.level > 0)
         /\ Rel(c, s, t) <=>
              Good(t) /\ (s.err => t.err) /\ Expr(s, t, c[2])
BY DEF Pre, Rel, Delta, Exprs, Pures, Stmts, Decls

\* land.
LEMMA AtLand ==
  ASSUME NEW c, c[1] = "land", NEW s, NEW t
  PROVE  /\ Pre(c, s) <=> (c[2] \in Int /\ s.level > 0)
         /\ Rel(c, s, t) <=>
              Good(t) /\ (s.err => t.err) /\ Expr(s, t, c[2] - s.top.height)
BY DEF Pre, Rel, Delta, Exprs, Pures, Stmts, Decls

\* meet.
LEMMA AtMeet ==
  ASSUME NEW c, c[1] = "meet", NEW s, NEW t
  PROVE  /\ Pre(c, s) <=> (c[2] \in Int /\ s.level > 0 /\ (~s.err => s.top.height = c[2]))
         /\ Rel(c, s, t) <=>
              Good(t) /\ (s.err => t.err) /\ Expr(s, t, 0)
BY DEF Pre, Rel, Delta, Exprs, Pures, Stmts, Decls

\* synchronize.
LEMMA AtSynchronize ==
  ASSUME NEW c, c[1] = "synchronize", NEW s, NEW t
  PROVE  /\ Pre(c, s) <=> (s.level > 0)
         /\ Rel(c, s, t) <=>
              Good(t) /\ (s.err => t.err) /\ Expr(s, t, 0)
BY DEF Pre, Rel, Delta, Exprs, Pures, Stmts, Decls

\* recover.
LEMMA AtRecover ==
  ASSUME NEW c, c[1] = "recover", NEW s, NEW t
  PROVE  /\ Pre(c, s) <=> (s.level > 0 /\ Temps(s, 0))
         /\ Rel(c, s, t) <=>
              Good(t) /\ (s.err => t.err) /\ Expr(s, t, 0)
BY DEF Pre, Rel, Delta, Exprs, Pures, Stmts, Decls

\* namedVariable.
LEMMA AtNamedVariable ==
  ASSUME NEW c, c[1] = "namedVariable", NEW s, NEW t
  PROVE  /\ Pre(c, s) <=> (c[3] \in BOOLEAN /\ s.level > 0 /\ Bounded(s) /\ (c[3] => ExprOK(s))
               /\ (~s.err => c[2] # NoName /\ (c[2] = "this" => InMethod(s))))
         /\ Rel(c, s, t) <=>
              Good(t) /\ (s.err => t.err) /\ Expr(s, t, 1)
BY DEF Pre, Rel, Delta, Exprs, Pures, Stmts, Decls

\* upvalue.
LEMMA AtUpvalue ==
  ASSUME NEW c, c[1] = "upvalue", NEW s, NEW t
  PROVE  /\ Pre(c, s) <=> (UpvalueOK(s, c[2], c[3], c[4], c[5]))
         /\ Rel(c, s, t) <=>
              Good(t) /\ (s.err => t.err) /\ Expr(s, t, 0)
BY DEF Pre, Rel, Delta, Exprs, Pures, Stmts, Decls

\* parsePrecedence.
LEMMA AtParsePrecedence ==
  ASSUME NEW c, c[1] = "parsePrecedence", NEW s, NEW t
  PROVE  /\ Pre(c, s) <=> (ExprOK(s) /\ c[2] \in Nat \ {0})
         /\ Rel(c, s, t) <=>
              Good(t) /\ (s.err => t.err) /\ Expr(s, t, 1)
BY DEF Pre, Rel, Delta, Exprs, Pures, Stmts, Decls

\* prefix.
LEMMA AtPrefix ==
  ASSUME NEW c, c[1] = "prefix", NEW s, NEW t
  PROVE  /\ Pre(c, s) <=> (ExprOK(s) /\ c[2] \in Nat \ {0})
         /\ Rel(c, s, t) <=>
              Good(t) /\ (s.err => t.err) /\ Expr(s, t, 1)
BY DEF Pre, Rel, Delta, Exprs, Pures, Stmts, Decls

\* infix.
LEMMA AtInfix ==
  ASSUME NEW c, c[1] = "infix", NEW s, NEW t
  PROVE  /\ Pre(c, s) <=> (ExprOK(s) /\ c[2] \in Nat \ {0})
         /\ Rel(c, s, t) <=>
              Good(t) /\ (s.err => t.err) /\ Expr(s, t, 0)
BY DEF Pre, Rel, Delta, Exprs, Pures, Stmts, Decls

\* dot.
LEMMA AtDot ==
  ASSUME NEW c, c[1] = "dot", NEW s, NEW t
  PROVE  /\ Pre(c, s) <=> (ExprOK(s))
         /\ Rel(c, s, t) <=>
              Good(t) /\ (s.err => t.err) /\ Expr(s, t, 0)
BY DEF Pre, Rel, Delta, Exprs, Pures, Stmts, Decls

\* argumentList.
LEMMA AtArgumentList ==
  ASSUME NEW c, c[1] = "argumentList", NEW s, NEW t
  PROVE  /\ Pre(c, s) <=> (ExprOK(s) /\ c[2] \in Nat)
         /\ Rel(c, s, t) <=>
              Good(t) /\ (s.err => t.err) /\ Expr(s, t, -c[2])
BY DEF Pre, Rel, Delta, Exprs, Pures, Stmts, Decls

\* this.
LEMMA AtThis ==
  ASSUME NEW c, c[1] = "this", NEW s, NEW t
  PROVE  /\ Pre(c, s) <=> (ExprOK(s))
         /\ Rel(c, s, t) <=>
              Good(t) /\ (s.err => t.err) /\ Expr(s, t, 1)
BY DEF Pre, Rel, Delta, Exprs, Pures, Stmts, Decls

\* super.
LEMMA AtSuper ==
  ASSUME NEW c, c[1] = "super", NEW s, NEW t
  PROVE  /\ Pre(c, s) <=> (ExprOK(s))
         /\ Rel(c, s, t) <=>
              Good(t) /\ (s.err => t.err) /\ Expr(s, t, 1)
BY DEF Pre, Rel, Delta, Exprs, Pures, Stmts, Decls

\* superRest.
LEMMA AtSuperRest ==
  ASSUME NEW c, c[1] = "superRest", NEW s, NEW t
  PROVE  /\ Pre(c, s) <=> (ExprOK(s))
         /\ Rel(c, s, t) <=>
              Good(t) /\ (s.err => t.err) /\ Expr(s, t, 0)
BY DEF Pre, Rel, Delta, Exprs, Pures, Stmts, Decls

\* initializer.
LEMMA AtInitializer ==
  ASSUME NEW c, c[1] = "initializer", NEW s, NEW t
  PROVE  /\ Pre(c, s) <=> (ExprOK(s))
         /\ Rel(c, s, t) <=>
              Good(t) /\ (s.err => t.err) /\ Expr(s, t, 1)
BY DEF Pre, Rel, Delta, Exprs, Pures, Stmts, Decls

\* returnStatement.
LEMMA AtReturnStatement ==
  ASSUME NEW c, c[1] = "returnStatement", NEW s, NEW t
  PROVE  /\ Pre(c, s) <=> (ExprOK(s))
         /\ Rel(c, s, t) <=>
              Good(t) /\ (s.err => t.err) /\ Expr(s, t, 0)
BY DEF Pre, Rel, Delta, Exprs, Pures, Stmts, Decls

\* methods.
LEMMA AtMethods ==
  ASSUME NEW c, c[1] = "methods", NEW s, NEW t
  PROVE  /\ Pre(c, s) <=> (s.level > 0 /\ Bounded(s))
         /\ Rel(c, s, t) <=>
              Good(t) /\ (s.err => t.err) /\ Expr(s, t, 0)
BY DEF Pre, Rel, Delta, Exprs, Pures, Stmts, Decls

\* method.
LEMMA AtMethod ==
  ASSUME NEW c, c[1] = "method", NEW s, NEW t
  PROVE  /\ Pre(c, s) <=> (s.level > 0 /\ Bounded(s))
         /\ Rel(c, s, t) <=>
              Good(t) /\ (s.err => t.err) /\ Expr(s, t, 0)
BY DEF Pre, Rel, Delta, Exprs, Pures, Stmts, Decls

\* function.
LEMMA AtFunction ==
  ASSUME NEW c, c[1] = "function", NEW s, NEW t
  PROVE  /\ Pre(c, s) <=> (c[2] \in Types \ {"script"} /\ s.level > 0 /\ Bounded(s) /\ (c[2] \in MethodTypes \/ ClassOK(s)))
         /\ Rel(c, s, t) <=>
              Good(t) /\ (s.err => t.err) /\ Expr(s, t, 1)
BY DEF Pre, Rel, Delta, Exprs, Pures, Stmts, Decls

\* statement.
LEMMA AtStatement ==
  ASSUME NEW c, c[1] = "statement", NEW s, NEW t
  PROVE  /\ Pre(c, s) <=> (StmtOK(s, 0))
         /\ Rel(c, s, t) <=>
              Good(t) /\ (s.err => t.err) /\ Stmt(s, t, 0) /\ t.classes = s.classes
BY DEF Pre, Rel, Delta, Exprs, Pures, Stmts, Decls

\* else.
LEMMA AtElse ==
  ASSUME NEW c, c[1] = "else", NEW s, NEW t
  PROVE  /\ Pre(c, s) <=> (StmtOK(s, 0))
         /\ Rel(c, s, t) <=>
              Good(t) /\ (s.err => t.err) /\ Stmt(s, t, 0) /\ t.classes = s.classes
BY DEF Pre, Rel, Delta, Exprs, Pures, Stmts, Decls

\* forCondition.
LEMMA AtForCondition ==
  ASSUME NEW c, c[1] = "forCondition", NEW s, NEW t
  PROVE  /\ Pre(c, s) <=> (StmtOK(s, 0))
         /\ Rel(c, s, t) <=>
              Good(t) /\ (s.err => t.err) /\ Stmt(s, t, 0) /\ t.classes = s.classes
BY DEF Pre, Rel, Delta, Exprs, Pures, Stmts, Decls

\* ifThen.
LEMMA AtIfThen ==
  ASSUME NEW c, c[1] = "ifThen", NEW s, NEW t
  PROVE  /\ Pre(c, s) <=> (StmtOK(s, 1))
         /\ Rel(c, s, t) <=>
              Good(t) /\ (s.err => t.err) /\ Stmt(s, t, -1) /\ t.classes = s.classes
BY DEF Pre, Rel, Delta, Exprs, Pures, Stmts, Decls

\* ifElse.
LEMMA AtIfElse ==
  ASSUME NEW c, c[1] = "ifElse", NEW s, NEW t
  PROVE  /\ Pre(c, s) <=> (StmtOK(s, 0) /\ c[2] \in Int /\ (~s.err => c[2] = s.top.height + 1))
         /\ Rel(c, s, t) <=>
              Good(t) /\ (s.err => t.err) /\ Stmt(s, t, 0) /\ t.classes = s.classes
BY DEF Pre, Rel, Delta, Exprs, Pures, Stmts, Decls

\* whileBody.
LEMMA AtWhileBody ==
  ASSUME NEW c, c[1] = "whileBody", NEW s, NEW t
  PROVE  /\ Pre(c, s) <=> (StmtOK(s, 1) /\ c[2] \in Int /\ (~s.err => c[2] = s.top.height - 1))
         /\ Rel(c, s, t) <=>
              Good(t) /\ (s.err => t.err) /\ Stmt(s, t, -1) /\ t.classes = s.classes
BY DEF Pre, Rel, Delta, Exprs, Pures, Stmts, Decls

\* forExit.
LEMMA AtForExit ==
  ASSUME NEW c, c[1] = "forExit", NEW s, NEW t
  PROVE  /\ Pre(c, s) <=> (StmtOK(s, 1) /\ c[2] \in Int /\ (~s.err => c[2] = s.top.height - 1))
         /\ Rel(c, s, t) <=>
              Good(t) /\ (s.err => t.err) /\ Stmt(s, t, -1) /\ t.classes = s.classes
BY DEF Pre, Rel, Delta, Exprs, Pures, Stmts, Decls

\* forIncrement.
LEMMA AtForIncrement ==
  ASSUME NEW c, c[1] = "forIncrement", NEW s, NEW t
  PROVE  /\ Pre(c, s) <=> (StmtOK(s, 0) /\ c[2] \in Int /\ (~s.err => c[2] = s.top.height) /\ ExitOK(s, c[3]))
         /\ Rel(c, s, t) <=>
              Good(t) /\ (s.err => t.err) /\ Stmt(s, t, 0) /\ t.classes = s.classes
BY DEF Pre, Rel, Delta, Exprs, Pures, Stmts, Decls

\* declaration.
LEMMA AtDeclaration ==
  ASSUME NEW c, c[1] = "declaration", NEW s, NEW t
  PROVE  /\ Pre(c, s) <=> (StmtOK(s, 0))
         /\ Rel(c, s, t) <=>
              Good(t) /\ (s.err => t.err) /\ Decl(s, t)
BY DEF Pre, Rel, Delta, Exprs, Pures, Stmts, Decls

\* varDeclaration.
LEMMA AtVarDeclaration ==
  ASSUME NEW c, c[1] = "varDeclaration", NEW s, NEW t
  PROVE  /\ Pre(c, s) <=> (StmtOK(s, 0))
         /\ Rel(c, s, t) <=>
              Good(t) /\ (s.err => t.err) /\ Decl(s, t)
BY DEF Pre, Rel, Delta, Exprs, Pures, Stmts, Decls

\* funDeclaration.
LEMMA AtFunDeclaration ==
  ASSUME NEW c, c[1] = "funDeclaration", NEW s, NEW t
  PROVE  /\ Pre(c, s) <=> (StmtOK(s, 0))
         /\ Rel(c, s, t) <=>
              Good(t) /\ (s.err => t.err) /\ Decl(s, t)
BY DEF Pre, Rel, Delta, Exprs, Pures, Stmts, Decls

\* classDeclaration.
LEMMA AtClassDeclaration ==
  ASSUME NEW c, c[1] = "classDeclaration", NEW s, NEW t
  PROVE  /\ Pre(c, s) <=> (StmtOK(s, 0))
         /\ Rel(c, s, t) <=>
              Good(t) /\ (s.err => t.err) /\ Decl(s, t)
BY DEF Pre, Rel, Delta, Exprs, Pures, Stmts, Decls

\* block.
LEMMA AtBlock ==
  ASSUME NEW c, c[1] = "block", NEW s, NEW t
  PROVE  /\ Pre(c, s) <=> (StmtOK(s, 0))
         /\ Rel(c, s, t) <=>
              Good(t) /\ (s.err => t.err) /\ Decl(s, t)
BY DEF Pre, Rel, Delta, Exprs, Pures, Stmts, Decls

\* forInitializer.
LEMMA AtForInitializer ==
  ASSUME NEW c, c[1] = "forInitializer", NEW s, NEW t
  PROVE  /\ Pre(c, s) <=> (StmtOK(s, 0))
         /\ Rel(c, s, t) <=>
              Good(t) /\ (s.err => t.err) /\ Decl(s, t)
BY DEF Pre, Rel, Delta, Exprs, Pures, Stmts, Decls

\* parameters.
LEMMA AtParameters ==
  ASSUME NEW c, c[1] = "parameters", NEW s, NEW t
  PROVE  /\ Pre(c, s) <=> (StmtOK(s, 0))
         /\ Rel(c, s, t) <=>
              Good(t) /\ (s.err => t.err) /\ Decl(s, t)
BY DEF Pre, Rel, Delta, Exprs, Pures, Stmts, Decls

\* moreParameters.
LEMMA AtMoreParameters ==
  ASSUME NEW c, c[1] = "moreParameters", NEW s, NEW t
  PROVE  /\ Pre(c, s) <=> (StmtOK(s, 0))
         /\ Rel(c, s, t) <=>
              Good(t) /\ (s.err => t.err) /\ Decl(s, t)
BY DEF Pre, Rel, Delta, Exprs, Pures, Stmts, Decls

\* parameter.
LEMMA AtParameter ==
  ASSUME NEW c, c[1] = "parameter", NEW s, NEW t
  PROVE  /\ Pre(c, s) <=> (StmtOK(s, 0))
         /\ Rel(c, s, t) <=>
              Good(t) /\ (s.err => t.err) /\ Decl(s, t)
BY DEF Pre, Rel, Delta, Exprs, Pures, Stmts, Decls

\* className.
LEMMA AtClassName ==
  ASSUME NEW c, c[1] = "className", NEW s, NEW t
  PROVE  /\ Pre(c, s) <=> (StmtOK(s, 0) /\ (~s.err => s.prev \in Names))
         /\ Rel(c, s, t) <=>
              Good(t) /\ (s.err => t.err) /\ Decl(s, t)
BY DEF Pre, Rel, Delta, Exprs, Pures, Stmts, Decls

\* beginScope.
LEMMA AtBeginScope ==
  ASSUME NEW c, c[1] = "beginScope", NEW s, NEW t
  PROVE  /\ Pre(c, s) <=> (s.level > 0 /\ Bounded(s))
         /\ Rel(c, s, t) <=>
              Good(t) /\ (s.err => t.err) /\ Stays(s, t) /\ t.top.depth = s.top.depth + 1 /\ t.classes = s.classes
              /\ SameLocals(s, t) /\ (~t.err => SameEnv(s, t) /\ t.top.height = s.top.height)
BY DEF Pre, Rel, Delta, Exprs, Pures, Stmts, Decls

\* endScope.
LEMMA AtEndScope ==
  ASSUME NEW c, c[1] = "endScope", NEW s, NEW t
  PROVE  /\ Pre(c, s) <=> (s.level > 0 /\ s.top.depth > 0 /\ Tidy(s) /\ ScopeSplit(s, c[2]))
         /\ Rel(c, s, t) <=>
              Good(t) /\ (s.err => t.err) /\ Stays(s, t) /\ t.top.depth = s.top.depth - 1 /\ t.classes = s.classes /\ Tidy(t)
              /\ (~t.err => /\ Dropped(s, t, s.top.depth - 1)
                            /\ t.m = c[2] /\ \A e \in 1..t.m : t.env[e] = s.env[e])
BY DEF Pre, Rel, Delta, Exprs, Pures, Stmts, Decls

\* dropLocals.
LEMMA AtDropLocals ==
  ASSUME NEW c, c[1] = "dropLocals", NEW s, NEW t
  PROVE  /\ Pre(c, s) <=> (s.level > 0 /\ TidyTo(s.top.n, s.top.locals, s.top.depth + 1))
         /\ Rel(c, s, t) <=>
              Good(t) /\ (s.err => t.err) /\ Stays(s, t) /\ t.top.depth = s.top.depth /\ t.classes = s.classes /\ Tidy(t)
              /\ (~t.err => Dropped(s, t, s.top.depth) /\ SameEnv(s, t))
BY DEF Pre, Rel, Delta, Exprs, Pures, Stmts, Decls

\* declareVariable.
LEMMA AtDeclareVariable ==
  ASSUME NEW c, c[1] = "declareVariable", NEW s, NEW t
  PROVE  /\ Pre(c, s) <=> (s.level > 0 /\ Tidy(s))
         /\ Rel(c, s, t) <=>
              Good(t) /\ (s.err => t.err) /\ Declares(s, t)
BY DEF Pre, Rel, Delta, Exprs, Pures, Stmts, Decls

\* addLocal.
LEMMA AtAddLocal ==
  ASSUME NEW c, c[1] = "addLocal", NEW s, NEW t
  PROVE  /\ Pre(c, s) <=> (s.level > 0 /\ Tidy(s) /\ s.top.depth > 0)
         /\ Rel(c, s, t) <=>
              Good(t) /\ (s.err => t.err) /\ Declares(s, t)
BY DEF Pre, Rel, Delta, Exprs, Pures, Stmts, Decls

\* markInitialized.
LEMMA AtMarkInitialized ==
  ASSUME NEW c, c[1] = "markInitialized", NEW s, NEW t
  PROVE  /\ Pre(c, s) <=> (s.level > 0 /\ Ready(s, -1))
         /\ Rel(c, s, t) <=>
              Good(t) /\ (s.err => t.err) /\ Defines(s, t, 0)
BY DEF Pre, Rel, Delta, Exprs, Pures, Stmts, Decls

\* defineVariable.
LEMMA AtDefineVariable ==
  ASSUME NEW c, c[1] = "defineVariable", NEW s, NEW t
  PROVE  /\ Pre(c, s) <=> (s.level > 0 /\ Ready(s, 0))
         /\ Rel(c, s, t) <=>
              Good(t) /\ (s.err => t.err) /\ Defines(s, t, -1)
BY DEF Pre, Rel, Delta, Exprs, Pures, Stmts, Decls

\* defineFunction.
LEMMA AtDefineFunction ==
  ASSUME NEW c, c[1] = "defineFunction", NEW s, NEW t
  PROVE  /\ Pre(c, s) <=> (s.level > 0)
         /\ Rel(c, s, t) <=>
              Good(t) /\ (s.err => t.err) /\ Expr(s, t, IF s.top.depth = 0 THEN -1 ELSE 0)
BY DEF Pre, Rel, Delta, Exprs, Pures, Stmts, Decls

\* endFunction.
LEMMA AtEndFunction ==
  ASSUME NEW c, c[1] = "endFunction", NEW s, NEW t
  PROVE  /\ Pre(c, s) <=> (s.level > 1 /\ LevelSplit(s, c[2]))
         /\ Rel(c, s, t) <=>
              Good(t) /\ (s.err => t.err) /\ Leaves(s, t, c[2])
BY DEF Pre, Rel, Delta, Exprs, Pures, Stmts, Decls

\* beginClass.
LEMMA AtBeginClass ==
  ASSUME NEW c, c[1] = "beginClass", NEW s, NEW t
  PROVE  /\ Pre(c, s) <=> (s.level > 0)
         /\ Rel(c, s, t) <=>
              Good(t) /\ (s.err => t.err) /\ Classes(s, t, 1)
BY DEF Pre, Rel, Delta, Exprs, Pures, Stmts, Decls

\* hasSuperclass.
LEMMA AtHasSuperclass ==
  ASSUME NEW c, c[1] = "hasSuperclass", NEW s, NEW t
  PROVE  /\ Pre(c, s) <=> (s.level > 0 /\ s.classes > 0)
         /\ Rel(c, s, t) <=>
              Good(t) /\ (s.err => t.err) /\ Expr(s, t, 0)
BY DEF Pre, Rel, Delta, Exprs, Pures, Stmts, Decls

\* endClass.
LEMMA AtEndClass ==
  ASSUME NEW c, c[1] = "endClass", NEW s, NEW t
  PROVE  /\ Pre(c, s) <=> (s.level > 0 /\ s.classes > 0)
         /\ Rel(c, s, t) <=>
              Good(t) /\ (s.err => t.err) /\ Classes(s, t, -1)
BY DEF Pre, Rel, Delta, Exprs, Pures, Stmts, Decls

\* inherit.
LEMMA AtInherit ==
  ASSUME NEW c, c[1] = "inherit", NEW s, NEW t
  PROVE  /\ Pre(c, s) <=> (s.level > 0 /\ Bounded(s) /\ Tidy(s) /\ Temps(s, 0) /\ s.classes > 0
               /\ (~s.err => c[2] \in Names))
         /\ Rel(c, s, t) <=>
              Good(t) /\ (s.err => t.err) /\ Stmt(s, t, 0) /\ t.classes = s.classes - 1
BY DEF Pre, Rel, Delta, Exprs, Pures, Stmts, Decls

\* superclass.
LEMMA AtSuperclass ==
  ASSUME NEW c, c[1] = "superclass", NEW s, NEW t
  PROVE  /\ Pre(c, s) <=> (s.level > 0 /\ Bounded(s) /\ Tidy(s) /\ Temps(s, 0) /\ s.classes > 0
               /\ (~s.err => c[2] \in Names /\ s.prev \in Names))
         /\ Rel(c, s, t) <=>
              Good(t) /\ (s.err => t.err) /\ Stmt(s, t, 0) /\ t.classes = s.classes - 1
BY DEF Pre, Rel, Delta, Exprs, Pures, Stmts, Decls

\* program.
LEMMA AtProgram ==
  ASSUME NEW c, c[1] = "program", NEW s, NEW t
  PROVE  /\ Pre(c, s) <=> (StmtOK(s, 0) /\ s.level = 1 /\ s.classes = 0)
         /\ Rel(c, s, t) <=>
              Good(t) /\ (s.err => t.err) /\ t.level = 0 /\ t.classes = 0
BY DEF Pre, Rel, Delta, Exprs, Pures, Stmts, Decls

\* endCompile.
LEMMA AtEndCompile ==
  ASSUME NEW c, c[1] = "endCompile", NEW s, NEW t
  PROVE  /\ Pre(c, s) <=> (s.level = 1 /\ s.classes = 0)
         /\ Rel(c, s, t) <=>
              Good(t) /\ (s.err => t.err) /\ t.level = 0 /\ t.classes = 0
BY DEF Pre, Rel, Delta, Exprs, Pures, Stmts, Decls

-----------------------------------------------------------------------------
(* The contract of each call: when it can be done, and what it does *)

\* advance.
LEMMA CanAdvance ==
  ASSUME NEW s
  PROVE  (s.level > 0) => Pre(Advance, s)
BY AtAdvance DEF Advance

\* What advance may do.
LEMMA OfAdvance ==
  ASSUME NEW s, NEW t
  PROVE  Rel(Advance, s, t) <=>
              Good(t) /\ (s.err => t.err) /\ Expr(s, t, 0) /\ t.prev = s.cur
BY AtAdvance DEF Advance

\* scan.
LEMMA CanScan ==
  ASSUME NEW s
  PROVE  (s.level > 0) => Pre(Call("scan"), s)
BY AtScan DEF Call

\* What scan may do.
LEMMA OfScan ==
  ASSUME NEW s, NEW t
  PROVE  Rel(Call("scan"), s, t) <=>
              Good(t) /\ (s.err => t.err) /\ Expr(s, t, 0) /\ t.prev = s.prev
BY AtScan DEF Call

\* consume.
LEMMA CanConsume ==
  ASSUME NEW s, NEW x
  PROVE  (s.level > 0) => Pre(Consume(x), s)
BY AtConsume DEF Consume

\* What consume may do.
LEMMA OfConsume ==
  ASSUME NEW s, NEW t, NEW x
  PROVE  Rel(Consume(x), s, t) <=>
              Good(t) /\ (s.err => t.err) /\ Expr(s, t, 0) /\ (x = "id" /\ ~t.err => t.prev \in Names)
BY AtConsume DEF Consume

\* error.
LEMMA CanError ==
  ASSUME NEW s
  PROVE  (s.level > 0) => Pre(Error, s)
BY AtError DEF Error

\* What error may do.
LEMMA OfError ==
  ASSUME NEW s, NEW t
  PROVE  Rel(Error, s, t) <=>
              Good(t) /\ (s.err => t.err) /\ Expr(s, t, 0) /\ t.err
BY AtError DEF Error

\* emit.
LEMMA CanEmit ==
  ASSUME NEW s, NEW n
  PROVE  (n \in Int /\ s.level > 0) => Pre(Emit(n), s)
BY AtEmit DEF Emit

\* What emit may do.
LEMMA OfEmit ==
  ASSUME NEW s, NEW t, NEW n
  PROVE  Rel(Emit(n), s, t) <=>
              Good(t) /\ (s.err => t.err) /\ Expr(s, t, n)
BY AtEmit DEF Emit

\* land.
LEMMA CanLand ==
  ASSUME NEW s, NEW n
  PROVE  (n \in Int /\ s.level > 0) => Pre(<<"land", n>>, s)
BY AtLand

\* What land may do.
LEMMA OfLand ==
  ASSUME NEW s, NEW t, NEW n
  PROVE  Rel(<<"land", n>>, s, t) <=>
              Good(t) /\ (s.err => t.err) /\ Expr(s, t, n - s.top.height)
BY AtLand

\* meet.
LEMMA CanMeet ==
  ASSUME NEW s, NEW n
  PROVE  (n \in Int /\ s.level > 0 /\ (~s.err => s.top.height = n)) => Pre(<<"meet", n>>, s)
BY AtMeet

\* What meet may do.
LEMMA OfMeet ==
  ASSUME NEW s, NEW t, NEW n
  PROVE  Rel(<<"meet", n>>, s, t) <=>
              Good(t) /\ (s.err => t.err) /\ Expr(s, t, 0)
BY AtMeet

\* synchronize.
LEMMA CanSynchronize ==
  ASSUME NEW s
  PROVE  (s.level > 0) => Pre(Call("synchronize"), s)
BY AtSynchronize DEF Call

\* What synchronize may do.
LEMMA OfSynchronize ==
  ASSUME NEW s, NEW t
  PROVE  Rel(Call("synchronize"), s, t) <=>
              Good(t) /\ (s.err => t.err) /\ Expr(s, t, 0)
BY AtSynchronize DEF Call

\* recover.
LEMMA CanRecover ==
  ASSUME NEW s
  PROVE  (s.level > 0 /\ Temps(s, 0)) => Pre(Call("recover"), s)
BY AtRecover DEF Call

\* What recover may do.
LEMMA OfRecover ==
  ASSUME NEW s, NEW t
  PROVE  Rel(Call("recover"), s, t) <=>
              Good(t) /\ (s.err => t.err) /\ Expr(s, t, 0)
BY AtRecover DEF Call

\* namedVariable.
LEMMA CanNamedVariable ==
  ASSUME NEW s, NEW n, NEW b
  PROVE  (b \in BOOLEAN /\ s.level > 0 /\ Bounded(s) /\ (b => ExprOK(s))
          /\ (~s.err => n # NoName /\ (n = "this" => InMethod(s)))) => Pre(NamedVariable(n, b), s)
<1>1. /\ NamedVariable(n, b)[1] = "namedVariable" /\ NamedVariable(n, b)[2] = n
      /\ NamedVariable(n, b)[3] = b
  BY DEF NamedVariable
<1> QED BY <1>1, AtNamedVariable, Zenon

\* What namedVariable may do.
LEMMA OfNamedVariable ==
  ASSUME NEW s, NEW t, NEW n, NEW b
  PROVE  Rel(NamedVariable(n, b), s, t) <=>
              Good(t) /\ (s.err => t.err) /\ Expr(s, t, 1)
<1>1. /\ NamedVariable(n, b)[1] = "namedVariable" /\ NamedVariable(n, b)[2] = n
      /\ NamedVariable(n, b)[3] = b
  BY DEF NamedVariable
<1> QED BY <1>1, AtNamedVariable, Zenon

\* upvalue.
LEMMA CanUpvalue ==
  ASSUME NEW s, NEW k, NEW i, NEW b, NEW v
  PROVE  (UpvalueOK(s, k, i, b, v)) => Pre(<<"upvalue", k, i, b, v>>, s)
BY AtUpvalue

\* What upvalue may do.
LEMMA OfUpvalue ==
  ASSUME NEW s, NEW t, NEW k, NEW i, NEW b, NEW v
  PROVE  Rel(<<"upvalue", k, i, b, v>>, s, t) <=>
              Good(t) /\ (s.err => t.err) /\ Expr(s, t, 0)
BY AtUpvalue

\* parsePrecedence.
LEMMA CanParsePrecedence ==
  ASSUME NEW s, NEW p
  PROVE  (ExprOK(s) /\ p \in Nat \ {0}) => Pre(ParsePrecedence(p), s)
BY AtParsePrecedence DEF ParsePrecedence

\* What parsePrecedence may do.
LEMMA OfParsePrecedence ==
  ASSUME NEW s, NEW t, NEW p
  PROVE  Rel(ParsePrecedence(p), s, t) <=>
              Good(t) /\ (s.err => t.err) /\ Expr(s, t, 1)
BY AtParsePrecedence DEF ParsePrecedence

\* expression.
LEMMA CanExpression ==
  ASSUME NEW s
  PROVE  (ExprOK(s)) => Pre(Expression, s)
BY CanParsePrecedence DEF Expression, Assignment

\* What expression may do.
LEMMA OfExpression ==
  ASSUME NEW s, NEW t
  PROVE  Rel(Expression, s, t) <=>
              Good(t) /\ (s.err => t.err) /\ Expr(s, t, 1)
BY OfParsePrecedence DEF Expression, Assignment

\* prefix.
LEMMA CanPrefix ==
  ASSUME NEW s, NEW p
  PROVE  (ExprOK(s) /\ p \in Nat \ {0}) => Pre(<<"prefix", p>>, s)
BY AtPrefix

\* What prefix may do.
LEMMA OfPrefix ==
  ASSUME NEW s, NEW t, NEW p
  PROVE  Rel(<<"prefix", p>>, s, t) <=>
              Good(t) /\ (s.err => t.err) /\ Expr(s, t, 1)
BY AtPrefix

\* infix.
LEMMA CanInfix ==
  ASSUME NEW s, NEW p
  PROVE  (ExprOK(s) /\ p \in Nat \ {0}) => Pre(<<"infix", p>>, s)
BY AtInfix

\* What infix may do.
LEMMA OfInfix ==
  ASSUME NEW s, NEW t, NEW p
  PROVE  Rel(<<"infix", p>>, s, t) <=>
              Good(t) /\ (s.err => t.err) /\ Expr(s, t, 0)
BY AtInfix

\* dot.
LEMMA CanDot ==
  ASSUME NEW s, NEW b
  PROVE  (ExprOK(s)) => Pre(<<"dot", b>>, s)
BY AtDot

\* What dot may do.
LEMMA OfDot ==
  ASSUME NEW s, NEW t, NEW b
  PROVE  Rel(<<"dot", b>>, s, t) <=>
              Good(t) /\ (s.err => t.err) /\ Expr(s, t, 0)
BY AtDot

\* argumentList.
LEMMA CanArgumentList ==
  ASSUME NEW s, NEW n, NEW k
  PROVE  (ExprOK(s) /\ n \in Nat) => Pre(<<"argumentList", n, k>>, s)
BY AtArgumentList

\* What argumentList may do.
LEMMA OfArgumentList ==
  ASSUME NEW s, NEW t, NEW n, NEW k
  PROVE  Rel(<<"argumentList", n, k>>, s, t) <=>
              Good(t) /\ (s.err => t.err) /\ Expr(s, t, -n)
BY AtArgumentList

\* this.
LEMMA CanThis ==
  ASSUME NEW s
  PROVE  (ExprOK(s)) => Pre(Call("this"), s)
BY AtThis DEF Call

\* What this may do.
LEMMA OfThis ==
  ASSUME NEW s, NEW t
  PROVE  Rel(Call("this"), s, t) <=>
              Good(t) /\ (s.err => t.err) /\ Expr(s, t, 1)
BY AtThis DEF Call

\* super.
LEMMA CanSuper ==
  ASSUME NEW s
  PROVE  (ExprOK(s)) => Pre(Call("super"), s)
BY AtSuper DEF Call

\* What super may do.
LEMMA OfSuper ==
  ASSUME NEW s, NEW t
  PROVE  Rel(Call("super"), s, t) <=>
              Good(t) /\ (s.err => t.err) /\ Expr(s, t, 1)
BY AtSuper DEF Call

\* superRest.
LEMMA CanSuperRest ==
  ASSUME NEW s
  PROVE  (ExprOK(s)) => Pre(Call("superRest"), s)
BY AtSuperRest DEF Call

\* What superRest may do.
LEMMA OfSuperRest ==
  ASSUME NEW s, NEW t
  PROVE  Rel(Call("superRest"), s, t) <=>
              Good(t) /\ (s.err => t.err) /\ Expr(s, t, 0)
BY AtSuperRest DEF Call

\* initializer.
LEMMA CanInitializer ==
  ASSUME NEW s
  PROVE  (ExprOK(s)) => Pre(Call("initializer"), s)
BY AtInitializer DEF Call

\* What initializer may do.
LEMMA OfInitializer ==
  ASSUME NEW s, NEW t
  PROVE  Rel(Call("initializer"), s, t) <=>
              Good(t) /\ (s.err => t.err) /\ Expr(s, t, 1)
BY AtInitializer DEF Call

\* returnStatement.
LEMMA CanReturnStatement ==
  ASSUME NEW s
  PROVE  (ExprOK(s)) => Pre(Call("returnStatement"), s)
BY AtReturnStatement DEF Call

\* What returnStatement may do.
LEMMA OfReturnStatement ==
  ASSUME NEW s, NEW t
  PROVE  Rel(Call("returnStatement"), s, t) <=>
              Good(t) /\ (s.err => t.err) /\ Expr(s, t, 0)
BY AtReturnStatement DEF Call

\* methods.
LEMMA CanMethods ==
  ASSUME NEW s
  PROVE  (s.level > 0 /\ Bounded(s)) => Pre(Call("methods"), s)
BY AtMethods DEF Call

\* What methods may do.
LEMMA OfMethods ==
  ASSUME NEW s, NEW t
  PROVE  Rel(Call("methods"), s, t) <=>
              Good(t) /\ (s.err => t.err) /\ Expr(s, t, 0)
BY AtMethods DEF Call

\* method.
LEMMA CanMethod ==
  ASSUME NEW s
  PROVE  (s.level > 0 /\ Bounded(s)) => Pre(Call("method"), s)
BY AtMethod DEF Call

\* What method may do.
LEMMA OfMethod ==
  ASSUME NEW s, NEW t
  PROVE  Rel(Call("method"), s, t) <=>
              Good(t) /\ (s.err => t.err) /\ Expr(s, t, 0)
BY AtMethod DEF Call

\* function.
LEMMA CanFunction ==
  ASSUME NEW s, NEW k
  PROVE  (k \in Types \ {"script"} /\ s.level > 0 /\ Bounded(s) /\ (k \in MethodTypes \/ ClassOK(s))) => Pre(<<"function", k>>, s)
BY AtFunction

\* What function may do.
LEMMA OfFunction ==
  ASSUME NEW s, NEW t, NEW k
  PROVE  Rel(<<"function", k>>, s, t) <=>
              Good(t) /\ (s.err => t.err) /\ Expr(s, t, 1)
BY AtFunction

\* statement.
LEMMA CanStatement ==
  ASSUME NEW s
  PROVE  (StmtOK(s, 0)) => Pre(Call("statement"), s)
BY AtStatement DEF Call

\* What statement may do.
LEMMA OfStatement ==
  ASSUME NEW s, NEW t
  PROVE  Rel(Call("statement"), s, t) <=>
              Good(t) /\ (s.err => t.err) /\ Stmt(s, t, 0) /\ t.classes = s.classes
BY AtStatement DEF Call

\* else.
LEMMA CanElse ==
  ASSUME NEW s
  PROVE  (StmtOK(s, 0)) => Pre(Call("else"), s)
BY AtElse DEF Call

\* What else may do.
LEMMA OfElse ==
  ASSUME NEW s, NEW t
  PROVE  Rel(Call("else"), s, t) <=>
              Good(t) /\ (s.err => t.err) /\ Stmt(s, t, 0) /\ t.classes = s.classes
BY AtElse DEF Call

\* forCondition.
LEMMA CanForCondition ==
  ASSUME NEW s
  PROVE  (StmtOK(s, 0)) => Pre(Call("forCondition"), s)
BY AtForCondition DEF Call

\* What forCondition may do.
LEMMA OfForCondition ==
  ASSUME NEW s, NEW t
  PROVE  Rel(Call("forCondition"), s, t) <=>
              Good(t) /\ (s.err => t.err) /\ Stmt(s, t, 0) /\ t.classes = s.classes
BY AtForCondition DEF Call

\* ifThen.
LEMMA CanIfThen ==
  ASSUME NEW s
  PROVE  (StmtOK(s, 1)) => Pre(Call("ifThen"), s)
BY AtIfThen DEF Call

\* What ifThen may do.
LEMMA OfIfThen ==
  ASSUME NEW s, NEW t
  PROVE  Rel(Call("ifThen"), s, t) <=>
              Good(t) /\ (s.err => t.err) /\ Stmt(s, t, -1) /\ t.classes = s.classes
BY AtIfThen DEF Call

\* ifElse.
LEMMA CanIfElse ==
  ASSUME NEW s, NEW n
  PROVE  (StmtOK(s, 0) /\ n \in Int /\ (~s.err => n = s.top.height + 1)) => Pre(<<"ifElse", n>>, s)
BY AtIfElse

\* What ifElse may do.
LEMMA OfIfElse ==
  ASSUME NEW s, NEW t, NEW n
  PROVE  Rel(<<"ifElse", n>>, s, t) <=>
              Good(t) /\ (s.err => t.err) /\ Stmt(s, t, 0) /\ t.classes = s.classes
BY AtIfElse

\* whileBody.
LEMMA CanWhileBody ==
  ASSUME NEW s, NEW n
  PROVE  (StmtOK(s, 1) /\ n \in Int /\ (~s.err => n = s.top.height - 1)) => Pre(<<"whileBody", n>>, s)
BY AtWhileBody

\* What whileBody may do.
LEMMA OfWhileBody ==
  ASSUME NEW s, NEW t, NEW n
  PROVE  Rel(<<"whileBody", n>>, s, t) <=>
              Good(t) /\ (s.err => t.err) /\ Stmt(s, t, -1) /\ t.classes = s.classes
BY AtWhileBody

\* forExit.
LEMMA CanForExit ==
  ASSUME NEW s, NEW n
  PROVE  (StmtOK(s, 1) /\ n \in Int /\ (~s.err => n = s.top.height - 1)) => Pre(<<"forExit", n>>, s)
BY AtForExit

\* What forExit may do.
LEMMA OfForExit ==
  ASSUME NEW s, NEW t, NEW n
  PROVE  Rel(<<"forExit", n>>, s, t) <=>
              Good(t) /\ (s.err => t.err) /\ Stmt(s, t, -1) /\ t.classes = s.classes
BY AtForExit

\* forIncrement.
LEMMA CanForIncrement ==
  ASSUME NEW s, NEW n, NEW x
  PROVE  (StmtOK(s, 0) /\ n \in Int /\ (~s.err => n = s.top.height) /\ ExitOK(s, x)) => Pre(<<"forIncrement", n, x>>, s)
BY AtForIncrement

\* What forIncrement may do.
LEMMA OfForIncrement ==
  ASSUME NEW s, NEW t, NEW n, NEW x
  PROVE  Rel(<<"forIncrement", n, x>>, s, t) <=>
              Good(t) /\ (s.err => t.err) /\ Stmt(s, t, 0) /\ t.classes = s.classes
BY AtForIncrement

\* declaration.
LEMMA CanDeclaration ==
  ASSUME NEW s
  PROVE  (StmtOK(s, 0)) => Pre(Call("declaration"), s)
BY AtDeclaration DEF Call

\* What declaration may do.
LEMMA OfDeclaration ==
  ASSUME NEW s, NEW t
  PROVE  Rel(Call("declaration"), s, t) <=>
              Good(t) /\ (s.err => t.err) /\ Decl(s, t)
BY AtDeclaration DEF Call

\* varDeclaration.
LEMMA CanVarDeclaration ==
  ASSUME NEW s
  PROVE  (StmtOK(s, 0)) => Pre(Call("varDeclaration"), s)
BY AtVarDeclaration DEF Call

\* What varDeclaration may do.
LEMMA OfVarDeclaration ==
  ASSUME NEW s, NEW t
  PROVE  Rel(Call("varDeclaration"), s, t) <=>
              Good(t) /\ (s.err => t.err) /\ Decl(s, t)
BY AtVarDeclaration DEF Call

\* funDeclaration.
LEMMA CanFunDeclaration ==
  ASSUME NEW s
  PROVE  (StmtOK(s, 0)) => Pre(Call("funDeclaration"), s)
BY AtFunDeclaration DEF Call

\* What funDeclaration may do.
LEMMA OfFunDeclaration ==
  ASSUME NEW s, NEW t
  PROVE  Rel(Call("funDeclaration"), s, t) <=>
              Good(t) /\ (s.err => t.err) /\ Decl(s, t)
BY AtFunDeclaration DEF Call

\* classDeclaration.
LEMMA CanClassDeclaration ==
  ASSUME NEW s
  PROVE  (StmtOK(s, 0)) => Pre(Call("classDeclaration"), s)
BY AtClassDeclaration DEF Call

\* What classDeclaration may do.
LEMMA OfClassDeclaration ==
  ASSUME NEW s, NEW t
  PROVE  Rel(Call("classDeclaration"), s, t) <=>
              Good(t) /\ (s.err => t.err) /\ Decl(s, t)
BY AtClassDeclaration DEF Call

\* block.
LEMMA CanBlock ==
  ASSUME NEW s
  PROVE  (StmtOK(s, 0)) => Pre(Call("block"), s)
BY AtBlock DEF Call

\* What block may do.
LEMMA OfBlock ==
  ASSUME NEW s, NEW t
  PROVE  Rel(Call("block"), s, t) <=>
              Good(t) /\ (s.err => t.err) /\ Decl(s, t)
BY AtBlock DEF Call

\* forInitializer.
LEMMA CanForInitializer ==
  ASSUME NEW s
  PROVE  (StmtOK(s, 0)) => Pre(Call("forInitializer"), s)
BY AtForInitializer DEF Call

\* What forInitializer may do.
LEMMA OfForInitializer ==
  ASSUME NEW s, NEW t
  PROVE  Rel(Call("forInitializer"), s, t) <=>
              Good(t) /\ (s.err => t.err) /\ Decl(s, t)
BY AtForInitializer DEF Call

\* parameters.
LEMMA CanParameters ==
  ASSUME NEW s
  PROVE  (StmtOK(s, 0)) => Pre(Call("parameters"), s)
BY AtParameters DEF Call

\* What parameters may do.
LEMMA OfParameters ==
  ASSUME NEW s, NEW t
  PROVE  Rel(Call("parameters"), s, t) <=>
              Good(t) /\ (s.err => t.err) /\ Decl(s, t)
BY AtParameters DEF Call

\* moreParameters.
LEMMA CanMoreParameters ==
  ASSUME NEW s
  PROVE  (StmtOK(s, 0)) => Pre(Call("moreParameters"), s)
BY AtMoreParameters DEF Call

\* What moreParameters may do.
LEMMA OfMoreParameters ==
  ASSUME NEW s, NEW t
  PROVE  Rel(Call("moreParameters"), s, t) <=>
              Good(t) /\ (s.err => t.err) /\ Decl(s, t)
BY AtMoreParameters DEF Call

\* parameter.
LEMMA CanParameter ==
  ASSUME NEW s
  PROVE  (StmtOK(s, 0)) => Pre(Call("parameter"), s)
BY AtParameter DEF Call

\* What parameter may do.
LEMMA OfParameter ==
  ASSUME NEW s, NEW t
  PROVE  Rel(Call("parameter"), s, t) <=>
              Good(t) /\ (s.err => t.err) /\ Decl(s, t)
BY AtParameter DEF Call

\* className.
LEMMA CanClassName ==
  ASSUME NEW s
  PROVE  (StmtOK(s, 0) /\ (~s.err => s.prev \in Names)) => Pre(Call("className"), s)
BY AtClassName DEF Call

\* What className may do.
LEMMA OfClassName ==
  ASSUME NEW s, NEW t
  PROVE  Rel(Call("className"), s, t) <=>
              Good(t) /\ (s.err => t.err) /\ Decl(s, t)
BY AtClassName DEF Call

\* beginScope.
LEMMA CanBeginScope ==
  ASSUME NEW s
  PROVE  (s.level > 0 /\ Bounded(s)) => Pre(Call("beginScope"), s)
BY AtBeginScope DEF Call

\* What beginScope may do.
LEMMA OfBeginScope ==
  ASSUME NEW s, NEW t
  PROVE  Rel(Call("beginScope"), s, t) <=>
              Good(t) /\ (s.err => t.err) /\ Stays(s, t) /\ t.top.depth = s.top.depth + 1 /\ t.classes = s.classes
              /\ SameLocals(s, t) /\ (~t.err => SameEnv(s, t) /\ t.top.height = s.top.height)
BY AtBeginScope DEF Call

\* endScope.
LEMMA CanEndScope ==
  ASSUME NEW s, NEW a
  PROVE  (s.level > 0 /\ s.top.depth > 0 /\ Tidy(s) /\ ScopeSplit(s, a)) => Pre(<<"endScope", a>>, s)
BY AtEndScope

\* What endScope may do.
LEMMA OfEndScope ==
  ASSUME NEW s, NEW t, NEW a
  PROVE  Rel(<<"endScope", a>>, s, t) <=>
              Good(t) /\ (s.err => t.err) /\ Stays(s, t) /\ t.top.depth = s.top.depth - 1 /\ t.classes = s.classes /\ Tidy(t)
              /\ (~t.err => /\ Dropped(s, t, s.top.depth - 1)
                            /\ t.m = a /\ \A e \in 1..t.m : t.env[e] = s.env[e])
BY AtEndScope

\* dropLocals.
LEMMA CanDropLocals ==
  ASSUME NEW s
  PROVE  (s.level > 0 /\ TidyTo(s.top.n, s.top.locals, s.top.depth + 1)) => Pre(Call("dropLocals"), s)
BY AtDropLocals DEF Call

\* What dropLocals may do.
LEMMA OfDropLocals ==
  ASSUME NEW s, NEW t
  PROVE  Rel(Call("dropLocals"), s, t) <=>
              Good(t) /\ (s.err => t.err) /\ Stays(s, t) /\ t.top.depth = s.top.depth /\ t.classes = s.classes /\ Tidy(t)
              /\ (~t.err => Dropped(s, t, s.top.depth) /\ SameEnv(s, t))
BY AtDropLocals DEF Call

\* declareVariable.
LEMMA CanDeclareVariable ==
  ASSUME NEW s
  PROVE  (s.level > 0 /\ Tidy(s)) => Pre(Call("declareVariable"), s)
BY AtDeclareVariable DEF Call

\* What declareVariable may do.
LEMMA OfDeclareVariable ==
  ASSUME NEW s, NEW t
  PROVE  Rel(Call("declareVariable"), s, t) <=>
              Good(t) /\ (s.err => t.err) /\ Declares(s, t)
BY AtDeclareVariable DEF Call

\* addLocal.
LEMMA CanAddLocal ==
  ASSUME NEW s, NEW n
  PROVE  (s.level > 0 /\ Tidy(s) /\ s.top.depth > 0) => Pre(<<"addLocal", n>>, s)
BY AtAddLocal

\* What addLocal may do.
LEMMA OfAddLocal ==
  ASSUME NEW s, NEW t, NEW n
  PROVE  Rel(<<"addLocal", n>>, s, t) <=>
              Good(t) /\ (s.err => t.err) /\ Declares(s, t)
BY AtAddLocal

\* markInitialized.
LEMMA CanMarkInitialized ==
  ASSUME NEW s
  PROVE  (s.level > 0 /\ Ready(s, -1)) => Pre(Call("markInitialized"), s)
BY AtMarkInitialized DEF Call

\* What markInitialized may do.
LEMMA OfMarkInitialized ==
  ASSUME NEW s, NEW t
  PROVE  Rel(Call("markInitialized"), s, t) <=>
              Good(t) /\ (s.err => t.err) /\ Defines(s, t, 0)
BY AtMarkInitialized DEF Call

\* defineVariable.
LEMMA CanDefineVariable ==
  ASSUME NEW s
  PROVE  (s.level > 0 /\ Ready(s, 0)) => Pre(Call("defineVariable"), s)
BY AtDefineVariable DEF Call

\* What defineVariable may do.
LEMMA OfDefineVariable ==
  ASSUME NEW s, NEW t
  PROVE  Rel(Call("defineVariable"), s, t) <=>
              Good(t) /\ (s.err => t.err) /\ Defines(s, t, -1)
BY AtDefineVariable DEF Call

\* defineFunction.
LEMMA CanDefineFunction ==
  ASSUME NEW s
  PROVE  (s.level > 0) => Pre(Call("defineFunction"), s)
BY AtDefineFunction DEF Call

\* What defineFunction may do.
LEMMA OfDefineFunction ==
  ASSUME NEW s, NEW t
  PROVE  Rel(Call("defineFunction"), s, t) <=>
              Good(t) /\ (s.err => t.err) /\ Expr(s, t, IF s.top.depth = 0 THEN -1 ELSE 0)
BY AtDefineFunction DEF Call

\* endFunction.
LEMMA CanEndFunction ==
  ASSUME NEW s, NEW a
  PROVE  (s.level > 1 /\ LevelSplit(s, a)) => Pre(<<"endFunction", a>>, s)
BY AtEndFunction

\* What endFunction may do.
LEMMA OfEndFunction ==
  ASSUME NEW s, NEW t, NEW a
  PROVE  Rel(<<"endFunction", a>>, s, t) <=>
              Good(t) /\ (s.err => t.err) /\ Leaves(s, t, a)
BY AtEndFunction

\* beginClass.
LEMMA CanBeginClass ==
  ASSUME NEW s
  PROVE  (s.level > 0) => Pre(Call("beginClass"), s)
BY AtBeginClass DEF Call

\* What beginClass may do.
LEMMA OfBeginClass ==
  ASSUME NEW s, NEW t
  PROVE  Rel(Call("beginClass"), s, t) <=>
              Good(t) /\ (s.err => t.err) /\ Classes(s, t, 1)
BY AtBeginClass DEF Call

\* hasSuperclass.
LEMMA CanHasSuperclass ==
  ASSUME NEW s
  PROVE  (s.level > 0 /\ s.classes > 0) => Pre(Call("hasSuperclass"), s)
BY AtHasSuperclass DEF Call

\* What hasSuperclass may do.
LEMMA OfHasSuperclass ==
  ASSUME NEW s, NEW t
  PROVE  Rel(Call("hasSuperclass"), s, t) <=>
              Good(t) /\ (s.err => t.err) /\ Expr(s, t, 0)
BY AtHasSuperclass DEF Call

\* endClass.
LEMMA CanEndClass ==
  ASSUME NEW s
  PROVE  (s.level > 0 /\ s.classes > 0) => Pre(Call("endClass"), s)
BY AtEndClass DEF Call

\* What endClass may do.
LEMMA OfEndClass ==
  ASSUME NEW s, NEW t
  PROVE  Rel(Call("endClass"), s, t) <=>
              Good(t) /\ (s.err => t.err) /\ Classes(s, t, -1)
BY AtEndClass DEF Call

\* inherit.
LEMMA CanInherit ==
  ASSUME NEW s, NEW n
  PROVE  (s.level > 0 /\ Bounded(s) /\ Tidy(s) /\ Temps(s, 0) /\ s.classes > 0
          /\ (~s.err => n \in Names)) => Pre(<<"inherit", n>>, s)
BY AtInherit

\* What inherit may do.
LEMMA OfInherit ==
  ASSUME NEW s, NEW t, NEW n
  PROVE  Rel(<<"inherit", n>>, s, t) <=>
              Good(t) /\ (s.err => t.err) /\ Stmt(s, t, 0) /\ t.classes = s.classes - 1
BY AtInherit

\* superclass.
LEMMA CanSuperclass ==
  ASSUME NEW s, NEW n
  PROVE  (s.level > 0 /\ Bounded(s) /\ Tidy(s) /\ Temps(s, 0) /\ s.classes > 0
          /\ (~s.err => n \in Names /\ s.prev \in Names)) => Pre(<<"superclass", n>>, s)
BY AtSuperclass

\* What superclass may do.
LEMMA OfSuperclass ==
  ASSUME NEW s, NEW t, NEW n
  PROVE  Rel(<<"superclass", n>>, s, t) <=>
              Good(t) /\ (s.err => t.err) /\ Stmt(s, t, 0) /\ t.classes = s.classes - 1
BY AtSuperclass

\* program.
LEMMA CanProgram ==
  ASSUME NEW s
  PROVE  (StmtOK(s, 0) /\ s.level = 1 /\ s.classes = 0) => Pre(Call("program"), s)
BY AtProgram DEF Call

\* What program may do.
LEMMA OfProgram ==
  ASSUME NEW s, NEW t
  PROVE  Rel(Call("program"), s, t) <=>
              Good(t) /\ (s.err => t.err) /\ t.level = 0 /\ t.classes = 0
BY AtProgram DEF Call

\* endCompile.
LEMMA CanEndCompile ==
  ASSUME NEW s
  PROVE  (s.level = 1 /\ s.classes = 0) => Pre(Call("endCompile"), s)
BY AtEndCompile DEF Call

\* What endCompile may do.
LEMMA OfEndCompile ==
  ASSUME NEW s, NEW t
  PROVE  Rel(Call("endCompile"), s, t) <=>
              Good(t) /\ (s.err => t.err) /\ t.level = 0 /\ t.classes = 0
BY AtEndCompile DEF Call

-----------------------------------------------------------------------------
(* Lists of calls that fulfil a contract *)

\* The calls, done from s on, keep the contract of f, called in s0.
Fulfils(calls, s, f, s0) ==
  /\ IsSeq(calls)
  /\ \A rest : IsSeq(rest) /\ (\A t : Rel(f, s0, t) => Safe(rest, t)) => Safe(calls \o rest, s)

\* Lists of calls are sequences.
LEMMA ListsAreSeqs ==
  /\ IsSeq(<<>>)
  /\ \A c : IsSeq(<<c>>)
  /\ \A a, b : IsSeq(a) /\ IsSeq(b) => IsSeq(a \o b)
  /\ \A a : IsSeq(a) => a \o <<>> = a /\ <<>> \o a = a
  /\ \A a, b, c : IsSeq(a) /\ IsSeq(b) /\ IsSeq(c) => (a \o b) \o c = a \o (b \o c)
<1>1. \A S, T : Seq(S) \subseteq Seq(S \cup T) /\ Seq(T) \subseteq Seq(S \cup T)
  OBVIOUS
<1>2. ASSUME NEW a, NEW b, IsSeq(a), IsSeq(b) PROVE \E S : a \in Seq(S) /\ b \in Seq(S)
  BY <1>1, <1>2 DEF IsSeq
<1>3. ASSUME NEW a, NEW b, NEW c, IsSeq(a), IsSeq(b), IsSeq(c)
      PROVE  \E S : a \in Seq(S) /\ b \in Seq(S) /\ c \in Seq(S)
  <2>1. PICK S : a \in Seq(S) /\ b \in Seq(S)
    BY <1>2, <1>3
  <2>2. PICK T : c \in Seq(T)
    BY <1>3 DEF IsSeq
  <2> QED BY <1>1, <2>1, <2>2
<1>4. IsSeq(<<>>) /\ \A c : IsSeq(<<c>>)
  <2>1. <<>> \in Seq({}) /\ \A c : <<c>> \in Seq({c})
    OBVIOUS
  <2> QED BY <2>1 DEF IsSeq
<1>5. ASSUME NEW a, NEW b, IsSeq(a), IsSeq(b) PROVE IsSeq(a \o b)
  <2>1. PICK S : a \in Seq(S) /\ b \in Seq(S)
    BY <1>2, <1>5
  <2>2. a \o b \in Seq(S)
    BY <2>1, ConcatProperties
  <2> QED BY <2>2 DEF IsSeq
<1>6. ASSUME NEW a, IsSeq(a) PROVE a \o <<>> = a /\ <<>> \o a = a
  BY <1>6, ConcatEmptySeq DEF IsSeq
<1>7. ASSUME NEW a, NEW b, NEW c, IsSeq(a), IsSeq(b), IsSeq(c) PROVE (a \o b) \o c = a \o (b \o c)
  <2>1. PICK S : a \in Seq(S) /\ b \in Seq(S) /\ c \in Seq(S)
    BY <1>3, <1>7
  <2> QED BY <2>1, ConcatAssociative
<1> QED BY <1>4, <1>5, <1>6, <1>7

\* One call more.
LEMMA SafeCons ==
  ASSUME NEW c, NEW rest, IsSeq(rest), NEW s, Pre(c, s), \A t : Rel(c, s, t) => Safe(rest, t)
  PROVE  Safe(<<c>> \o rest, s)
<1> DEFINE td == <<c>> \o rest
<1>1. PICK S : rest \in Seq(S)
  BY DEF IsSeq
<1>2. rest \in Seq(S \cup {c}) /\ <<c>> \in Seq(S \cup {c})
  BY <1>1
<1>3. /\ td \in Seq(S \cup {c}) /\ Len(td) = 1 + Len(rest) /\ td[1] = c /\ td # <<>>
      /\ \A i \in 1..Len(rest) : td[i + 1] = rest[i]
  BY <1>2
<1>4. Tail(td) = rest
  <2>1. Tail(td) \in Seq(S \cup {c}) /\ Len(Tail(td)) = Len(rest)
        /\ \A i \in 1..Len(rest) : Tail(td)[i] = rest[i]
    BY <1>2, <1>3, HeadTailProperties
  <2> QED BY <1>2, <2>1, SeqEqual
<1>5. IsSeq(td)
  BY <1>3 DEF IsSeq
<1> HIDE DEF td
<1>6. Safe(td, s)
  BY <1>3, <1>4, <1>5, SafeFirst
<1> QED BY <1>6 DEF td

\* No call is left, and the contract is kept.
LEMMA FulfilsNone ==
  ASSUME NEW s, NEW f, NEW s0, Rel(f, s0, s) PROVE Fulfils(<<>>, s, f, s0)
BY ListsAreSeqs DEF Fulfils

\* One call more.
LEMMA FulfilsCons ==
  ASSUME NEW c, NEW calls, IsSeq(calls), NEW s, NEW f, NEW s0, Pre(c, s),
         \A t : Rel(c, s, t) => Fulfils(calls, t, f, s0)
  PROVE  Fulfils(<<c>> \o calls, s, f, s0)
<1>1. ASSUME NEW rest, IsSeq(rest), \A t : Rel(f, s0, t) => Safe(rest, t)
      PROVE  Safe((<<c>> \o calls) \o rest, s)
  <2>1. IsSeq(calls \o rest) /\ (<<c>> \o calls) \o rest = <<c>> \o (calls \o rest)
    BY <1>1, ListsAreSeqs
  <2>2. ASSUME NEW t, Rel(c, s, t) PROVE Safe(calls \o rest, t)
    BY <1>1, <2>2 DEF Fulfils
  <2>3. Safe(<<c>> \o (calls \o rest), s)
    BY <2>1, <2>2, SafeCons
  <2> QED BY <2>1, <2>3
<1>2. IsSeq(<<c>> \o calls)
  BY ListsAreSeqs
<1> QED BY <1>1, <1>2 DEF Fulfils

\* Lists are made of their first call and the others.
LEMMA List1 ==
  ASSUME NEW a PROVE <<a>> = <<a>> \o <<>>
OBVIOUS

\* A list of 2 calls, call by call.
LEMMA List2 ==
  ASSUME NEW a, NEW b PROVE <<a, b>> = <<a>> \o <<b>>
<1>1. \E S : <<a, b>> \in Seq(S) /\ <<a>> \in Seq(S) /\ <<b>> \in Seq(S)
  <2>1. <<a, b>> \in Seq({a, b}) /\ <<a>> \in Seq({a, b}) /\ <<b>> \in Seq({a, b})
    OBVIOUS
  <2> QED BY <2>1
<1>2. PICK S : <<a, b>> \in Seq(S) /\ <<a>> \o <<b>> \in Seq(S)
  BY <1>1, ConcatProperties
<1>3. Len(<<a, b>>) = 2 /\ Len(<<a>> \o <<b>>) = 2
  BY <1>1, ConcatProperties
<1>4. \A i \in 1..2 : <<a, b>>[i] = (<<a>> \o <<b>>)[i]
  BY <1>1, ConcatProperties
<1> QED BY <1>2, <1>3, <1>4, SeqEqual

\* A list of 3 calls, call by call.
LEMMA List3 ==
  ASSUME NEW a, NEW b, NEW c PROVE <<a, b, c>> = <<a>> \o <<b, c>>
<1>1. \E S : <<a, b, c>> \in Seq(S) /\ <<a>> \in Seq(S) /\ <<b, c>> \in Seq(S)
  <2>1. <<a, b, c>> \in Seq({a, b, c}) /\ <<a>> \in Seq({a, b, c}) /\ <<b, c>> \in Seq({a, b, c})
    OBVIOUS
  <2> QED BY <2>1
<1>2. PICK S : <<a, b, c>> \in Seq(S) /\ <<a>> \o <<b, c>> \in Seq(S)
  BY <1>1, ConcatProperties
<1>3. Len(<<a, b, c>>) = 3 /\ Len(<<a>> \o <<b, c>>) = 3
  BY <1>1, ConcatProperties
<1>4. \A i \in 1..3 : <<a, b, c>>[i] = (<<a>> \o <<b, c>>)[i]
  BY <1>1, ConcatProperties
<1> QED BY <1>2, <1>3, <1>4, SeqEqual

\* A list of 4 calls, call by call.
LEMMA List4 ==
  ASSUME NEW a, NEW b, NEW c, NEW d PROVE <<a, b, c, d>> = <<a>> \o <<b, c, d>>
<1>1. \E S : <<a, b, c, d>> \in Seq(S) /\ <<a>> \in Seq(S) /\ <<b, c, d>> \in Seq(S)
  <2>1. <<a, b, c, d>> \in Seq({a, b, c, d}) /\ <<a>> \in Seq({a, b, c, d}) /\ <<b, c, d>> \in Seq({a, b, c, d})
    OBVIOUS
  <2> QED BY <2>1
<1>2. PICK S : <<a, b, c, d>> \in Seq(S) /\ <<a>> \o <<b, c, d>> \in Seq(S)
  BY <1>1, ConcatProperties
<1>3. Len(<<a, b, c, d>>) = 4 /\ Len(<<a>> \o <<b, c, d>>) = 4
  BY <1>1, ConcatProperties
<1>4. \A i \in 1..4 : <<a, b, c, d>>[i] = (<<a>> \o <<b, c, d>>)[i]
  BY <1>1, ConcatProperties
<1> QED BY <1>2, <1>3, <1>4, SeqEqual

\* A list of 5 calls, call by call.
LEMMA List5 ==
  ASSUME NEW a, NEW b, NEW c, NEW d, NEW e PROVE <<a, b, c, d, e>> = <<a>> \o <<b, c, d, e>>
<1>1. \E S : <<a, b, c, d, e>> \in Seq(S) /\ <<a>> \in Seq(S) /\ <<b, c, d, e>> \in Seq(S)
  <2>1. <<a, b, c, d, e>> \in Seq({a, b, c, d, e}) /\ <<a>> \in Seq({a, b, c, d, e}) /\ <<b, c, d, e>> \in Seq({a, b, c, d, e})
    OBVIOUS
  <2> QED BY <2>1
<1>2. PICK S : <<a, b, c, d, e>> \in Seq(S) /\ <<a>> \o <<b, c, d, e>> \in Seq(S)
  BY <1>1, ConcatProperties
<1>3. Len(<<a, b, c, d, e>>) = 5 /\ Len(<<a>> \o <<b, c, d, e>>) = 5
  BY <1>1, ConcatProperties
<1>4. \A i \in 1..5 : <<a, b, c, d, e>>[i] = (<<a>> \o <<b, c, d, e>>)[i]
  BY <1>1, ConcatProperties
<1> QED BY <1>2, <1>3, <1>4, SeqEqual

\* A list of 6 calls, call by call.
LEMMA List6 ==
  ASSUME NEW a, NEW b, NEW c, NEW d, NEW e, NEW g PROVE <<a, b, c, d, e, g>> = <<a>> \o <<b, c, d, e, g>>
<1>1. \E S : <<a, b, c, d, e, g>> \in Seq(S) /\ <<a>> \in Seq(S) /\ <<b, c, d, e, g>> \in Seq(S)
  <2>1. <<a, b, c, d, e, g>> \in Seq({a, b, c, d, e, g}) /\ <<a>> \in Seq({a, b, c, d, e, g}) /\ <<b, c, d, e, g>> \in Seq({a, b, c, d, e, g})
    OBVIOUS
  <2> QED BY <2>1
<1>2. PICK S : <<a, b, c, d, e, g>> \in Seq(S) /\ <<a>> \o <<b, c, d, e, g>> \in Seq(S)
  BY <1>1, ConcatProperties
<1>3. Len(<<a, b, c, d, e, g>>) = 6 /\ Len(<<a>> \o <<b, c, d, e, g>>) = 6
  BY <1>1, ConcatProperties
<1>4. \A i \in 1..6 : <<a, b, c, d, e, g>>[i] = (<<a>> \o <<b, c, d, e, g>>)[i]
  BY <1>1, ConcatProperties
<1> QED BY <1>2, <1>3, <1>4, SeqEqual

\* A list of 7 calls, call by call.
LEMMA List7 ==
  ASSUME NEW a, NEW b, NEW c, NEW d, NEW e, NEW g, NEW h PROVE <<a, b, c, d, e, g, h>> = <<a>> \o <<b, c, d, e, g, h>>
<1>1. \E S : <<a, b, c, d, e, g, h>> \in Seq(S) /\ <<a>> \in Seq(S) /\ <<b, c, d, e, g, h>> \in Seq(S)
  <2>1. <<a, b, c, d, e, g, h>> \in Seq({a, b, c, d, e, g, h}) /\ <<a>> \in Seq({a, b, c, d, e, g, h}) /\ <<b, c, d, e, g, h>> \in Seq({a, b, c, d, e, g, h})
    OBVIOUS
  <2> QED BY <2>1
<1>2. PICK S : <<a, b, c, d, e, g, h>> \in Seq(S) /\ <<a>> \o <<b, c, d, e, g, h>> \in Seq(S)
  BY <1>1, ConcatProperties
<1>3. Len(<<a, b, c, d, e, g, h>>) = 7 /\ Len(<<a>> \o <<b, c, d, e, g, h>>) = 7
  BY <1>1, ConcatProperties
<1>4. \A i \in 1..7 : <<a, b, c, d, e, g, h>>[i] = (<<a>> \o <<b, c, d, e, g, h>>)[i]
  BY <1>1, ConcatProperties
<1> QED BY <1>2, <1>3, <1>4, SeqEqual

\* The first of one call.
LEMMA Step1 ==
  ASSUME NEW c1, NEW s, NEW f, NEW s0, Pre(c1, s),
         \A t : Rel(c1, s, t) => Fulfils(<<>>, t, f, s0)
  PROVE  Fulfils(<<c1>>, s, f, s0)
<1>1. Fulfils(<<c1>> \o <<>>, s, f, s0)
  BY FulfilsCons, ListsAreSeqs
<1> QED BY <1>1, List1

\* The first of two calls.
LEMMA Step2 ==
  ASSUME NEW c1, NEW c2, NEW s, NEW f, NEW s0, Pre(c1, s),
         \A t : Rel(c1, s, t) => Fulfils(<<c2>>, t, f, s0)
  PROVE  Fulfils(<<c1, c2>>, s, f, s0)
<1>1. IsSeq(<<c2>>)
  <2>1. <<c2>> \in Seq({c2})
    OBVIOUS
  <2> QED BY <2>1 DEF IsSeq
<1>2. Fulfils(<<c1>> \o <<c2>>, s, f, s0)
  BY <1>1, FulfilsCons
<1>3. <<c1, c2>> = <<c1>> \o <<c2>>
  BY List2, Zenon
<1> QED BY <1>2, <1>3, Zenon

\* The first of three calls.
LEMMA Step3 ==
  ASSUME NEW c1, NEW c2, NEW c3, NEW s, NEW f, NEW s0, Pre(c1, s),
         \A t : Rel(c1, s, t) => Fulfils(<<c2, c3>>, t, f, s0)
  PROVE  Fulfils(<<c1, c2, c3>>, s, f, s0)
<1>1. IsSeq(<<c2, c3>>)
  <2>1. <<c2, c3>> \in Seq({c2, c3})
    OBVIOUS
  <2> QED BY <2>1 DEF IsSeq
<1>2. Fulfils(<<c1>> \o <<c2, c3>>, s, f, s0)
  BY <1>1, FulfilsCons
<1>3. <<c1, c2, c3>> = <<c1>> \o <<c2, c3>>
  BY List3, Zenon
<1> QED BY <1>2, <1>3, Zenon

\* The first of four calls.
LEMMA Step4 ==
  ASSUME NEW c1, NEW c2, NEW c3, NEW c4, NEW s, NEW f, NEW s0, Pre(c1, s),
         \A t : Rel(c1, s, t) => Fulfils(<<c2, c3, c4>>, t, f, s0)
  PROVE  Fulfils(<<c1, c2, c3, c4>>, s, f, s0)
<1>1. IsSeq(<<c2, c3, c4>>)
  <2>1. <<c2, c3, c4>> \in Seq({c2, c3, c4})
    OBVIOUS
  <2> QED BY <2>1 DEF IsSeq
<1>2. Fulfils(<<c1>> \o <<c2, c3, c4>>, s, f, s0)
  BY <1>1, FulfilsCons
<1>3. <<c1, c2, c3, c4>> = <<c1>> \o <<c2, c3, c4>>
  BY List4, Zenon
<1> QED BY <1>2, <1>3, Zenon

\* The first of five calls.
LEMMA Step5 ==
  ASSUME NEW c1, NEW c2, NEW c3, NEW c4, NEW c5, NEW s, NEW f, NEW s0, Pre(c1, s),
         \A t : Rel(c1, s, t) => Fulfils(<<c2, c3, c4, c5>>, t, f, s0)
  PROVE  Fulfils(<<c1, c2, c3, c4, c5>>, s, f, s0)
<1>1. IsSeq(<<c2, c3, c4, c5>>)
  <2>1. <<c2, c3, c4, c5>> \in Seq({c2, c3, c4, c5})
    OBVIOUS
  <2> QED BY <2>1 DEF IsSeq
<1>2. Fulfils(<<c1>> \o <<c2, c3, c4, c5>>, s, f, s0)
  BY <1>1, FulfilsCons
<1>3. <<c1, c2, c3, c4, c5>> = <<c1>> \o <<c2, c3, c4, c5>>
  BY List5, Zenon
<1> QED BY <1>2, <1>3, Zenon

\* The first of six calls.
LEMMA Step6 ==
  ASSUME NEW c1, NEW c2, NEW c3, NEW c4, NEW c5, NEW c6, NEW s, NEW f, NEW s0, Pre(c1, s),
         \A t : Rel(c1, s, t) => Fulfils(<<c2, c3, c4, c5, c6>>, t, f, s0)
  PROVE  Fulfils(<<c1, c2, c3, c4, c5, c6>>, s, f, s0)
<1>1. IsSeq(<<c2, c3, c4, c5, c6>>)
  <2>1. <<c2, c3, c4, c5, c6>> \in Seq({c2, c3, c4, c5, c6})
    OBVIOUS
  <2> QED BY <2>1 DEF IsSeq
<1>2. Fulfils(<<c1>> \o <<c2, c3, c4, c5, c6>>, s, f, s0)
  BY <1>1, FulfilsCons
<1>3. <<c1, c2, c3, c4, c5, c6>> = <<c1>> \o <<c2, c3, c4, c5, c6>>
  BY List6, Zenon
<1> QED BY <1>2, <1>3, Zenon

\* The first of seven calls.
LEMMA Step7 ==
  ASSUME NEW c1, NEW c2, NEW c3, NEW c4, NEW c5, NEW c6, NEW c7, NEW s, NEW f, NEW s0, Pre(c1, s),
         \A t : Rel(c1, s, t) => Fulfils(<<c2, c3, c4, c5, c6, c7>>, t, f, s0)
  PROVE  Fulfils(<<c1, c2, c3, c4, c5, c6, c7>>, s, f, s0)
<1>1. IsSeq(<<c2, c3, c4, c5, c6, c7>>)
  <2>1. <<c2, c3, c4, c5, c6, c7>> \in Seq({c2, c3, c4, c5, c6, c7})
    OBVIOUS
  <2> QED BY <2>1 DEF IsSeq
<1>2. Fulfils(<<c1>> \o <<c2, c3, c4, c5, c6, c7>>, s, f, s0)
  BY <1>1, FulfilsCons
<1>3. <<c1, c2, c3, c4, c5, c6, c7>> = <<c1>> \o <<c2, c3, c4, c5, c6, c7>>
  BY List7, Zenon
<1> QED BY <1>2, <1>3, Zenon

\* A list in two parts, the first of which keeps the contract of g.
LEMMA FulfilsThen ==
  ASSUME NEW a, NEW b, NEW g, NEW s1, NEW s, NEW f, NEW s0, Fulfils(a, s, g, s1), IsSeq(b),
         \A t : Rel(g, s1, t) => Fulfils(b, t, f, s0)
  PROVE  Fulfils(a \o b, s, f, s0)
<1>1. ASSUME NEW rest, IsSeq(rest), \A t : Rel(f, s0, t) => Safe(rest, t)
      PROVE  Safe((a \o b) \o rest, s)
  <2>1. IsSeq(a) /\ IsSeq(b \o rest) /\ (a \o b) \o rest = a \o (b \o rest)
    BY <1>1, ListsAreSeqs DEF Fulfils
  <2>2. ASSUME NEW t, Rel(g, s1, t) PROVE Safe(b \o rest, t)
    BY <1>1, <2>2 DEF Fulfils
  <2>3. Safe(a \o (b \o rest), s)
    BY <2>1, <2>2 DEF Fulfils
  <2> QED BY <2>1, <2>3
<1>2. IsSeq(a \o b)
  BY ListsAreSeqs DEF Fulfils
<1> QED BY <1>1, <1>2 DEF Fulfils

-----------------------------------------------------------------------------
(* What calls keep *)

\* The types of a good state.
LEMMA GoodTypes ==
  ASSUME NEW s, Good(s)
  PROVE  /\ s.err \in BOOLEAN /\ s.level \in Nat /\ s.classes \in Nat /\ s.m \in Nat
         /\ s.level > 0 => /\ s.top.type \in Types /\ s.top.depth \in Nat /\ s.top.height \in Int
                           /\ s.top.n \in Nat \ {0}
BY CompilerAssumption DEF Good, CompOK

\* Locals that are in order are not deeper than the current scope.
LEMMA TidyBounded ==
  ASSUME NEW s, Good(s), s.level > 0, Tidy(s) PROVE Bounded(s)
BY GoodTypes DEF Tidy, TidyTo, Bounded, BoundedBy

\* The functions around a call stay the same.
LEMMA StaysKeeps ==
  ASSUME NEW s, NEW t, Stays(s, t)
  PROVE  /\ InMethod(s) => InMethod(t)
         /\ t.classes = s.classes /\ ClassOK(s) => ClassOK(t)
<1>1. InMethod(s) => InMethod(t)
  BY DEF Stays, InMethod
<1> QED BY <1>1 DEF Stays, ClassOK

\* A call that changes the stack only.
LEMMA ExprKeeps ==
  ASSUME NEW s, NEW t, NEW k, Expr(s, t, k)
  PROVE  /\ InMethod(s) => InMethod(t)
         /\ ClassOK(s) => ClassOK(t)
         /\ Bounded(s) => Bounded(t)
         /\ Tidy(s) => Tidy(t)
         /\ ExprOK(s) => ExprOK(t)
         /\ (s.err => t.err) /\ t.level = s.level /\ t.classes = s.classes
<1>1. Stays(s, t) /\ t.classes = s.classes /\ SameLocals(s, t) /\ t.top.depth = s.top.depth
  BY DEF Expr
<1>2. (InMethod(s) => InMethod(t)) /\ (ClassOK(s) => ClassOK(t))
  BY <1>1, StaysKeeps
<1>3. (Bounded(s) => Bounded(t)) /\ (Tidy(s) => Tidy(t))
  BY <1>1 DEF SameLocals, Bounded, Tidy
<1> QED BY <1>1, <1>2, <1>3 DEF ExprOK, Stays

\* What expressions need.
LEMMA ExprOKIs ==
  ASSUME NEW s, ExprOK(s) PROVE s.level > 0 /\ Bounded(s) /\ ClassOK(s)
BY DEF ExprOK

\* An identifier is not the name of slot 0.
LEMMA NamesAreNames ==
  ASSUME NEW n, n \in Names PROVE n # NoName /\ n # "this" /\ n \in STRING
BY CompilerAssumption

\* The precedences parsePrecedence is called with.
LEMMA Precedences ==
  /\ Unary \in Nat \ {0} /\ AndPrec \in Nat \ {0} /\ OrPrec \in Nat \ {0}
  /\ \A op : Precedence(op) \in Nat /\ Precedence(op) + 1 \in Nat \ {0}
BY DEF Unary, AndPrec, OrPrec, Precedence, None

\* Neither are super and this.
LEMMA SuperIsName == "super" # NoName
BY Zenon DEF NoName

\* this is not the empty name either.
LEMMA ThisIsName == "this" # NoName
BY Zenon DEF NoName

\* The parts of a slot.
LEMMA PairIs ==
  ASSUME NEW A, NEW p, p \in A \X Nat
  PROVE  p[1] \in A /\ p[2] \in Nat /\ p = <<p[1], p[2]>>
OBVIOUS

\* The variables of a good state.
LEMMA GoodEnv ==
  ASSUME NEW s, Good(s), s.level > 0, ~s.err
  PROVE  /\ EnvOK(s)
         /\ \A e \in 1..s.m : /\ s.env[e].slot \in (1..s.level) \X Nat
                              /\ s.env[e].slot[1] \in 1..s.level /\ s.env[e].slot[2] \in Nat
                              /\ s.env[e].slot = <<s.env[e].slot[1], s.env[e].slot[2]>>
                              /\ s.env[e].slot[1] = s.level =>
                                   /\ s.env[e].slot[2] + 1 \in 1..s.top.n
                                   /\ s.top.locals[s.env[e].slot[2] + 1].depth \in 0..s.top.depth
<1>1. EnvOK(s)
  BY DEF Good
<1>2. ASSUME NEW e \in 1..s.m
      PROVE  /\ s.env[e].slot \in (1..s.level) \X Nat
             /\ s.env[e].slot[1] = s.level =>
                  /\ s.env[e].slot[2] + 1 \in 1..s.top.n
                  /\ s.top.locals[s.env[e].slot[2] + 1].depth \in 0..s.top.depth
  BY <1>1 DEF EnvOK, CompAt, InScope
<1>3. ASSUME NEW e \in 1..s.m
      PROVE  /\ s.env[e].slot[1] \in 1..s.level /\ s.env[e].slot[2] \in Nat
             /\ s.env[e].slot = <<s.env[e].slot[1], s.env[e].slot[2]>>
  BY <1>2, PairIs
<1> QED BY <1>1, <1>2, <1>3

\* Calls one after the other: those that change the stack only,
LEMMA ExprSelf ==
  ASSUME NEW s, Good(s), s.level > 0 PROVE Expr(s, s, 0)
BY GoodTypes DEF Expr, Stays, SameLocals, SameEnv

\* One expression after another.
LEMMA ExprTwice ==
  ASSUME NEW s, NEW t, NEW u, NEW j \in Int, NEW k \in Int, NEW i \in Int, i = j + k,
         Good(s), s.level > 0,
         Expr(s, t, j), Expr(t, u, k)
  PROVE  Expr(s, u, i)
BY GoodTypes DEF Expr, Stays, SameLocals, SameEnv

\* and statements.
LEMMA StmtSelf ==
  ASSUME NEW s, Good(s), s.level > 0, Tidy(s) PROVE Stmt(s, s, 0)
BY GoodTypes DEF Stmt, Stays, SameLocals, SameEnv

\* Behind a statement there can be another one.
LEMMA StmtKeeps ==
  ASSUME NEW s, NEW t, NEW j \in Int, NEW k \in Int, NEW i \in Int, i = j + k,
         Good(s), Good(t), StmtOK(s, j), Stmt(s, t, k), t.classes = s.classes
  PROVE  StmtOK(t, i) /\ ExprOK(t)
<1>1. s.level > 0 /\ t.level > 0 /\ Stays(s, t) /\ Tidy(t) /\ ClassOK(s) /\ Temps(s, j)
  BY GoodTypes DEF Stmt, StmtOK, ExprOK, Stays
<1>2. ExprOK(t)
  BY <1>1, TidyBounded, StaysKeeps DEF ExprOK
<1>3. Temps(t, i)
  BY <1>1, GoodTypes DEF Stmt, Temps, Stays, SameLocals
<1> QED BY <1>1, <1>2, <1>3 DEF StmtOK

\* A statement never takes back an error.
LEMMA StmtErr ==
  ASSUME NEW s, NEW t, NEW k, Stmt(s, t, k) PROVE s.err => t.err
BY DEF Stmt, Stays

\* What is to be done behind the body of forStatement.
LEMMA ExitIs ==
  ASSUME NEW s, NEW h \in Int, ~s.err => h = s.top.height + 1
  PROVE  ExitOK(s, <<<<"land", h>>, Emit(-1)>>) /\ ExitOK(s, <<>>)
BY DEF ExitOK, Emit

-----------------------------------------------------------------------------
(* Expressions *)

\* parsePrecedence.
LEMMA ParsePrecedenceDoes ==
  ASSUME NEW s, Good(s), NEW c, c[1] = "parsePrecedence", Pre(c, s)
  PROVE  Fulfils(<<Advance, <<"prefix", c[2]>>>>, s, c, s)
<1>1. ExprOK(s) /\ c[2] \in Nat \ {0}
  BY AtParsePrecedence
<1>2. s.level > 0 /\ Expr(s, s, 0)
  BY <1>1, ExprOKIs, ExprSelf
<1>3. Pre(Advance, s)
  BY <1>1, <1>2, CanAdvance, ExprOKIs
<1>4. ASSUME NEW t1, Rel(Advance, s, t1)
      PROVE  Fulfils(<<<<"prefix", c[2]>>>>, t1, c, s)
  <2>1. Good(t1) /\ Expr(s, t1, 0) /\ t1.prev = s.cur
    BY <1>4, OfAdvance
  <2>2. Expr(s, t1, 0)
    BY <1>1, <1>2, <2>1, GoodTypes DEF Expr, Stays, SameLocals, SameEnv
  <2>3. Pre(<<"prefix", c[2]>>, t1)
    BY <1>1, <1>2, <2>1, <2>2, CanPrefix, ExprKeeps, ExprOKIs
  <2>4. ASSUME NEW t2, Rel(<<"prefix", c[2]>>, t1, t2)
        PROVE  Fulfils(<<>>, t2, c, s)
    <3>1. Good(t2) /\ Expr(t1, t2, 1)
      BY <2>4, OfPrefix
    <3>2. Expr(s, t2, 1)
      BY <1>1, <1>2, <2>1, <2>2, <3>1, GoodTypes DEF Expr, Stays, SameLocals, SameEnv
    <3>9. Rel(c, s, t2)
      BY <1>1, <1>2, <3>1, <3>2, AtParsePrecedence, ExprKeeps
    <3> QED BY <3>9, FulfilsNone
  <2> QED BY <2>3, <2>4, Step1
<1> QED BY <1>3, <1>4, Step2

\* A prefix expression: grouping,
LEMMA GroupingDoes ==
  ASSUME NEW s, Good(s), NEW c, c[1] = "prefix", Pre(c, s)
  PROVE  Fulfils(<<Expression, Consume(")"), <<"infix", c[2]>>>>, s, c, s)
<1>1. ExprOK(s) /\ c[2] \in Nat \ {0}
  BY AtPrefix
<1>2. s.level > 0 /\ Expr(s, s, 0)
  BY <1>1, ExprOKIs, ExprSelf
<1>3. Pre(Expression, s)
  BY <1>1, <1>2, CanExpression, ExprOKIs
<1>4. ASSUME NEW t1, Rel(Expression, s, t1)
      PROVE  Fulfils(<<Consume(")"), <<"infix", c[2]>>>>, t1, c, s)
  <2>1. Good(t1) /\ Expr(s, t1, 1)
    BY <1>4, OfExpression
  <2>2. Expr(s, t1, 1)
    BY <1>1, <1>2, <2>1, GoodTypes DEF Expr, Stays, SameLocals, SameEnv
  <2>3. Pre(Consume(")"), t1)
    BY <1>1, <1>2, <2>1, <2>2, CanConsume, ExprKeeps, ExprOKIs
  <2>4. ASSUME NEW t2, Rel(Consume(")"), t1, t2)
        PROVE  Fulfils(<<<<"infix", c[2]>>>>, t2, c, s)
    <3>1. Good(t2) /\ Expr(t1, t2, 0) /\ (")" = "id" /\ ~t2.err => t2.prev \in Names)
      BY <2>4, OfConsume
    <3>2. Expr(s, t2, 1)
      BY <1>1, <1>2, <2>1, <2>2, <3>1, GoodTypes DEF Expr, Stays, SameLocals, SameEnv
    <3>3. Pre(<<"infix", c[2]>>, t2)
      BY <1>1, <1>2, <3>1, <3>2, CanInfix, ExprKeeps, ExprOKIs
    <3>4. ASSUME NEW t3, Rel(<<"infix", c[2]>>, t2, t3)
          PROVE  Fulfils(<<>>, t3, c, s)
      <4>1. Good(t3) /\ Expr(t2, t3, 0)
        BY <3>4, OfInfix
      <4>2. Expr(s, t3, 1)
        BY <1>1, <1>2, <3>1, <3>2, <4>1, GoodTypes DEF Expr, Stays, SameLocals, SameEnv
      <4>9. Rel(c, s, t3)
        BY <1>1, <1>2, <4>1, <4>2, AtPrefix, ExprKeeps
      <4> QED BY <4>9, FulfilsNone
    <3> QED BY <3>3, <3>4, Step1
  <2> QED BY <2>3, <2>4, Step2
<1> QED BY <1>3, <1>4, Step3

\* unary,
LEMMA UnaryDoes ==
  ASSUME NEW s, Good(s), NEW c, c[1] = "prefix", Pre(c, s)
  PROVE  Fulfils(<<ParsePrecedence(Unary), Emit(0), <<"infix", c[2]>>>>, s, c, s)
<1>1. ExprOK(s) /\ c[2] \in Nat \ {0}
  BY AtPrefix
<1>2. s.level > 0 /\ Expr(s, s, 0)
  BY <1>1, ExprOKIs, ExprSelf
<1>3. Pre(ParsePrecedence(Unary), s)
  BY <1>1, <1>2, CanParsePrecedence, Precedences, ExprOKIs
<1>4. ASSUME NEW t1, Rel(ParsePrecedence(Unary), s, t1)
      PROVE  Fulfils(<<Emit(0), <<"infix", c[2]>>>>, t1, c, s)
  <2>1. Good(t1) /\ Expr(s, t1, 1)
    BY <1>4, OfParsePrecedence
  <2>2. Expr(s, t1, 1)
    BY <1>1, <1>2, <2>1, GoodTypes DEF Expr, Stays, SameLocals, SameEnv
  <2>3. Pre(Emit(0), t1)
    BY <1>1, <1>2, <2>1, <2>2, CanEmit, ExprKeeps, ExprOKIs
  <2>4. ASSUME NEW t2, Rel(Emit(0), t1, t2)
        PROVE  Fulfils(<<<<"infix", c[2]>>>>, t2, c, s)
    <3>1. Good(t2) /\ Expr(t1, t2, 0)
      BY <2>4, OfEmit
    <3>2. Expr(s, t2, 1)
      BY <1>1, <1>2, <2>1, <2>2, <3>1, GoodTypes DEF Expr, Stays, SameLocals, SameEnv
    <3>3. Pre(<<"infix", c[2]>>, t2)
      BY <1>1, <1>2, <3>1, <3>2, CanInfix, ExprKeeps, ExprOKIs
    <3>4. ASSUME NEW t3, Rel(<<"infix", c[2]>>, t2, t3)
          PROVE  Fulfils(<<>>, t3, c, s)
      <4>1. Good(t3) /\ Expr(t2, t3, 0)
        BY <3>4, OfInfix
      <4>2. Expr(s, t3, 1)
        BY <1>1, <1>2, <3>1, <3>2, <4>1, GoodTypes DEF Expr, Stays, SameLocals, SameEnv
      <4>9. Rel(c, s, t3)
        BY <1>1, <1>2, <4>1, <4>2, AtPrefix, ExprKeeps
      <4> QED BY <4>9, FulfilsNone
    <3> QED BY <3>3, <3>4, Step1
  <2> QED BY <2>3, <2>4, Step2
<1> QED BY <1>3, <1>4, Step3

\* literal and number,
LEMMA LiteralDoes ==
  ASSUME NEW s, Good(s), NEW c, c[1] = "prefix", Pre(c, s)
  PROVE  Fulfils(<<Emit(1), <<"infix", c[2]>>>>, s, c, s)
<1>1. ExprOK(s) /\ c[2] \in Nat \ {0}
  BY AtPrefix
<1>2. s.level > 0 /\ Expr(s, s, 0)
  BY <1>1, ExprOKIs, ExprSelf
<1>3. Pre(Emit(1), s)
  BY <1>1, <1>2, CanEmit, ExprOKIs
<1>4. ASSUME NEW t1, Rel(Emit(1), s, t1)
      PROVE  Fulfils(<<<<"infix", c[2]>>>>, t1, c, s)
  <2>1. Good(t1) /\ Expr(s, t1, 1)
    BY <1>4, OfEmit
  <2>2. Expr(s, t1, 1)
    BY <1>1, <1>2, <2>1, GoodTypes DEF Expr, Stays, SameLocals, SameEnv
  <2>3. Pre(<<"infix", c[2]>>, t1)
    BY <1>1, <1>2, <2>1, <2>2, CanInfix, ExprKeeps, ExprOKIs
  <2>4. ASSUME NEW t2, Rel(<<"infix", c[2]>>, t1, t2)
        PROVE  Fulfils(<<>>, t2, c, s)
    <3>1. Good(t2) /\ Expr(t1, t2, 0)
      BY <2>4, OfInfix
    <3>2. Expr(s, t2, 1)
      BY <1>1, <1>2, <2>1, <2>2, <3>1, GoodTypes DEF Expr, Stays, SameLocals, SameEnv
    <3>9. Rel(c, s, t2)
      BY <1>1, <1>2, <3>1, <3>2, AtPrefix, ExprKeeps
    <3> QED BY <3>9, FulfilsNone
  <2> QED BY <2>3, <2>4, Step1
<1> QED BY <1>3, <1>4, Step2

\* variable,
LEMMA VariableDoes ==
  ASSUME NEW s, Good(s), NEW c, c[1] = "prefix", Pre(c, s), NEW n, n \in Names, NEW b, b \in BOOLEAN
  PROVE  Fulfils(<<NamedVariable(n, b), <<"infix", c[2]>>>>, s, c, s)
<1>1. ExprOK(s) /\ c[2] \in Nat \ {0}
  BY AtPrefix
<1>2. s.level > 0 /\ Expr(s, s, 0)
  BY <1>1, ExprOKIs, ExprSelf
<1>3. Pre(NamedVariable(n, b), s)
  BY <1>1, <1>2, CanNamedVariable, NamesAreNames, ExprOKIs
<1>4. ASSUME NEW t1, Rel(NamedVariable(n, b), s, t1)
      PROVE  Fulfils(<<<<"infix", c[2]>>>>, t1, c, s)
  <2>1. Good(t1) /\ Expr(s, t1, 1)
    BY <1>4, OfNamedVariable
  <2>2. Expr(s, t1, 1)
    BY <1>1, <1>2, <2>1, GoodTypes DEF Expr, Stays, SameLocals, SameEnv
  <2>3. Pre(<<"infix", c[2]>>, t1)
    BY <1>1, <1>2, <2>1, <2>2, CanInfix, ExprKeeps, ExprOKIs
  <2>4. ASSUME NEW t2, Rel(<<"infix", c[2]>>, t1, t2)
        PROVE  Fulfils(<<>>, t2, c, s)
    <3>1. Good(t2) /\ Expr(t1, t2, 0)
      BY <2>4, OfInfix
    <3>2. Expr(s, t2, 1)
      BY <1>1, <1>2, <2>1, <2>2, <3>1, GoodTypes DEF Expr, Stays, SameLocals, SameEnv
    <3>9. Rel(c, s, t2)
      BY <1>1, <1>2, <3>1, <3>2, AtPrefix, ExprKeeps
    <3> QED BY <3>9, FulfilsNone
  <2> QED BY <2>3, <2>4, Step1
<1> QED BY <1>3, <1>4, Step2

\* this,
LEMMA ThisDoes ==
  ASSUME NEW s, Good(s), NEW c, c[1] = "prefix", Pre(c, s)
  PROVE  Fulfils(<<Call("this"), <<"infix", c[2]>>>>, s, c, s)
<1>1. ExprOK(s) /\ c[2] \in Nat \ {0}
  BY AtPrefix
<1>2. s.level > 0 /\ Expr(s, s, 0)
  BY <1>1, ExprOKIs, ExprSelf
<1>3. Pre(Call("this"), s)
  BY <1>1, <1>2, CanThis, ExprOKIs
<1>4. ASSUME NEW t1, Rel(Call("this"), s, t1)
      PROVE  Fulfils(<<<<"infix", c[2]>>>>, t1, c, s)
  <2>1. Good(t1) /\ Expr(s, t1, 1)
    BY <1>4, OfThis
  <2>2. Expr(s, t1, 1)
    BY <1>1, <1>2, <2>1, GoodTypes DEF Expr, Stays, SameLocals, SameEnv
  <2>3. Pre(<<"infix", c[2]>>, t1)
    BY <1>1, <1>2, <2>1, <2>2, CanInfix, ExprKeeps, ExprOKIs
  <2>4. ASSUME NEW t2, Rel(<<"infix", c[2]>>, t1, t2)
        PROVE  Fulfils(<<>>, t2, c, s)
    <3>1. Good(t2) /\ Expr(t1, t2, 0)
      BY <2>4, OfInfix
    <3>2. Expr(s, t2, 1)
      BY <1>1, <1>2, <2>1, <2>2, <3>1, GoodTypes DEF Expr, Stays, SameLocals, SameEnv
    <3>9. Rel(c, s, t2)
      BY <1>1, <1>2, <3>1, <3>2, AtPrefix, ExprKeeps
    <3> QED BY <3>9, FulfilsNone
  <2> QED BY <2>3, <2>4, Step1
<1> QED BY <1>3, <1>4, Step2

\* super,
LEMMA SuperDoes ==
  ASSUME NEW s, Good(s), NEW c, c[1] = "prefix", Pre(c, s)
  PROVE  Fulfils(<<Call("super"), <<"infix", c[2]>>>>, s, c, s)
<1>1. ExprOK(s) /\ c[2] \in Nat \ {0}
  BY AtPrefix
<1>2. s.level > 0 /\ Expr(s, s, 0)
  BY <1>1, ExprOKIs, ExprSelf
<1>3. Pre(Call("super"), s)
  BY <1>1, <1>2, CanSuper, ExprOKIs
<1>4. ASSUME NEW t1, Rel(Call("super"), s, t1)
      PROVE  Fulfils(<<<<"infix", c[2]>>>>, t1, c, s)
  <2>1. Good(t1) /\ Expr(s, t1, 1)
    BY <1>4, OfSuper
  <2>2. Expr(s, t1, 1)
    BY <1>1, <1>2, <2>1, GoodTypes DEF Expr, Stays, SameLocals, SameEnv
  <2>3. Pre(<<"infix", c[2]>>, t1)
    BY <1>1, <1>2, <2>1, <2>2, CanInfix, ExprKeeps, ExprOKIs
  <2>4. ASSUME NEW t2, Rel(<<"infix", c[2]>>, t1, t2)
        PROVE  Fulfils(<<>>, t2, c, s)
    <3>1. Good(t2) /\ Expr(t1, t2, 0)
      BY <2>4, OfInfix
    <3>2. Expr(s, t2, 1)
      BY <1>1, <1>2, <2>1, <2>2, <3>1, GoodTypes DEF Expr, Stays, SameLocals, SameEnv
    <3>9. Rel(c, s, t2)
      BY <1>1, <1>2, <3>1, <3>2, AtPrefix, ExprKeeps
    <3> QED BY <3>9, FulfilsNone
  <2> QED BY <2>3, <2>4, Step1
<1> QED BY <1>3, <1>4, Step2

\* or an error.
LEMMA NoPrefixDoes ==
  ASSUME NEW s, Good(s), NEW c, c[1] = "prefix", Pre(c, s)
  PROVE  Fulfils(<<Error>>, s, c, s)
<1>1. ExprOK(s) /\ c[2] \in Nat \ {0}
  BY AtPrefix
<1>2. s.level > 0 /\ Expr(s, s, 0)
  BY <1>1, ExprOKIs, ExprSelf
<1>3. Pre(Error, s)
  BY <1>1, <1>2, CanError, ExprOKIs
<1>4. ASSUME NEW t1, Rel(Error, s, t1)
      PROVE  Fulfils(<<>>, t1, c, s)
  <2>1. Good(t1) /\ Expr(s, t1, 0) /\ t1.err
    BY <1>4, OfError
  <2>2. Expr(s, t1, 0) /\ t1.err
    BY <1>1, <1>2, <2>1, GoodTypes DEF Expr, Stays, SameLocals, SameEnv
  <2>9. Rel(c, s, t1)
    BY <1>1, <1>2, <2>1, <2>2, AtPrefix, ExprKeeps DEF Expr, Stays
  <2> QED BY <2>9, FulfilsNone
<1> QED BY <1>3, <1>4, Step1

\* An infix expression: binary,
LEMMA BinaryDoes ==
  ASSUME NEW s, Good(s), NEW c, c[1] = "infix", Pre(c, s), NEW p \in Nat \ {0}
  PROVE  Fulfils(<<Advance, ParsePrecedence(p), Emit(-1), <<"infix", c[2]>>>>, s, c, s)
<1>1. ExprOK(s) /\ c[2] \in Nat \ {0}
  BY AtInfix
<1>2. s.level > 0 /\ Expr(s, s, 0)
  BY <1>1, ExprOKIs, ExprSelf
<1>3. Pre(Advance, s)
  BY <1>1, <1>2, CanAdvance, ExprOKIs
<1>4. ASSUME NEW t1, Rel(Advance, s, t1)
      PROVE  Fulfils(<<ParsePrecedence(p), Emit(-1), <<"infix", c[2]>>>>, t1, c, s)
  <2>1. Good(t1) /\ Expr(s, t1, 0) /\ t1.prev = s.cur
    BY <1>4, OfAdvance
  <2>2. Expr(s, t1, 0)
    BY <1>1, <1>2, <2>1, GoodTypes DEF Expr, Stays, SameLocals, SameEnv
  <2>3. Pre(ParsePrecedence(p), t1)
    BY <1>1, <1>2, <2>1, <2>2, CanParsePrecedence, ExprKeeps, ExprOKIs
  <2>4. ASSUME NEW t2, Rel(ParsePrecedence(p), t1, t2)
        PROVE  Fulfils(<<Emit(-1), <<"infix", c[2]>>>>, t2, c, s)
    <3>1. Good(t2) /\ Expr(t1, t2, 1)
      BY <2>4, OfParsePrecedence
    <3>2. Expr(s, t2, 1)
      BY <1>1, <1>2, <2>1, <2>2, <3>1, GoodTypes DEF Expr, Stays, SameLocals, SameEnv
    <3>3. Pre(Emit(-1), t2)
      BY <1>1, <1>2, <3>1, <3>2, CanEmit, ExprKeeps, ExprOKIs
    <3>4. ASSUME NEW t3, Rel(Emit(-1), t2, t3)
          PROVE  Fulfils(<<<<"infix", c[2]>>>>, t3, c, s)
      <4>1. Good(t3) /\ Expr(t2, t3, -1)
        BY <3>4, OfEmit
      <4>2. Expr(s, t3, 0)
        BY <1>1, <1>2, <3>1, <3>2, <4>1, GoodTypes DEF Expr, Stays, SameLocals, SameEnv
      <4>3. Pre(<<"infix", c[2]>>, t3)
        BY <1>1, <1>2, <4>1, <4>2, CanInfix, ExprKeeps, ExprOKIs
      <4>4. ASSUME NEW t4, Rel(<<"infix", c[2]>>, t3, t4)
            PROVE  Fulfils(<<>>, t4, c, s)
        <5>1. Good(t4) /\ Expr(t3, t4, 0)
          BY <4>4, OfInfix
        <5>2. Expr(s, t4, 0)
          BY <1>1, <1>2, <4>1, <4>2, <5>1, GoodTypes DEF Expr, Stays, SameLocals, SameEnv
        <5>9. Rel(c, s, t4)
          BY <1>1, <1>2, <5>1, <5>2, AtInfix, ExprKeeps
        <5> QED BY <5>9, FulfilsNone
      <4> QED BY <4>3, <4>4, Step1
    <3> QED BY <3>3, <3>4, Step2
  <2> QED BY <2>3, <2>4, Step3
<1> QED BY <1>3, <1>4, Step4

\* call,
LEMMA CallDoes ==
  ASSUME NEW s, Good(s), NEW c, c[1] = "infix", Pre(c, s)
  PROVE  Fulfils(<<Advance, <<"argumentList", 0, "call">>, <<"infix", c[2]>>>>, s, c, s)
<1>1. ExprOK(s) /\ c[2] \in Nat \ {0}
  BY AtInfix
<1>2. s.level > 0 /\ Expr(s, s, 0)
  BY <1>1, ExprOKIs, ExprSelf
<1>3. Pre(Advance, s)
  BY <1>1, <1>2, CanAdvance, ExprOKIs
<1>4. ASSUME NEW t1, Rel(Advance, s, t1)
      PROVE  Fulfils(<<<<"argumentList", 0, "call">>, <<"infix", c[2]>>>>, t1, c, s)
  <2>1. Good(t1) /\ Expr(s, t1, 0) /\ t1.prev = s.cur
    BY <1>4, OfAdvance
  <2>2. Expr(s, t1, 0)
    BY <1>1, <1>2, <2>1, GoodTypes DEF Expr, Stays, SameLocals, SameEnv
  <2>3. Pre(<<"argumentList", 0, "call">>, t1)
    BY <1>1, <1>2, <2>1, <2>2, CanArgumentList, ExprKeeps, ExprOKIs
  <2>4. ASSUME NEW t2, Rel(<<"argumentList", 0, "call">>, t1, t2)
        PROVE  Fulfils(<<<<"infix", c[2]>>>>, t2, c, s)
    <3>1. Good(t2) /\ Expr(t1, t2, -0)
      BY <2>4, OfArgumentList
    <3>2. Expr(s, t2, 0)
      BY <1>1, <1>2, <2>1, <2>2, <3>1, GoodTypes DEF Expr, Stays, SameLocals, SameEnv
    <3>3. Pre(<<"infix", c[2]>>, t2)
      BY <1>1, <1>2, <3>1, <3>2, CanInfix, ExprKeeps, ExprOKIs
    <3>4. ASSUME NEW t3, Rel(<<"infix", c[2]>>, t2, t3)
          PROVE  Fulfils(<<>>, t3, c, s)
      <4>1. Good(t3) /\ Expr(t2, t3, 0)
        BY <3>4, OfInfix
      <4>2. Expr(s, t3, 0)
        BY <1>1, <1>2, <3>1, <3>2, <4>1, GoodTypes DEF Expr, Stays, SameLocals, SameEnv
      <4>9. Rel(c, s, t3)
        BY <1>1, <1>2, <4>1, <4>2, AtInfix, ExprKeeps
      <4> QED BY <4>9, FulfilsNone
    <3> QED BY <3>3, <3>4, Step1
  <2> QED BY <2>3, <2>4, Step2
<1> QED BY <1>3, <1>4, Step3

\* dot,
LEMMA DotDoes ==
  ASSUME NEW s, Good(s), NEW c, c[1] = "infix", Pre(c, s), NEW b
  PROVE  Fulfils(<<Advance, Consume("id"), <<"dot", b>>, <<"infix", c[2]>>>>, s, c, s)
<1>1. ExprOK(s) /\ c[2] \in Nat \ {0}
  BY AtInfix
<1>2. s.level > 0 /\ Expr(s, s, 0)
  BY <1>1, ExprOKIs, ExprSelf
<1>3. Pre(Advance, s)
  BY <1>1, <1>2, CanAdvance, ExprOKIs
<1>4. ASSUME NEW t1, Rel(Advance, s, t1)
      PROVE  Fulfils(<<Consume("id"), <<"dot", b>>, <<"infix", c[2]>>>>, t1, c, s)
  <2>1. Good(t1) /\ Expr(s, t1, 0) /\ t1.prev = s.cur
    BY <1>4, OfAdvance
  <2>2. Expr(s, t1, 0)
    BY <1>1, <1>2, <2>1, GoodTypes DEF Expr, Stays, SameLocals, SameEnv
  <2>3. Pre(Consume("id"), t1)
    BY <1>1, <1>2, <2>1, <2>2, CanConsume, ExprKeeps, ExprOKIs
  <2>4. ASSUME NEW t2, Rel(Consume("id"), t1, t2)
        PROVE  Fulfils(<<<<"dot", b>>, <<"infix", c[2]>>>>, t2, c, s)
    <3>1. Good(t2) /\ Expr(t1, t2, 0) /\ ("id" = "id" /\ ~t2.err => t2.prev \in Names)
      BY <2>4, OfConsume
    <3>2. Expr(s, t2, 0)
      BY <1>1, <1>2, <2>1, <2>2, <3>1, GoodTypes DEF Expr, Stays, SameLocals, SameEnv
    <3>3. Pre(<<"dot", b>>, t2)
      BY <1>1, <1>2, <3>1, <3>2, CanDot, ExprKeeps, ExprOKIs
    <3>4. ASSUME NEW t3, Rel(<<"dot", b>>, t2, t3)
          PROVE  Fulfils(<<<<"infix", c[2]>>>>, t3, c, s)
      <4>1. Good(t3) /\ Expr(t2, t3, 0)
        BY <3>4, OfDot
      <4>2. Expr(s, t3, 0)
        BY <1>1, <1>2, <3>1, <3>2, <4>1, GoodTypes DEF Expr, Stays, SameLocals, SameEnv
      <4>3. Pre(<<"infix", c[2]>>, t3)
        BY <1>1, <1>2, <4>1, <4>2, CanInfix, ExprKeeps, ExprOKIs
      <4>4. ASSUME NEW t4, Rel(<<"infix", c[2]>>, t3, t4)
            PROVE  Fulfils(<<>>, t4, c, s)
        <5>1. Good(t4) /\ Expr(t3, t4, 0)
          BY <4>4, OfInfix
        <5>2. Expr(s, t4, 0)
          BY <1>1, <1>2, <4>1, <4>2, <5>1, GoodTypes DEF Expr, Stays, SameLocals, SameEnv
        <5>9. Rel(c, s, t4)
          BY <1>1, <1>2, <5>1, <5>2, AtInfix, ExprKeeps
        <5> QED BY <5>9, FulfilsNone
      <4> QED BY <4>3, <4>4, Step1
    <3> QED BY <3>3, <3>4, Step2
  <2> QED BY <2>3, <2>4, Step3
<1> QED BY <1>3, <1>4, Step4

\* and,
LEMMA AndDoes ==
  ASSUME NEW s, Good(s), NEW c, c[1] = "infix", Pre(c, s), NEW h, h = s.top.height
  PROVE  Fulfils(<<Advance, Emit(-1), ParsePrecedence(AndPrec), <<"meet", h>>, <<"infix", c[2]>>>>, s, c, s)
<1>1. ExprOK(s) /\ c[2] \in Nat \ {0}
  BY AtInfix
<1>2. s.level > 0 /\ Expr(s, s, 0)
  BY <1>1, ExprOKIs, ExprSelf
<1>3. Pre(Advance, s)
  BY <1>1, <1>2, CanAdvance, ExprOKIs
<1>4. ASSUME NEW t1, Rel(Advance, s, t1)
      PROVE  Fulfils(<<Emit(-1), ParsePrecedence(AndPrec), <<"meet", h>>, <<"infix", c[2]>>>>, t1, c, s)
  <2>1. Good(t1) /\ Expr(s, t1, 0) /\ t1.prev = s.cur
    BY <1>4, OfAdvance
  <2>2. Expr(s, t1, 0)
    BY <1>1, <1>2, <2>1, GoodTypes DEF Expr, Stays, SameLocals, SameEnv
  <2>3. Pre(Emit(-1), t1)
    BY <1>1, <1>2, <2>1, <2>2, CanEmit, ExprKeeps, ExprOKIs
  <2>4. ASSUME NEW t2, Rel(Emit(-1), t1, t2)
        PROVE  Fulfils(<<ParsePrecedence(AndPrec), <<"meet", h>>, <<"infix", c[2]>>>>, t2, c, s)
    <3>1. Good(t2) /\ Expr(t1, t2, -1)
      BY <2>4, OfEmit
    <3>2. Expr(s, t2, -1)
      BY <1>1, <1>2, <2>1, <2>2, <3>1, GoodTypes DEF Expr, Stays, SameLocals, SameEnv
    <3>3. Pre(ParsePrecedence(AndPrec), t2)
      BY <1>1, <1>2, <3>1, <3>2, CanParsePrecedence, Precedences, ExprKeeps, ExprOKIs
    <3>4. ASSUME NEW t3, Rel(ParsePrecedence(AndPrec), t2, t3)
          PROVE  Fulfils(<<<<"meet", h>>, <<"infix", c[2]>>>>, t3, c, s)
      <4>1. Good(t3) /\ Expr(t2, t3, 1)
        BY <3>4, OfParsePrecedence
      <4>2. Expr(s, t3, 0)
        BY <1>1, <1>2, <3>1, <3>2, <4>1, GoodTypes DEF Expr, Stays, SameLocals, SameEnv
      <4>3. Pre(<<"meet", h>>, t3)
        BY <1>1, <1>2, <4>1, <4>2, CanMeet, GoodTypes, ExprKeeps, ExprOKIs DEF Expr, Stays
      <4>4. ASSUME NEW t4, Rel(<<"meet", h>>, t3, t4)
            PROVE  Fulfils(<<<<"infix", c[2]>>>>, t4, c, s)
        <5>1. Good(t4) /\ Expr(t3, t4, 0)
          BY <4>4, OfMeet
        <5>2. Expr(s, t4, 0)
          BY <1>1, <1>2, <4>1, <4>2, <5>1, GoodTypes DEF Expr, Stays, SameLocals, SameEnv
        <5>3. Pre(<<"infix", c[2]>>, t4)
          BY <1>1, <1>2, <5>1, <5>2, CanInfix, ExprKeeps, ExprOKIs
        <5>4. ASSUME NEW t5, Rel(<<"infix", c[2]>>, t4, t5)
              PROVE  Fulfils(<<>>, t5, c, s)
          <6>1. Good(t5) /\ Expr(t4, t5, 0)
            BY <5>4, OfInfix
          <6>2. Expr(s, t5, 0)
            BY <1>1, <1>2, <5>1, <5>2, <6>1, GoodTypes DEF Expr, Stays, SameLocals, SameEnv
          <6>9. Rel(c, s, t5)
            BY <1>1, <1>2, <6>1, <6>2, AtInfix, ExprKeeps
          <6> QED BY <6>9, FulfilsNone
        <5> QED BY <5>3, <5>4, Step1
      <4> QED BY <4>3, <4>4, Step2
    <3> QED BY <3>3, <3>4, Step3
  <2> QED BY <2>3, <2>4, Step4
<1> QED BY <1>3, <1>4, Step5

\* or,
LEMMA OrDoes ==
  ASSUME NEW s, Good(s), NEW c, c[1] = "infix", Pre(c, s), NEW h, h = s.top.height
  PROVE  Fulfils(<<Advance, <<"land", h>>, Emit(-1), ParsePrecedence(OrPrec), <<"meet", h>>, <<"infix", c[2]>>>>, s, c, s)
<1>1. ExprOK(s) /\ c[2] \in Nat \ {0}
  BY AtInfix
<1>2. s.level > 0 /\ Expr(s, s, 0)
  BY <1>1, ExprOKIs, ExprSelf
<1>3. Pre(Advance, s)
  BY <1>1, <1>2, CanAdvance, ExprOKIs
<1>4. ASSUME NEW t1, Rel(Advance, s, t1)
      PROVE  Fulfils(<<<<"land", h>>, Emit(-1), ParsePrecedence(OrPrec), <<"meet", h>>, <<"infix", c[2]>>>>, t1, c, s)
  <2>1. Good(t1) /\ Expr(s, t1, 0) /\ t1.prev = s.cur
    BY <1>4, OfAdvance
  <2>2. Expr(s, t1, 0)
    BY <1>1, <1>2, <2>1, GoodTypes DEF Expr, Stays, SameLocals, SameEnv
  <2>3. Pre(<<"land", h>>, t1)
    BY <1>1, <1>2, <2>1, <2>2, CanLand, GoodTypes, ExprKeeps, ExprOKIs
  <2>4. ASSUME NEW t2, Rel(<<"land", h>>, t1, t2)
        PROVE  Fulfils(<<Emit(-1), ParsePrecedence(OrPrec), <<"meet", h>>, <<"infix", c[2]>>>>, t2, c, s)
    <3>1. Good(t2) /\ Expr(t1, t2, h - t1.top.height)
      BY <2>4, OfLand
    <3>2. Expr(s, t2, 0)
      BY <1>1, <1>2, <2>1, <2>2, <3>1, GoodTypes DEF Expr, Stays, SameLocals, SameEnv
    <3>3. Pre(Emit(-1), t2)
      BY <1>1, <1>2, <3>1, <3>2, CanEmit, ExprKeeps, ExprOKIs
    <3>4. ASSUME NEW t3, Rel(Emit(-1), t2, t3)
          PROVE  Fulfils(<<ParsePrecedence(OrPrec), <<"meet", h>>, <<"infix", c[2]>>>>, t3, c, s)
      <4>1. Good(t3) /\ Expr(t2, t3, -1)
        BY <3>4, OfEmit
      <4>2. Expr(s, t3, -1)
        BY <1>1, <1>2, <3>1, <3>2, <4>1, GoodTypes DEF Expr, Stays, SameLocals, SameEnv
      <4>3. Pre(ParsePrecedence(OrPrec), t3)
        BY <1>1, <1>2, <4>1, <4>2, CanParsePrecedence, Precedences, ExprKeeps, ExprOKIs
      <4>4. ASSUME NEW t4, Rel(ParsePrecedence(OrPrec), t3, t4)
            PROVE  Fulfils(<<<<"meet", h>>, <<"infix", c[2]>>>>, t4, c, s)
        <5>1. Good(t4) /\ Expr(t3, t4, 1)
          BY <4>4, OfParsePrecedence
        <5>2. Expr(s, t4, 0)
          BY <1>1, <1>2, <4>1, <4>2, <5>1, GoodTypes DEF Expr, Stays, SameLocals, SameEnv
        <5>3. Pre(<<"meet", h>>, t4)
          BY <1>1, <1>2, <5>1, <5>2, CanMeet, GoodTypes, ExprKeeps, ExprOKIs DEF Expr, Stays
        <5>4. ASSUME NEW t5, Rel(<<"meet", h>>, t4, t5)
              PROVE  Fulfils(<<<<"infix", c[2]>>>>, t5, c, s)
          <6>1. Good(t5) /\ Expr(t4, t5, 0)
            BY <5>4, OfMeet
          <6>2. Expr(s, t5, 0)
            BY <1>1, <1>2, <5>1, <5>2, <6>1, GoodTypes DEF Expr, Stays, SameLocals, SameEnv
          <6>3. Pre(<<"infix", c[2]>>, t5)
            BY <1>1, <1>2, <6>1, <6>2, CanInfix, ExprKeeps, ExprOKIs
          <6>4. ASSUME NEW t6, Rel(<<"infix", c[2]>>, t5, t6)
                PROVE  Fulfils(<<>>, t6, c, s)
            <7>1. Good(t6) /\ Expr(t5, t6, 0)
              BY <6>4, OfInfix
            <7>2. Expr(s, t6, 0)
              BY <1>1, <1>2, <6>1, <6>2, <7>1, GoodTypes DEF Expr, Stays, SameLocals, SameEnv
            <7>9. Rel(c, s, t6)
              BY <1>1, <1>2, <7>1, <7>2, AtInfix, ExprKeeps
            <7> QED BY <7>9, FulfilsNone
          <6> QED BY <6>3, <6>4, Step1
        <5> QED BY <5>3, <5>4, Step2
      <4> QED BY <4>3, <4>4, Step3
    <3> QED BY <3>3, <3>4, Step4
  <2> QED BY <2>3, <2>4, Step5
<1> QED BY <1>3, <1>4, Step6

\* or an assignment to something that is no target.
LEMMA BadTargetDoes ==
  ASSUME NEW s, Good(s), NEW c, c[1] = "infix", Pre(c, s)
  PROVE  Fulfils(<<Advance, Error>>, s, c, s)
<1>1. ExprOK(s) /\ c[2] \in Nat \ {0}
  BY AtInfix
<1>2. s.level > 0 /\ Expr(s, s, 0)
  BY <1>1, ExprOKIs, ExprSelf
<1>3. Pre(Advance, s)
  BY <1>1, <1>2, CanAdvance, ExprOKIs
<1>4. ASSUME NEW t1, Rel(Advance, s, t1)
      PROVE  Fulfils(<<Error>>, t1, c, s)
  <2>1. Good(t1) /\ Expr(s, t1, 0) /\ t1.prev = s.cur
    BY <1>4, OfAdvance
  <2>2. Expr(s, t1, 0)
    BY <1>1, <1>2, <2>1, GoodTypes DEF Expr, Stays, SameLocals, SameEnv
  <2>3. Pre(Error, t1)
    BY <1>1, <1>2, <2>1, <2>2, CanError, ExprKeeps, ExprOKIs
  <2>4. ASSUME NEW t2, Rel(Error, t1, t2)
        PROVE  Fulfils(<<>>, t2, c, s)
    <3>1. Good(t2) /\ Expr(t1, t2, 0) /\ t2.err
      BY <2>4, OfError
    <3>2. Expr(s, t2, 0)
      BY <1>1, <1>2, <2>1, <2>2, <3>1, GoodTypes DEF Expr, Stays, SameLocals, SameEnv
    <3>9. Rel(c, s, t2)
      BY <1>1, <1>2, <3>1, <3>2, AtInfix, ExprKeeps
    <3> QED BY <3>9, FulfilsNone
  <2> QED BY <2>3, <2>4, Step1
<1> QED BY <1>3, <1>4, Step2

\* dot: a property is set,
LEMMA DotSetDoes ==
  ASSUME NEW s, Good(s), NEW c, c[1] = "dot", Pre(c, s)
  PROVE  Fulfils(<<Advance, Expression, Emit(-1)>>, s, c, s)
<1>1. ExprOK(s)
  BY AtDot
<1>2. s.level > 0 /\ Expr(s, s, 0)
  BY <1>1, ExprOKIs, ExprSelf
<1>3. Pre(Advance, s)
  BY <1>1, <1>2, CanAdvance, ExprOKIs
<1>4. ASSUME NEW t1, Rel(Advance, s, t1)
      PROVE  Fulfils(<<Expression, Emit(-1)>>, t1, c, s)
  <2>1. Good(t1) /\ Expr(s, t1, 0) /\ t1.prev = s.cur
    BY <1>4, OfAdvance
  <2>2. Expr(s, t1, 0)
    BY <1>1, <1>2, <2>1, GoodTypes DEF Expr, Stays, SameLocals, SameEnv
  <2>3. Pre(Expression, t1)
    BY <1>1, <1>2, <2>1, <2>2, CanExpression, ExprKeeps, ExprOKIs
  <2>4. ASSUME NEW t2, Rel(Expression, t1, t2)
        PROVE  Fulfils(<<Emit(-1)>>, t2, c, s)
    <3>1. Good(t2) /\ Expr(t1, t2, 1)
      BY <2>4, OfExpression
    <3>2. Expr(s, t2, 1)
      BY <1>1, <1>2, <2>1, <2>2, <3>1, GoodTypes DEF Expr, Stays, SameLocals, SameEnv
    <3>3. Pre(Emit(-1), t2)
      BY <1>1, <1>2, <3>1, <3>2, CanEmit, ExprKeeps, ExprOKIs
    <3>4. ASSUME NEW t3, Rel(Emit(-1), t2, t3)
          PROVE  Fulfils(<<>>, t3, c, s)
      <4>1. Good(t3) /\ Expr(t2, t3, -1)
        BY <3>4, OfEmit
      <4>2. Expr(s, t3, 0)
        BY <1>1, <1>2, <3>1, <3>2, <4>1, GoodTypes DEF Expr, Stays, SameLocals, SameEnv
      <4>9. Rel(c, s, t3)
        BY <1>1, <1>2, <4>1, <4>2, AtDot, ExprKeeps
      <4> QED BY <4>9, FulfilsNone
    <3> QED BY <3>3, <3>4, Step1
  <2> QED BY <2>3, <2>4, Step2
<1> QED BY <1>3, <1>4, Step3

\* a method is called,
LEMMA DotInvokeDoes ==
  ASSUME NEW s, Good(s), NEW c, c[1] = "dot", Pre(c, s)
  PROVE  Fulfils(<<Advance, <<"argumentList", 0, "call">>>>, s, c, s)
<1>1. ExprOK(s)
  BY AtDot
<1>2. s.level > 0 /\ Expr(s, s, 0)
  BY <1>1, ExprOKIs, ExprSelf
<1>3. Pre(Advance, s)
  BY <1>1, <1>2, CanAdvance, ExprOKIs
<1>4. ASSUME NEW t1, Rel(Advance, s, t1)
      PROVE  Fulfils(<<<<"argumentList", 0, "call">>>>, t1, c, s)
  <2>1. Good(t1) /\ Expr(s, t1, 0) /\ t1.prev = s.cur
    BY <1>4, OfAdvance
  <2>2. Expr(s, t1, 0)
    BY <1>1, <1>2, <2>1, GoodTypes DEF Expr, Stays, SameLocals, SameEnv
  <2>3. Pre(<<"argumentList", 0, "call">>, t1)
    BY <1>1, <1>2, <2>1, <2>2, CanArgumentList, ExprKeeps, ExprOKIs
  <2>4. ASSUME NEW t2, Rel(<<"argumentList", 0, "call">>, t1, t2)
        PROVE  Fulfils(<<>>, t2, c, s)
    <3>1. Good(t2) /\ Expr(t1, t2, -0)
      BY <2>4, OfArgumentList
    <3>2. Expr(s, t2, 0)
      BY <1>1, <1>2, <2>1, <2>2, <3>1, GoodTypes DEF Expr, Stays, SameLocals, SameEnv
    <3>9. Rel(c, s, t2)
      BY <1>1, <1>2, <3>1, <3>2, AtDot, ExprKeeps
    <3> QED BY <3>9, FulfilsNone
  <2> QED BY <2>3, <2>4, Step1
<1> QED BY <1>3, <1>4, Step2

\* or a property is got.
LEMMA DotGetDoes ==
  ASSUME NEW s, Good(s), NEW c, c[1] = "dot", Pre(c, s)
  PROVE  Fulfils(<<Emit(0)>>, s, c, s)
<1>1. ExprOK(s)
  BY AtDot
<1>2. s.level > 0 /\ Expr(s, s, 0)
  BY <1>1, ExprOKIs, ExprSelf
<1>3. Pre(Emit(0), s)
  BY <1>1, <1>2, CanEmit, ExprOKIs
<1>4. ASSUME NEW t1, Rel(Emit(0), s, t1)
      PROVE  Fulfils(<<>>, t1, c, s)
  <2>1. Good(t1) /\ Expr(s, t1, 0)
    BY <1>4, OfEmit
  <2>2. Expr(s, t1, 0)
    BY <1>1, <1>2, <2>1, GoodTypes DEF Expr, Stays, SameLocals, SameEnv
  <2>9. Rel(c, s, t1)
    BY <1>1, <1>2, <2>1, <2>2, AtDot, ExprKeeps
  <2> QED BY <2>9, FulfilsNone
<1> QED BY <1>3, <1>4, Step1

\* argumentList: the first argument,
LEMMA ArgumentsFirst ==
  ASSUME NEW s, Good(s), NEW c, c[1] = "argumentList", Pre(c, s),
         c[2] = 0
  PROVE  Fulfils(<<Expression, <<"argumentList", 1, c[3]>>>>, s, c, s)
<1>1. ExprOK(s) /\ c[2] \in Nat
  BY AtArgumentList
<1>2. s.level > 0 /\ Expr(s, s, 0)
  BY <1>1, ExprOKIs, ExprSelf
<1>3. Pre(Expression, s)
  BY <1>1, <1>2, CanExpression, ExprOKIs
<1>4. ASSUME NEW t1, Rel(Expression, s, t1)
      PROVE  Fulfils(<<<<"argumentList", 1, c[3]>>>>, t1, c, s)
  <2>1. Good(t1) /\ Expr(s, t1, 1)
    BY <1>4, OfExpression
  <2>2. Expr(s, t1, 1)
    BY <1>1, <1>2, <2>1, GoodTypes DEF Expr, Stays, SameLocals, SameEnv
  <2>3. Pre(<<"argumentList", 1, c[3]>>, t1)
    BY <1>1, <1>2, <2>1, <2>2, CanArgumentList, ExprKeeps, ExprOKIs
  <2>4. ASSUME NEW t2, Rel(<<"argumentList", 1, c[3]>>, t1, t2)
        PROVE  Fulfils(<<>>, t2, c, s)
    <3>1. Good(t2) /\ Expr(t1, t2, -1)
      BY <2>4, OfArgumentList
    <3>2. Expr(s, t2, 0)
      BY <1>1, <1>2, <2>1, <2>2, <3>1, GoodTypes DEF Expr, Stays, SameLocals, SameEnv
    <3>9. Rel(c, s, t2)
      BY <1>1, <1>2, <3>1, <3>2, AtArgumentList, ExprKeeps
    <3> QED BY <3>9, FulfilsNone
  <2> QED BY <2>3, <2>4, Step1
<1> QED BY <1>3, <1>4, Step2

\* another one,
LEMMA ArgumentsMore ==
  ASSUME NEW s, Good(s), NEW c, c[1] = "argumentList", Pre(c, s)
  PROVE  Fulfils(<<Advance, Expression, <<"argumentList", c[2] + 1, c[3]>>>>, s, c, s)
<1>1. ExprOK(s) /\ c[2] \in Nat
  BY AtArgumentList
<1>2. s.level > 0 /\ Expr(s, s, 0)
  BY <1>1, ExprOKIs, ExprSelf
<1>3. Pre(Advance, s)
  BY <1>1, <1>2, CanAdvance, ExprOKIs
<1>4. ASSUME NEW t1, Rel(Advance, s, t1)
      PROVE  Fulfils(<<Expression, <<"argumentList", c[2] + 1, c[3]>>>>, t1, c, s)
  <2>1. Good(t1) /\ Expr(s, t1, 0) /\ t1.prev = s.cur
    BY <1>4, OfAdvance
  <2>2. Expr(s, t1, 0)
    BY <1>1, <1>2, <2>1, GoodTypes DEF Expr, Stays, SameLocals, SameEnv
  <2>3. Pre(Expression, t1)
    BY <1>1, <1>2, <2>1, <2>2, CanExpression, ExprKeeps, ExprOKIs
  <2>4. ASSUME NEW t2, Rel(Expression, t1, t2)
        PROVE  Fulfils(<<<<"argumentList", c[2] + 1, c[3]>>>>, t2, c, s)
    <3>1. Good(t2) /\ Expr(t1, t2, 1)
      BY <2>4, OfExpression
    <3>2. Expr(s, t2, 1)
      BY <1>1, <1>2, <2>1, <2>2, <3>1, GoodTypes DEF Expr, Stays, SameLocals, SameEnv
    <3>3. Pre(<<"argumentList", c[2] + 1, c[3]>>, t2)
      BY <1>1, <1>2, <3>1, <3>2, CanArgumentList, ExprKeeps, ExprOKIs
    <3>4. ASSUME NEW t3, Rel(<<"argumentList", c[2] + 1, c[3]>>, t2, t3)
          PROVE  Fulfils(<<>>, t3, c, s)
      <4>1. Good(t3) /\ Expr(t2, t3, -(c[2] + 1))
        BY <3>4, OfArgumentList
      <4>2. Expr(s, t3, -c[2])
        BY <1>1, <1>2, <3>1, <3>2, <4>1, GoodTypes DEF Expr, Stays, SameLocals, SameEnv
      <4>9. Rel(c, s, t3)
        BY <1>1, <1>2, <4>1, <4>2, AtArgumentList, ExprKeeps
      <4> QED BY <4>9, FulfilsNone
    <3> QED BY <3>3, <3>4, Step1
  <2> QED BY <2>3, <2>4, Step2
<1> QED BY <1>3, <1>4, Step3

\* one too many,
LEMMA ArgumentsMany ==
  ASSUME NEW s, Good(s), NEW c, c[1] = "argumentList", Pre(c, s)
  PROVE  Fulfils(<<Error, Advance, Expression, <<"argumentList", c[2] + 1, c[3]>>>>, s, c, s)
<1>1. ExprOK(s) /\ c[2] \in Nat
  BY AtArgumentList
<1>2. s.level > 0 /\ Expr(s, s, 0)
  BY <1>1, ExprOKIs, ExprSelf
<1>3. Pre(Error, s)
  BY <1>1, <1>2, CanError, ExprOKIs
<1>4. ASSUME NEW t1, Rel(Error, s, t1)
      PROVE  Fulfils(<<Advance, Expression, <<"argumentList", c[2] + 1, c[3]>>>>, t1, c, s)
  <2>1. Good(t1) /\ Expr(s, t1, 0) /\ t1.err
    BY <1>4, OfError
  <2>2. Expr(s, t1, 0)
    BY <1>1, <1>2, <2>1, GoodTypes DEF Expr, Stays, SameLocals, SameEnv
  <2>3. Pre(Advance, t1)
    BY <1>1, <1>2, <2>1, <2>2, CanAdvance, ExprKeeps, ExprOKIs
  <2>4. ASSUME NEW t2, Rel(Advance, t1, t2)
        PROVE  Fulfils(<<Expression, <<"argumentList", c[2] + 1, c[3]>>>>, t2, c, s)
    <3>1. Good(t2) /\ Expr(t1, t2, 0) /\ t2.prev = t1.cur
      BY <2>4, OfAdvance
    <3>2. Expr(s, t2, 0)
      BY <1>1, <1>2, <2>1, <2>2, <3>1, GoodTypes DEF Expr, Stays, SameLocals, SameEnv
    <3>3. Pre(Expression, t2)
      BY <1>1, <1>2, <3>1, <3>2, CanExpression, ExprKeeps, ExprOKIs
    <3>4. ASSUME NEW t3, Rel(Expression, t2, t3)
          PROVE  Fulfils(<<<<"argumentList", c[2] + 1, c[3]>>>>, t3, c, s)
      <4>1. Good(t3) /\ Expr(t2, t3, 1)
        BY <3>4, OfExpression
      <4>2. Expr(s, t3, 1)
        BY <1>1, <1>2, <3>1, <3>2, <4>1, GoodTypes DEF Expr, Stays, SameLocals, SameEnv
      <4>3. Pre(<<"argumentList", c[2] + 1, c[3]>>, t3)
        BY <1>1, <1>2, <4>1, <4>2, CanArgumentList, ExprKeeps, ExprOKIs
      <4>4. ASSUME NEW t4, Rel(<<"argumentList", c[2] + 1, c[3]>>, t3, t4)
            PROVE  Fulfils(<<>>, t4, c, s)
        <5>1. Good(t4) /\ Expr(t3, t4, -(c[2] + 1))
          BY <4>4, OfArgumentList
        <5>2. Expr(s, t4, -c[2])
          BY <1>1, <1>2, <4>1, <4>2, <5>1, GoodTypes DEF Expr, Stays, SameLocals, SameEnv
        <5>9. Rel(c, s, t4)
          BY <1>1, <1>2, <5>1, <5>2, AtArgumentList, ExprKeeps
        <5> QED BY <5>9, FulfilsNone
      <4> QED BY <4>3, <4>4, Step1
    <3> QED BY <3>3, <3>4, Step2
  <2> QED BY <2>3, <2>4, Step3
<1> QED BY <1>3, <1>4, Step4

\* the call,
LEMMA ArgumentsCall ==
  ASSUME NEW s, Good(s), NEW c, c[1] = "argumentList", Pre(c, s)
  PROVE  Fulfils(<<Consume(")"), Emit(-c[2])>>, s, c, s)
<1>1. ExprOK(s) /\ c[2] \in Nat
  BY AtArgumentList
<1>2. s.level > 0 /\ Expr(s, s, 0)
  BY <1>1, ExprOKIs, ExprSelf
<1>3. Pre(Consume(")"), s)
  BY <1>1, <1>2, CanConsume, ExprOKIs
<1>4. ASSUME NEW t1, Rel(Consume(")"), s, t1)
      PROVE  Fulfils(<<Emit(-c[2])>>, t1, c, s)
  <2>1. Good(t1) /\ Expr(s, t1, 0) /\ (")" = "id" /\ ~t1.err => t1.prev \in Names)
    BY <1>4, OfConsume
  <2>2. Expr(s, t1, 0)
    BY <1>1, <1>2, <2>1, GoodTypes DEF Expr, Stays, SameLocals, SameEnv
  <2>3. Pre(Emit(-c[2]), t1)
    BY <1>1, <1>2, <2>1, <2>2, CanEmit, ExprKeeps, ExprOKIs
  <2>4. ASSUME NEW t2, Rel(Emit(-c[2]), t1, t2)
        PROVE  Fulfils(<<>>, t2, c, s)
    <3>1. Good(t2) /\ Expr(t1, t2, -c[2])
      BY <2>4, OfEmit
    <3>2. Expr(s, t2, -c[2])
      BY <1>1, <1>2, <2>1, <2>2, <3>1, GoodTypes DEF Expr, Stays, SameLocals, SameEnv
    <3>9. Rel(c, s, t2)
      BY <1>1, <1>2, <3>1, <3>2, AtArgumentList, ExprKeeps
    <3> QED BY <3>9, FulfilsNone
  <2> QED BY <2>3, <2>4, Step1
<1> QED BY <1>3, <1>4, Step2

\* the call with too many arguments,
LEMMA ArgumentsCallMany ==
  ASSUME NEW s, Good(s), NEW c, c[1] = "argumentList", Pre(c, s)
  PROVE  Fulfils(<<Error, Consume(")"), Emit(-c[2])>>, s, c, s)
<1>1. ExprOK(s) /\ c[2] \in Nat
  BY AtArgumentList
<1>2. s.level > 0 /\ Expr(s, s, 0)
  BY <1>1, ExprOKIs, ExprSelf
<1>3. Pre(Error, s)
  BY <1>1, <1>2, CanError, ExprOKIs
<1>4. ASSUME NEW t1, Rel(Error, s, t1)
      PROVE  Fulfils(<<Consume(")"), Emit(-c[2])>>, t1, c, s)
  <2>1. Good(t1) /\ Expr(s, t1, 0) /\ t1.err
    BY <1>4, OfError
  <2>2. Expr(s, t1, 0)
    BY <1>1, <1>2, <2>1, GoodTypes DEF Expr, Stays, SameLocals, SameEnv
  <2>3. Pre(Consume(")"), t1)
    BY <1>1, <1>2, <2>1, <2>2, CanConsume, ExprKeeps, ExprOKIs
  <2>4. ASSUME NEW t2, Rel(Consume(")"), t1, t2)
        PROVE  Fulfils(<<Emit(-c[2])>>, t2, c, s)
    <3>1. Good(t2) /\ Expr(t1, t2, 0) /\ (")" = "id" /\ ~t2.err => t2.prev \in Names)
      BY <2>4, OfConsume
    <3>2. Expr(s, t2, 0)
      BY <1>1, <1>2, <2>1, <2>2, <3>1, GoodTypes DEF Expr, Stays, SameLocals, SameEnv
    <3>3. Pre(Emit(-c[2]), t2)
      BY <1>1, <1>2, <3>1, <3>2, CanEmit, ExprKeeps, ExprOKIs
    <3>4. ASSUME NEW t3, Rel(Emit(-c[2]), t2, t3)
          PROVE  Fulfils(<<>>, t3, c, s)
      <4>1. Good(t3) /\ Expr(t2, t3, -c[2])
        BY <3>4, OfEmit
      <4>2. Expr(s, t3, -c[2])
        BY <1>1, <1>2, <3>1, <3>2, <4>1, GoodTypes DEF Expr, Stays, SameLocals, SameEnv
      <4>9. Rel(c, s, t3)
        BY <1>1, <1>2, <4>1, <4>2, AtArgumentList, ExprKeeps
      <4> QED BY <4>9, FulfilsNone
    <3> QED BY <3>3, <3>4, Step1
  <2> QED BY <2>3, <2>4, Step2
<1> QED BY <1>3, <1>4, Step3

\* or the call of a method of the superclass.
LEMMA ArgumentsSuper ==
  ASSUME NEW s, Good(s), NEW c, c[1] = "argumentList", Pre(c, s)
  PROVE  Fulfils(<<Consume(")"), NamedVariable("super", FALSE), Emit(-c[2] - 1)>>, s, c, s)
<1>1. ExprOK(s) /\ c[2] \in Nat
  BY AtArgumentList
<1>2. s.level > 0 /\ Expr(s, s, 0)
  BY <1>1, ExprOKIs, ExprSelf
<1>3. Pre(Consume(")"), s)
  BY <1>1, <1>2, CanConsume, ExprOKIs
<1>4. ASSUME NEW t1, Rel(Consume(")"), s, t1)
      PROVE  Fulfils(<<NamedVariable("super", FALSE), Emit(-c[2] - 1)>>, t1, c, s)
  <2>1. Good(t1) /\ Expr(s, t1, 0) /\ (")" = "id" /\ ~t1.err => t1.prev \in Names)
    BY <1>4, OfConsume
  <2>2. Expr(s, t1, 0)
    BY <1>1, <1>2, <2>1, GoodTypes DEF Expr, Stays, SameLocals, SameEnv
  <2>3. Pre(NamedVariable("super", FALSE), t1)
    BY <1>1, <1>2, <2>1, <2>2, CanNamedVariable, SuperIsName, ExprKeeps, ExprOKIs
  <2>4. ASSUME NEW t2, Rel(NamedVariable("super", FALSE), t1, t2)
        PROVE  Fulfils(<<Emit(-c[2] - 1)>>, t2, c, s)
    <3>1. Good(t2) /\ Expr(t1, t2, 1)
      BY <2>4, OfNamedVariable
    <3>2. Expr(s, t2, 1)
      BY <1>1, <1>2, <2>1, <2>2, <3>1, GoodTypes DEF Expr, Stays, SameLocals, SameEnv
    <3>3. Pre(Emit(-c[2] - 1), t2)
      BY <1>1, <1>2, <3>1, <3>2, CanEmit, ExprKeeps, ExprOKIs
    <3>4. ASSUME NEW t3, Rel(Emit(-c[2] - 1), t2, t3)
          PROVE  Fulfils(<<>>, t3, c, s)
      <4>1. Good(t3) /\ Expr(t2, t3, -c[2] - 1)
        BY <3>4, OfEmit
      <4>2. Expr(s, t3, -c[2])
        BY <1>1, <1>2, <3>1, <3>2, <4>1, GoodTypes DEF Expr, Stays, SameLocals, SameEnv
      <4>9. Rel(c, s, t3)
        BY <1>1, <1>2, <4>1, <4>2, AtArgumentList, ExprKeeps
      <4> QED BY <4>9, FulfilsNone
    <3> QED BY <3>3, <3>4, Step1
  <2> QED BY <2>3, <2>4, Step2
<1> QED BY <1>3, <1>4, Step3

\* or the call of a method of the superclass with too many arguments.
LEMMA ArgumentsSuperMany ==
  ASSUME NEW s, Good(s), NEW c, c[1] = "argumentList", Pre(c, s)
  PROVE  Fulfils(<<Error, Consume(")"), NamedVariable("super", FALSE), Emit(-c[2] - 1)>>, s, c, s)
<1>1. ExprOK(s) /\ c[2] \in Nat
  BY AtArgumentList
<1>2. s.level > 0 /\ Expr(s, s, 0)
  BY <1>1, ExprOKIs, ExprSelf
<1>3. Pre(Error, s)
  BY <1>1, <1>2, CanError, ExprOKIs
<1>4. ASSUME NEW t1, Rel(Error, s, t1)
      PROVE  Fulfils(<<Consume(")"), NamedVariable("super", FALSE), Emit(-c[2] - 1)>>, t1, c, s)
  <2>1. Good(t1) /\ Expr(s, t1, 0) /\ t1.err
    BY <1>4, OfError
  <2>2. Expr(s, t1, 0)
    BY <1>1, <1>2, <2>1, GoodTypes DEF Expr, Stays, SameLocals, SameEnv
  <2>3. Pre(Consume(")"), t1)
    BY <1>1, <1>2, <2>1, <2>2, CanConsume, ExprKeeps, ExprOKIs
  <2>4. ASSUME NEW t2, Rel(Consume(")"), t1, t2)
        PROVE  Fulfils(<<NamedVariable("super", FALSE), Emit(-c[2] - 1)>>, t2, c, s)
    <3>1. Good(t2) /\ Expr(t1, t2, 0) /\ (")" = "id" /\ ~t2.err => t2.prev \in Names)
      BY <2>4, OfConsume
    <3>2. Expr(s, t2, 0)
      BY <1>1, <1>2, <2>1, <2>2, <3>1, GoodTypes DEF Expr, Stays, SameLocals, SameEnv
    <3>3. Pre(NamedVariable("super", FALSE), t2)
      BY <1>1, <1>2, <3>1, <3>2, CanNamedVariable, SuperIsName, ExprKeeps, ExprOKIs
    <3>4. ASSUME NEW t3, Rel(NamedVariable("super", FALSE), t2, t3)
          PROVE  Fulfils(<<Emit(-c[2] - 1)>>, t3, c, s)
      <4>1. Good(t3) /\ Expr(t2, t3, 1)
        BY <3>4, OfNamedVariable
      <4>2. Expr(s, t3, 1)
        BY <1>1, <1>2, <3>1, <3>2, <4>1, GoodTypes DEF Expr, Stays, SameLocals, SameEnv
      <4>3. Pre(Emit(-c[2] - 1), t3)
        BY <1>1, <1>2, <4>1, <4>2, CanEmit, ExprKeeps, ExprOKIs
      <4>4. ASSUME NEW t4, Rel(Emit(-c[2] - 1), t3, t4)
            PROVE  Fulfils(<<>>, t4, c, s)
        <5>1. Good(t4) /\ Expr(t3, t4, -c[2] - 1)
          BY <4>4, OfEmit
        <5>2. Expr(s, t4, -c[2])
          BY <1>1, <1>2, <4>1, <4>2, <5>1, GoodTypes DEF Expr, Stays, SameLocals, SameEnv
        <5>9. Rel(c, s, t4)
          BY <1>1, <1>2, <5>1, <5>2, AtArgumentList, ExprKeeps
        <5> QED BY <5>9, FulfilsNone
      <4> QED BY <4>3, <4>4, Step1
    <3> QED BY <3>3, <3>4, Step2
  <2> QED BY <2>3, <2>4, Step3
<1> QED BY <1>3, <1>4, Step4

\* this_: outside of a class,
LEMMA ThisNowhere ==
  ASSUME NEW s, Good(s), NEW c, c[1] = "this", Pre(c, s)
  PROVE  Fulfils(<<Error>>, s, c, s)
<1>1. ExprOK(s)
  BY AtThis
<1>2. s.level > 0 /\ Expr(s, s, 0)
  BY <1>1, ExprOKIs, ExprSelf
<1>3. Pre(Error, s)
  BY <1>1, <1>2, CanError, ExprOKIs
<1>4. ASSUME NEW t1, Rel(Error, s, t1)
      PROVE  Fulfils(<<>>, t1, c, s)
  <2>1. Good(t1) /\ Expr(s, t1, 0) /\ t1.err
    BY <1>4, OfError
  <2>2. Expr(s, t1, 0) /\ t1.err
    BY <1>1, <1>2, <2>1, GoodTypes DEF Expr, Stays, SameLocals, SameEnv
  <2>9. Rel(c, s, t1)
    BY <1>1, <1>2, <2>1, <2>2, AtThis, ExprKeeps DEF Expr, Stays
  <2> QED BY <2>9, FulfilsNone
<1> QED BY <1>3, <1>4, Step1

\* and inside of one.
LEMMA ThisInside ==
  ASSUME NEW s, Good(s), NEW c, c[1] = "this", Pre(c, s),
         s.classes > 0
  PROVE  Fulfils(<<NamedVariable("this", FALSE)>>, s, c, s)
<1>1. ExprOK(s)
  BY AtThis
<1>2. s.level > 0 /\ Expr(s, s, 0)
  BY <1>1, ExprOKIs, ExprSelf
<1>3. Pre(NamedVariable("this", FALSE), s)
  BY <1>1, <1>2, CanNamedVariable, ThisIsName, GoodTypes, ExprOKIs DEF ClassOK
<1>4. ASSUME NEW t1, Rel(NamedVariable("this", FALSE), s, t1)
      PROVE  Fulfils(<<>>, t1, c, s)
  <2>1. Good(t1) /\ Expr(s, t1, 1)
    BY <1>4, OfNamedVariable
  <2>2. Expr(s, t1, 1)
    BY <1>1, <1>2, <2>1, GoodTypes DEF Expr, Stays, SameLocals, SameEnv
  <2>9. Rel(c, s, t1)
    BY <1>1, <1>2, <2>1, <2>2, AtThis, ExprKeeps
  <2> QED BY <2>9, FulfilsNone
<1> QED BY <1>3, <1>4, Step1

\* super_, in a class that has a superclass,
LEMMA SuperInside ==
  ASSUME NEW s, Good(s), NEW c, c[1] = "super", Pre(c, s),
         s.classes > 0
  PROVE  Fulfils(<<Consume("."), Consume("id"), NamedVariable("this", FALSE), Call("superRest")>>, s, c, s)
<1>1. ExprOK(s)
  BY AtSuper
<1>2. s.level > 0 /\ Expr(s, s, 0)
  BY <1>1, ExprOKIs, ExprSelf
<1>3. ClassOK(s) /\ s.classes > 0
  BY <1>1, <1>2, ExprOKIs
<1>4. Pre(Consume("."), s)
  BY <1>1, <1>2, <1>3, CanConsume, ExprOKIs
<1>5. ASSUME NEW t1, Rel(Consume("."), s, t1)
      PROVE  Fulfils(<<Consume("id"), NamedVariable("this", FALSE), Call("superRest")>>, t1, c, s)
  <2>1. Good(t1) /\ Expr(s, t1, 0) /\ ("." = "id" /\ ~t1.err => t1.prev \in Names)
    BY <1>5, OfConsume
  <2>2. Expr(s, t1, 0)
    BY <1>1, <1>2, <1>3, <2>1, GoodTypes DEF Expr, Stays, SameLocals, SameEnv
  <2>3. Pre(Consume("id"), t1)
    BY <1>1, <1>2, <1>3, <2>1, <2>2, CanConsume, ExprKeeps, ExprOKIs
  <2>4. ASSUME NEW t2, Rel(Consume("id"), t1, t2)
        PROVE  Fulfils(<<NamedVariable("this", FALSE), Call("superRest")>>, t2, c, s)
    <3>1. Good(t2) /\ Expr(t1, t2, 0) /\ ("id" = "id" /\ ~t2.err => t2.prev \in Names)
      BY <2>4, OfConsume
    <3>2. Expr(s, t2, 0)
      BY <1>1, <1>2, <1>3, <2>1, <2>2, <3>1, GoodTypes DEF Expr, Stays, SameLocals, SameEnv
    <3>3. Pre(NamedVariable("this", FALSE), t2)
      BY <1>1, <1>2, <1>3, <3>1, <3>2, CanNamedVariable, ThisIsName, ExprKeeps, ExprOKIs DEF
         ClassOK
    <3>4. ASSUME NEW t3, Rel(NamedVariable("this", FALSE), t2, t3)
          PROVE  Fulfils(<<Call("superRest")>>, t3, c, s)
      <4>1. Good(t3) /\ Expr(t2, t3, 1)
        BY <3>4, OfNamedVariable
      <4>2. Expr(s, t3, 1)
        BY <1>1, <1>2, <1>3, <3>1, <3>2, <4>1, GoodTypes DEF Expr, Stays, SameLocals, SameEnv
      <4>3. Pre(Call("superRest"), t3)
        BY <1>1, <1>2, <1>3, <4>1, <4>2, CanSuperRest, ExprKeeps, ExprOKIs
      <4>4. ASSUME NEW t4, Rel(Call("superRest"), t3, t4)
            PROVE  Fulfils(<<>>, t4, c, s)
        <5>1. Good(t4) /\ Expr(t3, t4, 0)
          BY <4>4, OfSuperRest
        <5>2. Expr(s, t4, 1)
          BY <1>1, <1>2, <1>3, <4>1, <4>2, <5>1, GoodTypes DEF Expr, Stays, SameLocals, SameEnv
        <5>9. Rel(c, s, t4)
          BY <1>1, <1>2, <1>3, <5>1, <5>2, AtSuper, ExprKeeps
        <5> QED BY <5>9, FulfilsNone
      <4> QED BY <4>3, <4>4, Step1
    <3> QED BY <3>3, <3>4, Step2
  <2> QED BY <2>3, <2>4, Step3
<1> QED BY <1>4, <1>5, Step4

\* and anywhere else.
LEMMA SuperNowhere ==
  ASSUME NEW s, Good(s), NEW c, c[1] = "super", Pre(c, s)
  PROVE  Fulfils(<<Error, Consume("."), Consume("id"), NamedVariable("this", FALSE), Call("superRest")>>, s, c, s)
<1>1. ExprOK(s)
  BY AtSuper
<1>2. s.level > 0 /\ Expr(s, s, 0)
  BY <1>1, ExprOKIs, ExprSelf
<1>3. Pre(Error, s)
  BY <1>1, <1>2, CanError, ExprOKIs
<1>4. ASSUME NEW t1, Rel(Error, s, t1)
      PROVE  Fulfils(<<Consume("."), Consume("id"), NamedVariable("this", FALSE), Call("superRest")>>, t1, c, s)
  <2>1. Good(t1) /\ Expr(s, t1, 0) /\ t1.err
    BY <1>4, OfError
  <2>2. Expr(s, t1, 0) /\ t1.err
    BY <1>1, <1>2, <2>1, GoodTypes DEF Expr, Stays, SameLocals, SameEnv
  <2>3. Pre(Consume("."), t1)
    BY <1>1, <1>2, <2>1, <2>2, CanConsume, ExprKeeps, ExprOKIs
  <2>4. ASSUME NEW t2, Rel(Consume("."), t1, t2)
        PROVE  Fulfils(<<Consume("id"), NamedVariable("this", FALSE), Call("superRest")>>, t2, c, s)
    <3>1. Good(t2) /\ Expr(t1, t2, 0) /\ ("." = "id" /\ ~t2.err => t2.prev \in Names)
      BY <2>4, OfConsume
    <3>2. Expr(s, t2, 0) /\ t2.err
      BY <1>1, <1>2, <2>1, <2>2, <3>1, GoodTypes DEF Expr, Stays, SameLocals, SameEnv
    <3>3. Pre(Consume("id"), t2)
      BY <1>1, <1>2, <3>1, <3>2, CanConsume, ExprKeeps, ExprOKIs
    <3>4. ASSUME NEW t3, Rel(Consume("id"), t2, t3)
          PROVE  Fulfils(<<NamedVariable("this", FALSE), Call("superRest")>>, t3, c, s)
      <4>1. Good(t3) /\ Expr(t2, t3, 0) /\ ("id" = "id" /\ ~t3.err => t3.prev \in Names)
        BY <3>4, OfConsume
      <4>2. Expr(s, t3, 0) /\ t3.err
        BY <1>1, <1>2, <3>1, <3>2, <4>1, GoodTypes DEF Expr, Stays, SameLocals, SameEnv
      <4>3. Pre(NamedVariable("this", FALSE), t3)
        BY <1>1, <1>2, <4>1, <4>2, CanNamedVariable, ThisIsName, ExprKeeps, ExprOKIs
      <4>4. ASSUME NEW t4, Rel(NamedVariable("this", FALSE), t3, t4)
            PROVE  Fulfils(<<Call("superRest")>>, t4, c, s)
        <5>1. Good(t4) /\ Expr(t3, t4, 1)
          BY <4>4, OfNamedVariable
        <5>2. Expr(s, t4, 1) /\ t4.err
          BY <1>1, <1>2, <4>1, <4>2, <5>1, GoodTypes DEF Expr, Stays, SameLocals, SameEnv
        <5>3. Pre(Call("superRest"), t4)
          BY <1>1, <1>2, <5>1, <5>2, CanSuperRest, ExprKeeps, ExprOKIs
        <5>4. ASSUME NEW t5, Rel(Call("superRest"), t4, t5)
              PROVE  Fulfils(<<>>, t5, c, s)
          <6>1. Good(t5) /\ Expr(t4, t5, 0)
            BY <5>4, OfSuperRest
          <6>2. Expr(s, t5, 1) /\ t5.err
            BY <1>1, <1>2, <5>1, <5>2, <6>1, GoodTypes DEF Expr, Stays, SameLocals, SameEnv
          <6>9. Rel(c, s, t5)
            BY <1>1, <1>2, <6>1, <6>2, AtSuper, ExprKeeps
          <6> QED BY <6>9, FulfilsNone
        <5> QED BY <5>3, <5>4, Step1
      <4> QED BY <4>3, <4>4, Step2
    <3> QED BY <3>3, <3>4, Step3
  <2> QED BY <2>3, <2>4, Step4
<1> QED BY <1>3, <1>4, Step5

\* A method of the superclass is called,
LEMMA SuperCalls ==
  ASSUME NEW s, Good(s), NEW c, c[1] = "superRest", Pre(c, s)
  PROVE  Fulfils(<<Advance, <<"argumentList", 0, "super">>>>, s, c, s)
<1>1. ExprOK(s)
  BY AtSuperRest
<1>2. s.level > 0 /\ Expr(s, s, 0)
  BY <1>1, ExprOKIs, ExprSelf
<1>3. Pre(Advance, s)
  BY <1>1, <1>2, CanAdvance, ExprOKIs
<1>4. ASSUME NEW t1, Rel(Advance, s, t1)
      PROVE  Fulfils(<<<<"argumentList", 0, "super">>>>, t1, c, s)
  <2>1. Good(t1) /\ Expr(s, t1, 0) /\ t1.prev = s.cur
    BY <1>4, OfAdvance
  <2>2. Expr(s, t1, 0)
    BY <1>1, <1>2, <2>1, GoodTypes DEF Expr, Stays, SameLocals, SameEnv
  <2>3. Pre(<<"argumentList", 0, "super">>, t1)
    BY <1>1, <1>2, <2>1, <2>2, CanArgumentList, ExprKeeps, ExprOKIs
  <2>4. ASSUME NEW t2, Rel(<<"argumentList", 0, "super">>, t1, t2)
        PROVE  Fulfils(<<>>, t2, c, s)
    <3>1. Good(t2) /\ Expr(t1, t2, -0)
      BY <2>4, OfArgumentList
    <3>2. Expr(s, t2, 0)
      BY <1>1, <1>2, <2>1, <2>2, <3>1, GoodTypes DEF Expr, Stays, SameLocals, SameEnv
    <3>9. Rel(c, s, t2)
      BY <1>1, <1>2, <3>1, <3>2, AtSuperRest, ExprKeeps
    <3> QED BY <3>9, FulfilsNone
  <2> QED BY <2>3, <2>4, Step1
<1> QED BY <1>3, <1>4, Step2

\* or got.
LEMMA SuperGets ==
  ASSUME NEW s, Good(s), NEW c, c[1] = "superRest", Pre(c, s)
  PROVE  Fulfils(<<NamedVariable("super", FALSE), Emit(-1)>>, s, c, s)
<1>1. ExprOK(s)
  BY AtSuperRest
<1>2. s.level > 0 /\ Expr(s, s, 0)
  BY <1>1, ExprOKIs, ExprSelf
<1>3. Pre(NamedVariable("super", FALSE), s)
  BY <1>1, <1>2, CanNamedVariable, SuperIsName, ExprOKIs
<1>4. ASSUME NEW t1, Rel(NamedVariable("super", FALSE), s, t1)
      PROVE  Fulfils(<<Emit(-1)>>, t1, c, s)
  <2>1. Good(t1) /\ Expr(s, t1, 1)
    BY <1>4, OfNamedVariable
  <2>2. Expr(s, t1, 1)
    BY <1>1, <1>2, <2>1, GoodTypes DEF Expr, Stays, SameLocals, SameEnv
  <2>3. Pre(Emit(-1), t1)
    BY <1>1, <1>2, <2>1, <2>2, CanEmit, ExprKeeps, ExprOKIs
  <2>4. ASSUME NEW t2, Rel(Emit(-1), t1, t2)
        PROVE  Fulfils(<<>>, t2, c, s)
    <3>1. Good(t2) /\ Expr(t1, t2, -1)
      BY <2>4, OfEmit
    <3>2. Expr(s, t2, 0)
      BY <1>1, <1>2, <2>1, <2>2, <3>1, GoodTypes DEF Expr, Stays, SameLocals, SameEnv
    <3>9. Rel(c, s, t2)
      BY <1>1, <1>2, <3>1, <3>2, AtSuperRest, ExprKeeps
    <3> QED BY <3>9, FulfilsNone
  <2> QED BY <2>3, <2>4, Step1
<1> QED BY <1>3, <1>4, Step2

\* The initializer of a variable,
LEMMA InitializerGiven ==
  ASSUME NEW s, Good(s), NEW c, c[1] = "initializer", Pre(c, s)
  PROVE  Fulfils(<<Advance, Expression>>, s, c, s)
<1>1. ExprOK(s)
  BY AtInitializer
<1>2. s.level > 0 /\ Expr(s, s, 0)
  BY <1>1, ExprOKIs, ExprSelf
<1>3. Pre(Advance, s)
  BY <1>1, <1>2, CanAdvance, ExprOKIs
<1>4. ASSUME NEW t1, Rel(Advance, s, t1)
      PROVE  Fulfils(<<Expression>>, t1, c, s)
  <2>1. Good(t1) /\ Expr(s, t1, 0) /\ t1.prev = s.cur
    BY <1>4, OfAdvance
  <2>2. Expr(s, t1, 0)
    BY <1>1, <1>2, <2>1, GoodTypes DEF Expr, Stays, SameLocals, SameEnv
  <2>3. Pre(Expression, t1)
    BY <1>1, <1>2, <2>1, <2>2, CanExpression, ExprKeeps, ExprOKIs
  <2>4. ASSUME NEW t2, Rel(Expression, t1, t2)
        PROVE  Fulfils(<<>>, t2, c, s)
    <3>1. Good(t2) /\ Expr(t1, t2, 1)
      BY <2>4, OfExpression
    <3>2. Expr(s, t2, 1)
      BY <1>1, <1>2, <2>1, <2>2, <3>1, GoodTypes DEF Expr, Stays, SameLocals, SameEnv
    <3>9. Rel(c, s, t2)
      BY <1>1, <1>2, <3>1, <3>2, AtInitializer, ExprKeeps
    <3> QED BY <3>9, FulfilsNone
  <2> QED BY <2>3, <2>4, Step1
<1> QED BY <1>3, <1>4, Step2

\* or nil.
LEMMA InitializerNil ==
  ASSUME NEW s, Good(s), NEW c, c[1] = "initializer", Pre(c, s)
  PROVE  Fulfils(<<Emit(1)>>, s, c, s)
<1>1. ExprOK(s)
  BY AtInitializer
<1>2. s.level > 0 /\ Expr(s, s, 0)
  BY <1>1, ExprOKIs, ExprSelf
<1>3. Pre(Emit(1), s)
  BY <1>1, <1>2, CanEmit, ExprOKIs
<1>4. ASSUME NEW t1, Rel(Emit(1), s, t1)
      PROVE  Fulfils(<<>>, t1, c, s)
  <2>1. Good(t1) /\ Expr(s, t1, 1)
    BY <1>4, OfEmit
  <2>2. Expr(s, t1, 1)
    BY <1>1, <1>2, <2>1, GoodTypes DEF Expr, Stays, SameLocals, SameEnv
  <2>9. Rel(c, s, t1)
    BY <1>1, <1>2, <2>1, <2>2, AtInitializer, ExprKeeps
  <2> QED BY <2>9, FulfilsNone
<1> QED BY <1>3, <1>4, Step1

\* returnStatement without a value.
LEMMA ReturnNil ==
  ASSUME NEW s, Good(s), NEW c, c[1] = "returnStatement", Pre(c, s)
  PROVE  Fulfils(<<Advance>>, s, c, s)
<1>1. ExprOK(s)
  BY AtReturnStatement
<1>2. s.level > 0 /\ Expr(s, s, 0)
  BY <1>1, ExprOKIs, ExprSelf
<1>3. Pre(Advance, s)
  BY <1>1, <1>2, CanAdvance, ExprOKIs
<1>4. ASSUME NEW t1, Rel(Advance, s, t1)
      PROVE  Fulfils(<<>>, t1, c, s)
  <2>1. Good(t1) /\ Expr(s, t1, 0) /\ t1.prev = s.cur
    BY <1>4, OfAdvance
  <2>2. Expr(s, t1, 0)
    BY <1>1, <1>2, <2>1, GoodTypes DEF Expr, Stays, SameLocals, SameEnv
  <2>9. Rel(c, s, t1)
    BY <1>1, <1>2, <2>1, <2>2, AtReturnStatement, ExprKeeps
  <2> QED BY <2>9, FulfilsNone
<1> QED BY <1>3, <1>4, Step1

\* returnStatement without a value, after an error.
LEMMA ReturnNilError ==
  ASSUME NEW s, Good(s), NEW c, c[1] = "returnStatement", Pre(c, s)
  PROVE  Fulfils(<<Error, Advance>>, s, c, s)
<1>1. ExprOK(s)
  BY AtReturnStatement
<1>2. s.level > 0 /\ Expr(s, s, 0)
  BY <1>1, ExprOKIs, ExprSelf
<1>3. Pre(Error, s)
  BY <1>1, <1>2, CanError, ExprOKIs
<1>4. ASSUME NEW t1, Rel(Error, s, t1)
      PROVE  Fulfils(<<Advance>>, t1, c, s)
  <2>1. Good(t1) /\ Expr(s, t1, 0) /\ t1.err
    BY <1>4, OfError
  <2>2. Expr(s, t1, 0)
    BY <1>1, <1>2, <2>1, GoodTypes DEF Expr, Stays, SameLocals, SameEnv
  <2>3. Pre(Advance, t1)
    BY <1>1, <1>2, <2>1, <2>2, CanAdvance, ExprKeeps, ExprOKIs
  <2>4. ASSUME NEW t2, Rel(Advance, t1, t2)
        PROVE  Fulfils(<<>>, t2, c, s)
    <3>1. Good(t2) /\ Expr(t1, t2, 0) /\ t2.prev = t1.cur
      BY <2>4, OfAdvance
    <3>2. Expr(s, t2, 0)
      BY <1>1, <1>2, <2>1, <2>2, <3>1, GoodTypes DEF Expr, Stays, SameLocals, SameEnv
    <3>9. Rel(c, s, t2)
      BY <1>1, <1>2, <3>1, <3>2, AtReturnStatement, ExprKeeps
    <3> QED BY <3>9, FulfilsNone
  <2> QED BY <2>3, <2>4, Step1
<1> QED BY <1>3, <1>4, Step2

\* returnStatement with a value.
LEMMA ReturnValue ==
  ASSUME NEW s, Good(s), NEW c, c[1] = "returnStatement", Pre(c, s)
  PROVE  Fulfils(<<Expression, Consume(";"), Emit(-1)>>, s, c, s)
<1>1. ExprOK(s)
  BY AtReturnStatement
<1>2. s.level > 0 /\ Expr(s, s, 0)
  BY <1>1, ExprOKIs, ExprSelf
<1>3. Pre(Expression, s)
  BY <1>1, <1>2, CanExpression, ExprOKIs
<1>4. ASSUME NEW t1, Rel(Expression, s, t1)
      PROVE  Fulfils(<<Consume(";"), Emit(-1)>>, t1, c, s)
  <2>1. Good(t1) /\ Expr(s, t1, 1)
    BY <1>4, OfExpression
  <2>2. Expr(s, t1, 1)
    BY <1>1, <1>2, <2>1, GoodTypes DEF Expr, Stays, SameLocals, SameEnv
  <2>3. Pre(Consume(";"), t1)
    BY <1>1, <1>2, <2>1, <2>2, CanConsume, ExprKeeps, ExprOKIs
  <2>4. ASSUME NEW t2, Rel(Consume(";"), t1, t2)
        PROVE  Fulfils(<<Emit(-1)>>, t2, c, s)
    <3>1. Good(t2) /\ Expr(t1, t2, 0) /\ (";" = "id" /\ ~t2.err => t2.prev \in Names)
      BY <2>4, OfConsume
    <3>2. Expr(s, t2, 1)
      BY <1>1, <1>2, <2>1, <2>2, <3>1, GoodTypes DEF Expr, Stays, SameLocals, SameEnv
    <3>3. Pre(Emit(-1), t2)
      BY <1>1, <1>2, <3>1, <3>2, CanEmit, ExprKeeps, ExprOKIs
    <3>4. ASSUME NEW t3, Rel(Emit(-1), t2, t3)
          PROVE  Fulfils(<<>>, t3, c, s)
      <4>1. Good(t3) /\ Expr(t2, t3, -1)
        BY <3>4, OfEmit
      <4>2. Expr(s, t3, 0)
        BY <1>1, <1>2, <3>1, <3>2, <4>1, GoodTypes DEF Expr, Stays, SameLocals, SameEnv
      <4>9. Rel(c, s, t3)
        BY <1>1, <1>2, <4>1, <4>2, AtReturnStatement, ExprKeeps
      <4> QED BY <4>9, FulfilsNone
    <3> QED BY <3>3, <3>4, Step1
  <2> QED BY <2>3, <2>4, Step2
<1> QED BY <1>3, <1>4, Step3

\* returnStatement with a value, after an error.
LEMMA ReturnValueError ==
  ASSUME NEW s, Good(s), NEW c, c[1] = "returnStatement", Pre(c, s)
  PROVE  Fulfils(<<Error, Expression, Consume(";"), Emit(-1)>>, s, c, s)
<1>1. ExprOK(s)
  BY AtReturnStatement
<1>2. s.level > 0 /\ Expr(s, s, 0)
  BY <1>1, ExprOKIs, ExprSelf
<1>3. Pre(Error, s)
  BY <1>1, <1>2, CanError, ExprOKIs
<1>4. ASSUME NEW t1, Rel(Error, s, t1)
      PROVE  Fulfils(<<Expression, Consume(";"), Emit(-1)>>, t1, c, s)
  <2>1. Good(t1) /\ Expr(s, t1, 0) /\ t1.err
    BY <1>4, OfError
  <2>2. Expr(s, t1, 0)
    BY <1>1, <1>2, <2>1, GoodTypes DEF Expr, Stays, SameLocals, SameEnv
  <2>3. Pre(Expression, t1)
    BY <1>1, <1>2, <2>1, <2>2, CanExpression, ExprKeeps, ExprOKIs
  <2>4. ASSUME NEW t2, Rel(Expression, t1, t2)
        PROVE  Fulfils(<<Consume(";"), Emit(-1)>>, t2, c, s)
    <3>1. Good(t2) /\ Expr(t1, t2, 1)
      BY <2>4, OfExpression
    <3>2. Expr(s, t2, 1)
      BY <1>1, <1>2, <2>1, <2>2, <3>1, GoodTypes DEF Expr, Stays, SameLocals, SameEnv
    <3>3. Pre(Consume(";"), t2)
      BY <1>1, <1>2, <3>1, <3>2, CanConsume, ExprKeeps, ExprOKIs
    <3>4. ASSUME NEW t3, Rel(Consume(";"), t2, t3)
          PROVE  Fulfils(<<Emit(-1)>>, t3, c, s)
      <4>1. Good(t3) /\ Expr(t2, t3, 0) /\ (";" = "id" /\ ~t3.err => t3.prev \in Names)
        BY <3>4, OfConsume
      <4>2. Expr(s, t3, 1)
        BY <1>1, <1>2, <3>1, <3>2, <4>1, GoodTypes DEF Expr, Stays, SameLocals, SameEnv
      <4>3. Pre(Emit(-1), t3)
        BY <1>1, <1>2, <4>1, <4>2, CanEmit, ExprKeeps, ExprOKIs
      <4>4. ASSUME NEW t4, Rel(Emit(-1), t3, t4)
            PROVE  Fulfils(<<>>, t4, c, s)
        <5>1. Good(t4) /\ Expr(t3, t4, -1)
          BY <4>4, OfEmit
        <5>2. Expr(s, t4, 0)
          BY <1>1, <1>2, <4>1, <4>2, <5>1, GoodTypes DEF Expr, Stays, SameLocals, SameEnv
        <5>9. Rel(c, s, t4)
          BY <1>1, <1>2, <5>1, <5>2, AtReturnStatement, ExprKeeps
        <5> QED BY <5>9, FulfilsNone
      <4> QED BY <4>3, <4>4, Step1
    <3> QED BY <3>3, <3>4, Step2
  <2> QED BY <2>3, <2>4, Step3
<1> QED BY <1>3, <1>4, Step4

\* namedVariable, behind the resolution of the name: the variable is read,
LEMMA GetDoes ==
  ASSUME NEW s, Good(s), NEW c, c[1] = "namedVariable", Pre(c, s),
         NEW u, Good(u), Expr(s, u, 0)
  PROVE  Fulfils(<<Emit(1)>>, u, c, s)
<1>1. c[3] \in BOOLEAN /\ s.level > 0 /\ Bounded(s) /\ (c[3] => ExprOK(s))
      /\ (~s.err => c[2] # NoName /\ (c[2] = "this" => InMethod(s)))
  BY AtNamedVariable
<1>2. s.level > 0 /\ Expr(s, u, 0)
  BY <1>1, ExprOKIs, ExprSelf
<1>3. Pre(Emit(1), u)
  BY <1>1, <1>2, CanEmit, ExprKeeps, ExprOKIs
<1>4. ASSUME NEW t1, Rel(Emit(1), u, t1)
      PROVE  Fulfils(<<>>, t1, c, s)
  <2>1. Good(t1) /\ Expr(u, t1, 1)
    BY <1>4, OfEmit
  <2>2. Expr(s, t1, 1)
    BY <1>1, <1>2, <2>1, GoodTypes DEF Expr, Stays, SameLocals, SameEnv
  <2>9. Rel(c, s, t1)
    BY <1>1, <1>2, <2>1, <2>2, AtNamedVariable, ExprKeeps
  <2> QED BY <2>9, FulfilsNone
<1> QED BY <1>3, <1>4, Step1

\* or assigned to.
LEMMA SetDoes ==
  ASSUME NEW s, Good(s), NEW c, c[1] = "namedVariable", Pre(c, s),
         NEW u, Good(u), Expr(s, u, 0),
         c[3]
  PROVE  Fulfils(<<Advance, Expression, Emit(0)>>, u, c, s)
<1>1. c[3] \in BOOLEAN /\ s.level > 0 /\ Bounded(s) /\ (c[3] => ExprOK(s))
      /\ (~s.err => c[2] # NoName /\ (c[2] = "this" => InMethod(s)))
  BY AtNamedVariable
<1>2. s.level > 0 /\ Expr(s, u, 0)
  BY <1>1, ExprOKIs, ExprSelf
<1>3. Pre(Advance, u)
  BY <1>1, <1>2, CanAdvance, ExprKeeps, ExprOKIs
<1>4. ASSUME NEW t1, Rel(Advance, u, t1)
      PROVE  Fulfils(<<Expression, Emit(0)>>, t1, c, s)
  <2>1. Good(t1) /\ Expr(u, t1, 0) /\ t1.prev = u.cur
    BY <1>4, OfAdvance
  <2>2. Expr(s, t1, 0)
    BY <1>1, <1>2, <2>1, GoodTypes DEF Expr, Stays, SameLocals, SameEnv
  <2>3. Pre(Expression, t1)
    BY <1>1, <1>2, <2>1, <2>2, CanExpression, ExprKeeps, ExprOKIs
  <2>4. ASSUME NEW t2, Rel(Expression, t1, t2)
        PROVE  Fulfils(<<Emit(0)>>, t2, c, s)
    <3>1. Good(t2) /\ Expr(t1, t2, 1)
      BY <2>4, OfExpression
    <3>2. Expr(s, t2, 1)
      BY <1>1, <1>2, <2>1, <2>2, <3>1, GoodTypes DEF Expr, Stays, SameLocals, SameEnv
    <3>3. Pre(Emit(0), t2)
      BY <1>1, <1>2, <3>1, <3>2, CanEmit, ExprKeeps, ExprOKIs
    <3>4. ASSUME NEW t3, Rel(Emit(0), t2, t3)
          PROVE  Fulfils(<<>>, t3, c, s)
      <4>1. Good(t3) /\ Expr(t2, t3, 0)
        BY <3>4, OfEmit
      <4>2. Expr(s, t3, 1)
        BY <1>1, <1>2, <3>1, <3>2, <4>1, GoodTypes DEF Expr, Stays, SameLocals, SameEnv
      <4>9. Rel(c, s, t3)
        BY <1>1, <1>2, <4>1, <4>2, AtNamedVariable, ExprKeeps
      <4> QED BY <4>9, FulfilsNone
    <3> QED BY <3>3, <3>4, Step1
  <2> QED BY <2>3, <2>4, Step2
<1> QED BY <1>3, <1>4, Step3

\* The same through upvalues.
LEMMA UpvalueGetDoes ==
  ASSUME NEW s, Good(s), NEW c, c[1] = "namedVariable", Pre(c, s),
         NEW u, Good(u), Expr(s, u, 0),
         NEW m, NEW i, NEW b, NEW v, UpvalueOK(u, m, i, b, v)
  PROVE  Fulfils(<<<<"upvalue", m, i, b, v>>, Emit(1)>>, u, c, s)
<1>1. c[3] \in BOOLEAN /\ s.level > 0 /\ Bounded(s) /\ (c[3] => ExprOK(s))
      /\ (~s.err => c[2] # NoName /\ (c[2] = "this" => InMethod(s)))
  BY AtNamedVariable
<1>2. s.level > 0 /\ Expr(s, u, 0)
  BY <1>1, ExprOKIs, ExprSelf
<1>3. Pre(<<"upvalue", m, i, b, v>>, u)
  BY <1>1, <1>2, CanUpvalue, ExprKeeps, ExprOKIs
<1>4. ASSUME NEW t1, Rel(<<"upvalue", m, i, b, v>>, u, t1)
      PROVE  Fulfils(<<Emit(1)>>, t1, c, s)
  <2>1. Good(t1) /\ Expr(u, t1, 0)
    BY <1>4, OfUpvalue
  <2>2. Expr(s, t1, 0)
    BY <1>1, <1>2, <2>1, GoodTypes DEF Expr, Stays, SameLocals, SameEnv
  <2>3. Pre(Emit(1), t1)
    BY <1>1, <1>2, <2>1, <2>2, CanEmit, ExprKeeps, ExprOKIs
  <2>4. ASSUME NEW t2, Rel(Emit(1), t1, t2)
        PROVE  Fulfils(<<>>, t2, c, s)
    <3>1. Good(t2) /\ Expr(t1, t2, 1)
      BY <2>4, OfEmit
    <3>2. Expr(s, t2, 1)
      BY <1>1, <1>2, <2>1, <2>2, <3>1, GoodTypes DEF Expr, Stays, SameLocals, SameEnv
    <3>9. Rel(c, s, t2)
      BY <1>1, <1>2, <3>1, <3>2, AtNamedVariable, ExprKeeps
    <3> QED BY <3>9, FulfilsNone
  <2> QED BY <2>3, <2>4, Step1
<1> QED BY <1>3, <1>4, Step2

\* or assigned.
LEMMA UpvalueSetDoes ==
  ASSUME NEW s, Good(s), NEW c, c[1] = "namedVariable", Pre(c, s),
         NEW u, Good(u), Expr(s, u, 0),
         c[3],
         NEW m, NEW i, NEW b, NEW v, UpvalueOK(u, m, i, b, v)
  PROVE  Fulfils(<<<<"upvalue", m, i, b, v>>, Advance, Expression, Emit(0)>>, u, c, s)
<1>1. c[3] \in BOOLEAN /\ s.level > 0 /\ Bounded(s) /\ (c[3] => ExprOK(s))
      /\ (~s.err => c[2] # NoName /\ (c[2] = "this" => InMethod(s)))
  BY AtNamedVariable
<1>2. s.level > 0 /\ Expr(s, u, 0)
  BY <1>1, ExprOKIs, ExprSelf
<1>3. Pre(<<"upvalue", m, i, b, v>>, u)
  BY <1>1, <1>2, CanUpvalue, ExprKeeps, ExprOKIs
<1>4. ASSUME NEW t1, Rel(<<"upvalue", m, i, b, v>>, u, t1)
      PROVE  Fulfils(<<Advance, Expression, Emit(0)>>, t1, c, s)
  <2>1. Good(t1) /\ Expr(u, t1, 0)
    BY <1>4, OfUpvalue
  <2>2. Expr(s, t1, 0)
    BY <1>1, <1>2, <2>1, GoodTypes DEF Expr, Stays, SameLocals, SameEnv
  <2>3. Pre(Advance, t1)
    BY <1>1, <1>2, <2>1, <2>2, CanAdvance, ExprKeeps, ExprOKIs
  <2>4. ASSUME NEW t2, Rel(Advance, t1, t2)
        PROVE  Fulfils(<<Expression, Emit(0)>>, t2, c, s)
    <3>1. Good(t2) /\ Expr(t1, t2, 0) /\ t2.prev = t1.cur
      BY <2>4, OfAdvance
    <3>2. Expr(s, t2, 0)
      BY <1>1, <1>2, <2>1, <2>2, <3>1, GoodTypes DEF Expr, Stays, SameLocals, SameEnv
    <3>3. Pre(Expression, t2)
      BY <1>1, <1>2, <3>1, <3>2, CanExpression, ExprKeeps, ExprOKIs
    <3>4. ASSUME NEW t3, Rel(Expression, t2, t3)
          PROVE  Fulfils(<<Emit(0)>>, t3, c, s)
      <4>1. Good(t3) /\ Expr(t2, t3, 1)
        BY <3>4, OfExpression
      <4>2. Expr(s, t3, 1)
        BY <1>1, <1>2, <3>1, <3>2, <4>1, GoodTypes DEF Expr, Stays, SameLocals, SameEnv
      <4>3. Pre(Emit(0), t3)
        BY <1>1, <1>2, <4>1, <4>2, CanEmit, ExprKeeps, ExprOKIs
      <4>4. ASSUME NEW t4, Rel(Emit(0), t3, t4)
            PROVE  Fulfils(<<>>, t4, c, s)
        <5>1. Good(t4) /\ Expr(t3, t4, 0)
          BY <4>4, OfEmit
        <5>2. Expr(s, t4, 1)
          BY <1>1, <1>2, <4>1, <4>2, <5>1, GoodTypes DEF Expr, Stays, SameLocals, SameEnv
        <5>9. Rel(c, s, t4)
          BY <1>1, <1>2, <5>1, <5>2, AtNamedVariable, ExprKeeps
        <5> QED BY <5>9, FulfilsNone
      <4> QED BY <4>3, <4>4, Step1
    <3> QED BY <3>3, <3>4, Step2
  <2> QED BY <2>3, <2>4, Step3
<1> QED BY <1>3, <1>4, Step4

\* methods.
LEMMA MethodsDoes ==
  ASSUME NEW s, Good(s), NEW c, c[1] = "methods", Pre(c, s)
  PROVE  Fulfils(<<Consume("id"), Call("method"), Call("methods")>>, s, c, s)
<1>1. s.level > 0 /\ Bounded(s)
  BY AtMethods
<1>2. s.level > 0 /\ Expr(s, s, 0)
  BY <1>1, ExprOKIs, ExprSelf
<1>3. Pre(Consume("id"), s)
  BY <1>1, <1>2, CanConsume, ExprOKIs
<1>4. ASSUME NEW t1, Rel(Consume("id"), s, t1)
      PROVE  Fulfils(<<Call("method"), Call("methods")>>, t1, c, s)
  <2>1. Good(t1) /\ Expr(s, t1, 0) /\ ("id" = "id" /\ ~t1.err => t1.prev \in Names)
    BY <1>4, OfConsume
  <2>2. Expr(s, t1, 0)
    BY <1>1, <1>2, <2>1, GoodTypes DEF Expr, Stays, SameLocals, SameEnv
  <2>3. Pre(Call("method"), t1)
    BY <1>1, <1>2, <2>1, <2>2, CanMethod, ExprKeeps, ExprOKIs
  <2>4. ASSUME NEW t2, Rel(Call("method"), t1, t2)
        PROVE  Fulfils(<<Call("methods")>>, t2, c, s)
    <3>1. Good(t2) /\ Expr(t1, t2, 0)
      BY <2>4, OfMethod
    <3>2. Expr(s, t2, 0)
      BY <1>1, <1>2, <2>1, <2>2, <3>1, GoodTypes DEF Expr, Stays, SameLocals, SameEnv
    <3>3. Pre(Call("methods"), t2)
      BY <1>1, <1>2, <3>1, <3>2, CanMethods, ExprKeeps, ExprOKIs
    <3>4. ASSUME NEW t3, Rel(Call("methods"), t2, t3)
          PROVE  Fulfils(<<>>, t3, c, s)
      <4>1. Good(t3) /\ Expr(t2, t3, 0)
        BY <3>4, OfMethods
      <4>2. Expr(s, t3, 0)
        BY <1>1, <1>2, <3>1, <3>2, <4>1, GoodTypes DEF Expr, Stays, SameLocals, SameEnv
      <4>9. Rel(c, s, t3)
        BY <1>1, <1>2, <4>1, <4>2, AtMethods, ExprKeeps
      <4> QED BY <4>9, FulfilsNone
    <3> QED BY <3>3, <3>4, Step1
  <2> QED BY <2>3, <2>4, Step2
<1> QED BY <1>3, <1>4, Step3

\* method.
LEMMA MethodDoes ==
  ASSUME NEW s, Good(s), NEW c, c[1] = "method", Pre(c, s), NEW k, k \in MethodTypes
  PROVE  Fulfils(<<<<"function", k>>, Emit(-1)>>, s, c, s)
<1>1. s.level > 0 /\ Bounded(s)
  BY AtMethod
<1>2. s.level > 0 /\ Expr(s, s, 0)
  BY <1>1, ExprOKIs, ExprSelf
<1>3. Pre(<<"function", k>>, s)
  BY <1>1, <1>2, CanFunction, ExprOKIs DEF Types, MethodTypes
<1>4. ASSUME NEW t1, Rel(<<"function", k>>, s, t1)
      PROVE  Fulfils(<<Emit(-1)>>, t1, c, s)
  <2>1. Good(t1) /\ Expr(s, t1, 1)
    BY <1>4, OfFunction
  <2>2. Expr(s, t1, 1)
    BY <1>1, <1>2, <2>1, GoodTypes DEF Expr, Stays, SameLocals, SameEnv
  <2>3. Pre(Emit(-1), t1)
    BY <1>1, <1>2, <2>1, <2>2, CanEmit, ExprKeeps, ExprOKIs
  <2>4. ASSUME NEW t2, Rel(Emit(-1), t1, t2)
        PROVE  Fulfils(<<>>, t2, c, s)
    <3>1. Good(t2) /\ Expr(t1, t2, -1)
      BY <2>4, OfEmit
    <3>2. Expr(s, t2, 0)
      BY <1>1, <1>2, <2>1, <2>2, <3>1, GoodTypes DEF Expr, Stays, SameLocals, SameEnv
    <3>9. Rel(c, s, t2)
      BY <1>1, <1>2, <3>1, <3>2, AtMethod, ExprKeeps
    <3> QED BY <3>9, FulfilsNone
  <2> QED BY <2>3, <2>4, Step1
<1> QED BY <1>3, <1>4, Step2

\* synchronize.
LEMMA SynchronizeDoes ==
  ASSUME NEW s, Good(s), NEW c, c[1] = "synchronize", Pre(c, s)
  PROVE  Fulfils(<<Advance, Call("synchronize")>>, s, c, s)
<1>1. s.level > 0
  BY AtSynchronize
<1>2. s.level > 0 /\ Expr(s, s, 0)
  BY <1>1, ExprOKIs, ExprSelf
<1>3. Pre(Advance, s)
  BY <1>1, <1>2, CanAdvance, ExprOKIs
<1>4. ASSUME NEW t1, Rel(Advance, s, t1)
      PROVE  Fulfils(<<Call("synchronize")>>, t1, c, s)
  <2>1. Good(t1) /\ Expr(s, t1, 0) /\ t1.prev = s.cur
    BY <1>4, OfAdvance
  <2>2. Expr(s, t1, 0)
    BY <1>1, <1>2, <2>1, GoodTypes DEF Expr, Stays, SameLocals, SameEnv
  <2>3. Pre(Call("synchronize"), t1)
    BY <1>1, <1>2, <2>1, <2>2, CanSynchronize, ExprKeeps, ExprOKIs
  <2>4. ASSUME NEW t2, Rel(Call("synchronize"), t1, t2)
        PROVE  Fulfils(<<>>, t2, c, s)
    <3>1. Good(t2) /\ Expr(t1, t2, 0)
      BY <2>4, OfSynchronize
    <3>2. Expr(s, t2, 0)
      BY <1>1, <1>2, <2>1, <2>2, <3>1, GoodTypes DEF Expr, Stays, SameLocals, SameEnv
    <3>9. Rel(c, s, t2)
      BY <1>1, <1>2, <3>1, <3>2, AtSynchronize, ExprKeeps
    <3> QED BY <3>9, FulfilsNone
  <2> QED BY <2>3, <2>4, Step1
<1> QED BY <1>3, <1>4, Step2

\* The end of declaration, with or without synchronize.
LEMMA RecoverDoes ==
  ASSUME NEW s, Good(s), NEW c, c[1] = "recover", Pre(c, s),
         NEW u, Good(u), Expr(s, u, 0)
  PROVE  Fulfils(<<Call("synchronize")>>, u, c, s)
<1>1. s.level > 0 /\ Temps(s, 0)
  BY AtRecover
<1>2. s.level > 0 /\ Expr(s, u, 0)
  BY <1>1, ExprOKIs, ExprSelf
<1>3. Pre(Call("synchronize"), u)
  BY <1>1, <1>2, CanSynchronize, ExprKeeps, ExprOKIs
<1>4. ASSUME NEW t1, Rel(Call("synchronize"), u, t1)
      PROVE  Fulfils(<<>>, t1, c, s)
  <2>1. Good(t1) /\ Expr(u, t1, 0)
    BY <1>4, OfSynchronize
  <2>2. Expr(s, t1, 0)
    BY <1>1, <1>2, <2>1, GoodTypes DEF Expr, Stays, SameLocals, SameEnv
  <2>9. Rel(c, s, t1)
    BY <1>1, <1>2, <2>1, <2>2, AtRecover, ExprKeeps
  <2> QED BY <2>9, FulfilsNone
<1> QED BY <1>3, <1>4, Step1

\* consume: the token is there,
LEMMA ConsumeDoes ==
  ASSUME NEW s, Good(s), NEW c, c[1] = "consume", Pre(c, s),
         c[2] = "id" => s.cur \in Names
  PROVE  Fulfils(<<Advance>>, s, c, s)
<1>1. s.level > 0
  BY AtConsume
<1>2. s.level > 0 /\ Expr(s, s, 0)
  BY <1>1, ExprOKIs, ExprSelf
<1>3. Pre(Advance, s)
  BY <1>1, <1>2, CanAdvance, ExprOKIs
<1>4. ASSUME NEW t1, Rel(Advance, s, t1)
      PROVE  Fulfils(<<>>, t1, c, s)
  <2>1. Good(t1) /\ Expr(s, t1, 0) /\ t1.prev = s.cur
    BY <1>4, OfAdvance
  <2>2. Expr(s, t1, 0) /\ t1.prev = s.cur
    BY <1>1, <1>2, <2>1, GoodTypes DEF Expr, Stays, SameLocals, SameEnv
  <2>9. Rel(c, s, t1)
    BY <1>1, <1>2, <2>1, <2>2, AtConsume, ExprKeeps
  <2> QED BY <2>9, FulfilsNone
<1> QED BY <1>3, <1>4, Step1

\* or it is missing.
LEMMA ConsumeMisses ==
  ASSUME NEW s, Good(s), NEW c, c[1] = "consume", Pre(c, s)
  PROVE  Fulfils(<<Error>>, s, c, s)
<1>1. s.level > 0
  BY AtConsume
<1>2. s.level > 0 /\ Expr(s, s, 0)
  BY <1>1, ExprOKIs, ExprSelf
<1>3. Pre(Error, s)
  BY <1>1, <1>2, CanError, ExprOKIs
<1>4. ASSUME NEW t1, Rel(Error, s, t1)
      PROVE  Fulfils(<<>>, t1, c, s)
  <2>1. Good(t1) /\ Expr(s, t1, 0) /\ t1.err
    BY <1>4, OfError
  <2>2. Expr(s, t1, 0) /\ t1.err
    BY <1>1, <1>2, <2>1, GoodTypes DEF Expr, Stays, SameLocals, SameEnv
  <2>9. Rel(c, s, t1)
    BY <1>1, <1>2, <2>1, <2>2, AtConsume, ExprKeeps
  <2> QED BY <2>9, FulfilsNone
<1> QED BY <1>3, <1>4, Step1

\* advance.
LEMMA AdvanceDoes ==
  ASSUME NEW s, Good(s), NEW c, c[1] = "advance", Pre(c, s),
         NEW u, Good(u), Expr(s, u, 0),
         u.prev = s.cur,
         s.level > 0
  PROVE  Fulfils(<<Call("scan")>>, u, c, s)
<1>1. s.level > 0
  BY AtAdvance
<1>2. s.level > 0 /\ Expr(s, u, 0)
  BY <1>1, ExprOKIs, ExprSelf
<1>3. Pre(Call("scan"), u)
  BY <1>1, <1>2, CanScan, ExprKeeps, ExprOKIs
<1>4. ASSUME NEW t1, Rel(Call("scan"), u, t1)
      PROVE  Fulfils(<<>>, t1, c, s)
  <2>1. Good(t1) /\ Expr(u, t1, 0) /\ t1.prev = u.prev
    BY <1>4, OfScan
  <2>2. Expr(s, t1, 0) /\ t1.prev = s.cur
    BY <1>1, <1>2, <2>1, GoodTypes DEF Expr, Stays, SameLocals, SameEnv
  <2>9. Rel(c, s, t1)
    BY <1>1, <1>2, <2>1, <2>2, AtAdvance, ExprKeeps
  <2> QED BY <2>9, FulfilsNone
<1> QED BY <1>3, <1>4, Step1

-----------------------------------------------------------------------------
(* Statements *)

\* A statement: printStatement,
LEMMA PrintDoes ==
  ASSUME NEW s, Good(s), NEW c, c[1] = "statement", Pre(c, s)
  PROVE  Fulfils(<<Advance, Expression, Consume(";"), Emit(-1)>>, s, c, s)
<1>1. StmtOK(s, 0)
  BY AtStatement
<1>2. s.level > 0 /\ Tidy(s) /\ ExprOK(s) /\ Stmt(s, s, 0)
  BY <1>1, ExprOKIs, StmtSelf DEF StmtOK
<1>3. Pre(Advance, s)
  BY <1>1, <1>2, CanAdvance
<1>4. ASSUME NEW t1, Rel(Advance, s, t1)
      PROVE  Fulfils(<<Expression, Consume(";"), Emit(-1)>>, t1, c, s)
  <2>1. Good(t1) /\ Expr(s, t1, 0) /\ t1.prev = s.cur
    BY <1>4, OfAdvance
  <2>2. Tidy(t1)
    BY <1>2, <2>1, ExprKeeps DEF StmtOK
  <2>3. Stmt(s, t1, 0) /\ t1.classes = s.classes
    BY <1>1, <1>2, <2>1, <2>2, GoodTypes DEF Stmt, Expr, Stays, SameLocals, SameEnv
  <2>4. StmtOK(t1, 0) /\ ExprOK(t1) /\ t1.level > 0
    BY <1>1, <2>1, <2>3, StmtKeeps, ExprOKIs
  <2>5. Pre(Expression, t1)
    BY <1>1, <1>2, <2>1, <2>3, <2>4, CanExpression
  <2>6. ASSUME NEW t2, Rel(Expression, t1, t2)
        PROVE  Fulfils(<<Consume(";"), Emit(-1)>>, t2, c, s)
    <3>1. Good(t2) /\ Expr(t1, t2, 1)
      BY <2>6, OfExpression
    <3>2. Tidy(t2)
      BY <2>4, <3>1, ExprKeeps DEF StmtOK
    <3>3. Stmt(s, t2, 1) /\ t2.classes = s.classes
      BY <1>1, <1>2, <2>1, <2>3, <3>1, <3>2, GoodTypes DEF Stmt, Expr, Stays, SameLocals, SameEnv
    <3>4. StmtOK(t2, 1) /\ ExprOK(t2) /\ t2.level > 0
      BY <1>1, <3>1, <3>3, StmtKeeps, ExprOKIs
    <3>5. Pre(Consume(";"), t2)
      BY <1>1, <1>2, <3>1, <3>3, <3>4, CanConsume
    <3>6. ASSUME NEW t3, Rel(Consume(";"), t2, t3)
          PROVE  Fulfils(<<Emit(-1)>>, t3, c, s)
      <4>1. Good(t3) /\ Expr(t2, t3, 0) /\ (";" = "id" /\ ~t3.err => t3.prev \in Names)
        BY <3>6, OfConsume
      <4>2. Tidy(t3)
        BY <3>4, <4>1, ExprKeeps DEF StmtOK
      <4>3. Stmt(s, t3, 1) /\ t3.classes = s.classes
        BY <1>1, <1>2, <3>1, <3>3, <4>1, <4>2, GoodTypes DEF Stmt, Expr, Stays, SameLocals,
           SameEnv
      <4>4. StmtOK(t3, 1) /\ ExprOK(t3) /\ t3.level > 0
        BY <1>1, <4>1, <4>3, StmtKeeps, ExprOKIs
      <4>5. Pre(Emit(-1), t3)
        BY <1>1, <1>2, <4>1, <4>3, <4>4, CanEmit
      <4>6. ASSUME NEW t4, Rel(Emit(-1), t3, t4)
            PROVE  Fulfils(<<>>, t4, c, s)
        <5>1. Good(t4) /\ Expr(t3, t4, -1)
          BY <4>6, OfEmit
        <5>2. Tidy(t4)
          BY <4>4, <5>1, ExprKeeps DEF StmtOK
        <5>3. Stmt(s, t4, 0) /\ t4.classes = s.classes
          BY <1>1, <1>2, <4>1, <4>3, <5>1, <5>2, GoodTypes DEF Stmt, Expr, Stays, SameLocals,
             SameEnv
        <5>4. StmtOK(t4, 0) /\ ExprOK(t4) /\ t4.level > 0
          BY <1>1, <5>1, <5>3, StmtKeeps, ExprOKIs
        <5>9. Rel(c, s, t4)
          BY <1>1, <1>2, <5>1, <5>3, <5>4, AtStatement, StmtErr
        <5> QED BY <5>9, FulfilsNone
      <4> QED BY <4>5, <4>6, Step1
    <3> QED BY <3>5, <3>6, Step2
  <2> QED BY <2>5, <2>6, Step3
<1> QED BY <1>3, <1>4, Step4

\* expressionStatement,
LEMMA ExpressionStatementDoes ==
  ASSUME NEW s, Good(s), NEW c, c[1] = "statement", Pre(c, s)
  PROVE  Fulfils(<<Expression, Consume(";"), Emit(-1)>>, s, c, s)
<1>1. StmtOK(s, 0)
  BY AtStatement
<1>2. s.level > 0 /\ Tidy(s) /\ ExprOK(s) /\ Stmt(s, s, 0)
  BY <1>1, ExprOKIs, StmtSelf DEF StmtOK
<1>3. Pre(Expression, s)
  BY <1>1, <1>2, CanExpression
<1>4. ASSUME NEW t1, Rel(Expression, s, t1)
      PROVE  Fulfils(<<Consume(";"), Emit(-1)>>, t1, c, s)
  <2>1. Good(t1) /\ Expr(s, t1, 1)
    BY <1>4, OfExpression
  <2>2. Tidy(t1)
    BY <1>2, <2>1, ExprKeeps DEF StmtOK
  <2>3. Stmt(s, t1, 1) /\ t1.classes = s.classes
    BY <1>1, <1>2, <2>1, <2>2, GoodTypes DEF Stmt, Expr, Stays, SameLocals, SameEnv
  <2>4. StmtOK(t1, 1) /\ ExprOK(t1) /\ t1.level > 0
    BY <1>1, <2>1, <2>3, StmtKeeps, ExprOKIs
  <2>5. Pre(Consume(";"), t1)
    BY <1>1, <1>2, <2>1, <2>3, <2>4, CanConsume
  <2>6. ASSUME NEW t2, Rel(Consume(";"), t1, t2)
        PROVE  Fulfils(<<Emit(-1)>>, t2, c, s)
    <3>1. Good(t2) /\ Expr(t1, t2, 0) /\ (";" = "id" /\ ~t2.err => t2.prev \in Names)
      BY <2>6, OfConsume
    <3>2. Tidy(t2)
      BY <2>4, <3>1, ExprKeeps DEF StmtOK
    <3>3. Stmt(s, t2, 1) /\ t2.classes = s.classes
      BY <1>1, <1>2, <2>1, <2>3, <3>1, <3>2, GoodTypes DEF Stmt, Expr, Stays, SameLocals, SameEnv
    <3>4. StmtOK(t2, 1) /\ ExprOK(t2) /\ t2.level > 0
      BY <1>1, <3>1, <3>3, StmtKeeps, ExprOKIs
    <3>5. Pre(Emit(-1), t2)
      BY <1>1, <1>2, <3>1, <3>3, <3>4, CanEmit
    <3>6. ASSUME NEW t3, Rel(Emit(-1), t2, t3)
          PROVE  Fulfils(<<>>, t3, c, s)
      <4>1. Good(t3) /\ Expr(t2, t3, -1)
        BY <3>6, OfEmit
      <4>2. Tidy(t3)
        BY <3>4, <4>1, ExprKeeps DEF StmtOK
      <4>3. Stmt(s, t3, 0) /\ t3.classes = s.classes
        BY <1>1, <1>2, <3>1, <3>3, <4>1, <4>2, GoodTypes DEF Stmt, Expr, Stays, SameLocals,
           SameEnv
      <4>4. StmtOK(t3, 0) /\ ExprOK(t3) /\ t3.level > 0
        BY <1>1, <4>1, <4>3, StmtKeeps, ExprOKIs
      <4>9. Rel(c, s, t3)
        BY <1>1, <1>2, <4>1, <4>3, <4>4, AtStatement, StmtErr
      <4> QED BY <4>9, FulfilsNone
    <3> QED BY <3>5, <3>6, Step1
  <2> QED BY <2>5, <2>6, Step2
<1> QED BY <1>3, <1>4, Step3

\* ifStatement,
LEMMA IfDoes ==
  ASSUME NEW s, Good(s), NEW c, c[1] = "statement", Pre(c, s)
  PROVE  Fulfils(<<Advance, Consume("("), Expression, Consume(")"), Call("ifThen")>>, s, c, s)
<1>1. StmtOK(s, 0)
  BY AtStatement
<1>2. s.level > 0 /\ Tidy(s) /\ ExprOK(s) /\ Stmt(s, s, 0)
  BY <1>1, ExprOKIs, StmtSelf DEF StmtOK
<1>3. Pre(Advance, s)
  BY <1>1, <1>2, CanAdvance
<1>4. ASSUME NEW t1, Rel(Advance, s, t1)
      PROVE  Fulfils(<<Consume("("), Expression, Consume(")"), Call("ifThen")>>, t1, c, s)
  <2>1. Good(t1) /\ Expr(s, t1, 0) /\ t1.prev = s.cur
    BY <1>4, OfAdvance
  <2>2. Tidy(t1)
    BY <1>2, <2>1, ExprKeeps DEF StmtOK
  <2>3. Stmt(s, t1, 0) /\ t1.classes = s.classes
    BY <1>1, <1>2, <2>1, <2>2, GoodTypes DEF Stmt, Expr, Stays, SameLocals, SameEnv
  <2>4. StmtOK(t1, 0) /\ ExprOK(t1) /\ t1.level > 0
    BY <1>1, <2>1, <2>3, StmtKeeps, ExprOKIs
  <2>5. Pre(Consume("("), t1)
    BY <1>1, <1>2, <2>1, <2>3, <2>4, CanConsume
  <2>6. ASSUME NEW t2, Rel(Consume("("), t1, t2)
        PROVE  Fulfils(<<Expression, Consume(")"), Call("ifThen")>>, t2, c, s)
    <3>1. Good(t2) /\ Expr(t1, t2, 0) /\ ("(" = "id" /\ ~t2.err => t2.prev \in Names)
      BY <2>6, OfConsume
    <3>2. Tidy(t2)
      BY <2>4, <3>1, ExprKeeps DEF StmtOK
    <3>3. Stmt(s, t2, 0) /\ t2.classes = s.classes
      BY <1>1, <1>2, <2>1, <2>3, <3>1, <3>2, GoodTypes DEF Stmt, Expr, Stays, SameLocals, SameEnv
    <3>4. StmtOK(t2, 0) /\ ExprOK(t2) /\ t2.level > 0
      BY <1>1, <3>1, <3>3, StmtKeeps, ExprOKIs
    <3>5. Pre(Expression, t2)
      BY <1>1, <1>2, <3>1, <3>3, <3>4, CanExpression
    <3>6. ASSUME NEW t3, Rel(Expression, t2, t3)
          PROVE  Fulfils(<<Consume(")"), Call("ifThen")>>, t3, c, s)
      <4>1. Good(t3) /\ Expr(t2, t3, 1)
        BY <3>6, OfExpression
      <4>2. Tidy(t3)
        BY <3>4, <4>1, ExprKeeps DEF StmtOK
      <4>3. Stmt(s, t3, 1) /\ t3.classes = s.classes
        BY <1>1, <1>2, <3>1, <3>3, <4>1, <4>2, GoodTypes DEF Stmt, Expr, Stays, SameLocals,
           SameEnv
      <4>4. StmtOK(t3, 1) /\ ExprOK(t3) /\ t3.level > 0
        BY <1>1, <4>1, <4>3, StmtKeeps, ExprOKIs
      <4>5. Pre(Consume(")"), t3)
        BY <1>1, <1>2, <4>1, <4>3, <4>4, CanConsume
      <4>6. ASSUME NEW t4, Rel(Consume(")"), t3, t4)
            PROVE  Fulfils(<<Call("ifThen")>>, t4, c, s)
        <5>1. Good(t4) /\ Expr(t3, t4, 0) /\ (")" = "id" /\ ~t4.err => t4.prev \in Names)
          BY <4>6, OfConsume
        <5>2. Tidy(t4)
          BY <4>4, <5>1, ExprKeeps DEF StmtOK
        <5>3. Stmt(s, t4, 1) /\ t4.classes = s.classes
          BY <1>1, <1>2, <4>1, <4>3, <5>1, <5>2, GoodTypes DEF Stmt, Expr, Stays, SameLocals,
             SameEnv
        <5>4. StmtOK(t4, 1) /\ ExprOK(t4) /\ t4.level > 0
          BY <1>1, <5>1, <5>3, StmtKeeps, ExprOKIs
        <5>5. Pre(Call("ifThen"), t4)
          BY <1>1, <1>2, <5>1, <5>3, <5>4, CanIfThen
        <5>6. ASSUME NEW t5, Rel(Call("ifThen"), t4, t5)
              PROVE  Fulfils(<<>>, t5, c, s)
          <6>1. Good(t5) /\ Stmt(t4, t5, -1) /\ t5.classes = t4.classes
            BY <5>6, OfIfThen
          <6>2. Stmt(s, t5, 0) /\ t5.classes = s.classes
            BY <1>1, <1>2, <5>1, <5>3, <6>1, GoodTypes DEF Stmt, Stays, SameLocals, SameEnv
          <6>3. StmtOK(t5, 0) /\ ExprOK(t5) /\ t5.level > 0
            BY <1>1, <6>1, <6>2, StmtKeeps, ExprOKIs
          <6>9. Rel(c, s, t5)
            BY <1>1, <1>2, <6>1, <6>2, <6>3, AtStatement, StmtErr
          <6> QED BY <6>9, FulfilsNone
        <5> QED BY <5>5, <5>6, Step1
      <4> QED BY <4>5, <4>6, Step2
    <3> QED BY <3>5, <3>6, Step3
  <2> QED BY <2>5, <2>6, Step4
<1> QED BY <1>3, <1>4, Step5

\* whileStatement,
LEMMA WhileDoes ==
  ASSUME NEW s, Good(s), NEW c, c[1] = "statement", Pre(c, s), NEW h, h = s.top.height
  PROVE  Fulfils(<<Advance, Consume("("), Expression, Consume(")"), <<"whileBody", h>>>>, s, c, s)
<1>1. StmtOK(s, 0)
  BY AtStatement
<1>2. s.level > 0 /\ Tidy(s) /\ ExprOK(s) /\ Stmt(s, s, 0)
  BY <1>1, ExprOKIs, StmtSelf DEF StmtOK
<1>3. Pre(Advance, s)
  BY <1>1, <1>2, CanAdvance
<1>4. ASSUME NEW t1, Rel(Advance, s, t1)
      PROVE  Fulfils(<<Consume("("), Expression, Consume(")"), <<"whileBody", h>>>>, t1, c, s)
  <2>1. Good(t1) /\ Expr(s, t1, 0) /\ t1.prev = s.cur
    BY <1>4, OfAdvance
  <2>2. Tidy(t1)
    BY <1>2, <2>1, ExprKeeps DEF StmtOK
  <2>3. Stmt(s, t1, 0) /\ t1.classes = s.classes
    BY <1>1, <1>2, <2>1, <2>2, GoodTypes DEF Stmt, Expr, Stays, SameLocals, SameEnv
  <2>4. StmtOK(t1, 0) /\ ExprOK(t1) /\ t1.level > 0
    BY <1>1, <2>1, <2>3, StmtKeeps, ExprOKIs
  <2>5. Pre(Consume("("), t1)
    BY <1>1, <1>2, <2>1, <2>3, <2>4, CanConsume
  <2>6. ASSUME NEW t2, Rel(Consume("("), t1, t2)
        PROVE  Fulfils(<<Expression, Consume(")"), <<"whileBody", h>>>>, t2, c, s)
    <3>1. Good(t2) /\ Expr(t1, t2, 0) /\ ("(" = "id" /\ ~t2.err => t2.prev \in Names)
      BY <2>6, OfConsume
    <3>2. Tidy(t2)
      BY <2>4, <3>1, ExprKeeps DEF StmtOK
    <3>3. Stmt(s, t2, 0) /\ t2.classes = s.classes
      BY <1>1, <1>2, <2>1, <2>3, <3>1, <3>2, GoodTypes DEF Stmt, Expr, Stays, SameLocals, SameEnv
    <3>4. StmtOK(t2, 0) /\ ExprOK(t2) /\ t2.level > 0
      BY <1>1, <3>1, <3>3, StmtKeeps, ExprOKIs
    <3>5. Pre(Expression, t2)
      BY <1>1, <1>2, <3>1, <3>3, <3>4, CanExpression
    <3>6. ASSUME NEW t3, Rel(Expression, t2, t3)
          PROVE  Fulfils(<<Consume(")"), <<"whileBody", h>>>>, t3, c, s)
      <4>1. Good(t3) /\ Expr(t2, t3, 1)
        BY <3>6, OfExpression
      <4>2. Tidy(t3)
        BY <3>4, <4>1, ExprKeeps DEF StmtOK
      <4>3. Stmt(s, t3, 1) /\ t3.classes = s.classes
        BY <1>1, <1>2, <3>1, <3>3, <4>1, <4>2, GoodTypes DEF Stmt, Expr, Stays, SameLocals,
           SameEnv
      <4>4. StmtOK(t3, 1) /\ ExprOK(t3) /\ t3.level > 0
        BY <1>1, <4>1, <4>3, StmtKeeps, ExprOKIs
      <4>5. Pre(Consume(")"), t3)
        BY <1>1, <1>2, <4>1, <4>3, <4>4, CanConsume
      <4>6. ASSUME NEW t4, Rel(Consume(")"), t3, t4)
            PROVE  Fulfils(<<<<"whileBody", h>>>>, t4, c, s)
        <5>1. Good(t4) /\ Expr(t3, t4, 0) /\ (")" = "id" /\ ~t4.err => t4.prev \in Names)
          BY <4>6, OfConsume
        <5>2. Tidy(t4)
          BY <4>4, <5>1, ExprKeeps DEF StmtOK
        <5>3. Stmt(s, t4, 1) /\ t4.classes = s.classes
          BY <1>1, <1>2, <4>1, <4>3, <5>1, <5>2, GoodTypes DEF Stmt, Expr, Stays, SameLocals,
             SameEnv
        <5>4. StmtOK(t4, 1) /\ ExprOK(t4) /\ t4.level > 0
          BY <1>1, <5>1, <5>3, StmtKeeps, ExprOKIs
        <5>5. Pre(<<"whileBody", h>>, t4)
          BY <1>1, <1>2, <5>1, <5>3, <5>4, CanWhileBody, GoodTypes DEF Stmt, Stays, StmtOK, Temps
        <5>6. ASSUME NEW t5, Rel(<<"whileBody", h>>, t4, t5)
              PROVE  Fulfils(<<>>, t5, c, s)
          <6>1. Good(t5) /\ Stmt(t4, t5, -1) /\ t5.classes = t4.classes
            BY <5>6, OfWhileBody
          <6>2. Stmt(s, t5, 0) /\ t5.classes = s.classes
            BY <1>1, <1>2, <5>1, <5>3, <6>1, GoodTypes DEF Stmt, Stays, SameLocals, SameEnv
          <6>3. StmtOK(t5, 0) /\ ExprOK(t5) /\ t5.level > 0
            BY <1>1, <6>1, <6>2, StmtKeeps, ExprOKIs
          <6>9. Rel(c, s, t5)
            BY <1>1, <1>2, <6>1, <6>2, <6>3, AtStatement, StmtErr
          <6> QED BY <6>9, FulfilsNone
        <5> QED BY <5>5, <5>6, Step1
      <4> QED BY <4>5, <4>6, Step2
    <3> QED BY <3>5, <3>6, Step3
  <2> QED BY <2>5, <2>6, Step4
<1> QED BY <1>3, <1>4, Step5

\* returnStatement.
LEMMA ReturnDoes ==
  ASSUME NEW s, Good(s), NEW c, c[1] = "statement", Pre(c, s)
  PROVE  Fulfils(<<Advance, Call("returnStatement")>>, s, c, s)
<1>1. StmtOK(s, 0)
  BY AtStatement
<1>2. s.level > 0 /\ Tidy(s) /\ ExprOK(s) /\ Stmt(s, s, 0)
  BY <1>1, ExprOKIs, StmtSelf DEF StmtOK
<1>3. Pre(Advance, s)
  BY <1>1, <1>2, CanAdvance
<1>4. ASSUME NEW t1, Rel(Advance, s, t1)
      PROVE  Fulfils(<<Call("returnStatement")>>, t1, c, s)
  <2>1. Good(t1) /\ Expr(s, t1, 0) /\ t1.prev = s.cur
    BY <1>4, OfAdvance
  <2>2. Tidy(t1)
    BY <1>2, <2>1, ExprKeeps DEF StmtOK
  <2>3. Stmt(s, t1, 0) /\ t1.classes = s.classes
    BY <1>1, <1>2, <2>1, <2>2, GoodTypes DEF Stmt, Expr, Stays, SameLocals, SameEnv
  <2>4. StmtOK(t1, 0) /\ ExprOK(t1) /\ t1.level > 0
    BY <1>1, <2>1, <2>3, StmtKeeps, ExprOKIs
  <2>5. Pre(Call("returnStatement"), t1)
    BY <1>1, <1>2, <2>1, <2>3, <2>4, CanReturnStatement
  <2>6. ASSUME NEW t2, Rel(Call("returnStatement"), t1, t2)
        PROVE  Fulfils(<<>>, t2, c, s)
    <3>1. Good(t2) /\ Expr(t1, t2, 0)
      BY <2>6, OfReturnStatement
    <3>2. Tidy(t2)
      BY <2>4, <3>1, ExprKeeps DEF StmtOK
    <3>3. Stmt(s, t2, 0) /\ t2.classes = s.classes
      BY <1>1, <1>2, <2>1, <2>3, <3>1, <3>2, GoodTypes DEF Stmt, Expr, Stays, SameLocals, SameEnv
    <3>4. StmtOK(t2, 0) /\ ExprOK(t2) /\ t2.level > 0
      BY <1>1, <3>1, <3>3, StmtKeeps, ExprOKIs
    <3>9. Rel(c, s, t2)
      BY <1>1, <1>2, <3>1, <3>3, <3>4, AtStatement, StmtErr
    <3> QED BY <3>9, FulfilsNone
  <2> QED BY <2>5, <2>6, Step1
<1> QED BY <1>3, <1>4, Step2

\* ifStatement behind its condition,
LEMMA IfThenDoes ==
  ASSUME NEW s, Good(s), NEW c, c[1] = "ifThen", Pre(c, s), NEW h, h = s.top.height
  PROVE  Fulfils(<<Emit(-1), Call("statement"), <<"ifElse", h>>>>, s, c, s)
<1>1. StmtOK(s, 1)
  BY AtIfThen
<1>2. s.level > 0 /\ Tidy(s) /\ ExprOK(s) /\ Stmt(s, s, 0)
  BY <1>1, ExprOKIs, StmtSelf DEF StmtOK
<1>3. Pre(Emit(-1), s)
  BY <1>1, <1>2, CanEmit
<1>4. ASSUME NEW t1, Rel(Emit(-1), s, t1)
      PROVE  Fulfils(<<Call("statement"), <<"ifElse", h>>>>, t1, c, s)
  <2>1. Good(t1) /\ Expr(s, t1, -1)
    BY <1>4, OfEmit
  <2>2. Tidy(t1)
    BY <1>2, <2>1, ExprKeeps DEF StmtOK
  <2>3. Stmt(s, t1, -1) /\ t1.classes = s.classes
    BY <1>1, <1>2, <2>1, <2>2, GoodTypes DEF Stmt, Expr, Stays, SameLocals, SameEnv
  <2>4. StmtOK(t1, 0) /\ ExprOK(t1) /\ t1.level > 0
    BY <1>1, <2>1, <2>3, StmtKeeps, ExprOKIs
  <2>5. Pre(Call("statement"), t1)
    BY <1>1, <1>2, <2>1, <2>3, <2>4, CanStatement
  <2>6. ASSUME NEW t2, Rel(Call("statement"), t1, t2)
        PROVE  Fulfils(<<<<"ifElse", h>>>>, t2, c, s)
    <3>1. Good(t2) /\ Stmt(t1, t2, 0) /\ t2.classes = t1.classes
      BY <2>6, OfStatement
    <3>2. Stmt(s, t2, -1) /\ t2.classes = s.classes
      BY <1>1, <1>2, <2>1, <2>3, <3>1, GoodTypes DEF Stmt, Stays, SameLocals, SameEnv
    <3>3. StmtOK(t2, 0) /\ ExprOK(t2) /\ t2.level > 0
      BY <1>1, <3>1, <3>2, StmtKeeps, ExprOKIs
    <3>4. Pre(<<"ifElse", h>>, t2)
      BY <1>1, <1>2, <3>1, <3>2, <3>3, CanIfElse, GoodTypes DEF Stmt, Stays, StmtOK, Temps
    <3>5. ASSUME NEW t3, Rel(<<"ifElse", h>>, t2, t3)
          PROVE  Fulfils(<<>>, t3, c, s)
      <4>1. Good(t3) /\ Stmt(t2, t3, 0) /\ t3.classes = t2.classes
        BY <3>5, OfIfElse
      <4>2. Stmt(s, t3, -1) /\ t3.classes = s.classes
        BY <1>1, <1>2, <3>1, <3>2, <4>1, GoodTypes DEF Stmt, Stays, SameLocals, SameEnv
      <4>3. StmtOK(t3, 0) /\ ExprOK(t3) /\ t3.level > 0
        BY <1>1, <4>1, <4>2, StmtKeeps, ExprOKIs
      <4>9. Rel(c, s, t3)
        BY <1>1, <1>2, <4>1, <4>2, <4>3, AtIfThen, StmtErr
      <4> QED BY <4>9, FulfilsNone
    <3> QED BY <3>4, <3>5, Step1
  <2> QED BY <2>5, <2>6, Step2
<1> QED BY <1>3, <1>4, Step3

\* and behind its first branch.
LEMMA IfElseDoes ==
  ASSUME NEW s, Good(s), NEW c, c[1] = "ifElse", Pre(c, s), NEW h, h = s.top.height
  PROVE  Fulfils(<<<<"land", c[2]>>, Emit(-1), Call("else"), <<"meet", h>>>>, s, c, s)
<1>1. StmtOK(s, 0) /\ c[2] \in Int /\ (~s.err => c[2] = s.top.height + 1)
  BY AtIfElse
<1>2. s.level > 0 /\ Tidy(s) /\ ExprOK(s) /\ Stmt(s, s, 0)
  BY <1>1, ExprOKIs, StmtSelf DEF StmtOK
<1>3. Pre(<<"land", c[2]>>, s)
  BY <1>1, <1>2, CanLand, GoodTypes
<1>4. ASSUME NEW t1, Rel(<<"land", c[2]>>, s, t1)
      PROVE  Fulfils(<<Emit(-1), Call("else"), <<"meet", h>>>>, t1, c, s)
  <2>1. Good(t1) /\ Expr(s, t1, c[2] - s.top.height)
    BY <1>4, OfLand
  <2>2. Tidy(t1)
    BY <1>2, <2>1, ExprKeeps DEF StmtOK
  <2>3. Stmt(s, t1, 1) /\ t1.classes = s.classes
    BY <1>1, <1>2, <2>1, <2>2, GoodTypes DEF Stmt, Expr, Stays, SameLocals, SameEnv
  <2>4. StmtOK(t1, 1) /\ ExprOK(t1) /\ t1.level > 0
    BY <1>1, <2>1, <2>3, StmtKeeps, ExprOKIs
  <2>5. Pre(Emit(-1), t1)
    BY <1>1, <1>2, <2>1, <2>3, <2>4, CanEmit
  <2>6. ASSUME NEW t2, Rel(Emit(-1), t1, t2)
        PROVE  Fulfils(<<Call("else"), <<"meet", h>>>>, t2, c, s)
    <3>1. Good(t2) /\ Expr(t1, t2, -1)
      BY <2>6, OfEmit
    <3>2. Tidy(t2)
      BY <2>4, <3>1, ExprKeeps DEF StmtOK
    <3>3. Stmt(s, t2, 0) /\ t2.classes = s.classes
      BY <1>1, <1>2, <2>1, <2>3, <3>1, <3>2, GoodTypes DEF Stmt, Expr, Stays, SameLocals, SameEnv
    <3>4. StmtOK(t2, 0) /\ ExprOK(t2) /\ t2.level > 0
      BY <1>1, <3>1, <3>3, StmtKeeps, ExprOKIs
    <3>5. Pre(Call("else"), t2)
      BY <1>1, <1>2, <3>1, <3>3, <3>4, CanElse
    <3>6. ASSUME NEW t3, Rel(Call("else"), t2, t3)
          PROVE  Fulfils(<<<<"meet", h>>>>, t3, c, s)
      <4>1. Good(t3) /\ Stmt(t2, t3, 0) /\ t3.classes = t2.classes
        BY <3>6, OfElse
      <4>2. Stmt(s, t3, 0) /\ t3.classes = s.classes
        BY <1>1, <1>2, <3>1, <3>3, <4>1, GoodTypes DEF Stmt, Stays, SameLocals, SameEnv
      <4>3. StmtOK(t3, 0) /\ ExprOK(t3) /\ t3.level > 0
        BY <1>1, <4>1, <4>2, StmtKeeps, ExprOKIs
      <4>4. Pre(<<"meet", h>>, t3)
        BY <1>1, <1>2, <4>1, <4>2, <4>3, CanMeet, GoodTypes DEF Stmt, Stays, StmtOK, Temps
      <4>5. ASSUME NEW t4, Rel(<<"meet", h>>, t3, t4)
            PROVE  Fulfils(<<>>, t4, c, s)
        <5>1. Good(t4) /\ Expr(t3, t4, 0)
          BY <4>5, OfMeet
        <5>2. Tidy(t4)
          BY <4>3, <5>1, ExprKeeps DEF StmtOK
        <5>3. Stmt(s, t4, 0) /\ t4.classes = s.classes
          BY <1>1, <1>2, <4>1, <4>2, <5>1, <5>2, GoodTypes DEF Stmt, Expr, Stays, SameLocals,
             SameEnv
        <5>4. StmtOK(t4, 0) /\ ExprOK(t4) /\ t4.level > 0
          BY <1>1, <5>1, <5>3, StmtKeeps, ExprOKIs
        <5>9. Rel(c, s, t4)
          BY <1>1, <1>2, <5>1, <5>3, <5>4, AtIfElse, StmtErr
        <5> QED BY <5>9, FulfilsNone
      <4> QED BY <4>4, <4>5, Step1
    <3> QED BY <3>5, <3>6, Step2
  <2> QED BY <2>5, <2>6, Step3
<1> QED BY <1>3, <1>4, Step4

\* The second branch.
LEMMA ElseDoes ==
  ASSUME NEW s, Good(s), NEW c, c[1] = "else", Pre(c, s)
  PROVE  Fulfils(<<Advance, Call("statement")>>, s, c, s)
<1>1. StmtOK(s, 0)
  BY AtElse
<1>2. s.level > 0 /\ Tidy(s) /\ ExprOK(s) /\ Stmt(s, s, 0)
  BY <1>1, ExprOKIs, StmtSelf DEF StmtOK
<1>3. Pre(Advance, s)
  BY <1>1, <1>2, CanAdvance
<1>4. ASSUME NEW t1, Rel(Advance, s, t1)
      PROVE  Fulfils(<<Call("statement")>>, t1, c, s)
  <2>1. Good(t1) /\ Expr(s, t1, 0) /\ t1.prev = s.cur
    BY <1>4, OfAdvance
  <2>2. Tidy(t1)
    BY <1>2, <2>1, ExprKeeps DEF StmtOK
  <2>3. Stmt(s, t1, 0) /\ t1.classes = s.classes
    BY <1>1, <1>2, <2>1, <2>2, GoodTypes DEF Stmt, Expr, Stays, SameLocals, SameEnv
  <2>4. StmtOK(t1, 0) /\ ExprOK(t1) /\ t1.level > 0
    BY <1>1, <2>1, <2>3, StmtKeeps, ExprOKIs
  <2>5. Pre(Call("statement"), t1)
    BY <1>1, <1>2, <2>1, <2>3, <2>4, CanStatement
  <2>6. ASSUME NEW t2, Rel(Call("statement"), t1, t2)
        PROVE  Fulfils(<<>>, t2, c, s)
    <3>1. Good(t2) /\ Stmt(t1, t2, 0) /\ t2.classes = t1.classes
      BY <2>6, OfStatement
    <3>2. Stmt(s, t2, 0) /\ t2.classes = s.classes
      BY <1>1, <1>2, <2>1, <2>3, <3>1, GoodTypes DEF Stmt, Stays, SameLocals, SameEnv
    <3>3. StmtOK(t2, 0) /\ ExprOK(t2) /\ t2.level > 0
      BY <1>1, <3>1, <3>2, StmtKeeps, ExprOKIs
    <3>9. Rel(c, s, t2)
      BY <1>1, <1>2, <3>1, <3>2, <3>3, AtElse, StmtErr
    <3> QED BY <3>9, FulfilsNone
  <2> QED BY <2>5, <2>6, Step1
<1> QED BY <1>3, <1>4, Step2

\* whileStatement behind its condition.
LEMMA WhileBodyDoes ==
  ASSUME NEW s, Good(s), NEW c, c[1] = "whileBody", Pre(c, s), NEW h, h = s.top.height
  PROVE  Fulfils(<<Emit(-1), Call("statement"), <<"meet", c[2]>>, <<"land", h>>, Emit(-1)>>, s, c, s)
<1>1. StmtOK(s, 1) /\ c[2] \in Int /\ (~s.err => c[2] = s.top.height - 1)
  BY AtWhileBody
<1>2. s.level > 0 /\ Tidy(s) /\ ExprOK(s) /\ Stmt(s, s, 0)
  BY <1>1, ExprOKIs, StmtSelf DEF StmtOK
<1>3. Pre(Emit(-1), s)
  BY <1>1, <1>2, CanEmit
<1>4. ASSUME NEW t1, Rel(Emit(-1), s, t1)
      PROVE  Fulfils(<<Call("statement"), <<"meet", c[2]>>, <<"land", h>>, Emit(-1)>>, t1, c, s)
  <2>1. Good(t1) /\ Expr(s, t1, -1)
    BY <1>4, OfEmit
  <2>2. Tidy(t1)
    BY <1>2, <2>1, ExprKeeps DEF StmtOK
  <2>3. Stmt(s, t1, -1) /\ t1.classes = s.classes
    BY <1>1, <1>2, <2>1, <2>2, GoodTypes DEF Stmt, Expr, Stays, SameLocals, SameEnv
  <2>4. StmtOK(t1, 0) /\ ExprOK(t1) /\ t1.level > 0
    BY <1>1, <2>1, <2>3, StmtKeeps, ExprOKIs
  <2>5. Pre(Call("statement"), t1)
    BY <1>1, <1>2, <2>1, <2>3, <2>4, CanStatement
  <2>6. ASSUME NEW t2, Rel(Call("statement"), t1, t2)
        PROVE  Fulfils(<<<<"meet", c[2]>>, <<"land", h>>, Emit(-1)>>, t2, c, s)
    <3>1. Good(t2) /\ Stmt(t1, t2, 0) /\ t2.classes = t1.classes
      BY <2>6, OfStatement
    <3>2. Stmt(s, t2, -1) /\ t2.classes = s.classes
      BY <1>1, <1>2, <2>1, <2>3, <3>1, GoodTypes DEF Stmt, Stays, SameLocals, SameEnv
    <3>3. StmtOK(t2, 0) /\ ExprOK(t2) /\ t2.level > 0
      BY <1>1, <3>1, <3>2, StmtKeeps, ExprOKIs
    <3>4. Pre(<<"meet", c[2]>>, t2)
      BY <1>1, <1>2, <3>1, <3>2, <3>3, CanMeet, GoodTypes DEF Stmt, Stays, StmtOK, Temps
    <3>5. ASSUME NEW t3, Rel(<<"meet", c[2]>>, t2, t3)
          PROVE  Fulfils(<<<<"land", h>>, Emit(-1)>>, t3, c, s)
      <4>1. Good(t3) /\ Expr(t2, t3, 0)
        BY <3>5, OfMeet
      <4>2. Tidy(t3)
        BY <3>3, <4>1, ExprKeeps DEF StmtOK
      <4>3. Stmt(s, t3, -1) /\ t3.classes = s.classes
        BY <1>1, <1>2, <3>1, <3>2, <4>1, <4>2, GoodTypes DEF Stmt, Expr, Stays, SameLocals,
           SameEnv
      <4>4. StmtOK(t3, 0) /\ ExprOK(t3) /\ t3.level > 0
        BY <1>1, <4>1, <4>3, StmtKeeps, ExprOKIs
      <4>5. Pre(<<"land", h>>, t3)
        BY <1>1, <1>2, <4>1, <4>3, <4>4, CanLand, GoodTypes
      <4>6. ASSUME NEW t4, Rel(<<"land", h>>, t3, t4)
            PROVE  Fulfils(<<Emit(-1)>>, t4, c, s)
        <5>1. Good(t4) /\ Expr(t3, t4, h - t3.top.height)
          BY <4>6, OfLand
        <5>2. Tidy(t4)
          BY <4>4, <5>1, ExprKeeps DEF StmtOK
        <5>3. Stmt(s, t4, 0) /\ t4.classes = s.classes
          BY <1>1, <1>2, <4>1, <4>3, <5>1, <5>2, GoodTypes DEF Stmt, Expr, Stays, SameLocals,
             SameEnv
        <5>4. StmtOK(t4, 1) /\ ExprOK(t4) /\ t4.level > 0
          BY <1>1, <5>1, <5>3, StmtKeeps, ExprOKIs
        <5>5. Pre(Emit(-1), t4)
          BY <1>1, <1>2, <5>1, <5>3, <5>4, CanEmit
        <5>6. ASSUME NEW t5, Rel(Emit(-1), t4, t5)
              PROVE  Fulfils(<<>>, t5, c, s)
          <6>1. Good(t5) /\ Expr(t4, t5, -1)
            BY <5>6, OfEmit
          <6>2. Tidy(t5)
            BY <5>4, <6>1, ExprKeeps DEF StmtOK
          <6>3. Stmt(s, t5, -1) /\ t5.classes = s.classes
            BY <1>1, <1>2, <5>1, <5>3, <6>1, <6>2, GoodTypes DEF Stmt, Expr, Stays, SameLocals,
               SameEnv
          <6>4. StmtOK(t5, 0) /\ ExprOK(t5) /\ t5.level > 0
            BY <1>1, <6>1, <6>3, StmtKeeps, ExprOKIs
          <6>9. Rel(c, s, t5)
            BY <1>1, <1>2, <6>1, <6>3, <6>4, AtWhileBody, StmtErr
          <6> QED BY <6>9, FulfilsNone
        <5> QED BY <5>5, <5>6, Step1
      <4> QED BY <4>5, <4>6, Step2
    <3> QED BY <3>4, <3>5, Step3
  <2> QED BY <2>5, <2>6, Step4
<1> QED BY <1>3, <1>4, Step5

\* forStatement: no condition,
LEMMA ForAlwaysDoes ==
  ASSUME NEW s, Good(s), NEW c, c[1] = "forCondition", Pre(c, s), NEW h, h = s.top.height
  PROVE  Fulfils(<<Advance, <<"forIncrement", h, <<>>>>>>, s, c, s)
<1>1. StmtOK(s, 0)
  BY AtForCondition
<1>2. s.level > 0 /\ Tidy(s) /\ ExprOK(s) /\ Stmt(s, s, 0)
  BY <1>1, ExprOKIs, StmtSelf DEF StmtOK
<1>3. Pre(Advance, s)
  BY <1>1, <1>2, CanAdvance
<1>4. ASSUME NEW t1, Rel(Advance, s, t1)
      PROVE  Fulfils(<<<<"forIncrement", h, <<>>>>>>, t1, c, s)
  <2>1. Good(t1) /\ Expr(s, t1, 0) /\ t1.prev = s.cur
    BY <1>4, OfAdvance
  <2>2. Tidy(t1)
    BY <1>2, <2>1, ExprKeeps DEF StmtOK
  <2>3. Stmt(s, t1, 0) /\ t1.classes = s.classes
    BY <1>1, <1>2, <2>1, <2>2, GoodTypes DEF Stmt, Expr, Stays, SameLocals, SameEnv
  <2>4. StmtOK(t1, 0) /\ ExprOK(t1) /\ t1.level > 0
    BY <1>1, <2>1, <2>3, StmtKeeps, ExprOKIs
  <2>5. Pre(<<"forIncrement", h, <<>>>>, t1)
    BY <1>1, <1>2, <2>1, <2>3, <2>4, CanForIncrement, GoodTypes DEF Stmt, Stays, ExitOK
  <2>6. ASSUME NEW t2, Rel(<<"forIncrement", h, <<>>>>, t1, t2)
        PROVE  Fulfils(<<>>, t2, c, s)
    <3>1. Good(t2) /\ Stmt(t1, t2, 0) /\ t2.classes = t1.classes
      BY <2>6, OfForIncrement
    <3>2. Stmt(s, t2, 0) /\ t2.classes = s.classes
      BY <1>1, <1>2, <2>1, <2>3, <3>1, GoodTypes DEF Stmt, Stays, SameLocals, SameEnv
    <3>3. StmtOK(t2, 0) /\ ExprOK(t2) /\ t2.level > 0
      BY <1>1, <3>1, <3>2, StmtKeeps, ExprOKIs
    <3>9. Rel(c, s, t2)
      BY <1>1, <1>2, <3>1, <3>2, <3>3, AtForCondition, StmtErr
    <3> QED BY <3>9, FulfilsNone
  <2> QED BY <2>5, <2>6, Step1
<1> QED BY <1>3, <1>4, Step2

\* or a condition.
LEMMA ForConditionDoes ==
  ASSUME NEW s, Good(s), NEW c, c[1] = "forCondition", Pre(c, s), NEW h, h = s.top.height
  PROVE  Fulfils(<<Expression, Consume(";"), <<"forExit", h>>>>, s, c, s)
<1>1. StmtOK(s, 0)
  BY AtForCondition
<1>2. s.level > 0 /\ Tidy(s) /\ ExprOK(s) /\ Stmt(s, s, 0)
  BY <1>1, ExprOKIs, StmtSelf DEF StmtOK
<1>3. Pre(Expression, s)
  BY <1>1, <1>2, CanExpression
<1>4. ASSUME NEW t1, Rel(Expression, s, t1)
      PROVE  Fulfils(<<Consume(";"), <<"forExit", h>>>>, t1, c, s)
  <2>1. Good(t1) /\ Expr(s, t1, 1)
    BY <1>4, OfExpression
  <2>2. Tidy(t1)
    BY <1>2, <2>1, ExprKeeps DEF StmtOK
  <2>3. Stmt(s, t1, 1) /\ t1.classes = s.classes
    BY <1>1, <1>2, <2>1, <2>2, GoodTypes DEF Stmt, Expr, Stays, SameLocals, SameEnv
  <2>4. StmtOK(t1, 1) /\ ExprOK(t1) /\ t1.level > 0
    BY <1>1, <2>1, <2>3, StmtKeeps, ExprOKIs
  <2>5. Pre(Consume(";"), t1)
    BY <1>1, <1>2, <2>1, <2>3, <2>4, CanConsume
  <2>6. ASSUME NEW t2, Rel(Consume(";"), t1, t2)
        PROVE  Fulfils(<<<<"forExit", h>>>>, t2, c, s)
    <3>1. Good(t2) /\ Expr(t1, t2, 0) /\ (";" = "id" /\ ~t2.err => t2.prev \in Names)
      BY <2>6, OfConsume
    <3>2. Tidy(t2)
      BY <2>4, <3>1, ExprKeeps DEF StmtOK
    <3>3. Stmt(s, t2, 1) /\ t2.classes = s.classes
      BY <1>1, <1>2, <2>1, <2>3, <3>1, <3>2, GoodTypes DEF Stmt, Expr, Stays, SameLocals, SameEnv
    <3>4. StmtOK(t2, 1) /\ ExprOK(t2) /\ t2.level > 0
      BY <1>1, <3>1, <3>3, StmtKeeps, ExprOKIs
    <3>5. Pre(<<"forExit", h>>, t2)
      BY <1>1, <1>2, <3>1, <3>3, <3>4, CanForExit, GoodTypes DEF Stmt, Stays, StmtOK, Temps
    <3>6. ASSUME NEW t3, Rel(<<"forExit", h>>, t2, t3)
          PROVE  Fulfils(<<>>, t3, c, s)
      <4>1. Good(t3) /\ Stmt(t2, t3, -1) /\ t3.classes = t2.classes
        BY <3>6, OfForExit
      <4>2. Stmt(s, t3, 0) /\ t3.classes = s.classes
        BY <1>1, <1>2, <3>1, <3>3, <4>1, GoodTypes DEF Stmt, Stays, SameLocals, SameEnv
      <4>3. StmtOK(t3, 0) /\ ExprOK(t3) /\ t3.level > 0
        BY <1>1, <4>1, <4>2, StmtKeeps, ExprOKIs
      <4>9. Rel(c, s, t3)
        BY <1>1, <1>2, <4>1, <4>2, <4>3, AtForCondition, StmtErr
      <4> QED BY <4>9, FulfilsNone
    <3> QED BY <3>5, <3>6, Step1
  <2> QED BY <2>5, <2>6, Step2
<1> QED BY <1>3, <1>4, Step3

\* The loop ends if the condition is false.
LEMMA ForExitDoes ==
  ASSUME NEW s, Good(s), NEW c, c[1] = "forExit", Pre(c, s), NEW h, h = s.top.height
  PROVE  Fulfils(<<Emit(-1), <<"forIncrement", c[2], <<<<"land", h>>, Emit(-1)>>>>>>, s, c, s)
<1>1. StmtOK(s, 1) /\ c[2] \in Int /\ (~s.err => c[2] = s.top.height - 1)
  BY AtForExit
<1>2. s.level > 0 /\ Tidy(s) /\ ExprOK(s) /\ Stmt(s, s, 0)
  BY <1>1, ExprOKIs, StmtSelf DEF StmtOK
<1>3. Pre(Emit(-1), s)
  BY <1>1, <1>2, CanEmit
<1>4. ASSUME NEW t1, Rel(Emit(-1), s, t1)
      PROVE  Fulfils(<<<<"forIncrement", c[2], <<<<"land", h>>, Emit(-1)>>>>>>, t1, c, s)
  <2>1. Good(t1) /\ Expr(s, t1, -1)
    BY <1>4, OfEmit
  <2>2. Tidy(t1)
    BY <1>2, <2>1, ExprKeeps DEF StmtOK
  <2>3. Stmt(s, t1, -1) /\ t1.classes = s.classes
    BY <1>1, <1>2, <2>1, <2>2, GoodTypes DEF Stmt, Expr, Stays, SameLocals, SameEnv
  <2>4. StmtOK(t1, 0) /\ ExprOK(t1) /\ t1.level > 0
    BY <1>1, <2>1, <2>3, StmtKeeps, ExprOKIs
  <2>5. Pre(<<"forIncrement", c[2], <<<<"land", h>>, Emit(-1)>>>>, t1)
    BY <1>1, <1>2, <2>1, <2>3, <2>4, CanForIncrement, GoodTypes, ExitIs, SMTT(30) DEF Stmt, Stays
  <2>6. ASSUME NEW t2, Rel(<<"forIncrement", c[2], <<<<"land", h>>, Emit(-1)>>>>, t1, t2)
        PROVE  Fulfils(<<>>, t2, c, s)
    <3>1. Good(t2) /\ Stmt(t1, t2, 0) /\ t2.classes = t1.classes
      BY <2>6, OfForIncrement
    <3>2. Stmt(s, t2, -1) /\ t2.classes = s.classes
      BY <1>1, <1>2, <2>1, <2>3, <3>1, GoodTypes DEF Stmt, Stays, SameLocals, SameEnv
    <3>3. StmtOK(t2, 0) /\ ExprOK(t2) /\ t2.level > 0
      BY <1>1, <3>1, <3>2, StmtKeeps, ExprOKIs
    <3>9. Rel(c, s, t2)
      BY <1>1, <1>2, <3>1, <3>2, <3>3, AtForExit, StmtErr
    <3> QED BY <3>9, FulfilsNone
  <2> QED BY <2>5, <2>6, Step1
<1> QED BY <1>3, <1>4, Step2

\* The body, without an increment clause
LEMMA ForBodyDoes ==
  ASSUME NEW s, Good(s), NEW c, c[1] = "forIncrement", Pre(c, s)
  PROVE  Fulfils(<<Advance, Call("statement"), <<"meet", c[2]>>>>, s, Call("statement"), s)
<1>1. StmtOK(s, 0) /\ c[2] \in Int /\ (~s.err => c[2] = s.top.height) /\ ExitOK(s, c[3])
  BY AtForIncrement
<1>2. s.level > 0 /\ Tidy(s) /\ ExprOK(s) /\ Stmt(s, s, 0)
  BY <1>1, ExprOKIs, StmtSelf DEF StmtOK
<1>3. Pre(Advance, s)
  BY <1>1, <1>2, CanAdvance
<1>4. ASSUME NEW t1, Rel(Advance, s, t1)
      PROVE  Fulfils(<<Call("statement"), <<"meet", c[2]>>>>, t1, Call("statement"), s)
  <2>1. Good(t1) /\ Expr(s, t1, 0) /\ t1.prev = s.cur
    BY <1>4, OfAdvance
  <2>2. Tidy(t1)
    BY <1>2, <2>1, ExprKeeps DEF StmtOK
  <2>3. Stmt(s, t1, 0) /\ t1.classes = s.classes
    BY <1>1, <1>2, <2>1, <2>2, GoodTypes DEF Stmt, Expr, Stays, SameLocals, SameEnv
  <2>4. StmtOK(t1, 0) /\ ExprOK(t1) /\ t1.level > 0
    BY <1>1, <2>1, <2>3, StmtKeeps, ExprOKIs
  <2>5. Pre(Call("statement"), t1)
    BY <1>1, <1>2, <2>1, <2>3, <2>4, CanStatement
  <2>6. ASSUME NEW t2, Rel(Call("statement"), t1, t2)
        PROVE  Fulfils(<<<<"meet", c[2]>>>>, t2, Call("statement"), s)
    <3>1. Good(t2) /\ Stmt(t1, t2, 0) /\ t2.classes = t1.classes
      BY <2>6, OfStatement
    <3>2. Stmt(s, t2, 0) /\ t2.classes = s.classes
      BY <1>1, <1>2, <2>1, <2>3, <3>1, GoodTypes DEF Stmt, Stays, SameLocals, SameEnv
    <3>3. StmtOK(t2, 0) /\ ExprOK(t2) /\ t2.level > 0
      BY <1>1, <3>1, <3>2, StmtKeeps, ExprOKIs
    <3>4. Pre(<<"meet", c[2]>>, t2)
      BY <1>1, <1>2, <3>1, <3>2, <3>3, CanMeet, GoodTypes DEF Stmt, Stays, StmtOK, Temps
    <3>5. ASSUME NEW t3, Rel(<<"meet", c[2]>>, t2, t3)
          PROVE  Fulfils(<<>>, t3, Call("statement"), s)
      <4>1. Good(t3) /\ Expr(t2, t3, 0)
        BY <3>5, OfMeet
      <4>2. Tidy(t3)
        BY <3>3, <4>1, ExprKeeps DEF StmtOK
      <4>3. Stmt(s, t3, 0) /\ t3.classes = s.classes
        BY <1>1, <1>2, <3>1, <3>2, <4>1, <4>2, GoodTypes DEF Stmt, Expr, Stays, SameLocals,
           SameEnv
      <4>4. StmtOK(t3, 0) /\ ExprOK(t3) /\ t3.level > 0
        BY <1>1, <4>1, <4>3, StmtKeeps, ExprOKIs
      <4>9. Rel(Call("statement"), s, t3)
        BY <1>1, <1>2, <4>1, <4>3, <4>4, OfStatement, StmtErr
      <4> QED BY <4>9, FulfilsNone
    <3> QED BY <3>4, <3>5, Step1
  <2> QED BY <2>5, <2>6, Step2
<1> QED BY <1>3, <1>4, Step3

\* or with one,
LEMMA ForIncrementDoes ==
  ASSUME NEW s, Good(s), NEW c, c[1] = "forIncrement", Pre(c, s), NEW h, h = s.top.height
  PROVE  Fulfils(<<Expression, Emit(-1), Consume(")"), <<"meet", c[2]>>, <<"land", h>>, Call("statement"), <<"meet", h>>>>, s, Call("statement"), s)
<1>1. StmtOK(s, 0) /\ c[2] \in Int /\ (~s.err => c[2] = s.top.height) /\ ExitOK(s, c[3])
  BY AtForIncrement
<1>2. s.level > 0 /\ Tidy(s) /\ ExprOK(s) /\ Stmt(s, s, 0)
  BY <1>1, ExprOKIs, StmtSelf DEF StmtOK
<1>3. Pre(Expression, s)
  BY <1>1, <1>2, CanExpression
<1>4. ASSUME NEW t1, Rel(Expression, s, t1)
      PROVE  Fulfils(<<Emit(-1), Consume(")"), <<"meet", c[2]>>, <<"land", h>>, Call("statement"), <<"meet", h>>>>, t1, Call("statement"), s)
  <2>1. Good(t1) /\ Expr(s, t1, 1)
    BY <1>4, OfExpression
  <2>2. Tidy(t1)
    BY <1>2, <2>1, ExprKeeps DEF StmtOK
  <2>3. Stmt(s, t1, 1) /\ t1.classes = s.classes
    BY <1>1, <1>2, <2>1, <2>2, GoodTypes DEF Stmt, Expr, Stays, SameLocals, SameEnv
  <2>4. StmtOK(t1, 1) /\ ExprOK(t1) /\ t1.level > 0
    BY <1>1, <2>1, <2>3, StmtKeeps, ExprOKIs
  <2>5. Pre(Emit(-1), t1)
    BY <1>1, <1>2, <2>1, <2>3, <2>4, CanEmit
  <2>6. ASSUME NEW t2, Rel(Emit(-1), t1, t2)
        PROVE  Fulfils(<<Consume(")"), <<"meet", c[2]>>, <<"land", h>>, Call("statement"), <<"meet", h>>>>, t2, Call("statement"), s)
    <3>1. Good(t2) /\ Expr(t1, t2, -1)
      BY <2>6, OfEmit
    <3>2. Tidy(t2)
      BY <2>4, <3>1, ExprKeeps DEF StmtOK
    <3>3. Stmt(s, t2, 0) /\ t2.classes = s.classes
      BY <1>1, <1>2, <2>1, <2>3, <3>1, <3>2, GoodTypes DEF Stmt, Expr, Stays, SameLocals, SameEnv
    <3>4. StmtOK(t2, 0) /\ ExprOK(t2) /\ t2.level > 0
      BY <1>1, <3>1, <3>3, StmtKeeps, ExprOKIs
    <3>5. Pre(Consume(")"), t2)
      BY <1>1, <1>2, <3>1, <3>3, <3>4, CanConsume
    <3>6. ASSUME NEW t3, Rel(Consume(")"), t2, t3)
          PROVE  Fulfils(<<<<"meet", c[2]>>, <<"land", h>>, Call("statement"), <<"meet", h>>>>, t3, Call("statement"), s)
      <4>1. Good(t3) /\ Expr(t2, t3, 0) /\ (")" = "id" /\ ~t3.err => t3.prev \in Names)
        BY <3>6, OfConsume
      <4>2. Tidy(t3)
        BY <3>4, <4>1, ExprKeeps DEF StmtOK
      <4>3. Stmt(s, t3, 0) /\ t3.classes = s.classes
        BY <1>1, <1>2, <3>1, <3>3, <4>1, <4>2, GoodTypes DEF Stmt, Expr, Stays, SameLocals,
           SameEnv
      <4>4. StmtOK(t3, 0) /\ ExprOK(t3) /\ t3.level > 0
        BY <1>1, <4>1, <4>3, StmtKeeps, ExprOKIs
      <4>5. Pre(<<"meet", c[2]>>, t3)
        BY <1>1, <1>2, <4>1, <4>3, <4>4, CanMeet, GoodTypes DEF Stmt, Stays, StmtOK, Temps
      <4>6. ASSUME NEW t4, Rel(<<"meet", c[2]>>, t3, t4)
            PROVE  Fulfils(<<<<"land", h>>, Call("statement"), <<"meet", h>>>>, t4, Call("statement"), s)
        <5>1. Good(t4) /\ Expr(t3, t4, 0)
          BY <4>6, OfMeet
        <5>2. Tidy(t4)
          BY <4>4, <5>1, ExprKeeps DEF StmtOK
        <5>3. Stmt(s, t4, 0) /\ t4.classes = s.classes
          BY <1>1, <1>2, <4>1, <4>3, <5>1, <5>2, GoodTypes DEF Stmt, Expr, Stays, SameLocals,
             SameEnv
        <5>4. StmtOK(t4, 0) /\ ExprOK(t4) /\ t4.level > 0
          BY <1>1, <5>1, <5>3, StmtKeeps, ExprOKIs
        <5>5. Pre(<<"land", h>>, t4)
          BY <1>1, <1>2, <5>1, <5>3, <5>4, CanLand, GoodTypes
        <5>6. ASSUME NEW t5, Rel(<<"land", h>>, t4, t5)
              PROVE  Fulfils(<<Call("statement"), <<"meet", h>>>>, t5, Call("statement"), s)
          <6>1. Good(t5) /\ Expr(t4, t5, h - t4.top.height)
            BY <5>6, OfLand
          <6>2. Tidy(t5)
            BY <5>4, <6>1, ExprKeeps DEF StmtOK
          <6>3. Stmt(s, t5, 0) /\ t5.classes = s.classes
            BY <1>1, <1>2, <5>1, <5>3, <6>1, <6>2, GoodTypes DEF Stmt, Expr, Stays, SameLocals,
               SameEnv
          <6>4. StmtOK(t5, 0) /\ ExprOK(t5) /\ t5.level > 0
            BY <1>1, <6>1, <6>3, StmtKeeps, ExprOKIs
          <6>5. Pre(Call("statement"), t5)
            BY <1>1, <1>2, <6>1, <6>3, <6>4, CanStatement
          <6>6. ASSUME NEW t6, Rel(Call("statement"), t5, t6)
                PROVE  Fulfils(<<<<"meet", h>>>>, t6, Call("statement"), s)
            <7>1. Good(t6) /\ Stmt(t5, t6, 0) /\ t6.classes = t5.classes
              BY <6>6, OfStatement
            <7>2. Stmt(s, t6, 0) /\ t6.classes = s.classes
              BY <1>1, <1>2, <6>1, <6>3, <7>1, GoodTypes DEF Stmt, Stays, SameLocals, SameEnv
            <7>3. StmtOK(t6, 0) /\ ExprOK(t6) /\ t6.level > 0
              BY <1>1, <7>1, <7>2, StmtKeeps, ExprOKIs
            <7>4. Pre(<<"meet", h>>, t6)
              BY <1>1, <1>2, <7>1, <7>2, <7>3, CanMeet, GoodTypes DEF Stmt, Stays, StmtOK, Temps
            <7>5. ASSUME NEW t7, Rel(<<"meet", h>>, t6, t7)
                  PROVE  Fulfils(<<>>, t7, Call("statement"), s)
              <8>1. Good(t7) /\ Expr(t6, t7, 0)
                BY <7>5, OfMeet
              <8>2. Tidy(t7)
                BY <7>3, <8>1, ExprKeeps DEF StmtOK
              <8>3. Stmt(s, t7, 0) /\ t7.classes = s.classes
                BY <1>1, <1>2, <7>1, <7>2, <8>1, <8>2, GoodTypes DEF Stmt, Expr, Stays,
                   SameLocals, SameEnv
              <8>4. StmtOK(t7, 0) /\ ExprOK(t7) /\ t7.level > 0
                BY <1>1, <8>1, <8>3, StmtKeeps, ExprOKIs
              <8>9. Rel(Call("statement"), s, t7)
                BY <1>1, <1>2, <8>1, <8>3, <8>4, OfStatement, StmtErr
              <8> QED BY <8>9, FulfilsNone
            <7> QED BY <7>4, <7>5, Step1
          <6> QED BY <6>5, <6>6, Step2
        <5> QED BY <5>5, <5>6, Step3
      <4> QED BY <4>5, <4>6, Step4
    <3> QED BY <3>5, <3>6, Step5
  <2> QED BY <2>5, <2>6, Step6
<1> QED BY <1>3, <1>4, Step7

-----------------------------------------------------------------------------
(* Declarations and scopes *)

\* Behind the body of forStatement.
LEMMA ForDoes ==
  ASSUME NEW s, Good(s), NEW c, c[1] = "forIncrement", Pre(c, s), NEW calls,
         Fulfils(calls, s, Call("statement"), s)
  PROVE  Fulfils(calls \o c[3], s, c, s)
<1>1. StmtOK(s, 0) /\ ExitOK(s, c[3]) /\ s.level > 0
  BY AtForIncrement, ExprOKIs DEF StmtOK
<1>2. ASSUME NEW t, Rel(Call("statement"), s, t) PROVE Fulfils(c[3], t, c, s)
  <2>1. Good(t) /\ (s.err => t.err) /\ Stmt(s, t, 0) /\ t.classes = s.classes
    BY <1>2, OfStatement
  <2>2. CASE c[3] = <<>>
    <3>1. Rel(c, s, t)
      BY <2>1, AtForIncrement
    <3> QED BY <2>2, <3>1, FulfilsNone
  <2>3. CASE c[3] # <<>>
    <3> DEFINE h == c[3][1][2]
    <3>1. c[3] = <<<<"land", h>>, Emit(-1)>> /\ h \in Int /\ (~s.err => h = s.top.height + 1)
      BY <1>1, <2>3 DEF ExitOK
    <3> HIDE DEF h
    <3>5. h \in Int /\ (~s.err => h = s.top.height + 1)
      BY <3>1
    <3>2. t.level > 0 /\ s.top.height \in Int /\ t.top.height \in Int
      BY <1>1, <2>1, GoodTypes DEF Stmt, Stays
    <3>3. Pre(<<"land", h>>, t)
      BY <3>1, <3>2, CanLand
    <3>4. ASSUME NEW t1, Rel(<<"land", h>>, t, t1) PROVE Fulfils(<<Emit(-1)>>, t1, c, s)
      <4>1. Good(t1) /\ Expr(t, t1, h - t.top.height)
        BY <3>4, OfLand
      <4>2. t1.level > 0
        BY <3>2, <4>1, ExprKeeps
      <4>3. Pre(Emit(-1), t1)
        BY <4>2, CanEmit
      <4>5. Stmt(s, t1, 1) /\ t1.classes = s.classes
        <5>1. Tidy(t1)
          BY <2>1, <4>1, ExprKeeps DEF Stmt
        <5> QED BY <2>1, <3>5, <3>2, <4>1, <5>1 DEF Stmt, Expr, Stays, SameLocals, SameEnv
      <4>4. ASSUME NEW t2, Rel(Emit(-1), t1, t2) PROVE Fulfils(<<>>, t2, c, s)
        <5>1. Good(t2) /\ Expr(t1, t2, -1)
          BY <4>4, OfEmit
        <5>2. Tidy(t2)
          <6>1. Tidy(t)
            BY <2>1 DEF Stmt
          <6> QED BY <4>1, <5>1, <6>1, ExprKeeps
        <5>3. Stmt(s, t2, 0) /\ t2.classes = s.classes
          BY <3>2, <4>5, <5>1, <5>2 DEF Stmt, Expr, Stays, SameLocals, SameEnv
        <5>4. Rel(c, s, t2)
          BY <5>1, <5>3, AtForIncrement, StmtErr
        <5> QED BY <5>4, FulfilsNone
      <4> QED BY <4>3, <4>4, Step1
    <3>6. Fulfils(<<<<"land", h>>, Emit(-1)>>, t, c, s)
      BY <3>3, <3>4, Step2
    <3> QED BY <3>1, <3>6
  <2> QED BY <2>2, <2>3
<1>3. IsSeq(c[3])
  <2>1. CASE c[3] = <<>>
    BY <2>1, ListsAreSeqs
  <2>2. CASE c[3] # <<>>
    <3>1. PICK a, b : c[3] = <<a, b>>
      BY <1>1, <2>2 DEF ExitOK
    <3>2. <<a, b>> \in Seq({a, b})
      OBVIOUS
    <3> QED BY <3>1, <3>2 DEF IsSeq
  <2> QED BY <2>1, <2>2
<1> QED BY <1>2, <1>3, FulfilsThen

\* More locals and variables, and still more.
LEMMA MoreTwice ==
  ASSUME NEW s, NEW t, NEW u, NEW d, Good(s), Good(t), Good(u), s.level > 0, t.level = s.level,
         u.level = s.level, ~u.err,
         MoreLocals(s, t, d), MoreLocals(t, u, d), MoreEnv(s, t), MoreEnv(t, u)
  PROVE  MoreLocals(s, u, d) /\ MoreEnv(s, u)
<1>1. /\ s.top.n \in Nat /\ t.top.n \in Nat /\ u.top.n \in Nat
      /\ s.m \in Nat /\ t.m \in Nat /\ u.m \in Nat
      /\ s.top.height \in Int /\ t.top.height \in Int /\ u.top.height \in Int
  BY GoodTypes
<1>2. MoreLocals(s, u, d)
  BY <1>1 DEF MoreLocals
<1>3. MoreEnv(s, u)
  <2>1. u.m >= s.m /\ \A e \in 1..s.m : u.env[e] = s.env[e]
    BY <1>1 DEF MoreEnv
  <2>2. ASSUME NEW e \in (s.m + 1)..u.m PROVE u.env[e].slot[1] = s.level /\ u.env[e].slot[2] >= s.top.n
    <3>1. CASE e <= t.m
      BY <1>1, <3>1 DEF MoreEnv
    <3>2. CASE e > t.m
      <4>1. e \in (t.m + 1)..u.m
        BY <1>1, <3>2
      <4>2. u.env[e].slot[1] = s.level /\ u.env[e].slot[2] >= t.top.n /\ t.top.n >= s.top.n
        BY <4>1 DEF MoreEnv, MoreLocals
      <4>3. u.env[e].slot[2] \in Int
        <5>1. e \in 1..u.m
          BY <1>1, <4>1
        <5>2. u.level > 0
          OBVIOUS
        <5>3. u.env[e].slot[2] \in Nat
          BY <5>1, <5>2, GoodEnv
        <5> QED BY <5>3
      <4> QED BY <1>1, <4>2, <4>3
    <3> QED BY <1>1, <3>1, <3>2
  <2> QED BY <2>1, <2>2 DEF MoreEnv
<1> QED BY <1>2, <1>3

\* Doing nothing is a declaration of nothing.
LEMMA DeclSelf ==
  ASSUME NEW s, Good(s), s.level > 0, Tidy(s) PROVE Decl(s, s)
BY GoodTypes DEF Decl, Stays, MoreLocals, MoreEnv

\* Two declarations in a row.
LEMMA DeclTwice ==
  ASSUME NEW s, NEW t, NEW u, Good(s), Good(t), Good(u), s.level > 0, Decl(s, t), Decl(t, u)
  PROVE  Decl(s, u)
<1>1. /\ Stays(s, u) /\ u.top.depth = s.top.depth /\ u.classes = s.classes /\ Tidy(u)
      /\ t.level = s.level /\ u.level = s.level /\ t.top.depth = s.top.depth
  BY DEF Decl, Stays
<1>2. ASSUME ~u.err PROVE MoreLocals(s, u, s.top.depth) /\ MoreEnv(s, u)
  <2>1. ~t.err
    BY <1>2, GoodTypes DEF Decl, Stays
  <2>2. /\ MoreLocals(s, t, s.top.depth) /\ MoreEnv(s, t)
        /\ MoreLocals(t, u, s.top.depth) /\ MoreEnv(t, u)
    BY <1>1, <1>2, <2>1 DEF Decl
  <2> QED BY <1>1, <1>2, <2>2, MoreTwice
<1> QED BY <1>1, <1>2 DEF Decl

\* A declaration in a scope just opened.
LEMMA InsideDecl ==
  ASSUME NEW s, NEW t, NEW u, Good(s), Good(t), Good(u), s.level > 0, Inside(s, t), Decl(t, u)
  PROVE  Inside(s, u)
<1>1. /\ Stays(s, u) /\ u.top.depth = s.top.depth + 1 /\ u.classes = s.classes /\ Tidy(u)
      /\ t.level = s.level /\ u.level = s.level /\ t.top.depth = s.top.depth + 1
  BY DEF Decl, Inside, Stays
<1>2. ASSUME ~u.err PROVE MoreLocals(s, u, s.top.depth + 1) /\ MoreEnv(s, u)
  <2>1. ~t.err
    BY <1>2, GoodTypes DEF Decl, Stays
  <2>2. /\ MoreLocals(s, t, s.top.depth + 1) /\ MoreEnv(s, t)
        /\ MoreLocals(t, u, s.top.depth + 1) /\ MoreEnv(t, u)
    BY <1>1, <1>2, <2>1 DEF Decl, Inside
  <2> QED BY <1>1, <1>2, <2>2, MoreTwice
<1> QED BY <1>1, <1>2 DEF Inside

\* Statements declare nothing.
LEMMA StmtIsDecl ==
  ASSUME NEW s, NEW t, Good(s), Good(t), s.level > 0, Stmt(s, t, 0), t.classes = s.classes
  PROVE  Decl(s, t)
<1>1. s.top.n \in Nat /\ s.m \in Nat /\ s.top.height \in Int /\ t.top.height \in Int
  BY GoodTypes DEF Stmt, Stays
<1> QED BY <1>1 DEF Decl, Stmt, MoreLocals, MoreEnv, SameLocals, SameEnv

\* An expression can stand for a statement.
LEMMA ExprIsStmt ==
  ASSUME NEW s, NEW t, NEW k, Tidy(s), Expr(s, t, k)
  PROVE  Stmt(s, t, k) /\ t.classes = s.classes
<1>1. Tidy(t)
  BY ExprKeeps
<1> QED BY <1>1 DEF Stmt, Expr

\* Behind a declaration there can be another one.
LEMMA DeclKeeps ==
  ASSUME NEW s, NEW t, Good(s), Good(t), StmtOK(s, 0), Decl(s, t)
  PROVE  StmtOK(t, 0) /\ ExprOK(t) /\ t.level > 0
<1>1. s.level > 0 /\ t.level > 0 /\ Stays(s, t) /\ Tidy(t) /\ ClassOK(s) /\ Temps(s, 0)
  BY GoodTypes DEF Decl, StmtOK, ExprOK, Stays
<1>2. ExprOK(t)
  BY <1>1, TidyBounded, StaysKeeps DEF ExprOK, Decl
<1>3. Temps(t, 0)
  BY <1>1, GoodTypes DEF Decl, Temps, Stays, MoreLocals
<1> QED BY <1>1, <1>2, <1>3 DEF StmtOK

\* The scope that was opened in s can be ended,
LEMMA InsideSplits ==
  ASSUME NEW s, NEW t, Good(s), Good(t), s.level > 0, Inside(s, t),
         NEW q, ~s.err => q = s.m
  PROVE  Pre(<<"endScope", q>>, t)
<1>1. /\ s.top.n \in Nat /\ t.top.n \in Nat /\ s.m \in Nat /\ t.m \in Nat /\ s.top.depth \in Nat
      /\ t.level = s.level /\ t.level > 0 /\ t.top.depth = s.top.depth + 1 /\ Tidy(t)
      /\ s.level \in Nat
  BY GoodTypes DEF Inside, Stays
<1>2. ASSUME ~t.err
      PROVE  /\ s.m \in 0..t.m
             /\ \A e \in 1..t.m :
                  e <= s.m <=> \/ t.env[e].slot[1] < t.level
                               \/ t.top.locals[t.env[e].slot[2] + 1].depth < t.top.depth
  <2>1. ~s.err /\ MoreLocals(s, t, s.top.depth + 1) /\ MoreEnv(s, t)
    BY <1>2, GoodTypes DEF Inside, Stays
  <2>2. s.m \in 0..t.m
    BY <1>1, <2>1 DEF MoreEnv
  <2>3. ASSUME NEW e \in 1..t.m, e <= s.m
        PROVE  \/ t.env[e].slot[1] < t.level
               \/ t.top.locals[t.env[e].slot[2] + 1].depth < t.top.depth
    <3>1. e \in 1..s.m /\ t.env[e] = s.env[e]
      BY <1>1, <2>1, <2>3 DEF MoreEnv
    <3>2. CASE s.env[e].slot[1] = s.level
      <4> DEFINE i == s.env[e].slot[2] + 1
      <4>1. i \in 1..s.top.n /\ s.top.locals[i].depth \in 0..s.top.depth
        BY <2>1, <3>1, <3>2, GoodEnv
      <4>2. t.top.locals[i] = s.top.locals[i]
        BY <2>1, <4>1 DEF MoreLocals
      <4>3. t.top.locals[i].depth \in 0..s.top.depth
        BY <4>1, <4>2
      <4>4. t.env[e].slot[2] + 1 = i
        BY <3>1
      <4> HIDE DEF i
      <4>5. t.top.locals[i].depth < t.top.depth
        BY <1>1, <4>3
      <4> QED BY <4>4, <4>5
    <3>3. CASE s.env[e].slot[1] # s.level
      <4>1. s.env[e].slot[1] \in 1..s.level
        BY <2>1, <3>1, GoodEnv
      <4> QED BY <1>1, <3>1, <3>3, <4>1
    <3> QED BY <3>2, <3>3
  <2>4. ASSUME NEW e \in 1..t.m, ~(e <= s.m)
        PROVE  /\ ~(t.env[e].slot[1] < t.level)
               /\ ~(t.top.locals[t.env[e].slot[2] + 1].depth < t.top.depth)
    <3>1. e \in (s.m + 1)..t.m
      BY <1>1, <2>4
    <3>2. t.env[e].slot[1] = s.level /\ t.env[e].slot[2] >= s.top.n
      BY <2>1, <3>1 DEF MoreEnv
    <3>3. t.env[e].slot[2] \in Nat /\ t.env[e].slot[2] + 1 \in 1..t.top.n
      BY <1>1, <1>2, <3>2, GoodEnv
    <3>4. t.env[e].slot[2] + 1 \in (s.top.n + 1)..t.top.n
      BY <1>1, <3>2, <3>3
    <3>5. t.top.locals[t.env[e].slot[2] + 1].depth = s.top.depth + 1
      BY <2>1, <3>4 DEF MoreLocals
    <3> QED BY <1>1, <3>2, <3>5
  <2> QED BY <2>2, <2>3, <2>4
<1>3. ScopeSplit(t, q)
  <2>1. ~t.err => ~s.err
    BY GoodTypes DEF Inside, Stays
  <2> QED BY <1>2, <2>1 DEF ScopeSplit
<1> QED BY <1>1, <1>3, CanEndScope

\* and then the locals and variables are those of s again.
LEMMA InsideEnds ==
  ASSUME NEW s, NEW t, NEW u, Good(s), Good(t), s.level > 0, Tidy(s), Inside(s, t),
         NEW q, ~s.err => q = s.m, Rel(<<"endScope", q>>, t, u)
  PROVE  Good(u) /\ Stmt(s, u, 0) /\ u.classes = s.classes
<1>1. /\ Good(u) /\ Stays(t, u) /\ u.top.depth = t.top.depth - 1 /\ u.classes = t.classes
      /\ Tidy(u)
      /\ ~u.err => /\ Dropped(t, u, t.top.depth - 1)
                   /\ u.m = s.m /\ \A e \in 1..u.m : u.env[e] = t.env[e]
  <2>1. /\ Good(u) /\ Stays(t, u) /\ u.top.depth = t.top.depth - 1 /\ u.classes = t.classes
        /\ Tidy(u)
        /\ ~u.err => /\ Dropped(t, u, t.top.depth - 1)
                     /\ u.m = q /\ \A e \in 1..u.m : u.env[e] = t.env[e]
    BY OfEndScope
  <2>2. ~u.err => ~s.err
    BY <2>1, GoodTypes DEF Inside, Stays
  <2> QED BY <2>1, <2>2
<1>2. /\ Stays(s, u) /\ u.level = s.level /\ t.level = s.level /\ s.top.depth \in Nat
      /\ u.top.depth = s.top.depth /\ t.top.depth - 1 = s.top.depth /\ u.classes = s.classes
  BY <1>1, GoodTypes DEF Inside, Stays
<1>3. ASSUME ~u.err PROVE SameLocals(s, u) /\ SameEnv(s, u) /\ u.top.height = s.top.height + 0
  <2>1. ~t.err /\ ~s.err
    BY <1>1, <1>3, GoodTypes DEF Inside, Stays
  <2>2. /\ s.top.n \in Nat /\ t.top.n \in Nat /\ u.top.n \in Nat
        /\ s.m \in Nat /\ t.m \in Nat /\ u.m \in Nat
        /\ s.top.height \in Int /\ t.top.height \in Int /\ u.top.height \in Int
    BY <1>1, <1>2, GoodTypes
  <2>3. MoreLocals(s, t, s.top.depth + 1) /\ MoreEnv(s, t) /\ Dropped(t, u, s.top.depth)
    BY <1>1, <1>2, <1>3, <2>1 DEF Inside
  <2>4. ASSUME u.top.n < s.top.n PROVE FALSE
    <3>1. s.top.n \in (u.top.n + 1)..t.top.n /\ s.top.n \in 1..s.top.n
      BY <2>2, <2>3, <2>4 DEF MoreLocals
    <3>2. t.top.locals[s.top.n].depth > s.top.depth
      BY <2>3, <3>1 DEF Dropped
    <3>3. t.top.locals[s.top.n] = s.top.locals[s.top.n]
      BY <2>3, <3>1 DEF MoreLocals
    <3>4. s.top.locals[s.top.n].depth \in 0..s.top.depth
      BY <3>1 DEF Tidy, TidyTo
    <3> QED BY <1>2, <3>2, <3>3, <3>4
  <2>5. ASSUME u.top.n > s.top.n PROVE FALSE
    <3>1. u.top.n \in (s.top.n + 1)..t.top.n /\ u.top.n \in 1..u.top.n
      BY <2>2, <2>3, <2>5 DEF Dropped
    <3>2. u.top.locals[u.top.n] = t.top.locals[u.top.n]
      BY <2>3, <3>1 DEF Dropped
    <3>3. t.top.locals[u.top.n].depth = s.top.depth + 1
      BY <2>3, <3>1 DEF MoreLocals
    <3>4. u.top.locals[u.top.n].depth \in 0..u.top.depth
      BY <1>1, <3>1 DEF Tidy, TidyTo
    <3> QED BY <1>2, <3>2, <3>3, <3>4
  <2>6. u.top.n = s.top.n
    BY <2>2, <2>4, <2>5
  <2>7. u.top.height = s.top.height + 0
    BY <2>2, <2>3, <2>6 DEF MoreLocals, Dropped
  <2>8. u.top.locals = s.top.locals
    <3>1. \A i \in 1..s.top.n : u.top.locals[i] = s.top.locals[i]
      BY <2>2, <2>3, <2>6 DEF MoreLocals, Dropped
    <3>2. /\ u.top.locals = [i \in 1..u.top.n |-> u.top.locals[i]]
          /\ s.top.locals = [i \in 1..s.top.n |-> s.top.locals[i]]
      <4>1. CompOK(u.top, u.top.depth + 1) /\ CompOK(s.top, s.top.depth + 1)
        BY <1>1, <1>2 DEF Good
      <4> QED BY <4>1 DEF CompOK
    <3> QED BY <2>6, <3>1, <3>2
  <2>9. u.env = s.env
    <3>1. \A e \in 1..s.m : u.env[e] = s.env[e]
      BY <1>1, <1>3, <2>2, <2>3 DEF MoreEnv
    <3>2. u.env = [e \in 1..u.m |-> u.env[e]] /\ s.env = [e \in 1..s.m |-> s.env[e]]
      BY <1>1 DEF Good
    <3> QED BY <1>1, <1>3, <3>1, <3>2
  <2> QED BY <1>1, <1>3, <2>6, <2>7, <2>8, <2>9 DEF SameLocals, SameEnv
<1> QED BY <1>1, <1>2, <1>3 DEF Stmt

\* A declaration never takes back an error.
LEMMA DeclErr ==
  ASSUME NEW s, NEW t, Decl(s, t) PROVE s.err => t.err
BY DEF Decl, Stays

\* declaration.
LEMMA DeclareVar ==
  ASSUME NEW s, Good(s), NEW c, c[1] = "declaration", Pre(c, s)
  PROVE  Fulfils(<<Advance, Call("varDeclaration"), Call("recover")>>, s, c, s)
<1>1. StmtOK(s, 0)
  BY AtDeclaration
<1>2. s.level > 0 /\ Tidy(s) /\ ExprOK(s)
  BY <1>1, ExprOKIs DEF StmtOK
<1>3. Decl(s, s) /\ StmtOK(s, 0) /\ ExprOK(s) /\ s.level > 0
  BY <1>1, <1>2, DeclSelf
<1>4. Pre(Advance, s)
  BY <1>1, <1>2, <1>3, CanAdvance
<1>5. ASSUME NEW t1, Rel(Advance, s, t1)
      PROVE  Fulfils(<<Call("varDeclaration"), Call("recover")>>, t1, c, s)
  <2>1. Good(t1) /\ Expr(s, t1, 0) /\ t1.prev = s.cur
    BY <1>5, OfAdvance
  <2>2. Decl(s, t1)
    BY <1>2, <1>3, <2>1, StmtIsDecl, ExprIsStmt DEF StmtOK
  <2>3. Decl(s, t1)
    BY <1>2, <1>3, <2>1, <2>2, DeclTwice
  <2>4. Decl(s, t1) /\ StmtOK(t1, 0) /\ ExprOK(t1) /\ t1.level > 0
    BY <1>3, <2>1, <2>3, DeclKeeps
  <2>5. Pre(Call("varDeclaration"), t1)
    BY <1>1, <1>2, <1>3, <2>1, <2>2, <2>4, CanVarDeclaration
  <2>6. ASSUME NEW t2, Rel(Call("varDeclaration"), t1, t2)
        PROVE  Fulfils(<<Call("recover")>>, t2, c, s)
    <3>1. Good(t2) /\ Decl(t1, t2)
      BY <2>6, OfVarDeclaration
    <3>2. Decl(s, t2)
      BY <1>2, <2>4, <2>1, <3>1, DeclTwice
    <3>3. Decl(s, t2) /\ StmtOK(t2, 0) /\ ExprOK(t2) /\ t2.level > 0
      BY <1>3, <3>1, <3>2, DeclKeeps
    <3>4. Pre(Call("recover"), t2)
      BY <1>1, <1>2, <1>3, <3>1, <3>3, CanRecover DEF StmtOK
    <3>5. ASSUME NEW t3, Rel(Call("recover"), t2, t3)
          PROVE  Fulfils(<<>>, t3, c, s)
      <4>1. Good(t3) /\ Expr(t2, t3, 0)
        BY <3>5, OfRecover
      <4>2. Decl(t2, t3)
        BY <1>2, <1>3, <3>1, <3>3, <4>1, StmtIsDecl, ExprIsStmt DEF StmtOK
      <4>3. Decl(s, t3)
        BY <1>2, <3>3, <3>1, <4>1, <4>2, DeclTwice
      <4>4. Decl(s, t3) /\ StmtOK(t3, 0) /\ ExprOK(t3) /\ t3.level > 0
        BY <1>3, <4>1, <4>3, DeclKeeps
      <4>9. Rel(c, s, t3)
        BY <1>1, <1>2, <1>3, <4>1, <4>2, <4>4, AtDeclaration, DeclErr
      <4> QED BY <4>9, FulfilsNone
    <3> QED BY <3>4, <3>5, Step1
  <2> QED BY <2>5, <2>6, Step2
<1> QED BY <1>4, <1>5, Step3

\* declaration of a function,
LEMMA DeclareFun ==
  ASSUME NEW s, Good(s), NEW c, c[1] = "declaration", Pre(c, s)
  PROVE  Fulfils(<<Advance, Call("funDeclaration"), Call("recover")>>, s, c, s)
<1>1. StmtOK(s, 0)
  BY AtDeclaration
<1>2. s.level > 0 /\ Tidy(s) /\ ExprOK(s)
  BY <1>1, ExprOKIs DEF StmtOK
<1>3. Decl(s, s) /\ StmtOK(s, 0) /\ ExprOK(s) /\ s.level > 0
  BY <1>1, <1>2, DeclSelf
<1>4. Pre(Advance, s)
  BY <1>1, <1>2, <1>3, CanAdvance
<1>5. ASSUME NEW t1, Rel(Advance, s, t1)
      PROVE  Fulfils(<<Call("funDeclaration"), Call("recover")>>, t1, c, s)
  <2>1. Good(t1) /\ Expr(s, t1, 0) /\ t1.prev = s.cur
    BY <1>5, OfAdvance
  <2>2. Decl(s, t1)
    BY <1>2, <1>3, <2>1, StmtIsDecl, ExprIsStmt DEF StmtOK
  <2>3. Decl(s, t1)
    BY <1>2, <1>3, <2>1, <2>2, DeclTwice
  <2>4. Decl(s, t1) /\ StmtOK(t1, 0) /\ ExprOK(t1) /\ t1.level > 0
    BY <1>3, <2>1, <2>3, DeclKeeps
  <2>5. Pre(Call("funDeclaration"), t1)
    BY <1>1, <1>2, <1>3, <2>1, <2>2, <2>4, CanFunDeclaration
  <2>6. ASSUME NEW t2, Rel(Call("funDeclaration"), t1, t2)
        PROVE  Fulfils(<<Call("recover")>>, t2, c, s)
    <3>1. Good(t2) /\ Decl(t1, t2)
      BY <2>6, OfFunDeclaration
    <3>2. Decl(s, t2)
      BY <1>2, <2>4, <2>1, <3>1, DeclTwice
    <3>3. Decl(s, t2) /\ StmtOK(t2, 0) /\ ExprOK(t2) /\ t2.level > 0
      BY <1>3, <3>1, <3>2, DeclKeeps
    <3>4. Pre(Call("recover"), t2)
      BY <1>1, <1>2, <1>3, <3>1, <3>3, CanRecover DEF StmtOK
    <3>5. ASSUME NEW t3, Rel(Call("recover"), t2, t3)
          PROVE  Fulfils(<<>>, t3, c, s)
      <4>1. Good(t3) /\ Expr(t2, t3, 0)
        BY <3>5, OfRecover
      <4>2. Decl(t2, t3)
        BY <1>2, <1>3, <3>1, <3>3, <4>1, StmtIsDecl, ExprIsStmt DEF StmtOK
      <4>3. Decl(s, t3)
        BY <1>2, <3>3, <3>1, <4>1, <4>2, DeclTwice
      <4>4. Decl(s, t3) /\ StmtOK(t3, 0) /\ ExprOK(t3) /\ t3.level > 0
        BY <1>3, <4>1, <4>3, DeclKeeps
      <4>9. Rel(c, s, t3)
        BY <1>1, <1>2, <1>3, <4>1, <4>2, <4>4, AtDeclaration, DeclErr
      <4> QED BY <4>9, FulfilsNone
    <3> QED BY <3>4, <3>5, Step1
  <2> QED BY <2>5, <2>6, Step2
<1> QED BY <1>4, <1>5, Step3

\* of a class,
LEMMA DeclareClass ==
  ASSUME NEW s, Good(s), NEW c, c[1] = "declaration", Pre(c, s)
  PROVE  Fulfils(<<Advance, Call("classDeclaration"), Call("recover")>>, s, c, s)
<1>1. StmtOK(s, 0)
  BY AtDeclaration
<1>2. s.level > 0 /\ Tidy(s) /\ ExprOK(s)
  BY <1>1, ExprOKIs DEF StmtOK
<1>3. Decl(s, s) /\ StmtOK(s, 0) /\ ExprOK(s) /\ s.level > 0
  BY <1>1, <1>2, DeclSelf
<1>4. Pre(Advance, s)
  BY <1>1, <1>2, <1>3, CanAdvance
<1>5. ASSUME NEW t1, Rel(Advance, s, t1)
      PROVE  Fulfils(<<Call("classDeclaration"), Call("recover")>>, t1, c, s)
  <2>1. Good(t1) /\ Expr(s, t1, 0) /\ t1.prev = s.cur
    BY <1>5, OfAdvance
  <2>2. Decl(s, t1)
    BY <1>2, <1>3, <2>1, StmtIsDecl, ExprIsStmt DEF StmtOK
  <2>3. Decl(s, t1)
    BY <1>2, <1>3, <2>1, <2>2, DeclTwice
  <2>4. Decl(s, t1) /\ StmtOK(t1, 0) /\ ExprOK(t1) /\ t1.level > 0
    BY <1>3, <2>1, <2>3, DeclKeeps
  <2>5. Pre(Call("classDeclaration"), t1)
    BY <1>1, <1>2, <1>3, <2>1, <2>2, <2>4, CanClassDeclaration
  <2>6. ASSUME NEW t2, Rel(Call("classDeclaration"), t1, t2)
        PROVE  Fulfils(<<Call("recover")>>, t2, c, s)
    <3>1. Good(t2) /\ Decl(t1, t2)
      BY <2>6, OfClassDeclaration
    <3>2. Decl(s, t2)
      BY <1>2, <2>4, <2>1, <3>1, DeclTwice
    <3>3. Decl(s, t2) /\ StmtOK(t2, 0) /\ ExprOK(t2) /\ t2.level > 0
      BY <1>3, <3>1, <3>2, DeclKeeps
    <3>4. Pre(Call("recover"), t2)
      BY <1>1, <1>2, <1>3, <3>1, <3>3, CanRecover DEF StmtOK
    <3>5. ASSUME NEW t3, Rel(Call("recover"), t2, t3)
          PROVE  Fulfils(<<>>, t3, c, s)
      <4>1. Good(t3) /\ Expr(t2, t3, 0)
        BY <3>5, OfRecover
      <4>2. Decl(t2, t3)
        BY <1>2, <1>3, <3>1, <3>3, <4>1, StmtIsDecl, ExprIsStmt DEF StmtOK
      <4>3. Decl(s, t3)
        BY <1>2, <3>3, <3>1, <4>1, <4>2, DeclTwice
      <4>4. Decl(s, t3) /\ StmtOK(t3, 0) /\ ExprOK(t3) /\ t3.level > 0
        BY <1>3, <4>1, <4>3, DeclKeeps
      <4>9. Rel(c, s, t3)
        BY <1>1, <1>2, <1>3, <4>1, <4>2, <4>4, AtDeclaration, DeclErr
      <4> QED BY <4>9, FulfilsNone
    <3> QED BY <3>4, <3>5, Step1
  <2> QED BY <2>5, <2>6, Step2
<1> QED BY <1>4, <1>5, Step3

\* and declaration that is a statement.
LEMMA DeclareNothing ==
  ASSUME NEW s, Good(s), NEW c, c[1] = "declaration", Pre(c, s)
  PROVE  Fulfils(<<Call("statement"), Call("recover")>>, s, c, s)
<1>1. StmtOK(s, 0)
  BY AtDeclaration
<1>2. s.level > 0 /\ Tidy(s) /\ ExprOK(s)
  BY <1>1, ExprOKIs DEF StmtOK
<1>3. Decl(s, s) /\ StmtOK(s, 0) /\ ExprOK(s) /\ s.level > 0
  BY <1>1, <1>2, DeclSelf
<1>4. Pre(Call("statement"), s)
  BY <1>1, <1>2, <1>3, CanStatement
<1>5. ASSUME NEW t1, Rel(Call("statement"), s, t1)
      PROVE  Fulfils(<<Call("recover")>>, t1, c, s)
  <2>1. Good(t1) /\ Stmt(s, t1, 0) /\ t1.classes = s.classes
    BY <1>5, OfStatement
  <2>2. Decl(s, t1)
    BY <1>2, <1>3, <2>1, StmtIsDecl DEF StmtOK
  <2>3. Decl(s, t1)
    BY <1>2, <1>3, <2>1, <2>2, DeclTwice
  <2>4. Decl(s, t1) /\ StmtOK(t1, 0) /\ ExprOK(t1) /\ t1.level > 0
    BY <1>3, <2>1, <2>3, DeclKeeps
  <2>5. Pre(Call("recover"), t1)
    BY <1>1, <1>2, <1>3, <2>1, <2>2, <2>4, CanRecover DEF StmtOK
  <2>6. ASSUME NEW t2, Rel(Call("recover"), t1, t2)
        PROVE  Fulfils(<<>>, t2, c, s)
    <3>1. Good(t2) /\ Expr(t1, t2, 0)
      BY <2>6, OfRecover
    <3>2. Decl(t1, t2)
      BY <1>2, <1>3, <2>1, <2>4, <3>1, StmtIsDecl, ExprIsStmt DEF StmtOK
    <3>3. Decl(s, t2)
      BY <1>2, <2>4, <2>1, <3>1, <3>2, DeclTwice
    <3>4. Decl(s, t2) /\ StmtOK(t2, 0) /\ ExprOK(t2) /\ t2.level > 0
      BY <1>3, <3>1, <3>3, DeclKeeps
    <3>9. Rel(c, s, t2)
      BY <1>1, <1>2, <1>3, <3>1, <3>2, <3>4, AtDeclaration, DeclErr
    <3> QED BY <3>9, FulfilsNone
  <2> QED BY <2>5, <2>6, Step1
<1> QED BY <1>4, <1>5, Step2

\* block.
LEMMA BlockEnds ==
  ASSUME NEW s, Good(s), NEW c, c[1] = "block", Pre(c, s)
  PROVE  Fulfils(<<Consume("}")>>, s, c, s)
<1>1. StmtOK(s, 0)
  BY AtBlock
<1>2. s.level > 0 /\ Tidy(s) /\ ExprOK(s)
  BY <1>1, ExprOKIs DEF StmtOK
<1>3. Decl(s, s) /\ StmtOK(s, 0) /\ ExprOK(s) /\ s.level > 0
  BY <1>1, <1>2, DeclSelf
<1>4. Pre(Consume("}"), s)
  BY <1>1, <1>2, <1>3, CanConsume
<1>5. ASSUME NEW t1, Rel(Consume("}"), s, t1)
      PROVE  Fulfils(<<>>, t1, c, s)
  <2>1. Good(t1) /\ Expr(s, t1, 0) /\ ("}" = "id" /\ ~t1.err => t1.prev \in Names)
    BY <1>5, OfConsume
  <2>2. Decl(s, t1)
    BY <1>2, <1>3, <2>1, StmtIsDecl, ExprIsStmt DEF StmtOK
  <2>3. Decl(s, t1)
    BY <1>2, <1>3, <2>1, <2>2, DeclTwice
  <2>4. Decl(s, t1) /\ StmtOK(t1, 0) /\ ExprOK(t1) /\ t1.level > 0
    BY <1>3, <2>1, <2>3, DeclKeeps
  <2>9. Rel(c, s, t1)
    BY <1>1, <1>2, <1>3, <2>1, <2>2, <2>4, AtBlock, DeclErr
  <2> QED BY <2>9, FulfilsNone
<1> QED BY <1>4, <1>5, Step1

\* block with a declaration ahead.
LEMMA BlockMore ==
  ASSUME NEW s, Good(s), NEW c, c[1] = "block", Pre(c, s)
  PROVE  Fulfils(<<Call("declaration"), Call("block")>>, s, c, s)
<1>1. StmtOK(s, 0)
  BY AtBlock
<1>2. s.level > 0 /\ Tidy(s) /\ ExprOK(s)
  BY <1>1, ExprOKIs DEF StmtOK
<1>3. Decl(s, s) /\ StmtOK(s, 0) /\ ExprOK(s) /\ s.level > 0
  BY <1>1, <1>2, DeclSelf
<1>4. Pre(Call("declaration"), s)
  BY <1>1, <1>2, <1>3, CanDeclaration
<1>5. ASSUME NEW t1, Rel(Call("declaration"), s, t1)
      PROVE  Fulfils(<<Call("block")>>, t1, c, s)
  <2>1. Good(t1) /\ Decl(s, t1)
    BY <1>5, OfDeclaration
  <2>2. Decl(s, t1)
    BY <1>2, <1>3, <2>1, DeclTwice
  <2>3. Decl(s, t1) /\ StmtOK(t1, 0) /\ ExprOK(t1) /\ t1.level > 0
    BY <1>3, <2>1, <2>2, DeclKeeps
  <2>4. Pre(Call("block"), t1)
    BY <1>1, <1>2, <1>3, <2>1, <2>3, CanBlock
  <2>5. ASSUME NEW t2, Rel(Call("block"), t1, t2)
        PROVE  Fulfils(<<>>, t2, c, s)
    <3>1. Good(t2) /\ Decl(t1, t2)
      BY <2>5, OfBlock
    <3>2. Decl(s, t2)
      BY <1>2, <2>3, <2>1, <3>1, DeclTwice
    <3>3. Decl(s, t2) /\ StmtOK(t2, 0) /\ ExprOK(t2) /\ t2.level > 0
      BY <1>3, <3>1, <3>2, DeclKeeps
    <3>9. Rel(c, s, t2)
      BY <1>1, <1>2, <1>3, <3>1, <3>3, AtBlock, DeclErr
    <3> QED BY <3>9, FulfilsNone
  <2> QED BY <2>4, <2>5, Step1
<1> QED BY <1>4, <1>5, Step2

\* The first clause of a for statement.
LEMMA ForNothing ==
  ASSUME NEW s, Good(s), NEW c, c[1] = "forInitializer", Pre(c, s)
  PROVE  Fulfils(<<Advance>>, s, c, s)
<1>1. StmtOK(s, 0)
  BY AtForInitializer
<1>2. s.level > 0 /\ Tidy(s) /\ ExprOK(s)
  BY <1>1, ExprOKIs DEF StmtOK
<1>3. Decl(s, s) /\ StmtOK(s, 0) /\ ExprOK(s) /\ s.level > 0
  BY <1>1, <1>2, DeclSelf
<1>4. Pre(Advance, s)
  BY <1>1, <1>2, <1>3, CanAdvance
<1>5. ASSUME NEW t1, Rel(Advance, s, t1)
      PROVE  Fulfils(<<>>, t1, c, s)
  <2>1. Good(t1) /\ Expr(s, t1, 0) /\ t1.prev = s.cur
    BY <1>5, OfAdvance
  <2>2. Decl(s, t1)
    BY <1>2, <1>3, <2>1, StmtIsDecl, ExprIsStmt DEF StmtOK
  <2>3. Decl(s, t1)
    BY <1>2, <1>3, <2>1, <2>2, DeclTwice
  <2>4. Decl(s, t1) /\ StmtOK(t1, 0) /\ ExprOK(t1) /\ t1.level > 0
    BY <1>3, <2>1, <2>3, DeclKeeps
  <2>9. Rel(c, s, t1)
    BY <1>1, <1>2, <1>3, <2>1, <2>2, <2>4, AtForInitializer, DeclErr
  <2> QED BY <2>9, FulfilsNone
<1> QED BY <1>4, <1>5, Step1

\* forStatement with a variable of its own,
LEMMA ForVar ==
  ASSUME NEW s, Good(s), NEW c, c[1] = "forInitializer", Pre(c, s)
  PROVE  Fulfils(<<Advance, Call("varDeclaration")>>, s, c, s)
<1>1. StmtOK(s, 0)
  BY AtForInitializer
<1>2. s.level > 0 /\ Tidy(s) /\ ExprOK(s)
  BY <1>1, ExprOKIs DEF StmtOK
<1>3. Decl(s, s) /\ StmtOK(s, 0) /\ ExprOK(s) /\ s.level > 0
  BY <1>1, <1>2, DeclSelf
<1>4. Pre(Advance, s)
  BY <1>1, <1>2, <1>3, CanAdvance
<1>5. ASSUME NEW t1, Rel(Advance, s, t1)
      PROVE  Fulfils(<<Call("varDeclaration")>>, t1, c, s)
  <2>1. Good(t1) /\ Expr(s, t1, 0) /\ t1.prev = s.cur
    BY <1>5, OfAdvance
  <2>2. Decl(s, t1)
    BY <1>2, <1>3, <2>1, StmtIsDecl, ExprIsStmt DEF StmtOK
  <2>3. Decl(s, t1)
    BY <1>2, <1>3, <2>1, <2>2, DeclTwice
  <2>4. Decl(s, t1) /\ StmtOK(t1, 0) /\ ExprOK(t1) /\ t1.level > 0
    BY <1>3, <2>1, <2>3, DeclKeeps
  <2>5. Pre(Call("varDeclaration"), t1)
    BY <1>1, <1>2, <1>3, <2>1, <2>2, <2>4, CanVarDeclaration
  <2>6. ASSUME NEW t2, Rel(Call("varDeclaration"), t1, t2)
        PROVE  Fulfils(<<>>, t2, c, s)
    <3>1. Good(t2) /\ Decl(t1, t2)
      BY <2>6, OfVarDeclaration
    <3>2. Decl(s, t2)
      BY <1>2, <2>4, <2>1, <3>1, DeclTwice
    <3>3. Decl(s, t2) /\ StmtOK(t2, 0) /\ ExprOK(t2) /\ t2.level > 0
      BY <1>3, <3>1, <3>2, DeclKeeps
    <3>9. Rel(c, s, t2)
      BY <1>1, <1>2, <1>3, <3>1, <3>3, AtForInitializer, DeclErr
    <3> QED BY <3>9, FulfilsNone
  <2> QED BY <2>5, <2>6, Step1
<1> QED BY <1>4, <1>5, Step2

\* and with an expression to start with.
LEMMA ForExpression ==
  ASSUME NEW s, Good(s), NEW c, c[1] = "forInitializer", Pre(c, s)
  PROVE  Fulfils(<<Expression, Consume(";"), Emit(-1)>>, s, c, s)
<1>1. StmtOK(s, 0)
  BY AtForInitializer
<1>2. s.level > 0 /\ Tidy(s) /\ ExprOK(s) /\ Stmt(s, s, 0)
  BY <1>1, ExprOKIs, StmtSelf DEF StmtOK
<1>3. Pre(Expression, s)
  BY <1>1, <1>2, CanExpression
<1>4. ASSUME NEW t1, Rel(Expression, s, t1)
      PROVE  Fulfils(<<Consume(";"), Emit(-1)>>, t1, c, s)
  <2>1. Good(t1) /\ Expr(s, t1, 1)
    BY <1>4, OfExpression
  <2>2. Tidy(t1)
    BY <1>2, <2>1, ExprKeeps DEF StmtOK
  <2>3. Stmt(s, t1, 1) /\ t1.classes = s.classes
    BY <1>1, <1>2, <2>1, <2>2, GoodTypes DEF Stmt, Expr, Stays, SameLocals, SameEnv
  <2>4. StmtOK(t1, 1) /\ ExprOK(t1) /\ t1.level > 0
    BY <1>1, <2>1, <2>3, StmtKeeps, ExprOKIs
  <2>5. Pre(Consume(";"), t1)
    BY <1>1, <1>2, <2>1, <2>3, <2>4, CanConsume
  <2>6. ASSUME NEW t2, Rel(Consume(";"), t1, t2)
        PROVE  Fulfils(<<Emit(-1)>>, t2, c, s)
    <3>1. Good(t2) /\ Expr(t1, t2, 0) /\ (";" = "id" /\ ~t2.err => t2.prev \in Names)
      BY <2>6, OfConsume
    <3>2. Tidy(t2)
      BY <2>4, <3>1, ExprKeeps DEF StmtOK
    <3>3. Stmt(s, t2, 1) /\ t2.classes = s.classes
      BY <1>1, <1>2, <2>1, <2>3, <3>1, <3>2, GoodTypes DEF Stmt, Expr, Stays, SameLocals, SameEnv
    <3>4. StmtOK(t2, 1) /\ ExprOK(t2) /\ t2.level > 0
      BY <1>1, <3>1, <3>3, StmtKeeps, ExprOKIs
    <3>5. Pre(Emit(-1), t2)
      BY <1>1, <1>2, <3>1, <3>3, <3>4, CanEmit
    <3>6. ASSUME NEW t3, Rel(Emit(-1), t2, t3)
          PROVE  Fulfils(<<>>, t3, c, s)
      <4>1. Good(t3) /\ Expr(t2, t3, -1)
        BY <3>6, OfEmit
      <4>2. Tidy(t3)
        BY <3>4, <4>1, ExprKeeps DEF StmtOK
      <4>3. Stmt(s, t3, 0) /\ t3.classes = s.classes
        BY <1>1, <1>2, <3>1, <3>3, <4>1, <4>2, GoodTypes DEF Stmt, Expr, Stays, SameLocals,
           SameEnv
      <4>4. StmtOK(t3, 0) /\ ExprOK(t3) /\ t3.level > 0
        BY <1>1, <4>1, <4>3, StmtKeeps, ExprOKIs
      <4>9. Rel(c, s, t3)
        BY <1>1, <1>2, <4>1, <4>3, <4>4, AtForInitializer, StmtErr, StmtIsDecl
      <4> QED BY <4>9, FulfilsNone
    <3> QED BY <3>5, <3>6, Step1
  <2> QED BY <2>5, <2>6, Step2
<1> QED BY <1>3, <1>4, Step3

\* The parameters of a function, and its body.
LEMMA NoParameters ==
  ASSUME NEW s, Good(s), NEW c, c[1] = "parameters", Pre(c, s)
  PROVE  Fulfils(<<Consume(")"), Consume("{"), Call("block")>>, s, c, s)
<1>1. StmtOK(s, 0)
  BY AtParameters
<1>2. s.level > 0 /\ Tidy(s) /\ ExprOK(s)
  BY <1>1, ExprOKIs DEF StmtOK
<1>3. Decl(s, s) /\ StmtOK(s, 0) /\ ExprOK(s) /\ s.level > 0
  BY <1>1, <1>2, DeclSelf
<1>4. Pre(Consume(")"), s)
  BY <1>1, <1>2, <1>3, CanConsume
<1>5. ASSUME NEW t1, Rel(Consume(")"), s, t1)
      PROVE  Fulfils(<<Consume("{"), Call("block")>>, t1, c, s)
  <2>1. Good(t1) /\ Expr(s, t1, 0) /\ (")" = "id" /\ ~t1.err => t1.prev \in Names)
    BY <1>5, OfConsume
  <2>2. Decl(s, t1)
    BY <1>2, <1>3, <2>1, StmtIsDecl, ExprIsStmt DEF StmtOK
  <2>3. Decl(s, t1)
    BY <1>2, <1>3, <2>1, <2>2, DeclTwice
  <2>4. Decl(s, t1) /\ StmtOK(t1, 0) /\ ExprOK(t1) /\ t1.level > 0
    BY <1>3, <2>1, <2>3, DeclKeeps
  <2>5. Pre(Consume("{"), t1)
    BY <1>1, <1>2, <1>3, <2>1, <2>2, <2>4, CanConsume
  <2>6. ASSUME NEW t2, Rel(Consume("{"), t1, t2)
        PROVE  Fulfils(<<Call("block")>>, t2, c, s)
    <3>1. Good(t2) /\ Expr(t1, t2, 0) /\ ("{" = "id" /\ ~t2.err => t2.prev \in Names)
      BY <2>6, OfConsume
    <3>2. Decl(t1, t2)
      BY <1>2, <1>3, <2>1, <2>4, <3>1, StmtIsDecl, ExprIsStmt DEF StmtOK
    <3>3. Decl(s, t2)
      BY <1>2, <2>4, <2>1, <3>1, <3>2, DeclTwice
    <3>4. Decl(s, t2) /\ StmtOK(t2, 0) /\ ExprOK(t2) /\ t2.level > 0
      BY <1>3, <3>1, <3>3, DeclKeeps
    <3>5. Pre(Call("block"), t2)
      BY <1>1, <1>2, <1>3, <3>1, <3>2, <3>4, CanBlock
    <3>6. ASSUME NEW t3, Rel(Call("block"), t2, t3)
          PROVE  Fulfils(<<>>, t3, c, s)
      <4>1. Good(t3) /\ Decl(t2, t3)
        BY <3>6, OfBlock
      <4>2. Decl(s, t3)
        BY <1>2, <3>4, <3>1, <4>1, DeclTwice
      <4>3. Decl(s, t3) /\ StmtOK(t3, 0) /\ ExprOK(t3) /\ t3.level > 0
        BY <1>3, <4>1, <4>2, DeclKeeps
      <4>9. Rel(c, s, t3)
        BY <1>1, <1>2, <1>3, <4>1, <4>3, AtParameters, DeclErr
      <4> QED BY <4>9, FulfilsNone
    <3> QED BY <3>5, <3>6, Step1
  <2> QED BY <2>5, <2>6, Step2
<1> QED BY <1>4, <1>5, Step3

\* function with parameters.
LEMMA SomeParameters ==
  ASSUME NEW s, Good(s), NEW c, c[1] = "parameters", Pre(c, s)
  PROVE  Fulfils(<<Call("parameter"), Call("moreParameters")>>, s, c, s)
<1>1. StmtOK(s, 0)
  BY AtParameters
<1>2. s.level > 0 /\ Tidy(s) /\ ExprOK(s)
  BY <1>1, ExprOKIs DEF StmtOK
<1>3. Decl(s, s) /\ StmtOK(s, 0) /\ ExprOK(s) /\ s.level > 0
  BY <1>1, <1>2, DeclSelf
<1>4. Pre(Call("parameter"), s)
  BY <1>1, <1>2, <1>3, CanParameter
<1>5. ASSUME NEW t1, Rel(Call("parameter"), s, t1)
      PROVE  Fulfils(<<Call("moreParameters")>>, t1, c, s)
  <2>1. Good(t1) /\ Decl(s, t1)
    BY <1>5, OfParameter
  <2>2. Decl(s, t1)
    BY <1>2, <1>3, <2>1, DeclTwice
  <2>3. Decl(s, t1) /\ StmtOK(t1, 0) /\ ExprOK(t1) /\ t1.level > 0
    BY <1>3, <2>1, <2>2, DeclKeeps
  <2>4. Pre(Call("moreParameters"), t1)
    BY <1>1, <1>2, <1>3, <2>1, <2>3, CanMoreParameters
  <2>5. ASSUME NEW t2, Rel(Call("moreParameters"), t1, t2)
        PROVE  Fulfils(<<>>, t2, c, s)
    <3>1. Good(t2) /\ Decl(t1, t2)
      BY <2>5, OfMoreParameters
    <3>2. Decl(s, t2)
      BY <1>2, <2>3, <2>1, <3>1, DeclTwice
    <3>3. Decl(s, t2) /\ StmtOK(t2, 0) /\ ExprOK(t2) /\ t2.level > 0
      BY <1>3, <3>1, <3>2, DeclKeeps
    <3>9. Rel(c, s, t2)
      BY <1>1, <1>2, <1>3, <3>1, <3>3, AtParameters, DeclErr
    <3> QED BY <3>9, FulfilsNone
  <2> QED BY <2>4, <2>5, Step1
<1> QED BY <1>4, <1>5, Step2

\* Behind the last parameter comes the body,
LEMMA LastParameter ==
  ASSUME NEW s, Good(s), NEW c, c[1] = "moreParameters", Pre(c, s)
  PROVE  Fulfils(<<Consume(")"), Consume("{"), Call("block")>>, s, c, s)
<1>1. StmtOK(s, 0)
  BY AtMoreParameters
<1>2. s.level > 0 /\ Tidy(s) /\ ExprOK(s)
  BY <1>1, ExprOKIs DEF StmtOK
<1>3. Decl(s, s) /\ StmtOK(s, 0) /\ ExprOK(s) /\ s.level > 0
  BY <1>1, <1>2, DeclSelf
<1>4. Pre(Consume(")"), s)
  BY <1>1, <1>2, <1>3, CanConsume
<1>5. ASSUME NEW t1, Rel(Consume(")"), s, t1)
      PROVE  Fulfils(<<Consume("{"), Call("block")>>, t1, c, s)
  <2>1. Good(t1) /\ Expr(s, t1, 0) /\ (")" = "id" /\ ~t1.err => t1.prev \in Names)
    BY <1>5, OfConsume
  <2>2. Decl(s, t1)
    BY <1>2, <1>3, <2>1, StmtIsDecl, ExprIsStmt DEF StmtOK
  <2>3. Decl(s, t1)
    BY <1>2, <1>3, <2>1, <2>2, DeclTwice
  <2>4. Decl(s, t1) /\ StmtOK(t1, 0) /\ ExprOK(t1) /\ t1.level > 0
    BY <1>3, <2>1, <2>3, DeclKeeps
  <2>5. Pre(Consume("{"), t1)
    BY <1>1, <1>2, <1>3, <2>1, <2>2, <2>4, CanConsume
  <2>6. ASSUME NEW t2, Rel(Consume("{"), t1, t2)
        PROVE  Fulfils(<<Call("block")>>, t2, c, s)
    <3>1. Good(t2) /\ Expr(t1, t2, 0) /\ ("{" = "id" /\ ~t2.err => t2.prev \in Names)
      BY <2>6, OfConsume
    <3>2. Decl(t1, t2)
      BY <1>2, <1>3, <2>1, <2>4, <3>1, StmtIsDecl, ExprIsStmt DEF StmtOK
    <3>3. Decl(s, t2)
      BY <1>2, <2>4, <2>1, <3>1, <3>2, DeclTwice
    <3>4. Decl(s, t2) /\ StmtOK(t2, 0) /\ ExprOK(t2) /\ t2.level > 0
      BY <1>3, <3>1, <3>3, DeclKeeps
    <3>5. Pre(Call("block"), t2)
      BY <1>1, <1>2, <1>3, <3>1, <3>2, <3>4, CanBlock
    <3>6. ASSUME NEW t3, Rel(Call("block"), t2, t3)
          PROVE  Fulfils(<<>>, t3, c, s)
      <4>1. Good(t3) /\ Decl(t2, t3)
        BY <3>6, OfBlock
      <4>2. Decl(s, t3)
        BY <1>2, <3>4, <3>1, <4>1, DeclTwice
      <4>3. Decl(s, t3) /\ StmtOK(t3, 0) /\ ExprOK(t3) /\ t3.level > 0
        BY <1>3, <4>1, <4>2, DeclKeeps
      <4>9. Rel(c, s, t3)
        BY <1>1, <1>2, <1>3, <4>1, <4>3, AtMoreParameters, DeclErr
      <4> QED BY <4>9, FulfilsNone
    <3> QED BY <3>5, <3>6, Step1
  <2> QED BY <2>5, <2>6, Step2
<1> QED BY <1>4, <1>5, Step3

\* behind a comma another parameter.
LEMMA NextParameter ==
  ASSUME NEW s, Good(s), NEW c, c[1] = "moreParameters", Pre(c, s)
  PROVE  Fulfils(<<Advance, Call("parameter"), Call("moreParameters")>>, s, c, s)
<1>1. StmtOK(s, 0)
  BY AtMoreParameters
<1>2. s.level > 0 /\ Tidy(s) /\ ExprOK(s)
  BY <1>1, ExprOKIs DEF StmtOK
<1>3. Decl(s, s) /\ StmtOK(s, 0) /\ ExprOK(s) /\ s.level > 0
  BY <1>1, <1>2, DeclSelf
<1>4. Pre(Advance, s)
  BY <1>1, <1>2, <1>3, CanAdvance
<1>5. ASSUME NEW t1, Rel(Advance, s, t1)
      PROVE  Fulfils(<<Call("parameter"), Call("moreParameters")>>, t1, c, s)
  <2>1. Good(t1) /\ Expr(s, t1, 0) /\ t1.prev = s.cur
    BY <1>5, OfAdvance
  <2>2. Decl(s, t1)
    BY <1>2, <1>3, <2>1, StmtIsDecl, ExprIsStmt DEF StmtOK
  <2>3. Decl(s, t1)
    BY <1>2, <1>3, <2>1, <2>2, DeclTwice
  <2>4. Decl(s, t1) /\ StmtOK(t1, 0) /\ ExprOK(t1) /\ t1.level > 0
    BY <1>3, <2>1, <2>3, DeclKeeps
  <2>5. Pre(Call("parameter"), t1)
    BY <1>1, <1>2, <1>3, <2>1, <2>2, <2>4, CanParameter
  <2>6. ASSUME NEW t2, Rel(Call("parameter"), t1, t2)
        PROVE  Fulfils(<<Call("moreParameters")>>, t2, c, s)
    <3>1. Good(t2) /\ Decl(t1, t2)
      BY <2>6, OfParameter
    <3>2. Decl(s, t2)
      BY <1>2, <2>4, <2>1, <3>1, DeclTwice
    <3>3. Decl(s, t2) /\ StmtOK(t2, 0) /\ ExprOK(t2) /\ t2.level > 0
      BY <1>3, <3>1, <3>2, DeclKeeps
    <3>4. Pre(Call("moreParameters"), t2)
      BY <1>1, <1>2, <1>3, <3>1, <3>3, CanMoreParameters
    <3>5. ASSUME NEW t3, Rel(Call("moreParameters"), t2, t3)
          PROVE  Fulfils(<<>>, t3, c, s)
      <4>1. Good(t3) /\ Decl(t2, t3)
        BY <3>5, OfMoreParameters
      <4>2. Decl(s, t3)
        BY <1>2, <3>3, <3>1, <4>1, DeclTwice
      <4>3. Decl(s, t3) /\ StmtOK(t3, 0) /\ ExprOK(t3) /\ t3.level > 0
        BY <1>3, <4>1, <4>2, DeclKeeps
      <4>9. Rel(c, s, t3)
        BY <1>1, <1>2, <1>3, <4>1, <4>3, AtMoreParameters, DeclErr
      <4> QED BY <4>9, FulfilsNone
    <3> QED BY <3>4, <3>5, Step1
  <2> QED BY <2>5, <2>6, Step2
<1> QED BY <1>4, <1>5, Step3

\* classDeclaration.
LEMMA ClassDeclarationDoes ==
  ASSUME NEW s, Good(s), NEW c, c[1] = "classDeclaration", Pre(c, s)
  PROVE  Fulfils(<<Consume("id"), Call("className")>>, s, c, s)
<1>1. StmtOK(s, 0)
  BY AtClassDeclaration
<1>2. s.level > 0 /\ Tidy(s) /\ ExprOK(s)
  BY <1>1, ExprOKIs DEF StmtOK
<1>3. Decl(s, s) /\ StmtOK(s, 0) /\ ExprOK(s) /\ s.level > 0
  BY <1>1, <1>2, DeclSelf
<1>4. Pre(Consume("id"), s)
  BY <1>1, <1>2, <1>3, CanConsume
<1>5. ASSUME NEW t1, Rel(Consume("id"), s, t1)
      PROVE  Fulfils(<<Call("className")>>, t1, c, s)
  <2>1. Good(t1) /\ Expr(s, t1, 0) /\ ("id" = "id" /\ ~t1.err => t1.prev \in Names)
    BY <1>5, OfConsume
  <2>2. Decl(s, t1) /\ (~t1.err => t1.prev \in Names)
    BY <1>2, <1>3, <2>1, StmtIsDecl, ExprIsStmt DEF StmtOK
  <2>3. Decl(s, t1)
    BY <1>2, <1>3, <2>1, <2>2, DeclTwice
  <2>4. Decl(s, t1) /\ StmtOK(t1, 0) /\ ExprOK(t1) /\ t1.level > 0
    BY <1>3, <2>1, <2>3, DeclKeeps
  <2>5. Pre(Call("className"), t1)
    BY <1>1, <1>2, <1>3, <2>1, <2>2, <2>4, CanClassName
  <2>6. ASSUME NEW t2, Rel(Call("className"), t1, t2)
        PROVE  Fulfils(<<>>, t2, c, s)
    <3>1. Good(t2) /\ Decl(t1, t2)
      BY <2>6, OfClassName
    <3>2. Decl(s, t2)
      BY <1>2, <2>4, <2>1, <3>1, DeclTwice
    <3>3. Decl(s, t2) /\ StmtOK(t2, 0) /\ ExprOK(t2) /\ t2.level > 0
      BY <1>3, <3>1, <3>2, DeclKeeps
    <3>9. Rel(c, s, t2)
      BY <1>1, <1>2, <1>3, <3>1, <3>3, AtClassDeclaration, DeclErr
    <3> QED BY <3>9, FulfilsNone
  <2> QED BY <2>5, <2>6, Step1
<1> QED BY <1>4, <1>5, Step2

\* A scope is opened,
LEMMA BeginInside ==
  ASSUME NEW s, NEW a, NEW b, Good(s), Good(a), s.level > 0, Tidy(s), Expr(s, a, 0),
         Rel(Call("beginScope"), a, b)
  PROVE  Good(b) /\ Inside(s, b) /\ b.level > 0
<1>1. /\ Good(b) /\ Stays(a, b) /\ b.top.depth = a.top.depth + 1 /\ b.classes = a.classes
      /\ SameLocals(a, b) /\ (~b.err => SameEnv(a, b) /\ b.top.height = a.top.height)
  BY OfBeginScope
<1>2. /\ Stays(s, b) /\ b.top.depth = s.top.depth + 1 /\ b.classes = s.classes /\ b.level = s.level
      /\ SameLocals(s, b) /\ s.top.depth \in Nat /\ s.top.n \in Nat /\ s.top.height \in Int
      /\ s.m \in Nat
      /\ ~b.err => SameEnv(s, b) /\ b.top.height = s.top.height
  BY <1>1, GoodTypes DEF Expr, Stays, SameLocals, SameEnv
<1>3. Tidy(b)
  BY <1>2 DEF Tidy, TidyTo, SameLocals
<1>4. ~b.err => MoreLocals(s, b, s.top.depth + 1) /\ MoreEnv(s, b)
  BY <1>2 DEF MoreLocals, MoreEnv, SameLocals, SameEnv
<1> QED BY <1>1, <1>2, <1>3, <1>4 DEF Inside

\* and statements and declarations follow.
LEMMA InsideKeeps ==
  ASSUME NEW s, NEW t, Good(s), Good(t), StmtOK(s, 0), Inside(s, t)
  PROVE  StmtOK(t, 0) /\ ExprOK(t) /\ t.level > 0 /\ Tidy(t)
<1>1. s.level > 0 /\ t.level > 0 /\ Stays(s, t) /\ Tidy(t) /\ ClassOK(s) /\ Temps(s, 0)
  BY GoodTypes DEF Inside, StmtOK, ExprOK, Stays
<1>2. ExprOK(t)
  BY <1>1, TidyBounded, StaysKeeps DEF ExprOK, Inside
<1>3. Temps(t, 0)
  BY <1>1, GoodTypes DEF Inside, Temps, Stays, MoreLocals
<1> QED BY <1>1, <1>2, <1>3 DEF StmtOK

\* A block.
LEMMA BlockDoes ==
  ASSUME NEW s, Good(s), NEW c, c[1] = "statement", Pre(c, s),
         NEW q, ~s.err => q = s.m
  PROVE  Fulfils(<<Advance, Call("beginScope"), Call("block"), <<"endScope", q>>>>, s, c, s)
<1>1. StmtOK(s, 0) /\ s.level > 0 /\ Tidy(s) /\ Bounded(s)
  BY AtStatement, ExprOKIs DEF StmtOK
<1>2. Pre(Advance, s)
  BY <1>1, CanAdvance
<1>3. ASSUME NEW t1, Rel(Advance, s, t1)
      PROVE  Fulfils(<<Call("beginScope"), Call("block"), <<"endScope", q>>>>, t1, c, s)
  <2>1. Good(t1) /\ Expr(s, t1, 0)
    BY <1>3, OfAdvance
  <2>2. Pre(Call("beginScope"), t1)
    BY <1>1, <2>1, ExprKeeps, CanBeginScope
  <2>3. ASSUME NEW t2, Rel(Call("beginScope"), t1, t2)
        PROVE  Fulfils(<<Call("block"), <<"endScope", q>>>>, t2, c, s)
    <3>1. Good(t2) /\ Inside(s, t2)
      BY <1>1, <2>1, <2>3, BeginInside
    <3>2. Pre(Call("block"), t2)
      BY <1>1, <3>1, InsideKeeps, CanBlock
    <3>3. ASSUME NEW t3, Rel(Call("block"), t2, t3)
          PROVE  Fulfils(<<<<"endScope", q>>>>, t3, c, s)
      <4>1. Good(t3) /\ Decl(t2, t3)
        BY <3>3, OfBlock
      <4>2. Inside(s, t3)
        BY <1>1, <3>1, <4>1, InsideDecl
      <4>3. Pre(<<"endScope", q>>, t3)
        BY <1>1, <4>1, <4>2, InsideSplits
      <4>4. ASSUME NEW t4, Rel(<<"endScope", q>>, t3, t4) PROVE Fulfils(<<>>, t4, c, s)
        <5>1. Good(t4) /\ Stmt(s, t4, 0) /\ t4.classes = s.classes
          BY <1>1, <4>1, <4>2, <4>4, InsideEnds
        <5>2. Rel(c, s, t4)
          BY <5>1, AtStatement, StmtErr
        <5> QED BY <5>2, FulfilsNone
      <4> QED BY <4>3, <4>4, Step1
    <3> QED BY <3>2, <3>3, Step2
  <2> QED BY <2>2, <2>3, Step3
<1> QED BY <1>2, <1>3, Step4

\* forStatement.
LEMMA ForStatementDoes ==
  ASSUME NEW s, Good(s), NEW c, c[1] = "statement", Pre(c, s),
         NEW q, ~s.err => q = s.m
  PROVE  Fulfils(<<Advance, Call("beginScope"), Consume("("), Call("forInitializer"),
                   Call("forCondition"), <<"endScope", q>>>>, s, c, s)
<1>1. StmtOK(s, 0) /\ s.level > 0 /\ Tidy(s) /\ Bounded(s)
  BY AtStatement, ExprOKIs DEF StmtOK
<1>2. Pre(Advance, s)
  BY <1>1, CanAdvance
<1>3. ASSUME NEW t1, Rel(Advance, s, t1)
      PROVE  Fulfils(<<Call("beginScope"), Consume("("), Call("forInitializer"),
                       Call("forCondition"), <<"endScope", q>>>>, t1, c, s)
  <2>1. Good(t1) /\ Expr(s, t1, 0)
    BY <1>3, OfAdvance
  <2>2. Pre(Call("beginScope"), t1)
    BY <1>1, <2>1, ExprKeeps, CanBeginScope
  <2>3. ASSUME NEW t2, Rel(Call("beginScope"), t1, t2)
        PROVE  Fulfils(<<Consume("("), Call("forInitializer"), Call("forCondition"),
                         <<"endScope", q>>>>, t2, c, s)
    <3>1. Good(t2) /\ Inside(s, t2) /\ t2.level > 0
      BY <1>1, <2>1, <2>3, BeginInside
    <3>2. Pre(Consume("("), t2)
      BY <3>1, CanConsume
    <3>3. ASSUME NEW t3, Rel(Consume("("), t2, t3)
          PROVE  Fulfils(<<Call("forInitializer"), Call("forCondition"), <<"endScope", q>>>>,
                         t3, c, s)
      <4>1. Good(t3) /\ Expr(t2, t3, 0)
        BY <3>3, OfConsume
      <4>2. Tidy(t2)
        BY <1>1, <3>1, InsideKeeps
      <4>3. Decl(t2, t3)
        BY <3>1, <4>1, <4>2, ExprIsStmt, StmtIsDecl
      <4>4. Inside(s, t3)
        BY <1>1, <3>1, <4>1, <4>3, InsideDecl
      <4>5. Pre(Call("forInitializer"), t3)
        BY <1>1, <4>1, <4>4, InsideKeeps, CanForInitializer
      <4>6. ASSUME NEW t4, Rel(Call("forInitializer"), t3, t4)
            PROVE  Fulfils(<<Call("forCondition"), <<"endScope", q>>>>, t4, c, s)
        <5>1. Good(t4) /\ Decl(t3, t4)
          BY <4>6, OfForInitializer
        <5>2. Inside(s, t4)
          BY <1>1, <4>1, <4>4, <5>1, InsideDecl
        <5>3. Pre(Call("forCondition"), t4) /\ t4.level > 0
          BY <1>1, <5>1, <5>2, InsideKeeps, CanForCondition
        <5>4. ASSUME NEW t5, Rel(Call("forCondition"), t4, t5)
              PROVE  Fulfils(<<<<"endScope", q>>>>, t5, c, s)
          <6>1. Good(t5) /\ Stmt(t4, t5, 0) /\ t5.classes = t4.classes
            BY <5>4, OfForCondition
          <6>2. Decl(t4, t5)
            BY <5>1, <5>3, <6>1, StmtIsDecl
          <6>3. Inside(s, t5)
            BY <1>1, <5>1, <5>2, <6>1, <6>2, InsideDecl
          <6>4. Pre(<<"endScope", q>>, t5)
            BY <1>1, <6>1, <6>3, InsideSplits
          <6>5. ASSUME NEW t6, Rel(<<"endScope", q>>, t5, t6) PROVE Fulfils(<<>>, t6, c, s)
            <7>1. Good(t6) /\ Stmt(s, t6, 0) /\ t6.classes = s.classes
              BY <1>1, <6>1, <6>3, <6>5, InsideEnds
            <7>2. Rel(c, s, t6)
              BY <7>1, AtStatement, StmtErr
            <7> QED BY <7>2, FulfilsNone
          <6> QED BY <6>4, <6>5, Step1
        <5> QED BY <5>3, <5>4, Step2
      <4> QED BY <4>5, <4>6, Step3
    <3> QED BY <3>2, <3>3, Step4
  <2> QED BY <2>2, <2>3, Step5
<1> QED BY <1>2, <1>3, Step6

-----------------------------------------------------------------------------
(* Variables *)

\* A variable that has been declared can be marked, and when its value has been
\* computed, defined.
LEMMA DeclaredReady ==
  ASSUME NEW s, NEW t, NEW u, NEW k, k \in {0, 1}, Good(s), Good(t), Good(u), s.level > 0,
         Tidy(s), Temps(s, 0), Declares(s, t), Expr(t, u, k)
  PROVE  Ready(u, k - 1) /\ u.level > 0 /\ Bounded(t) /\ (ClassOK(s) => ExprOK(t))
<1>1. /\ t.level = s.level /\ u.level = s.level /\ u.top.depth = s.top.depth
      /\ t.top.depth = s.top.depth /\ SameLocals(t, u) /\ s.top.depth \in Nat
      /\ s.top.n \in Nat /\ s.top.height \in Int /\ t.top.n \in Nat /\ t.top.height \in Int
      /\ Stays(s, t) /\ t.classes = s.classes
  BY GoodTypes DEF Declares, Expr, Stays
<1>2. Bounded(t)
  <2>1. CASE s.top.depth = 0
    <3>1. Bounded(s)
      BY TidyBounded
    <3> QED BY <1>1, <2>1, <3>1 DEF Declares, SameLocals, Bounded
  <2>2. CASE s.top.depth # 0
    BY <2>2 DEF Declares
  <2> QED BY <2>1, <2>2
<1>3. ClassOK(s) => ExprOK(t)
  BY <1>1, <1>2, StaysKeeps DEF ExprOK
<1>4. CASE s.top.depth = 0
  <2>1. Tidy(u)
    BY <1>1, <1>4 DEF Declares, SameLocals, Tidy
  <2> QED BY <1>1, <1>2, <1>3, <1>4, <2>1 DEF Ready
<1>5. CASE s.top.depth # 0
  <2>1. AlmostTidy(t) /\ (~t.err => t.top.n = s.top.n + 1 /\ Unmarked(t))
    BY <1>5 DEF Declares
  <2>2. AlmostTidy(u)
    BY <1>1, <2>1 DEF AlmostTidy, SameLocals
  <2>3. ~u.err => Unmarked(u) /\ Temps(u, k - 1)
    BY <1>1, <2>1 DEF Expr, Stays, Declares, Temps, Unmarked, SameLocals
  <2> QED BY <1>1, <1>2, <1>3, <1>5, <2>2, <2>3 DEF Ready
<1> QED BY <1>4, <1>5

\* Declared and defined: there is one more variable, or it is a global.
LEMMA DeclareDefine ==
  ASSUME NEW s, NEW t, NEW u, NEW v, NEW k, k \in {0, 1}, Good(s), Good(t), Good(u), Good(v),
         s.level > 0, Declares(s, t), Expr(t, u, k), Defines(u, v, -k), Tidy(s)
  PROVE  /\ Stays(s, v) /\ v.top.depth = s.top.depth /\ v.classes = s.classes /\ Tidy(v)
         /\ ~v.err =>
              /\ MoreEnv(s, v)
              /\ s.top.depth = 0 => SameLocals(s, v) /\ v.top.height = s.top.height
              /\ s.top.depth # 0 =>
                   /\ v.top.n = s.top.n + 1 /\ v.top.height = s.top.height + k
                   /\ \A i \in 1..s.top.n : v.top.locals[i] = s.top.locals[i]
                   /\ v.top.locals[s.top.n + 1].depth = s.top.depth
<1>1. /\ t.level = s.level /\ u.level = s.level /\ u.top.depth = s.top.depth
      /\ v.level = s.level /\ v.top.depth = s.top.depth
      /\ t.top.depth = s.top.depth /\ SameLocals(t, u) /\ s.top.depth \in Nat
      /\ s.top.n \in Nat /\ s.top.height \in Int /\ t.top.n \in Nat /\ t.top.height \in Int
      /\ s.m \in Nat /\ Stays(s, v) /\ v.classes = s.classes /\ Tidy(v) /\ -k \in Int /\ k \in Int
  BY GoodTypes DEF Declares, Defines, Expr, Stays
<1>2. ASSUME ~v.err PROVE ~u.err /\ ~t.err /\ ~s.err /\ SameEnv(s, u) /\ u.top.height = s.top.height + k
  BY <1>1, <1>2, GoodTypes DEF Declares, Defines, Expr, Stays, SameEnv
<1>3. CASE s.top.depth = 0
  <2>1. ASSUME ~v.err
        PROVE  SameLocals(s, v) /\ SameEnv(s, v) /\ v.top.height = s.top.height
    <3>1. SameLocals(s, t)
      BY <1>3 DEF Declares
    <3>2. SameLocals(u, v) /\ SameEnv(u, v) /\ v.top.height = u.top.height + -k
      BY <1>1, <1>3, <2>1 DEF Defines
    <3> QED BY <1>1, <1>2, <2>1, <3>1, <3>2 DEF SameLocals, SameEnv
  <2>2. ~v.err => MoreEnv(s, v)
    BY <1>1, <2>1 DEF MoreEnv, SameEnv
  <2> QED BY <1>1, <1>3, <2>1, <2>2
<1>4. CASE s.top.depth # 0
  <2>1. ASSUME ~v.err
        PROVE  /\ v.top.n = s.top.n + 1 /\ v.top.height = s.top.height + k
               /\ \A i \in 1..s.top.n : v.top.locals[i] = s.top.locals[i]
               /\ v.top.locals[s.top.n + 1].depth = s.top.depth
               /\ MoreEnv(s, v)
    <3>1. t.top.n = s.top.n + 1 /\ \A i \in 1..s.top.n : t.top.locals[i] = s.top.locals[i]
      BY <1>2, <1>4, <2>1 DEF Declares
    <3>2. /\ v.top.height = u.top.height /\ v.top.n = u.top.n
          /\ v.top.locals[u.top.n].depth = u.top.depth
          /\ \A i \in 1..(u.top.n - 1) : v.top.locals[i] = u.top.locals[i]
          /\ v.m = u.m + 1 /\ (\A e \in 1..u.m : v.env[e] = u.env[e])
          /\ v.env[v.m].slot = <<u.level, u.top.n - 1>>
      BY <1>1, <1>4, <2>1 DEF Defines
    <3>3. u.top.n = s.top.n + 1 /\ \A i \in 1..s.top.n : u.top.locals[i] = s.top.locals[i]
      BY <1>1, <3>1 DEF SameLocals
    <3>4. MoreEnv(s, v)
      BY <1>1, <1>2, <2>1, <3>2, <3>3 DEF SameEnv, MoreEnv
    <3> QED BY <1>1, <1>2, <2>1, <3>2, <3>3, <3>4
  <2> QED BY <1>1, <1>4, <2>1
<1> QED BY <1>3, <1>4

\* The value is computed between the two,
LEMMA VariableDeclared ==
  ASSUME NEW s, NEW t, NEW u, NEW v, Good(s), Good(t), Good(u), Good(v), s.level > 0,
         Declares(s, t), Expr(t, u, 1), Defines(u, v, -1), Tidy(s)
  PROVE  Decl(s, v)
<1>1. s.top.n \in Nat /\ s.top.height \in Int /\ s.top.depth \in Nat
  BY GoodTypes
<1>2. /\ Stays(s, v) /\ v.top.depth = s.top.depth /\ v.classes = s.classes /\ Tidy(v)
      /\ ~v.err =>
           /\ MoreEnv(s, v)
           /\ s.top.depth = 0 => SameLocals(s, v) /\ v.top.height = s.top.height
           /\ s.top.depth # 0 =>
                /\ v.top.n = s.top.n + 1 /\ v.top.height = s.top.height + 1
                /\ \A i \in 1..s.top.n : v.top.locals[i] = s.top.locals[i]
                /\ v.top.locals[s.top.n + 1].depth = s.top.depth
  BY DeclareDefine
<1>3. ~v.err => MoreLocals(s, v, s.top.depth)
  BY <1>1, <1>2 DEF MoreLocals, SameLocals
<1> QED BY <1>2, <1>3 DEF Decl

\* or behind them, if it is a function.
LEMMA FunctionDeclared ==
  ASSUME NEW s, NEW t, NEW v, NEW w, Good(s), Good(t), Good(v), Good(w), s.level > 0,
         Declares(s, t), Defines(t, v, 0), Expr(v, w, IF s.top.depth = 0 THEN 0 ELSE 1), Tidy(s)
  PROVE  Decl(s, w)
<1>1. s.top.n \in Nat /\ s.top.height \in Int /\ s.top.depth \in Nat
  BY GoodTypes
<1>2. t.level > 0
  BY DEF Declares, Stays
<1>3. Expr(t, t, 0)
  BY <1>2, ExprSelf
<1>4. 0 \in {0, 1} /\ Defines(t, v, -0)
  BY DEF Defines
<1>5. /\ Stays(s, v) /\ v.top.depth = s.top.depth /\ v.classes = s.classes /\ Tidy(v)
      /\ ~v.err =>
           /\ MoreEnv(s, v)
           /\ s.top.depth = 0 => SameLocals(s, v) /\ v.top.height = s.top.height
           /\ s.top.depth # 0 =>
                /\ v.top.n = s.top.n + 1 /\ v.top.height = s.top.height + 0
                /\ \A i \in 1..s.top.n : v.top.locals[i] = s.top.locals[i]
                /\ v.top.locals[s.top.n + 1].depth = s.top.depth
  BY <1>3, <1>4, DeclareDefine
<1>6. Tidy(w)
  BY <1>5, ExprKeeps
<1>7. Stays(s, w) /\ w.top.depth = s.top.depth /\ w.classes = s.classes
  BY <1>5 DEF Expr, Stays
<1>8. ASSUME ~w.err PROVE MoreLocals(s, w, s.top.depth) /\ MoreEnv(s, w)
  <2>1. /\ ~v.err /\ SameLocals(v, w) /\ SameEnv(v, w)
        /\ w.top.height = v.top.height + IF s.top.depth = 0 THEN 0 ELSE 1
    BY <1>8, GoodTypes DEF Expr, Stays
  <2>2. MoreEnv(s, w)
    BY <1>5, <2>1 DEF MoreEnv, SameEnv
  <2>3. MoreLocals(s, w, s.top.depth)
    BY <1>1, <1>5, <2>1 DEF MoreLocals, SameLocals
  <2> QED BY <2>2, <2>3
<1> QED BY <1>6, <1>7, <1>8 DEF Decl

\* varDeclaration.
LEMMA VarDeclarationDoes ==
  ASSUME NEW s, Good(s), NEW c, c[1] = "varDeclaration", Pre(c, s)
  PROVE  Fulfils(<<Consume("id"), Call("declareVariable"), Call("initializer"), Consume(";"),
                   Call("defineVariable")>>, s, c, s)
<1>1. StmtOK(s, 0) /\ s.level > 0 /\ Tidy(s)
  BY AtVarDeclaration, ExprOKIs DEF StmtOK
<1>2. Pre(Consume("id"), s)
  BY <1>1, CanConsume
<1>3. ASSUME NEW t1, Rel(Consume("id"), s, t1)
      PROVE  Fulfils(<<Call("declareVariable"), Call("initializer"), Consume(";"),
                       Call("defineVariable")>>, t1, c, s)
  <2>1. Good(t1) /\ Expr(s, t1, 0)
    BY <1>3, OfConsume
  <2>2. Decl(s, t1)
    BY <1>1, <2>1, ExprIsStmt, StmtIsDecl
  <2>3. StmtOK(t1, 0) /\ t1.level > 0
    BY <1>1, <2>1, <2>2, DeclKeeps
  <2>4. Tidy(t1) /\ Temps(t1, 0) /\ ClassOK(t1)
    BY <2>3, ExprOKIs DEF StmtOK
  <2>5. Pre(Call("declareVariable"), t1)
    BY <2>3, <2>4, CanDeclareVariable
  <2>6. ASSUME NEW t2, Rel(Call("declareVariable"), t1, t2)
        PROVE  Fulfils(<<Call("initializer"), Consume(";"), Call("defineVariable")>>, t2, c, s)
    <3>1. Good(t2) /\ Declares(t1, t2)
      BY <2>6, OfDeclareVariable
    <3>2. t2.level > 0
      BY <2>3, <3>1 DEF Declares, Stays
    <3>3. ExprOK(t2)
      BY <2>1, <2>3, <2>4, <3>1, <3>2, ExprSelf, DeclaredReady
    <3>4. Pre(Call("initializer"), t2)
      BY <3>3, CanInitializer
    <3>5. ASSUME NEW t3, Rel(Call("initializer"), t2, t3)
          PROVE  Fulfils(<<Consume(";"), Call("defineVariable")>>, t3, c, s)
      <4>1. Good(t3) /\ Expr(t2, t3, 1)
        BY <3>5, OfInitializer
      <4>2. t3.level > 0
        BY <3>2, <4>1, ExprKeeps
      <4>3. Pre(Consume(";"), t3)
        BY <4>2, CanConsume
      <4>4. ASSUME NEW t4, Rel(Consume(";"), t3, t4)
            PROVE  Fulfils(<<Call("defineVariable")>>, t4, c, s)
        <5>1. Good(t4) /\ Expr(t3, t4, 0)
          BY <4>4, OfConsume
        <5>2. Expr(t2, t4, 1)
          BY <3>1, <3>2, <4>1, <5>1, ExprTwice
        <5>3. Ready(t4, 1 - 1) /\ t4.level > 0
          BY <2>1, <2>3, <2>4, <3>1, <5>1, <5>2, DeclaredReady
        <5>4. Pre(Call("defineVariable"), t4)
          BY <5>3, CanDefineVariable
        <5>5. ASSUME NEW t5, Rel(Call("defineVariable"), t4, t5) PROVE Fulfils(<<>>, t5, c, s)
          <6>1. Good(t5) /\ Defines(t4, t5, -1)
            BY <5>5, OfDefineVariable
          <6>2. Decl(t1, t5)
            BY <2>1, <2>3, <2>4, <3>1, <5>1, <5>2, <6>1, VariableDeclared
          <6>3. Decl(s, t5)
            BY <1>1, <2>1, <2>2, <6>1, <6>2, DeclTwice
          <6>4. Rel(c, s, t5)
            BY <6>1, <6>3, AtVarDeclaration, DeclErr
          <6> QED BY <6>4, FulfilsNone
        <5> QED BY <5>4, <5>5, Step1
      <4> QED BY <4>3, <4>4, Step2
    <3> QED BY <3>4, <3>5, Step3
  <2> QED BY <2>5, <2>6, Step4
<1> QED BY <1>2, <1>3, Step5

\* A parameter, behind the count of the parameters.
LEMMA ParameterDoes ==
  ASSUME NEW s, Good(s), NEW c, c[1] = "parameter", Pre(c, s), NEW u, Good(u), Expr(s, u, 0)
  PROVE  Fulfils(<<Consume("id"), Call("declareVariable"), Emit(1), Call("defineVariable")>>,
                 u, c, s)
<1>1. StmtOK(s, 0) /\ s.level > 0 /\ Tidy(s) /\ u.level > 0
  BY AtParameter, ExprOKIs, ExprKeeps DEF StmtOK
<1>2. Pre(Consume("id"), u)
  BY <1>1, CanConsume
<1>3. ASSUME NEW t1, Rel(Consume("id"), u, t1)
      PROVE  Fulfils(<<Call("declareVariable"), Emit(1), Call("defineVariable")>>, t1, c, s)
  <2>1. Good(t1) /\ Expr(u, t1, 0)
    BY <1>3, OfConsume
  <2>2. Expr(s, t1, 0)
    BY <1>1, <2>1, ExprTwice
  <2>3. Decl(s, t1)
    BY <1>1, <2>1, <2>2, ExprIsStmt, StmtIsDecl
  <2>4. StmtOK(t1, 0) /\ t1.level > 0
    BY <1>1, <2>1, <2>3, DeclKeeps
  <2>5. Tidy(t1) /\ Temps(t1, 0)
    BY <2>4 DEF StmtOK
  <2>6. Pre(Call("declareVariable"), t1)
    BY <2>4, <2>5, CanDeclareVariable
  <2>7. ASSUME NEW t2, Rel(Call("declareVariable"), t1, t2)
        PROVE  Fulfils(<<Emit(1), Call("defineVariable")>>, t2, c, s)
    <3>1. Good(t2) /\ Declares(t1, t2)
      BY <2>7, OfDeclareVariable
    <3>2. t2.level > 0
      BY <2>4, <3>1 DEF Declares, Stays
    <3>3. Pre(Emit(1), t2)
      BY <3>2, CanEmit
    <3>4. ASSUME NEW t3, Rel(Emit(1), t2, t3) PROVE Fulfils(<<Call("defineVariable")>>, t3, c, s)
      <4>1. Good(t3) /\ Expr(t2, t3, 1)
        BY <3>4, OfEmit
      <4>2. Ready(t3, 1 - 1) /\ t3.level > 0
        BY <2>1, <2>4, <2>5, <3>1, <4>1, DeclaredReady
      <4>3. Pre(Call("defineVariable"), t3)
        BY <4>2, CanDefineVariable
      <4>4. ASSUME NEW t4, Rel(Call("defineVariable"), t3, t4) PROVE Fulfils(<<>>, t4, c, s)
        <5>1. Good(t4) /\ Defines(t3, t4, -1)
          BY <4>4, OfDefineVariable
        <5>2. Decl(t1, t4)
          BY <2>1, <2>4, <2>5, <3>1, <4>1, <5>1, VariableDeclared
        <5>3. Decl(s, t4)
          BY <1>1, <2>1, <2>3, <5>1, <5>2, DeclTwice
        <5>4. Rel(c, s, t4)
          BY <5>1, <5>3, AtParameter, DeclErr
        <5> QED BY <5>4, FulfilsNone
      <4> QED BY <4>3, <4>4, Step1
    <3> QED BY <3>3, <3>4, Step2
  <2> QED BY <2>6, <2>7, Step3
<1> QED BY <1>2, <1>3, Step4

\* funDeclaration.
LEMMA FunDeclarationDoes ==
  ASSUME NEW s, Good(s), NEW c, c[1] = "funDeclaration", Pre(c, s)
  PROVE  Fulfils(<<Consume("id"), Call("declareVariable"), Call("markInitialized"),
                   <<"function", "function">>, Call("defineFunction")>>, s, c, s)
<1>1. StmtOK(s, 0) /\ s.level > 0 /\ Tidy(s)
  BY AtFunDeclaration, ExprOKIs DEF StmtOK
<1>2. Pre(Consume("id"), s)
  BY <1>1, CanConsume
<1>3. ASSUME NEW t1, Rel(Consume("id"), s, t1)
      PROVE  Fulfils(<<Call("declareVariable"), Call("markInitialized"),
                       <<"function", "function">>, Call("defineFunction")>>, t1, c, s)
  <2>1. Good(t1) /\ Expr(s, t1, 0)
    BY <1>3, OfConsume
  <2>2. Decl(s, t1)
    BY <1>1, <2>1, ExprIsStmt, StmtIsDecl
  <2>3. StmtOK(t1, 0) /\ t1.level > 0
    BY <1>1, <2>1, <2>2, DeclKeeps
  <2>4. Tidy(t1) /\ Temps(t1, 0) /\ ClassOK(t1)
    BY <2>3, ExprOKIs DEF StmtOK
  <2>5. Pre(Call("declareVariable"), t1)
    BY <2>3, <2>4, CanDeclareVariable
  <2>6. ASSUME NEW t2, Rel(Call("declareVariable"), t1, t2)
        PROVE  Fulfils(<<Call("markInitialized"), <<"function", "function">>,
                         Call("defineFunction")>>, t2, c, s)
    <3>1. Good(t2) /\ Declares(t1, t2)
      BY <2>6, OfDeclareVariable
    <3>2. t2.level > 0
      BY <2>3, <3>1 DEF Declares, Stays
    <3>3. Ready(t2, 0 - 1)
      BY <2>1, <2>3, <2>4, <3>1, <3>2, ExprSelf, DeclaredReady
    <3>4. Pre(Call("markInitialized"), t2)
      BY <3>2, <3>3, CanMarkInitialized
    <3>5. ASSUME NEW t3, Rel(Call("markInitialized"), t2, t3)
          PROVE  Fulfils(<<<<"function", "function">>, Call("defineFunction")>>, t3, c, s)
      <4>1. Good(t3) /\ Defines(t2, t3, 0)
        BY <3>5, OfMarkInitialized
      <4>2. /\ Stays(t1, t3) /\ t3.top.depth = t1.top.depth /\ t3.classes = t1.classes /\ Tidy(t3)
            /\ t3.level > 0
        BY <2>3, <3>1, <4>1 DEF Declares, Defines, Stays
      <4>3. Bounded(t3) /\ ClassOK(t3)
        BY <2>4, <4>1, <4>2, TidyBounded, StaysKeeps
      <4>4. Pre(<<"function", "function">>, t3)
        BY <4>2, <4>3, CanFunction DEF Types
      <4>5. ASSUME NEW t4, Rel(<<"function", "function">>, t3, t4)
            PROVE  Fulfils(<<Call("defineFunction")>>, t4, c, s)
        <5>1. Good(t4) /\ Expr(t3, t4, 1)
          BY <4>5, OfFunction
        <5>2. t4.level > 0 /\ t4.top.depth = t1.top.depth
          BY <4>2, <5>1 DEF Expr, Stays
        <5>3. Pre(Call("defineFunction"), t4)
          BY <5>2, CanDefineFunction
        <5>4. ASSUME NEW t5, Rel(Call("defineFunction"), t4, t5) PROVE Fulfils(<<>>, t5, c, s)
          <6>1. Good(t5) /\ Expr(t4, t5, IF t1.top.depth = 0 THEN -1 ELSE 0)
            BY <5>2, <5>4, OfDefineFunction
          <6>2. Expr(t3, t5, IF t1.top.depth = 0 THEN 0 ELSE 1)
            BY <4>1, <4>2, <5>1, <6>1, ExprTwice
          <6>3. Decl(t1, t5)
            BY <2>1, <2>3, <2>4, <3>1, <4>1, <6>1, <6>2, FunctionDeclared
          <6>4. Decl(s, t5)
            BY <1>1, <2>1, <2>2, <6>1, <6>3, DeclTwice
          <6>5. Rel(c, s, t5)
            BY <6>1, <6>4, AtFunDeclaration, DeclErr
          <6> QED BY <6>5, FulfilsNone
        <5> QED BY <5>3, <5>4, Step1
      <4> QED BY <4>4, <4>5, Step2
    <3> QED BY <3>4, <3>5, Step3
  <2> QED BY <2>5, <2>6, Step4
<1> QED BY <1>2, <1>3, Step5

\* classDeclaration, behind the name of the class.
LEMMA ClassNameDoes ==
  ASSUME NEW s, Good(s), NEW c, c[1] = "className", Pre(c, s), NEW n, n = s.prev
  PROVE  Fulfils(<<Call("declareVariable"), Emit(1), Call("defineVariable"), Call("beginClass"),
                   <<"inherit", n>>>>, s, c, s)
<1>1. StmtOK(s, 0) /\ s.level > 0 /\ Tidy(s) /\ (~s.err => n \in Names) /\ Temps(s, 0)
  BY AtClassName, ExprOKIs DEF StmtOK
<1>2. Pre(Call("declareVariable"), s)
  BY <1>1, CanDeclareVariable
<1>3. ASSUME NEW t2, Rel(Call("declareVariable"), s, t2)
      PROVE  Fulfils(<<Emit(1), Call("defineVariable"), Call("beginClass"), <<"inherit", n>>>>,
                     t2, c, s)
  <2>1. Good(t2) /\ Declares(s, t2)
    BY <1>3, OfDeclareVariable
  <2>2. t2.level > 0
    BY <1>1, <2>1 DEF Declares, Stays
  <2>3. Pre(Emit(1), t2)
    BY <2>2, CanEmit
  <2>4. ASSUME NEW t3, Rel(Emit(1), t2, t3)
        PROVE  Fulfils(<<Call("defineVariable"), Call("beginClass"), <<"inherit", n>>>>, t3, c, s)
    <3>1. Good(t3) /\ Expr(t2, t3, 1)
      BY <2>4, OfEmit
    <3>2. Ready(t3, 1 - 1) /\ t3.level > 0
      BY <1>1, <2>1, <3>1, DeclaredReady
    <3>3. Pre(Call("defineVariable"), t3)
      BY <3>2, CanDefineVariable
    <3>4. ASSUME NEW t4, Rel(Call("defineVariable"), t3, t4)
          PROVE  Fulfils(<<Call("beginClass"), <<"inherit", n>>>>, t4, c, s)
      <4>1. Good(t4) /\ Defines(t3, t4, -1)
        BY <3>4, OfDefineVariable
      <4>2. Decl(s, t4)
        BY <1>1, <2>1, <3>1, <4>1, VariableDeclared
      <4>3. StmtOK(t4, 0) /\ t4.level > 0
        BY <1>1, <4>1, <4>2, DeclKeeps
      <4>4. Pre(Call("beginClass"), t4)
        BY <4>3, CanBeginClass
      <4>5. ASSUME NEW t5, Rel(Call("beginClass"), t4, t5)
            PROVE  Fulfils(<<<<"inherit", n>>>>, t5, c, s)
        <5>1. Good(t5) /\ Classes(t4, t5, 1)
          BY <4>5, OfBeginClass
        <5>2. /\ t5.level > 0 /\ t5.classes = t4.classes + 1 /\ t4.classes \in Nat
              /\ SameLocals(t4, t5) /\ t5.top.depth = t4.top.depth /\ Stays(t4, t5)
          BY <4>1, <4>3, <5>1, GoodTypes DEF Classes, Stays
        <5>3. Tidy(t5) /\ Bounded(t5)
          <6>1. Tidy(t5)
            BY <4>3, <5>2 DEF StmtOK, Tidy, SameLocals
          <6> QED BY <5>1, <5>2, <6>1, TidyBounded
        <5>4. Temps(t5, 0) /\ (~t5.err => n \in Names)
          <6>1. Temps(t4, 0) /\ (s.err => t4.err)
            BY <4>2, <4>3, DeclErr DEF StmtOK
          <6> QED BY <1>1, <5>1, <5>2, <6>1 DEF Temps, Classes, Stays, SameLocals
        <5>5. Pre(<<"inherit", n>>, t5)
          <6>1. t5.classes > 0
            BY <5>2
          <6> QED BY <5>2, <5>3, <5>4, <6>1, CanInherit
        <5>6. ASSUME NEW t6, Rel(<<"inherit", n>>, t5, t6) PROVE Fulfils(<<>>, t6, c, s)
          <6>1. Good(t6) /\ Stmt(t5, t6, 0) /\ t6.classes = t5.classes - 1
            BY <5>6, OfInherit
          <6>2. Stmt(t4, t6, 0) /\ t6.classes = t4.classes
            BY <4>1, <5>1, <5>2, <6>1, GoodTypes DEF Classes, Stmt, Stays, SameLocals, SameEnv
          <6>3. Decl(t4, t6)
            BY <4>1, <4>3, <6>1, <6>2, StmtIsDecl
          <6>4. Decl(s, t6)
            BY <1>1, <4>1, <4>2, <6>1, <6>3, DeclTwice
          <6>5. Rel(c, s, t6)
            BY <6>1, <6>4, AtClassName, DeclErr
          <6> QED BY <6>5, FulfilsNone
        <5> QED BY <5>5, <5>6, Step1
      <4> QED BY <4>4, <4>5, Step2
    <3> QED BY <3>3, <3>4, Step3
  <2> QED BY <2>3, <2>4, Step4
<1> QED BY <1>2, <1>3, Step5

-----------------------------------------------------------------------------
(* Classes *)

\* The methods of class n, while the class is on the stack.
LEMMA ClassBodyDoes ==
  ASSUME NEW s, Good(s), s.level > 0, Bounded(s), NEW n, ~s.err => n \in Names
  PROVE  Fulfils(<<NamedVariable(n, FALSE), Consume("{"), Call("methods"), Consume("}"), Emit(-1)>>,
                 s, Emit(0), s)
<1>1. ~s.err => n # NoName /\ n # "this"
  BY NamesAreNames
<1>2. Pre(NamedVariable(n, FALSE), s)
  BY <1>1, CanNamedVariable
<1>3. ASSUME NEW t1, Rel(NamedVariable(n, FALSE), s, t1)
      PROVE  Fulfils(<<Consume("{"), Call("methods"), Consume("}"), Emit(-1)>>, t1, Emit(0), s)
  <2>1. Good(t1) /\ Expr(s, t1, 1)
    BY <1>3, OfNamedVariable
  <2>2. t1.level > 0 /\ Bounded(t1)
    BY <2>1, ExprKeeps
  <2>3. Pre(Consume("{"), t1)
    BY <2>2, CanConsume
  <2>4. ASSUME NEW t2, Rel(Consume("{"), t1, t2)
        PROVE  Fulfils(<<Call("methods"), Consume("}"), Emit(-1)>>, t2, Emit(0), s)
    <3>1. Good(t2) /\ Expr(t1, t2, 0)
      BY <2>4, OfConsume
    <3>2. t2.level > 0 /\ Bounded(t2)
      BY <2>2, <3>1, ExprKeeps
    <3>3. Expr(s, t2, 1)
      BY <2>1, <3>1, ExprTwice
    <3>4. Pre(Call("methods"), t2)
      BY <3>2, CanMethods
    <3>5. ASSUME NEW t3, Rel(Call("methods"), t2, t3)
          PROVE  Fulfils(<<Consume("}"), Emit(-1)>>, t3, Emit(0), s)
      <4>1. Good(t3) /\ Expr(t2, t3, 0)
        BY <3>5, OfMethods
      <4>2. t3.level > 0
        BY <3>2, <4>1, ExprKeeps
      <4>3. Expr(s, t3, 1)
        BY <3>3, <4>1, ExprTwice
      <4>4. Pre(Consume("}"), t3)
        BY <4>2, CanConsume
      <4>5. ASSUME NEW t4, Rel(Consume("}"), t3, t4) PROVE Fulfils(<<Emit(-1)>>, t4, Emit(0), s)
        <5>1. Good(t4) /\ Expr(t3, t4, 0)
          BY <4>5, OfConsume
        <5>2. Pre(Emit(-1), t4)
          BY <4>2, <5>1, ExprKeeps, CanEmit
        <5>3. Expr(s, t4, 1)
          BY <4>3, <5>1, ExprTwice
        <5>4. ASSUME NEW t5, Rel(Emit(-1), t4, t5) PROVE Fulfils(<<>>, t5, Emit(0), s)
          <6>1. Good(t5) /\ Expr(t4, t5, -1)
            BY <5>4, OfEmit
          <6>2. Expr(s, t5, 0)
            BY <5>3, <6>1, ExprTwice
          <6>3. Rel(Emit(0), s, t5)
            BY <6>1, <6>2, OfEmit, ExprKeeps
          <6> QED BY <6>3, FulfilsNone
        <5> QED BY <5>2, <5>4, Step1
      <4> QED BY <4>4, <4>5, Step2
    <3> QED BY <3>4, <3>5, Step3
  <2> QED BY <2>3, <2>4, Step4
<1> QED BY <1>2, <1>3, Step5

\* A class without a superclass,
LEMMA NoSuperclassDoes ==
  ASSUME NEW s, Good(s), NEW c, c[1] = "inherit", Pre(c, s)
  PROVE  Fulfils(ClassBody(c[2]) \o <<Call("endClass")>>, s, c, s)
<1>1. /\ s.level > 0 /\ Bounded(s) /\ Tidy(s) /\ Temps(s, 0) /\ s.classes > 0
      /\ ~s.err => c[2] \in Names
  BY AtInherit
<1>2. Fulfils(ClassBody(c[2]), s, Emit(0), s)
  BY <1>1, ClassBodyDoes DEF ClassBody
<1>3. ASSUME NEW t, Rel(Emit(0), s, t) PROVE Fulfils(<<Call("endClass")>>, t, c, s)
  <2>1. Good(t) /\ Expr(s, t, 0)
    BY <1>3, OfEmit
  <2>2. Pre(Call("endClass"), t)
    BY <1>1, <2>1, ExprKeeps, CanEndClass
  <2>3. ASSUME NEW u, Rel(Call("endClass"), t, u) PROVE Fulfils(<<>>, u, c, s)
    <3>1. Good(u) /\ Classes(t, u, -1)
      BY <2>3, OfEndClass
    <3>2. Tidy(t)
      BY <1>1, <2>1, ExprKeeps
    <3>3. Tidy(u)
      BY <3>1, <3>2 DEF Classes, Tidy, SameLocals
    <3>4. Stmt(s, u, 0) /\ u.classes = s.classes - 1
      BY <1>1, <2>1, <3>1, <3>3, GoodTypes DEF Stmt, Expr, Classes, Stays, SameLocals, SameEnv
    <3>5. Rel(c, s, u)
      BY <3>1, <3>4, AtInherit, StmtErr
    <3> QED BY <3>5, FulfilsNone
  <2> QED BY <2>2, <2>3, Step1
<1>4. IsSeq(<<Call("endClass")>>)
  BY ListsAreSeqs
<1> QED BY <1>2, <1>3, <1>4, FulfilsThen

\* and one with a superclass, up to its name.
LEMMA InheritDoes ==
  ASSUME NEW s, Good(s), NEW c, c[1] = "inherit", Pre(c, s)
  PROVE  Fulfils(<<Advance, Consume("id"), <<"superclass", c[2]>>>>, s, c, s)
<1>1. /\ s.level > 0 /\ Bounded(s) /\ Tidy(s) /\ Temps(s, 0) /\ s.classes > 0
      /\ ~s.err => c[2] \in Names
  BY AtInherit
<1>2. Pre(Advance, s)
  BY <1>1, CanAdvance
<1>3. ASSUME NEW t1, Rel(Advance, s, t1)
      PROVE  Fulfils(<<Consume("id"), <<"superclass", c[2]>>>>, t1, c, s)
  <2>1. Good(t1) /\ Expr(s, t1, 0)
    BY <1>3, OfAdvance
  <2>2. Pre(Consume("id"), t1)
    BY <1>1, <2>1, ExprKeeps, CanConsume
  <2>3. ASSUME NEW t2, Rel(Consume("id"), t1, t2)
        PROVE  Fulfils(<<<<"superclass", c[2]>>>>, t2, c, s)
    <3>1. Good(t2) /\ Expr(t1, t2, 0) /\ (~t2.err => t2.prev \in Names)
      BY <2>3, OfConsume
    <3>2. Expr(s, t2, 0)
      BY <1>1, <2>1, <3>1, ExprTwice
    <3>3. t2.level > 0 /\ Bounded(t2) /\ Tidy(t2) /\ t2.classes = s.classes /\ (s.err => t2.err)
      BY <1>1, <3>2, ExprKeeps
    <3>4. Temps(t2, 0)
      BY <1>1, <3>2, GoodTypes DEF Expr, Temps, Stays, SameLocals
    <3>5. Pre(<<"superclass", c[2]>>, t2)
      BY <1>1, <3>1, <3>3, <3>4, CanSuperclass
    <3>6. ASSUME NEW u, Rel(<<"superclass", c[2]>>, t2, u) PROVE Fulfils(<<>>, u, c, s)
      <4>1. Good(u) /\ Stmt(t2, u, 0) /\ u.classes = t2.classes - 1
        BY <3>6, OfSuperclass
      <4>2. Stmt(s, u, 0) /\ u.classes = s.classes - 1
        BY <1>1, <3>2, <3>3, <4>1, GoodTypes DEF Stmt, Expr, Stays, SameLocals, SameEnv
      <4>3. Rel(c, s, u)
        BY <4>1, <4>2, AtInherit, StmtErr
      <4> QED BY <4>3, FulfilsNone
    <3> QED BY <3>5, <3>6, Step1
  <2> QED BY <2>2, <2>3, Step2
<1> QED BY <1>2, <1>3, Step3

\* The scope of super is opened behind the superclass,
LEMMA SuperBegins ==
  ASSUME NEW s, NEW a, NEW b, Good(s), Good(a), s.level > 0, Tidy(s), Expr(s, a, 1),
         Rel(Call("beginScope"), a, b)
  PROVE  /\ Stays(s, b) /\ b.top.depth = s.top.depth + 1 /\ b.classes = s.classes
         /\ b.level = s.level /\ SameLocals(s, b) /\ Tidy(b) /\ Good(b) /\ b.level > 0
         /\ ~b.err => SameEnv(s, b) /\ b.top.height = s.top.height + 1
         /\ s.top.depth \in Nat /\ s.top.n \in Nat /\ s.top.height \in Int /\ s.m \in Nat
<1>1. /\ Good(b) /\ Stays(a, b) /\ b.top.depth = a.top.depth + 1 /\ b.classes = a.classes
      /\ SameLocals(a, b) /\ (~b.err => SameEnv(a, b) /\ b.top.height = a.top.height)
  BY OfBeginScope
<1>2. /\ Stays(s, b) /\ b.top.depth = s.top.depth + 1 /\ b.classes = s.classes /\ b.level = s.level
      /\ SameLocals(s, b) /\ s.top.depth \in Nat /\ s.top.n \in Nat /\ s.top.height \in Int
      /\ s.m \in Nat
      /\ ~b.err => SameEnv(s, b) /\ b.top.height = s.top.height + 1
  BY <1>1, GoodTypes DEF Expr, Stays, SameLocals, SameEnv
<1>3. Tidy(b)
  BY <1>2 DEF Tidy, TidyTo, SameLocals
<1> QED BY <1>1, <1>2, <1>3

\* super is declared in it,
LEMMA SuperReady ==
  ASSUME NEW s, NEW a, NEW b, NEW x, Good(s), Good(a), Good(x), s.level > 0, Tidy(s),
         Temps(s, 0), Expr(s, a, 1), Rel(Call("beginScope"), a, b), Declares(b, x)
  PROVE  x.level > 0 /\ Ready(x, 0) /\ x.top.depth = b.top.depth
<1>1. /\ Stays(s, b) /\ b.top.depth = s.top.depth + 1 /\ b.level = s.level /\ Good(b)
      /\ SameLocals(s, b) /\ s.top.depth \in Nat /\ s.top.n \in Nat /\ s.top.height \in Int
      /\ ~b.err => SameEnv(s, b) /\ b.top.height = s.top.height + 1
  BY SuperBegins
<1>2. /\ x.level = s.level /\ x.top.depth = s.top.depth + 1 /\ x.top.depth # 0 /\ AlmostTidy(x)
      /\ ~x.err => x.top.n = b.top.n + 1 /\ Unmarked(x) /\ x.top.height = b.top.height
  BY <1>1 DEF Declares, Stays
<1>3. ~x.err => Temps(x, 0)
  <2>1. ~x.err => ~b.err /\ ~s.err
    BY <1>1, GoodTypes DEF Declares, Stays
  <2> QED BY <1>1, <1>2, <2>1 DEF Temps, SameLocals
<1> QED BY <1>1, <1>2, <1>3 DEF Ready

\* and holds the superclass.
LEMMA SuperScope ==
  ASSUME NEW s, NEW a, NEW b, NEW x, NEW y, Good(s), Good(a), Good(x), Good(y),
         s.level > 0, Tidy(s), Temps(s, 0), Expr(s, a, 1), Rel(Call("beginScope"), a, b),
         Declares(b, x), Defines(x, y, -1)
  PROVE  Inside(s, y) /\ y.level > 0 /\ y.classes = s.classes
<1>1. /\ Stays(s, b) /\ b.top.depth = s.top.depth + 1 /\ b.classes = s.classes
      /\ b.level = s.level /\ SameLocals(s, b) /\ Tidy(b) /\ Good(b) /\ b.level > 0
      /\ ~b.err => SameEnv(s, b) /\ b.top.height = s.top.height + 1
      /\ s.top.depth \in Nat /\ s.top.n \in Nat /\ s.top.height \in Int /\ s.m \in Nat
  BY SuperBegins
<1>2. x.level > 0 /\ x.top.depth = b.top.depth
  BY SuperReady
<1>3. /\ Stays(b, y) /\ y.top.depth = b.top.depth /\ y.classes = b.classes /\ Tidy(y)
      /\ ~y.err => /\ y.top.n = b.top.n + 1 /\ y.top.height = b.top.height
                   /\ \A i \in 1..b.top.n : y.top.locals[i] = b.top.locals[i]
                   /\ y.top.locals[b.top.n + 1].depth = b.top.depth
                   /\ MoreEnv(b, y)
  <2>1. Stays(b, y) /\ y.top.depth = b.top.depth /\ y.classes = b.classes /\ Tidy(y)
    BY DEF Declares, Defines, Stays
  <2>2. ASSUME ~y.err
        PROVE  /\ y.top.n = b.top.n + 1 /\ y.top.height = b.top.height
               /\ \A i \in 1..b.top.n : y.top.locals[i] = b.top.locals[i]
               /\ y.top.locals[b.top.n + 1].depth = b.top.depth
               /\ MoreEnv(b, y)
    <3>1. ~x.err /\ b.top.depth # 0 /\ b.top.n \in Nat /\ b.m \in Nat /\ x.top.depth # 0
      BY <1>1, <1>2, <2>2, GoodTypes DEF Defines, Stays
    <3>2. /\ x.top.n = b.top.n + 1 /\ \A i \in 1..b.top.n : x.top.locals[i] = b.top.locals[i]
          /\ SameEnv(b, x) /\ x.top.height = b.top.height /\ x.level = b.level
      BY <3>1 DEF Declares, Stays
    <3>3. /\ y.top.height = x.top.height /\ y.top.n = x.top.n
          /\ y.top.locals[x.top.n].depth = x.top.depth
          /\ \A i \in 1..(x.top.n - 1) : y.top.locals[i] = x.top.locals[i]
          /\ y.m = x.m + 1 /\ (\A e \in 1..x.m : y.env[e] = x.env[e])
          /\ y.env[y.m].slot = <<x.level, x.top.n - 1>>
      BY <2>2, <3>1 DEF Defines
    <3>4. MoreEnv(b, y)
      BY <3>1, <3>2, <3>3 DEF SameEnv, MoreEnv
    <3> QED BY <1>2, <3>1, <3>2, <3>3, <3>4
  <2> QED BY <2>1, <2>2
<1>4. Stays(s, y) /\ y.top.depth = s.top.depth + 1 /\ y.classes = s.classes /\ y.level = s.level
  BY <1>1, <1>3 DEF Stays
<1>5. ASSUME ~y.err PROVE MoreLocals(s, y, s.top.depth + 1) /\ MoreEnv(s, y)
  <2>1. ~b.err
    BY <1>3, <1>5, GoodTypes DEF Stays
  <2>2. MoreLocals(s, y, s.top.depth + 1)
    BY <1>1, <1>3, <1>5, <2>1 DEF MoreLocals, SameLocals
  <2>3. MoreEnv(s, y)
    BY <1>1, <1>3, <1>5, <2>1 DEF MoreEnv, SameEnv, SameLocals
  <2> QED BY <2>2, <2>3
<1> QED BY <1>1, <1>3, <1>4, <1>5 DEF Inside

\* Two calls are a list.
LEMMA TwoCalls ==
  ASSUME NEW a, NEW b PROVE IsSeq(<<a, b>>)
<1>1. <<a, b>> \in Seq({a, b})
  OBVIOUS
<1> QED BY <1>1 DEF IsSeq

\* Lists behind one another are a list, however they are grouped.
Cat(a, b) == a \o b

\* Two lists make a list,
LEMMA CatLists ==
  ASSUME NEW a, NEW b, IsSeq(a), IsSeq(b) PROVE IsSeq(Cat(a, b))
BY ListsAreSeqs, Zenon DEF Cat

\* and their grouping is of no interest.
LEMMA CatRegroup ==
  ASSUME NEW a, NEW b, NEW c, IsSeq(a), IsSeq(b), IsSeq(c)
  PROVE  Cat(Cat(a, b), c) = Cat(a, Cat(b, c))
<1>1. \A S, T : Seq(S) \subseteq Seq(S \cup T) /\ Seq(T) \subseteq Seq(S \cup T)
  OBVIOUS
<1>2. PICK S : a \in Seq(S) /\ b \in Seq(S)
  BY <1>1 DEF IsSeq
<1>3. PICK T : c \in Seq(T)
  BY DEF IsSeq
<1>4. a \in Seq(S \cup T) /\ b \in Seq(S \cup T) /\ c \in Seq(S \cup T)
  BY <1>1, <1>2, <1>3
<1> QED BY <1>4, ConcatAssociative DEF Cat

\* Six calls and others.
LEMMA SixCalls ==
  ASSUME NEW a, NEW b, NEW c, NEW d, NEW e, NEW g, NEW y, IsSeq(y)
  PROVE  /\ Cat(<<a, b, c, d, e, g>>, y)
              = Cat(<<a>>, Cat(<<b>>, Cat(<<c>>, Cat(<<d>>, Cat(<<e>>, Cat(<<g>>, y))))))
         /\ IsSeq(<<a, b, c, d, e, g>>)
<1> DEFINE l1 == <<a>>  l2 == <<b>>  l3 == <<c>>  l4 == <<d>>  l5 == <<e>>  l6 == <<g>>
           m5 == <<e, g>>  m4 == <<d, e, g>>  m3 == <<c, d, e, g>>  m2 == <<b, c, d, e, g>>
           m1 == <<a, b, c, d, e, g>>
<1>1. m5 = Cat(l5, l6)
  BY List2, Zenon DEF Cat
<1>2. m4 = Cat(l4, m5)
  BY List3, Zenon DEF Cat
<1>3. m3 = Cat(l3, m4)
  BY List4, Zenon DEF Cat
<1>4. m2 = Cat(l2, m3)
  BY List5, Zenon DEF Cat
<1>5. m1 = Cat(l1, m2)
  BY List6, Zenon DEF Cat
<1>6. IsSeq(l1) /\ IsSeq(l2) /\ IsSeq(l3) /\ IsSeq(l4) /\ IsSeq(l5) /\ IsSeq(l6)
  BY ListsAreSeqs
<1> HIDE DEF l1, l2, l3, l4, l5, l6, m5, m4, m3, m2, m1
<1>7. IsSeq(m5) /\ Cat(m5, y) = Cat(l5, Cat(l6, y))
  BY <1>1, <1>6, CatLists, CatRegroup
<1>8. IsSeq(m4) /\ Cat(m4, y) = Cat(l4, Cat(m5, y))
  BY <1>2, <1>6, <1>7, CatLists, CatRegroup
<1>9. IsSeq(m3) /\ Cat(m3, y) = Cat(l3, Cat(m4, y))
  BY <1>3, <1>6, <1>8, CatLists, CatRegroup
<1>10. IsSeq(m2) /\ Cat(m2, y) = Cat(l2, Cat(m3, y))
  BY <1>4, <1>6, <1>9, CatLists, CatRegroup
<1>11. IsSeq(m1) /\ Cat(m1, y) = Cat(l1, Cat(m2, y))
  BY <1>5, <1>6, <1>10, CatLists, CatRegroup
<1>12. Cat(m1, y) = Cat(l1, Cat(l2, Cat(l3, Cat(l4, Cat(l5, Cat(l6, y)))))) /\ IsSeq(m1)
  BY <1>7, <1>8, <1>9, <1>10, <1>11
<1> QED BY <1>12, Zenon DEF l1, l2, l3, l4, l5, l6, m1

\* One call more.
LEMMA CatCons ==
  ASSUME NEW c, NEW calls, IsSeq(calls), NEW s, NEW f, NEW s0, Pre(c, s),
         \A t : Rel(c, s, t) => Fulfils(calls, t, f, s0)
  PROVE  Fulfils(Cat(<<c>>, calls), s, f, s0)
BY FulfilsCons DEF Cat

\* The superclass n of class p, which is not p itself, is put on the stack.
LEMMA SuperclassNamed ==
  ASSUME NEW s, Good(s), s.level > 0, Bounded(s), NEW p, ~s.err => p \in Names,
         NEW w, w \in {<<>>, <<Error>>}
  PROVE  Fulfils(<<NamedVariable(p, FALSE)>> \o w, s, Emit(1), s)
<1>1. ~s.err => p # NoName /\ p # "this"
  BY NamesAreNames
<1>2. Pre(NamedVariable(p, FALSE), s)
  BY <1>1, CanNamedVariable
<1>3. ASSUME NEW t1, Rel(NamedVariable(p, FALSE), s, t1) PROVE Fulfils(w, t1, Emit(1), s)
  <2>1. Good(t1) /\ Expr(s, t1, 1)
    BY <1>3, OfNamedVariable
  <2>2. CASE w = <<>>
    <3>1. Rel(Emit(1), s, t1)
      BY <2>1, OfEmit, ExprKeeps
    <3> QED BY <2>2, <3>1, FulfilsNone
  <2>3. CASE w = <<Error>>
    <3>1. Pre(Error, t1)
      BY <2>1, ExprKeeps, CanError
    <3>2. ASSUME NEW t2, Rel(Error, t1, t2) PROVE Fulfils(<<>>, t2, Emit(1), s)
      <4>1. Good(t2) /\ Expr(t1, t2, 0)
        BY <3>2, OfError
      <4>2. Expr(s, t2, 1)
        BY <2>1, <4>1, ExprTwice
      <4>3. Rel(Emit(1), s, t2)
        BY <4>1, <4>2, OfEmit, ExprKeeps
      <4> QED BY <4>3, FulfilsNone
    <3> QED BY <2>3, <3>1, <3>2, Step1
  <2> QED BY <2>2, <2>3
<1>4. IsSeq(w)
  BY ListsAreSeqs
<1> QED BY <1>2, <1>3, <1>4, FulfilsCons

\* A statement of an inner scope.
LEMMA InsideExpr ==
  ASSUME NEW s, NEW t, NEW u, Good(s), Good(t), Good(u), s.level > 0, Inside(s, t), Expr(t, u, 0)
  PROVE  Inside(s, u) /\ u.level > 0 /\ u.classes = s.classes /\ Bounded(u)
<1>1. Tidy(t) /\ t.level > 0
  BY DEF Inside, Stays
<1>2. Decl(t, u)
  BY <1>1, ExprIsStmt, StmtIsDecl
<1>3. Inside(s, u)
  BY <1>2, InsideDecl
<1>4. Tidy(u) /\ u.level > 0 /\ u.classes = s.classes
  BY <1>3 DEF Inside, Stays
<1> QED BY <1>3, <1>4, TidyBounded

\* The body of a class with a superclass is in a scope of its own.
LEMMA SuperclassBody ==
  ASSUME NEW s, Good(s), NEW c, c[1] = "superclass", Pre(c, s), NEW t, Good(t), Inside(s, t),
         NEW q, ~s.err => q = s.m
  PROVE  Fulfils(ClassBody(c[2]) \o <<<<"endScope", q>>, Call("endClass")>>, t, c, s)
<1>1. /\ s.level > 0 /\ Tidy(s) /\ s.classes > 0
      /\ ~s.err => c[2] \in Names /\ s.prev \in Names
  BY AtSuperclass
<1>2. t.level > 0 /\ Tidy(t) /\ (s.err => t.err)
  BY <1>1 DEF Inside, Stays
<1>3. Bounded(t)
  BY <1>2, TidyBounded
<1>4. Fulfils(ClassBody(c[2]), t, Emit(0), t)
  BY <1>1, <1>2, <1>3, ClassBodyDoes DEF ClassBody
<1>5. ASSUME NEW t1, Rel(Emit(0), t, t1)
      PROVE  Fulfils(<<<<"endScope", q>>, Call("endClass")>>, t1, c, s)
  <2>1. Good(t1) /\ Expr(t, t1, 0)
    BY <1>5, OfEmit
  <2>2. Inside(s, t1)
    BY <1>1, <2>1, InsideExpr
  <2>3. Pre(<<"endScope", q>>, t1)
    BY <1>1, <2>1, <2>2, InsideSplits
  <2>4. ASSUME NEW t2, Rel(<<"endScope", q>>, t1, t2) PROVE Fulfils(<<Call("endClass")>>, t2, c, s)
    <3>1. Good(t2) /\ Stmt(s, t2, 0) /\ t2.classes = s.classes
      BY <1>1, <2>1, <2>2, <2>4, InsideEnds
    <3>2. Pre(Call("endClass"), t2)
      BY <1>1, <3>1, CanEndClass DEF Stmt, Stays
    <3>3. ASSUME NEW u, Rel(Call("endClass"), t2, u) PROVE Fulfils(<<>>, u, c, s)
      <4>1. Good(u) /\ Classes(t2, u, -1)
        BY <3>3, OfEndClass
      <4>2. Tidy(u)
        BY <3>1, <4>1 DEF Classes, Tidy, SameLocals, Stmt
      <4>3. Stmt(s, u, 0) /\ u.classes = s.classes - 1
        BY <1>1, <3>1, <4>1, <4>2, GoodTypes DEF Stmt, Classes, Stays, SameLocals, SameEnv
      <4>4. Rel(c, s, u)
        BY <4>1, <4>3, AtSuperclass, StmtErr
      <4> QED BY <4>4, FulfilsNone
    <3> QED BY <3>2, <3>3, Step1
  <2> QED BY <2>3, <2>4, Step2
<1>6. IsSeq(<<<<"endScope", q>>, Call("endClass")>>)
  BY TwoCalls
<1> QED BY <1>4, <1>5, <1>6, FulfilsThen

\* classDeclaration, behind the name of the superclass.
LEMMA SuperclassDoes ==
  ASSUME NEW s, Good(s), NEW c, c[1] = "superclass", Pre(c, s), NEW p, p = s.prev,
         NEW q, ~s.err => q = s.m, NEW w, w \in {<<>>, <<Error>>}
  PROVE  Fulfils(<<NamedVariable(p, FALSE)>> \o w
                   \o <<Call("beginScope"), <<"addLocal", "super">>, Call("defineVariable"),
                        NamedVariable(c[2], FALSE), Emit(-1), Call("hasSuperclass")>>
                   \o ClassBody(c[2]) \o <<<<"endScope", q>>, Call("endClass")>>, s, c, s)
<1> DEFINE z == <<<<"endScope", q>>, Call("endClass")>>
           y == Cat(ClassBody(c[2]), z)
           y6 == Cat(<<Call("hasSuperclass")>>, y)
           y5 == Cat(<<Emit(-1)>>, y6)
           y4 == Cat(<<NamedVariable(c[2], FALSE)>>, y5)
           y3 == Cat(<<Call("defineVariable")>>, y4)
           y2 == Cat(<<<<"addLocal", "super">>>>, y3)
           y1 == Cat(<<Call("beginScope")>>, y2)
           six == <<Call("beginScope"), <<"addLocal", "super">>, Call("defineVariable"),
                    NamedVariable(c[2], FALSE), Emit(-1), Call("hasSuperclass")>>
           v == <<NamedVariable(p, FALSE)>> \o w
<1>1. /\ s.level > 0 /\ Bounded(s) /\ Tidy(s) /\ Temps(s, 0) /\ s.classes > 0
      /\ ~s.err => c[2] \in Names /\ p \in Names
  BY AtSuperclass
<1>2. IsSeq(z) /\ IsSeq(ClassBody(c[2])) /\ IsSeq(w) /\ IsSeq(v)
  <2>1. IsSeq(z) /\ IsSeq(w) /\ IsSeq(v)
    BY ListsAreSeqs, TwoCalls
  <2>2. IsSeq(ClassBody(c[2]))
    <3>1. Fulfils(ClassBody(c[2]), s, Emit(0), s)
      BY <1>1, ClassBodyDoes DEF ClassBody
    <3> QED BY <3>1 DEF Fulfils
  <2> QED BY <2>1, <2>2
<1>3. IsSeq(y)
  BY <1>2, CatLists
<1>4. ASSUME NEW t, Inside(s, t), Good(t) PROVE Fulfils(y, t, c, s)
  BY <1>4, SuperclassBody DEF Cat
<1> HIDE DEF y
<1>5. /\ Cat(six, y) = y1 /\ IsSeq(six) /\ IsSeq(y1) /\ IsSeq(y2) /\ IsSeq(y3) /\ IsSeq(y4)
      /\ IsSeq(y5) /\ IsSeq(y6)
  <2>1. Cat(six, y) = y1 /\ IsSeq(six)
    BY <1>3, SixCalls, Zenon
  <2>2. \A x : IsSeq(<<x>>)
    BY ListsAreSeqs
  <2>3. IsSeq(y6)
    BY <1>3, <2>2, CatLists
  <2>4. IsSeq(y5)
    BY <2>2, <2>3, CatLists
  <2>5. IsSeq(y4)
    BY <2>2, <2>4, CatLists
  <2>6. IsSeq(y3)
    BY <2>2, <2>5, CatLists
  <2>7. IsSeq(y2)
    BY <2>2, <2>6, CatLists
  <2>8. IsSeq(y1)
    BY <2>2, <2>7, CatLists
  <2> QED BY <2>1, <2>3, <2>4, <2>5, <2>6, <2>7, <2>8
<1> HIDE DEF six, y1, y2, y3, y4, y5, y6, z, v
<1>6. Cat(Cat(Cat(v, six), ClassBody(c[2])), z) = Cat(v, y1)
  <2>1. Cat(Cat(Cat(v, six), ClassBody(c[2])), z) = Cat(Cat(v, six), y)
    <3>1. IsSeq(Cat(v, six))
      BY <1>2, <1>5, CatLists
    <3> QED BY <1>2, <3>1, CatRegroup DEF y
  <2>2. Cat(Cat(v, six), y) = Cat(v, Cat(six, y))
    BY <1>2, <1>3, <1>5, CatRegroup
  <2> QED BY <1>5, <2>1, <2>2
<1>7. Fulfils(v, s, Emit(1), s)
  BY <1>1, SuperclassNamed DEF v
<1>8. ASSUME NEW a, Rel(Emit(1), s, a) PROVE Fulfils(y1, a, c, s)
  <2>1. Good(a) /\ Expr(s, a, 1) /\ a.level > 0 /\ Bounded(a)
    BY <1>1, <1>8, OfEmit, ExprKeeps
  <2>2. Pre(Call("beginScope"), a)
    BY <2>1, CanBeginScope
  <2>3. ASSUME NEW b, Rel(Call("beginScope"), a, b) PROVE Fulfils(y2, b, c, s)
    <3>1. Good(b) /\ b.level > 0 /\ Tidy(b) /\ b.top.depth = s.top.depth + 1 /\ s.top.depth \in Nat
      BY <1>1, <2>1, <2>3, SuperBegins
    <3>2. Pre(<<"addLocal", "super">>, b)
      <4>1. b.top.depth > 0
        BY <3>1
      <4> QED BY <3>1, <4>1, CanAddLocal
    <3>3. ASSUME NEW x, Rel(<<"addLocal", "super">>, b, x) PROVE Fulfils(y3, x, c, s)
      <4>1. Good(x) /\ Declares(b, x)
        BY <3>3, OfAddLocal
      <4>2. Pre(Call("defineVariable"), x)
        BY <1>1, <2>1, <2>3, <4>1, SuperReady, CanDefineVariable
      <4>3. ASSUME NEW t1, Rel(Call("defineVariable"), x, t1) PROVE Fulfils(y4, t1, c, s)
        <5>1. Good(t1) /\ Defines(x, t1, -1)
          BY <4>3, OfDefineVariable
        <5>2. Inside(s, t1) /\ t1.level > 0 /\ t1.classes = s.classes
          BY <1>1, <2>1, <2>3, <4>1, <5>1, SuperScope
        <5>3. Bounded(t1) /\ (s.err => t1.err)
          BY <5>1, <5>2, TidyBounded DEF Inside, Stays
        <5>4. ~t1.err => c[2] # NoName /\ c[2] # "this"
          BY <1>1, <5>3, NamesAreNames
        <5>5. Pre(NamedVariable(c[2], FALSE), t1)
          BY <5>2, <5>3, <5>4, CanNamedVariable
        <5>6. ASSUME NEW t2, Rel(NamedVariable(c[2], FALSE), t1, t2) PROVE Fulfils(y5, t2, c, s)
          <6>1. Good(t2) /\ Expr(t1, t2, 1) /\ t2.level > 0
            BY <5>2, <5>6, OfNamedVariable, ExprKeeps
          <6>2. Pre(Emit(-1), t2)
            BY <6>1, CanEmit
          <6>3. ASSUME NEW t3, Rel(Emit(-1), t2, t3) PROVE Fulfils(y6, t3, c, s)
            <7>1. Good(t3) /\ Expr(t2, t3, -1)
              BY <6>3, OfEmit
            <7>2. Expr(t1, t3, 0)
              BY <5>1, <5>2, <6>1, <7>1, ExprTwice
            <7>3. Inside(s, t3) /\ t3.classes = s.classes /\ t3.level > 0
              BY <1>1, <5>1, <5>2, <7>1, <7>2, InsideExpr
            <7>4. Pre(Call("hasSuperclass"), t3)
              BY <1>1, <7>3, CanHasSuperclass
            <7>5. ASSUME NEW t4, Rel(Call("hasSuperclass"), t3, t4) PROVE Fulfils(y, t4, c, s)
              <8>1. Good(t4) /\ Expr(t3, t4, 0)
                BY <7>5, OfHasSuperclass
              <8>2. Inside(s, t4)
                BY <1>1, <7>1, <7>3, <8>1, InsideExpr
              <8> QED BY <1>4, <8>1, <8>2
            <7> QED BY <1>3, <7>4, <7>5, CatCons DEF y6
          <6> QED BY <1>5, <6>2, <6>3, CatCons DEF y5
        <5> QED BY <1>5, <5>5, <5>6, CatCons DEF y4
      <4> QED BY <1>5, <4>2, <4>3, CatCons DEF y3
    <3> QED BY <1>5, <3>2, <3>3, CatCons DEF y2
  <2> QED BY <1>5, <2>2, <2>3, CatCons DEF y1
<1>9. Fulfils(Cat(v, y1), s, c, s)
  BY <1>5, <1>7, <1>8, FulfilsThen DEF Cat
<1>10. Fulfils(Cat(Cat(Cat(v, six), ClassBody(c[2])), z), s, c, s)
  BY <1>6, <1>9
<1> QED BY <1>10, Zenon DEF v, six, z, Cat

\* compile.
LEMMA ProgramEnds ==
  ASSUME NEW s, Good(s), NEW c, c[1] = "program", Pre(c, s)
  PROVE  Fulfils(<<Advance, Call("endCompile")>>, s, c, s)
<1>1. StmtOK(s, 0) /\ s.level = 1 /\ s.classes = 0
  BY AtProgram
<1>2. Pre(Advance, s)
  BY <1>1, CanAdvance
<1>3. ASSUME NEW t1, Rel(Advance, s, t1) PROVE Fulfils(<<Call("endCompile")>>, t1, c, s)
  <2>1. Good(t1) /\ Expr(s, t1, 0) /\ (s.err => t1.err)
    BY <1>3, OfAdvance
  <2>2. Pre(Call("endCompile"), t1)
    BY <1>1, <2>1, ExprKeeps, CanEndCompile
  <2>3. ASSUME NEW t2, Rel(Call("endCompile"), t1, t2) PROVE Fulfils(<<>>, t2, c, s)
    <3>1. Good(t2) /\ (t1.err => t2.err) /\ t2.level = 0 /\ t2.classes = 0
      BY <2>3, OfEndCompile
    <3>2. Rel(c, s, t2)
      BY <2>1, <3>1, AtProgram
    <3> QED BY <3>2, FulfilsNone
  <2> QED BY <2>2, <2>3, Step1
<1> QED BY <1>2, <1>3, Step2

\* compile with a declaration ahead.
LEMMA ProgramMore ==
  ASSUME NEW s, Good(s), NEW c, c[1] = "program", Pre(c, s)
  PROVE  Fulfils(<<Call("declaration"), Call("program")>>, s, c, s)
<1>1. StmtOK(s, 0) /\ s.level = 1 /\ s.classes = 0
  BY AtProgram
<1>2. Pre(Call("declaration"), s)
  BY <1>1, CanDeclaration
<1>3. ASSUME NEW t1, Rel(Call("declaration"), s, t1) PROVE Fulfils(<<Call("program")>>, t1, c, s)
  <2>1. Good(t1) /\ Decl(s, t1) /\ (s.err => t1.err)
    BY <1>3, OfDeclaration
  <2>2. t1.level = 1 /\ t1.classes = 0
    BY <1>1, <2>1 DEF Decl, Stays
  <2>3. Pre(Call("program"), t1)
    BY <1>1, <2>1, <2>2, DeclKeeps, CanProgram
  <2>4. ASSUME NEW t2, Rel(Call("program"), t1, t2) PROVE Fulfils(<<>>, t2, c, s)
    <3>1. Good(t2) /\ (t1.err => t2.err) /\ t2.level = 0 /\ t2.classes = 0
      BY <2>4, OfProgram
    <3>2. Rel(c, s, t2)
      BY <2>1, <3>1, AtProgram
    <3> QED BY <3>2, FulfilsNone
  <2> QED BY <2>3, <2>4, Step1
<1> QED BY <1>2, <1>3, Step2
=============================================================================
