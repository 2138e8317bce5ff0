--------------------------- MODULE LexicalProofs ----------------------------
(***************************************************************************)
(* Proofs about jlox: for every program of every length, any names and any *)
(* number of lines and environments, the distances the resolver counts     *)
(* lead the interpreter to the variables that are meant.                   *)
(***************************************************************************)
EXTENDS Lexical, SequenceTheorems, WellFoundedInduction, TLAPS

-----------------------------------------------------------------------------
(* Scopes, and the environments that match them *)

AllNames == Names \cup {"this", "super"}
Scope == UNION {[D -> BOOLEAN] : D \in SUBSET AllNames}
Bounds == [AllNames -> Nat]

\* The scopes S after name has been defined in the innermost one.
TopSet(S, name) ==
  IF S = <<>> THEN S ELSE [S EXCEPT ![Len(S)] = Put(@, name, TRUE)]

\* p leads from environment e through n enclosing ones to the globals.
IsPath(p, es, e, n) ==
  /\ p \in [0..n -> 1..Len(es)]
  /\ p[0] = e /\ p[n] = Globals
  /\ \A d \in 0..(n - 1) : p[d] # Globals /\ es[p[d]].enclosing = p[d + 1]

\* With the scopes S the resolver finds, from environment e on, the variables
\* that b says are meant, and they are defined there, except for x.
MatchBut(es, e, S, b, x) ==
  \E p : /\ IsPath(p, es, e, Len(S))
         /\ \A n \in AllNames :
              LET d == Distance(n, S) IN
                IF d = Unresolved THEN b[n] = Globals
                ELSE b[n] = p[d] /\ (n # x => n \in DOMAIN es[p[d]].values)

Match(es, e, S, b) == MatchBut(es, e, S, b, None)

\* es2 has the environments of es, with at least their variables.
Extends(es, es2) ==
  /\ Len(es) <= Len(es2)
  /\ \A i \in 1..Len(es) : /\ es2[i].enclosing = es[i].enclosing
                           /\ DOMAIN es[i].values \subseteq DOMAIN es2[i].values

-----------------------------------------------------------------------------
(* The code *)

Openers == {"block", "while", "fun", "method", "init", "class"}
Ops == Openers \cup {"var", "assign", "print", "call", "invoke", "make", "this", "super",
                     "return", "fail", "end"}
Items == [op : Ops, name : AllNames \cup {None} \cup Ops, from : Names \cup {None},
          distance : Int, fromDistance : Int, scopes : Seq(Scope), end : Nat]

\* The scopes where statement i begins; sc are those behind the last one.
Snap(cd, sc, i) == IF i <= Len(cd) THEN cd[i].scopes ELSE sc

\* The scopes inside a bracket and behind it, and behind any statement.
Inner(it) ==
  IF it.op = "class" THEN ClassScopes(it.from)
  ELSE IF it.op = "fun" THEN Append(TopSet(it.scopes, it.name), Parameters(it.from))
  ELSE Append(it.scopes, Empty)
Outer(it) == IF it.op = "fun" THEN TopSet(it.scopes, it.name) ELSE it.scopes
Following(it) ==
  IF it.op \in Openers THEN Inner(it)
  ELSE IF it.op \in {"var", "make"} THEN TopSet(it.scopes, it.name)
  ELSE it.scopes

\* A statement has the distances its own scopes give.
Resolved(it) ==
  /\ it.op \in {"assign", "print", "call", "invoke", "var", "make", "fun", "class"} => it.name \in Names
  /\ it.op \in {"assign", "print", "call", "invoke", "this", "super"} =>
       it.distance = Distance(it.name, it.scopes)
  /\ it.op \in {"this", "super"} => it.name = it.op
  /\ it.op = "super" =>
       /\ it.distance # Unresolved /\ Distance("this", it.scopes) # Unresolved
       /\ Distance("this", it.scopes) = it.distance - 1
  /\ it.op \in {"var", "make", "assign", "class", "return"} /\ it.from # None =>
       it.fromDistance = Distance(it.from, it.scopes)
  /\ it.op = "make" => it.from # None
  /\ it.op = "class" => it.scopes = <<>>
  /\ it.op \in {"method", "init"} => it.from = None
  /\ it.op = "end" => it.scopes # <<>>

\* Each statement is resolved and leads to the scopes of the next one, or of
\* the one behind its bracket; methods are in the scopes of their class.
Static(cd, sc) ==
  \A i \in 1..Len(cd) :
    /\ Resolved(cd[i])
    /\ cd[i].op # "end" => Snap(cd, sc, i + 1) = Following(cd[i])
    /\ cd[i].op \in Openers /\ cd[i].end # 0 =>
         cd[i].end \in (i + 1)..Len(cd) /\ Snap(cd, sc, cd[i].end + 1) = Outer(cd[i])
    /\ cd[i].op = "class" =>
         \A j \in (i + 1)..Len(cd) :
           (cd[i].end = 0 \/ j <= cd[i].end) /\ cd[j].op \in {"method", "init"} =>
             cd[j].scopes = ClassScopes(cd[i].from)

Pushed(it) == IF it.op = "class" /\ it.from # None THEN 2 ELSE 1
Brackets == [op : Openers, at : Nat, pushed : Nat, function : {"NONE", "FUNCTION", "METHOD", "INITIALIZER"},
             class : {"NONE", "CLASS", "SUBCLASS"}]

\* Open brackets are inside each other, and so are their scopes, which the
\* statements inside have left alone.
Nested(cd, br, sc, st) ==
  /\ br = <<>> => sc = <<>>
  /\ \A k \in 1..Len(br) :
       LET it == cd[br[k].at] IN
       /\ br[k].at \in st..Len(cd) /\ it.op = br[k].op /\ it.end = 0
       /\ br[k].pushed = Pushed(it)
       /\ k = 1 => it.scopes = <<>>
       /\ it.op = "class" => k = 1
       /\ Len(sc) >= Len(it.scopes) + br[k].pushed
       /\ k = Len(br) => Len(sc) = Len(it.scopes) + br[k].pushed
       /\ \A j \in 1..Len(it.scopes) : sc[j] = Outer(it)[j]
       /\ \A j \in 1..(k - 1) :
            LET out == cd[br[j].at] IN
            /\ br[j].at < br[k].at
            /\ Len(it.scopes) >= Len(out.scopes) + br[j].pushed
            /\ j = k - 1 => Len(it.scopes) = Len(out.scopes) + br[j].pushed

\* What is not closed is an open bracket of this line.
Closed(cd, br, st) ==
  \A i \in 1..Len(cd) : cd[i].op \in Openers =>
    /\ cd[i].end = 0 => \E k \in 1..Len(br) : br[k].at = i
    /\ i < st => cd[i].end # 0 /\ cd[i].end < st

\* this and super are in the scopes of the class around, and nowhere else.
InClass(br) == br # <<>> /\ br[1].op = "class"
Kind(from) == IF from = None THEN "CLASS" ELSE "SUBCLASS"
ClassAround(cd, br, sc, class) ==
  /\ \A k \in 1..Len(br) : br[k].class = IF k = 1 THEN "NONE" ELSE class
  /\ InClass(br) =>
       LET cs == ClassScopes(cd[br[1].at].from) IN
       /\ class = Kind(cd[br[1].at].from)
       /\ Len(sc) >= Len(cs) /\ \A j \in 1..Len(cs) : sc[j] = cs[j]
       /\ \A j \in (Len(cs) + 1)..Len(sc) : DOMAIN sc[j] \subseteq Names
  /\ ~InClass(br) =>
       class = "NONE" /\ \A j \in 1..Len(sc) : DOMAIN sc[j] \subseteq Names

CodeInv ==
  /\ Static(code, scopes) /\ Nested(code, brackets, scopes, start)
  /\ Closed(code, brackets, start) /\ ClassAround(code, brackets, scopes, currentClass)
  /\ Snap(code, scopes, start) = <<>>
  /\ phase = "run" => brackets = <<>>

-----------------------------------------------------------------------------
(* Values and activations *)

ValueSet == [kind : {"nil", "number", "fun", "class", "instance"}, at : Nat, env : Nat, bound : Bounds]
Maps == UNION {[D -> ValueSet] : D \in SUBSET AllNames}
Envs == [enclosing : Nat, values : Maps]
Classes == [super : Nat, method : ValueSet, init : ValueSet]
Results == [into : Names \cup {None}, instance : ValueSet]
Acts == [kind : {"block", "call"}, previous : Nat, back : Nat, bound : Bounds, result : Results]

\* A function remembers an environment that matches the scopes it was
\* resolved in; lim is the last statement that values may refer to.
ValueOK(v, cd, lim, es, n) ==
  /\ v \in ValueSet
  /\ v.kind = "fun" => /\ v.at \in 1..(lim - 1) /\ cd[v.at].op = "fun" /\ cd[v.at].name \in Names
                       /\ Match(es, v.env, TopSet(cd[v.at].scopes, cd[v.at].name), v.bound)
  /\ v.kind \in {"class", "instance"} => v.at \in 1..n

\* A method, which has yet to be bound to this.
SuperScopes(from) == IF from = None THEN <<>> ELSE <<Only("super", TRUE)>>
MethodOK(m, cd, lim, es) ==
  \/ m = Nil
  \/ /\ m \in ValueSet /\ m.kind = "fun" /\ m.at \in 1..(lim - 1)
     /\ cd[m.at].op \in {"method", "init"}
     /\ \E from \in Names \cup {None} : /\ cd[m.at].scopes = ClassScopes(from)
                                        /\ Match(es, m.env, SuperScopes(from), m.bound)

HeapOK(cd, lim, es, cl) ==
  /\ \A e \in 2..Len(es) : es[e].enclosing \in 1..(e - 1)
  /\ \A e \in 1..Len(es) : \A n \in DOMAIN es[e].values :
       /\ ValueOK(es[e].values[n], cd, lim, es, Len(cl))
       /\ n = "super" => es[e].values[n].kind = "class"
  /\ \A k \in 1..Len(cl) : /\ cl[k].super \in 0..(k - 1)
                           /\ MethodOK(cl[k].method, cd, lim, es)
                           /\ MethodOK(cl[k].init, cd, lim, es)

\* Where an activation goes on, its environment matches; into will be defined.
ActOK(c, cd, sc, es, n) ==
  /\ c.back \in 1..(Len(cd) + 1)
  /\ c.previous \in 1..Len(es)
  /\ ValueOK(c.result.instance, cd, Len(cd), es, n)
  /\ IF c.result.into = None THEN Match(es, c.previous, Snap(cd, sc, c.back), c.bound)
     ELSE MatchBut(es, c.previous, Snap(cd, sc, c.back),
                   [c.bound EXCEPT ![c.result.into] = c.previous], c.result.into)

\* The outermost activation was made by a statement outside of all scopes.
Global(env, b) == env = Globals /\ \A n \in AllNames : b[n] = Globals
CallsOK(cs, cd, sc, es, n, env, b) ==
  /\ \A k \in 1..Len(cs) : ActOK(cs[k], cd, sc, es, n)
  /\ IF cs = <<>> THEN Global(env, b) ELSE Global(cs[1].previous, cs[1].bound)

AccessOK(acc, es) ==
  \A a \in acc : a.got = a.meant /\ (a.got # Globals => a.name \in DOMAIN es[a.got].values)

Limit == IF phase = "run" THEN Len(code) ELSE start - 1

HeapInv ==
  /\ HeapOK(code, Limit, envs, classes)
  /\ ValueOK(returned, code, Limit, envs, Len(classes))
  /\ AccessOK(access, envs)

RunInv ==
  /\ CallsOK(calls, code, scopes, envs, Len(classes), environment, bound)
  /\ phase = "resolve" => calls = <<>> /\ throwing = None
  /\ phase = "run" /\ throwing = None =>
       pc \in 1..(Len(code) + 1) /\ Match(envs, environment, Snap(code, scopes, pc), bound)

Types ==
  /\ phase \in {"resolve", "run"}
  /\ code \in Seq(Items) /\ start \in 1..(Len(code) + 1)
  /\ scopes \in Seq(Scope) /\ brackets \in Seq(Brackets)
  /\ currentFunction \in {"NONE", "FUNCTION", "METHOD", "INITIALIZER"}
  /\ currentClass \in {"NONE", "CLASS", "SUBCLASS"}
  /\ envs \in Seq(Envs) /\ Len(envs) >= 1 /\ environment \in 1..Len(envs)
  /\ classes \in Seq(Classes) /\ calls \in Seq(Acts)
  /\ throwing \in {None, "Return", "RuntimeError"}
  /\ returned \in ValueSet /\ bound \in Bounds

IInv == Types /\ CodeInv /\ HeapInv /\ RunInv

-----------------------------------------------------------------------------
(* Induction by the least counterexample *)

\* Every non-empty set of naturals has a least element.
LEMMA HasLeast ==
  ASSUME NEW S \in SUBSET Nat, S # {}
  PROVE  \E x \in S : \A y \in S : x <= y
<1>1. PICK x \in S : \A y \in S : ~(<<y, x>> \in OpToRel(<, Nat))
  BY NatLessThanWellFounded, WFMin
<1>2. ASSUME NEW y \in S, y < x PROVE FALSE
  <2>1. <<y, x>> \in Nat \X Nat /\ <<y, x>>[1] < <<y, x>>[2]
    BY <1>2
  <2>2. <<y, x>> \in OpToRel(<, Nat)
    BY <2>1 DEF OpToRel
  <2> QED BY <1>1, <2>2
<1> QED BY <1>2

\* ... and so has every set of numbers up to n.
LEMMA LeastUpTo ==
  ASSUME NEW n \in Nat, NEW C \in SUBSET (0..n), C # {}
  PROVE  \E k \in 0..n : k \in C /\ \A y \in 0..(k - 1) : y \notin C
<1>1. C \in SUBSET Nat
  OBVIOUS
<1>2. PICK k \in C : \A y \in C : k <= y
  BY <1>1, HasLeast
<1> QED BY <1>2

\* Max returns the greatest element of a set of naturals with a bound.
LEMMA MaxIsGreatest ==
  ASSUME NEW n \in Nat, NEW S \in SUBSET (0..n), S # {}
  PROVE  Max(S) \in S /\ \A y \in S : y <= Max(S)
<1> DEFINE T == {n - y : y \in S}
<1>1. T \in SUBSET Nat /\ T # {}
  <2>1. PICK y \in S : TRUE
    OBVIOUS
  <2>2. n - y \in T
    BY <2>1
  <2>3. \A z \in S : n - z \in Nat
    OBVIOUS
  <2> QED BY <2>2, <2>3
<1>2. PICK t \in T : \A y \in T : t <= y
  BY <1>1, HasLeast
<1>3. PICK x \in S : t = n - x
  BY <1>2
<1>4. \A y \in S : y <= x
  BY <1>2, <1>3
<1>5. \E z \in S : \A y \in S : z >= y
  BY <1>4
<1> QED BY <1>5 DEF Max

-----------------------------------------------------------------------------
(* Distances *)

\* The distance of a name: the innermost scope that has it.
LEMMA DistanceIs ==
  ASSUME NEW S \in Seq(Scope), NEW n
  PROVE  /\ Distance(n, S) = Unresolved \/ Distance(n, S) \in 0..(Len(S) - 1)
         /\ (\A i \in 1..Len(S) : n \notin DOMAIN S[i]) <=> Distance(n, S) = Unresolved
         /\ \A i \in 1..Len(S) :
              n \in DOMAIN S[i] /\ (\A j \in (i + 1)..Len(S) : n \notin DOMAIN S[j]) =>
                Distance(n, S) = Len(S) - i
         /\ Distance(n, S) # Unresolved =>
              /\ n \in DOMAIN S[Len(S) - Distance(n, S)]
              /\ \A j \in (Len(S) - Distance(n, S) + 1)..Len(S) : n \notin DOMAIN S[j]
<1> DEFINE found == {i \in DOMAIN S : n \in DOMAIN S[i]}
<1>1. found \in SUBSET (0..Len(S)) /\ Len(S) \in Nat /\ DOMAIN S = 1..Len(S)
  OBVIOUS
<1>2. found # {} => Max(found) \in found /\ \A y \in found : y <= Max(found)
  BY <1>1, MaxIsGreatest
<1>3. Distance(n, S) = IF found = {} THEN -1 ELSE Len(S) - Max(found)
  BY DEF Distance, Unresolved
<1> HIDE DEF found
<1>4. \A i \in 1..Len(S) : i \in found <=> n \in DOMAIN S[i]
  BY <1>1 DEF found
<1>5. found \subseteq 1..Len(S)
  BY <1>1 DEF found
<1>6. CASE found = {}
  BY <1>1, <1>3, <1>4, <1>6 DEF Unresolved
<1>7. CASE found # {}
  <2>1. Max(found) \in 1..Len(S) /\ Distance(n, S) = Len(S) - Max(found)
    BY <1>2, <1>3, <1>5, <1>7
  <2>2. n \in DOMAIN S[Max(found)] /\ \A j \in (Max(found) + 1)..Len(S) : n \notin DOMAIN S[j]
    BY <1>1, <1>2, <1>4, <1>7, <2>1
  <2>3. \A i \in 1..Len(S) :
          n \in DOMAIN S[i] /\ (\A j \in (i + 1)..Len(S) : n \notin DOMAIN S[j]) => i = Max(found)
    BY <1>1, <1>2, <1>4, <2>1, <2>2
  <2>4. Len(S) - Distance(n, S) = Max(found)
    BY <1>1, <2>1
  <2> QED BY <1>1, <2>1, <2>2, <2>3, <2>4, SMTT(30) DEF Unresolved
<1> QED BY <1>6, <1>7

\* No scopes, no distance.
LEMMA DistanceEmpty == \A n : Distance(n, <<>>) = Unresolved
BY DEF Distance

\* The distance when a scope T is opened.
LEMMA DistancePush ==
  ASSUME NEW S \in Seq(Scope), NEW T \in Scope, NEW n
  PROVE  Distance(n, Append(S, T)) =
           IF n \in DOMAIN T THEN 0
           ELSE IF Distance(n, S) = Unresolved THEN Unresolved ELSE Distance(n, S) + 1
<1> DEFINE A == Append(S, T)
<1>1. /\ A \in Seq(Scope) /\ Len(A) = Len(S) + 1 /\ A[Len(A)] = T /\ Len(S) \in Nat
      /\ \A i \in 1..Len(S) : A[i] = S[i]
  OBVIOUS
<1> HIDE DEF A
<1>2. CASE n \in DOMAIN T
  <2>1. Distance(n, A) = Len(A) - Len(A)
    BY <1>1, <1>2, DistanceIs
  <2> QED BY <1>1, <1>2, <2>1 DEF A
<1>3. CASE n \notin DOMAIN T /\ Distance(n, S) = Unresolved
  <2>1. \A i \in 1..Len(A) : n \notin DOMAIN A[i]
    BY <1>1, <1>3, DistanceIs
  <2> QED BY <1>1, <1>3, <2>1, DistanceIs DEF A
<1>4. CASE n \notin DOMAIN T /\ Distance(n, S) # Unresolved
  <2>1. PICK i \in 1..Len(S) :
          /\ Distance(n, S) = Len(S) - i
          /\ n \in DOMAIN S[i] /\ \A j \in (i + 1)..Len(S) : n \notin DOMAIN S[j]
    <3> DEFINE k == Len(S) - Distance(n, S)
    <3>1. /\ k \in 1..Len(S) /\ n \in DOMAIN S[k] /\ \A j \in (k + 1)..Len(S) : n \notin DOMAIN S[j]
          /\ Distance(n, S) \in Int
      BY <1>1, <1>4, DistanceIs
    <3>2. Distance(n, S) = Len(S) - k
      BY <1>1, <3>1
    <3> HIDE DEF k
    <3> QED BY <3>1, <3>2
  <2>2. n \in DOMAIN A[i] /\ \A j \in (i + 1)..Len(A) : n \notin DOMAIN A[j]
    BY <1>1, <1>4, <2>1
  <2>3. Distance(n, A) = Len(A) - i
    BY <1>1, <2>1, <2>2, DistanceIs
  <2> QED BY <1>1, <1>4, <2>1, <2>3 DEF A
<1> QED BY <1>2, <1>3, <1>4

\* The distance when a name is defined, or declared, in the innermost scope.
AddsToTop(S, S2, m) ==
  /\ S # <<>> /\ Len(S2) = Len(S) /\ \A i \in 1..(Len(S) - 1) : S2[i] = S[i]
  /\ DOMAIN S2[Len(S)] = DOMAIN S[Len(S)] \cup {m}

\* ... is nothing, for every name but that one.
LEMMA DistanceTop ==
  ASSUME NEW S \in Seq(Scope), NEW S2 \in Seq(Scope), NEW m, NEW n, AddsToTop(S, S2, m)
  PROVE  Distance(n, S2) = IF n = m THEN 0 ELSE Distance(n, S)
<1> USE DEF AddsToTop
<1>1. Len(S) \in Nat \ {0}
  OBVIOUS
<1>2. CASE n = m
  <2>1. Distance(n, S2) = Len(S2) - Len(S2)
    BY <1>1, <1>2, DistanceIs
  <2> QED BY <1>1, <1>2, <2>1
<1>3. CASE n # m
  <2>1. \A i \in 1..Len(S) : n \in DOMAIN S2[i] <=> n \in DOMAIN S[i]
    BY <1>1, <1>3
  <2>2. CASE Distance(n, S) = Unresolved
    <3>1. \A i \in 1..Len(S2) : n \notin DOMAIN S2[i]
      BY <2>1, <2>2, DistanceIs
    <3> QED BY <1>3, <2>2, <3>1, DistanceIs
  <2>3. CASE Distance(n, S) # Unresolved
    <3> DEFINE i == Len(S) - Distance(n, S)
    <3>1. /\ i \in 1..Len(S) /\ n \in DOMAIN S[i] /\ \A j \in (i + 1)..Len(S) : n \notin DOMAIN S[j]
          /\ Distance(n, S) \in Int
      BY <1>1, <2>3, DistanceIs
    <3>2. n \in DOMAIN S2[i] /\ \A j \in (i + 1)..Len(S) : n \notin DOMAIN S2[j]
      BY <2>1, <3>1
    <3>3. Distance(n, S2) = Len(S2) - i
      BY <3>1, <3>2, DistanceIs
    <3> QED BY <1>1, <1>3, <3>1, <3>3
  <2> QED BY <2>2, <2>3
<1> QED BY <1>2, <1>3

-----------------------------------------------------------------------------
(* Environments that match scopes *)

\* "none", "this" and "super" are no names of variables.
LEMMA NoneIsNoName == None \notin AllNames /\ "this" \notin Names /\ "super" \notin Names /\ None \notin Names
BY LexicalAssumption DEF AllNames, None

\* Scopes stay scopes.
LEMMA ScopesAre ==
  /\ Empty \in Scope /\ DOMAIN Empty = {}
  /\ \A n \in AllNames : Only(n, TRUE) \in Scope /\ DOMAIN Only(n, TRUE) = {n}
  /\ \A T \in Scope, n \in AllNames, r \in BOOLEAN :
       Put(T, n, r) \in Scope /\ DOMAIN Put(T, n, r) = DOMAIN T \cup {n}
<1>1. Empty \in [{} -> BOOLEAN] /\ DOMAIN Empty = {}
  BY DEF Empty
<1>2. ASSUME NEW n \in AllNames PROVE Only(n, TRUE) \in [{n} -> BOOLEAN] /\ {n} \in SUBSET AllNames
  BY DEF Only
<1>3. ASSUME NEW T \in Scope, NEW n \in AllNames, NEW r \in BOOLEAN
      PROVE  Put(T, n, r) \in Scope /\ DOMAIN Put(T, n, r) = DOMAIN T \cup {n}
  <2>1. PICK D \in SUBSET AllNames : T \in [D -> BOOLEAN]
    BY DEF Scope
  <2>2. Put(T, n, r) \in [D \cup {n} -> BOOLEAN] /\ DOMAIN T = D
    BY <2>1 DEF Put
  <2>3. D \cup {n} \in SUBSET AllNames
    BY <2>1
  <2> QED BY <2>2, <2>3 DEF Scope
<1>4. {} \in SUBSET AllNames
  OBVIOUS
<1> QED BY <1>1, <1>2, <1>3, <1>4 DEF Scope

\* What defining a name does to the scopes.
LEMMA TopSetIs ==
  ASSUME NEW S \in Seq(Scope), NEW m \in AllNames
  PROVE  /\ TopSet(S, m) \in Seq(Scope) /\ Len(TopSet(S, m)) = Len(S)
         /\ \A i \in 1..(Len(S) - 1) : TopSet(S, m)[i] = S[i]
         /\ S # <<>> => DOMAIN TopSet(S, m)[Len(S)] = DOMAIN S[Len(S)] \cup {m}
         /\ \A n : Distance(n, TopSet(S, m)) = IF n = m /\ S # <<>> THEN 0 ELSE Distance(n, S)
<1>1. CASE S = <<>>
  BY <1>1 DEF TopSet
<1>2. CASE S # <<>>
  <2>1. Len(S) \in Nat \ {0} /\ S[Len(S)] \in Scope
    BY <1>2
  <2>2. /\ Put(S[Len(S)], m, TRUE) \in Scope
        /\ DOMAIN Put(S[Len(S)], m, TRUE) = DOMAIN S[Len(S)] \cup {m}
    BY <2>1, ScopesAre
  <2>3. TopSet(S, m) = [S EXCEPT ![Len(S)] = Put(S[Len(S)], m, TRUE)]
    BY <1>2 DEF TopSet
  <2>4. /\ TopSet(S, m) \in Seq(Scope) /\ Len(TopSet(S, m)) = Len(S)
        /\ \A i \in 1..(Len(S) - 1) : TopSet(S, m)[i] = S[i]
        /\ TopSet(S, m)[Len(S)] = Put(S[Len(S)], m, TRUE)
    <3>1. PICK T \in Scope : T = Put(S[Len(S)], m, TRUE)
      BY <2>2
    <3>2. PICK l \in 1..Len(S) : l = Len(S)
      BY <2>1
    <3>3. /\ [S EXCEPT ![l] = T] \in Seq(Scope) /\ Len([S EXCEPT ![l] = T]) = Len(S)
          /\ \A j \in 1..Len(S) : [S EXCEPT ![l] = T][j] = IF j = l THEN T ELSE S[j]
      BY ExceptSeq
    <3>4. TopSet(S, m) = [S EXCEPT ![l] = T]
      BY <2>3, <3>1, <3>2
    <3>5. \A i \in 1..(Len(S) - 1) : TopSet(S, m)[i] = S[i]
      BY <2>1, <3>2, <3>3, <3>4
    <3>6. TopSet(S, m)[Len(S)] = T
      BY <3>2, <3>3, <3>4
    <3> QED BY <3>1, <3>3, <3>4, <3>5, <3>6
  <2>5. ASSUME NEW n PROVE Distance(n, TopSet(S, m)) = IF n = m THEN 0 ELSE Distance(n, S)
    <3>1. PICK S2 \in Seq(Scope) : S2 = TopSet(S, m)
      BY <2>4
    <3>2. AddsToTop(S, S2, m)
      BY <1>2, <2>2, <2>4, <3>1 DEF AddsToTop
    <3>3. Distance(n, S2) = IF n = m THEN 0 ELSE Distance(n, S)
      BY <3>2, DistanceTop
    <3> QED BY <3>1, <3>3
  <2> QED BY <1>2, <2>2, <2>4, <2>5
<1> QED BY <1>1, <1>2

\* More environments and more variables change nothing.
LEMMA MatchGrows ==
  ASSUME NEW es, NEW es2, NEW e, NEW S \in Seq(Scope), NEW b, NEW x, MatchBut(es, e, S, b, x),
         Extends(es, es2), Len(es) \in Nat, Len(es2) \in Nat
  PROVE  MatchBut(es2, e, S, b, x)
<1>1. PICK p : /\ IsPath(p, es, e, Len(S))
               /\ \A n \in AllNames :
                    LET d == Distance(n, S) IN
                      IF d = Unresolved THEN b[n] = Globals
                      ELSE b[n] = p[d] /\ (n # x => n \in DOMAIN es[p[d]].values)
  BY DEF MatchBut
<1>2. Len(S) \in Nat /\ p \in [0..Len(S) -> 1..Len(es)]
  BY <1>1 DEF IsPath
<1>3. IsPath(p, es2, e, Len(S))
  <2>1. p \in [0..Len(S) -> 1..Len(es2)]
    BY <1>2 DEF Extends
  <2>2. ASSUME NEW d \in 0..(Len(S) - 1) PROVE es2[p[d]].enclosing = es[p[d]].enclosing
    BY <1>2 DEF Extends
  <2> QED BY <1>1, <2>1, <2>2 DEF IsPath
<1>4. ASSUME NEW n \in AllNames, Distance(n, S) # Unresolved
      PROVE  Distance(n, S) \in 0..Len(S) /\ p[Distance(n, S)] \in 1..Len(es)
  BY <1>2, <1>4, DistanceIs
<1> QED BY <1>1, <1>3, <1>4 DEF MatchBut, Extends

\* A new environment matches a new scope with the names its variables have.
LEMMA MatchPush ==
  ASSUME NEW es, NEW e, NEW S \in Seq(Scope), NEW b \in Bounds, Match(es, e, S, b), Len(es) \in Nat \ {0},
         NEW T \in Scope, NEW new \in 1..Len(es), new # Globals, es[new].enclosing = e,
         DOMAIN T \subseteq DOMAIN es[new].values,
         NEW b2, \A n \in AllNames : b2[n] = IF n \in DOMAIN T THEN new ELSE b[n]
  PROVE  Match(es, new, Append(S, T), b2)
<1>1. PICK p : /\ IsPath(p, es, e, Len(S))
               /\ \A n \in AllNames :
                    LET d == Distance(n, S) IN
                      IF d = Unresolved THEN b[n] = Globals
                      ELSE b[n] = p[d] /\ (n # None => n \in DOMAIN es[p[d]].values)
  BY DEF Match, MatchBut
<1> DEFINE L == Len(S)
           q == [d \in 0..(L + 1) |-> IF d = 0 THEN new ELSE p[d - 1]]
<1>2. L \in Nat /\ Len(Append(S, T)) = L + 1
  OBVIOUS
<1>3. p \in [0..L -> 1..Len(es)] /\ p[0] = e /\ p[L] = Globals
  BY <1>1 DEF IsPath
<1>4. IsPath(q, es, new, L + 1)
  BY <1>1, <1>2, <1>3 DEF IsPath
<1>5. ASSUME NEW n \in AllNames
      PROVE  LET d == Distance(n, Append(S, T)) IN
               IF d = Unresolved THEN b2[n] = Globals
               ELSE b2[n] = q[d] /\ (n # None => n \in DOMAIN es[q[d]].values)
  <2>1. Distance(n, Append(S, T)) =
          IF n \in DOMAIN T THEN 0
          ELSE IF Distance(n, S) = Unresolved THEN Unresolved ELSE Distance(n, S) + 1
    BY DistancePush
  <2>2. Distance(n, S) = Unresolved \/ Distance(n, S) \in 0..(L - 1)
    BY DistanceIs
  <2>3. CASE n \in DOMAIN T
    BY <1>2, <2>1, <2>3 DEF Unresolved
  <2>4. CASE n \notin DOMAIN T /\ Distance(n, S) = Unresolved
    BY <1>1, <2>1, <2>4
  <2>5. CASE n \notin DOMAIN T /\ Distance(n, S) # Unresolved
    <3>1. /\ Distance(n, Append(S, T)) = Distance(n, S) + 1 /\ Distance(n, S) + 1 \in 1..L
          /\ Distance(n, S) + 1 # Unresolved
      BY <1>2, <2>1, <2>2, <2>5 DEF Unresolved
    <3>2. q[Distance(n, S) + 1] = p[Distance(n, S)]
      BY <1>2, <2>2, <2>5, <3>1
    <3> QED BY <1>1, <2>5, <3>1, <3>2
  <2> QED BY <2>3, <2>4, <2>5
<1> HIDE DEF q, L
<1> QED BY <1>2, <1>4, <1>5 DEF Match, MatchBut

\* A name defined in the innermost scope means the current environment.
LEMMA MatchDefine ==
  ASSUME NEW es, NEW e, NEW S \in Seq(Scope), NEW b \in Bounds, Match(es, e, S, b), NEW m \in Names
  PROVE  MatchBut(es, e, TopSet(S, m), [b EXCEPT ![m] = e], m)
<1>1. PICK p : /\ IsPath(p, es, e, Len(S))
               /\ \A n \in AllNames :
                    LET d == Distance(n, S) IN
                      IF d = Unresolved THEN b[n] = Globals
                      ELSE b[n] = p[d] /\ (n # None => n \in DOMAIN es[p[d]].values)
  BY DEF Match, MatchBut
<1>2. m \in AllNames /\ None \notin AllNames
  BY NoneIsNoName DEF AllNames
<1>3. Len(TopSet(S, m)) = Len(S) /\ Len(S) \in Nat
  BY <1>2, TopSetIs
<1>4. ASSUME NEW n \in AllNames
      PROVE  LET d == Distance(n, TopSet(S, m)) IN
               IF d = Unresolved THEN [b EXCEPT ![m] = e][n] = Globals
               ELSE [b EXCEPT ![m] = e][n] = p[d] /\ (n # m => n \in DOMAIN es[p[d]].values)
  <2>1. Distance(n, TopSet(S, m)) = IF n = m /\ S # <<>> THEN 0 ELSE Distance(n, S)
    BY <1>2, TopSetIs
  <2>2. [b EXCEPT ![m] = e][n] = IF n = m THEN e ELSE b[n]
    BY <1>2 DEF Bounds
  <2>3. CASE n # m
    BY <1>1, <1>2, <2>1, <2>2, <2>3
  <2>4. CASE n = m /\ S # <<>>
    BY <1>1, <2>1, <2>2, <2>4 DEF IsPath, Unresolved
  <2>5. CASE n = m /\ S = <<>>
    <3>1. Distance(n, TopSet(S, m)) = Unresolved
      BY <2>1, <2>5, DistanceEmpty
    <3>2. e = Globals
      BY <1>1, <2>5 DEF IsPath
    <3> QED BY <2>2, <2>5, <3>1, <3>2
  <2> QED BY <2>3, <2>4, <2>5
<1> HIDE DEF Match
<1> QED BY <1>1, <1>3, <1>4 DEF MatchBut

\* ... and matches once it has a value there.
LEMMA MatchFill ==
  ASSUME NEW es, NEW e, NEW S \in Seq(Scope), NEW b, NEW m \in Names, MatchBut(es, e, S, b, m),
         b[m] = e, m \in DOMAIN es[e].values
  PROVE  Match(es, e, S, b)
<1>1. PICK p : /\ IsPath(p, es, e, Len(S))
               /\ \A n \in AllNames :
                    LET d == Distance(n, S) IN
                      IF d = Unresolved THEN b[n] = Globals
                      ELSE b[n] = p[d] /\ (n # m => n \in DOMAIN es[p[d]].values)
  BY DEF MatchBut
<1>2. ASSUME NEW n \in AllNames
      PROVE  LET d == Distance(n, S) IN
               IF d = Unresolved THEN b[n] = Globals
               ELSE b[n] = p[d] /\ (n # None => n \in DOMAIN es[p[d]].values)
  BY <1>1
<1> QED BY <1>1, <1>2 DEF Match, MatchBut

\* Outside of all scopes everything is global.
LEMMA MatchGlobal ==
  ASSUME NEW es, NEW e, NEW b, NEW x
  PROVE  /\ MatchBut(es, e, <<>>, b, x) => Global(e, b)
         /\ Global(e, b) /\ Len(es) \in Nat \ {0} => MatchBut(es, e, <<>>, b, x)
<1>1. ASSUME MatchBut(es, e, <<>>, b, x) PROVE Global(e, b)
  BY <1>1, DistanceEmpty DEF MatchBut, IsPath, Global
<1>2. ASSUME Global(e, b), Len(es) \in Nat \ {0} PROVE MatchBut(es, e, <<>>, b, x)
  <2> DEFINE p == [d \in 0..0 |-> Globals]
  <2>1. IsPath(p, es, e, 0) /\ Len(<<>>) = 0
    BY <1>2 DEF IsPath, Global, Globals
  <2> HIDE DEF p
  <2> QED BY <1>2, <2>1, DistanceEmpty DEF MatchBut, Global
<1> QED BY <1>1, <1>2

\* The current environment is outside of all scopes only where the code is.
LEMMA MatchNotGlobal ==
  ASSUME NEW es, NEW e, NEW S \in Seq(Scope), NEW b, Match(es, e, S, b), S # <<>>
  PROVE  e # Globals
<1>1. PICK p : IsPath(p, es, e, Len(S))
  BY DEF Match, MatchBut
<1>2. Len(S) \in Nat \ {0}
  OBVIOUS
<1> QED BY <1>1, <1>2 DEF IsPath

-----------------------------------------------------------------------------
(* What the recursive functions of the interpreter compute *)

\* Environment.ancestor follows the path.
LEMMA AncestorIsPath ==
  ASSUME NEW p, NEW e, NEW n \in Nat, NEW d \in 0..n, IsPath(p, envs, e, n)
  PROVE  Ancestor(e, d) = p[d]
<1> DEFINE g == [k \in 0..d |-> p[k]]
<1>0. /\ p[0] = e /\ \A k \in 1..d : envs[p[k - 1]].enclosing = p[k]
  BY DEF IsPath
<1>1. g = [k \in 0..d |-> IF k = 0 THEN e ELSE envs[g[k - 1]].enclosing]
  BY <1>0
<1>2. ASSUME NEW f, f = [k \in 0..d |-> IF k = 0 THEN e ELSE envs[f[k - 1]].enclosing]
      PROVE  f = g
  <2>1. \A k \in 0..d : f[k] = IF k = 0 THEN e ELSE envs[f[k - 1]].enclosing
    BY <1>2, Zenon
  <2> DEFINE C == {k \in 0..d : f[k] # p[k]}
  <2>2. ASSUME C # {} PROVE FALSE
    <3>1. PICK k \in 0..d : k \in C /\ \A y \in 0..(k - 1) : y \notin C
      <4>1. C \in SUBSET (0..d) /\ d \in Nat
        OBVIOUS
      <4> HIDE DEF C
      <4> QED BY <2>2, <4>1, LeastUpTo
    <3>2. k \in 1..d /\ k - 1 \in 0..d
      BY <1>0, <2>1, <3>1
    <3>3. f[k - 1] = p[k - 1]
      BY <3>1, <3>2
    <3> QED BY <1>0, <2>1, <3>1, <3>2, <3>3
  <2>3. DOMAIN f = 0..d
    BY <1>2, Zenon
  <2>4. f = [k \in 0..d |-> f[k]]
    BY <1>2, <2>3, Zenon
  <2> QED BY <2>2, <2>4
<1>3. \A f : (f = [k \in 0..d |-> IF k = 0 THEN e ELSE envs[f[k - 1]].enclosing]) <=> f = g
  BY <1>1, <1>2
<1>4. Ancestor(e, d) = g[d]
  <2> HIDE DEF g
  <2> QED BY <1>3 DEF Ancestor
<1> QED BY <1>4

\* findMethod returns nothing, or a method of some class.
LEMMA FindMethodIs ==
  ASSUME classes \in Seq(Classes), \A k \in 1..Len(classes) : classes[k].super \in 0..(k - 1),
         NEW name \in {"method", "init"}, NEW c \in 0..Len(classes)
  PROVE  \/ FindMethod(c, name) = Nil
         \/ \E k \in 1..Len(classes) : FindMethod(c, name) = classes[k][name]
<1> DEFINE N == Len(classes)
           Step(f, k) == IF k = 0 THEN Nil
                         ELSE IF classes[k][name] # Nil THEN classes[k][name] ELSE f[classes[k].super]
           Fun(f, n) == f = [k \in 0..n |-> Step(f, k)]
<1>1. \E f : Fun(f, N)
  <2> DEFINE Bad == {n \in 0..N : ~\E f : Fun(f, n)}
  <2>1. ASSUME Bad # {} PROVE FALSE
    <3>1. PICK n \in 0..N : n \in Bad /\ \A y \in 0..(n - 1) : y \notin Bad
      <4>1. Bad \in SUBSET (0..N) /\ N \in Nat
        OBVIOUS
      <4> HIDE DEF Bad
      <4> QED BY <2>1, <4>1, LeastUpTo
    <3>2. CASE n = 0
      <4> DEFINE f == [k \in 0..0 |-> Nil]
      <4>1. Fun(f, 0)
        OBVIOUS
      <4> HIDE DEF f, Fun
      <4> QED BY <3>1, <3>2, <4>1
    <3>3. CASE n # 0
      <4>1. n \in 1..N /\ n - 1 \in 0..N /\ n - 1 \notin Bad
        BY <3>1, <3>3, SMTT(30)
      <4>2. PICK f : Fun(f, n - 1)
        BY <4>1
      <4> DEFINE g == [k \in 0..n |-> IF k = n THEN Step(f, n) ELSE f[k]]
      <4>3. \A k \in 0..(n - 1) : f[k] = Step(f, k)
        BY <4>2, Zenon
      <4>4. \A k \in 1..n : classes[k].super \in 0..(n - 1) /\ g[classes[k].super] = f[classes[k].super]
        BY <4>1, SMTT(30)
      <4>5. ASSUME NEW k \in 0..n PROVE g[k] = Step(g, k)
        <5>1. Step(g, k) = Step(f, k)
          <6>1. k # 0 => g[classes[k].super] = f[classes[k].super]
            BY <4>4
          <6> HIDE DEF g
          <6> QED BY <6>1
        <5>2. g[k] = IF k = n THEN Step(f, n) ELSE f[k]
          OBVIOUS
        <5>3. k # n => f[k] = Step(f, k)
          BY <4>1, <4>3
        <5> HIDE DEF g, Step
        <5> QED BY <5>1, <5>2, <5>3
      <4>6. \A k \in 0..n : g[k] = Step(g, k)
        BY <4>5
      <4>7. Fun(g, n)
        BY <4>6
      <4> HIDE DEF g, Fun
      <4> QED BY <3>1, <4>7
    <3> QED BY <3>2, <3>3
  <2> QED BY <2>1
<1> DEFINE h == CHOOSE f : Fun(f, N)
<1>2. FindMethod(c, name) = h[c]
  BY DEF FindMethod
<1>3. Fun(h, N)
  BY <1>1, Zenon
<1>4. \A k \in 0..N : h[k] = Step(h, k)
  BY <1>3, Zenon
<1> HIDE DEF h
<1> DEFINE C == {k \in 0..N : ~(h[k] = Nil \/ \E j \in 1..N : h[k] = classes[j][name])}
<1>5. ASSUME C # {} PROVE FALSE
  <2>1. PICK k \in 0..N : k \in C /\ \A y \in 0..(k - 1) : y \notin C
    <3>1. C \in SUBSET (0..N) /\ N \in Nat
      OBVIOUS
    <3> HIDE DEF C
    <3> QED BY <1>5, <3>1, LeastUpTo
  <2>2. k \in 1..N /\ h[k] = h[classes[k].super]
    BY <1>4, <2>1
  <2>3. classes[k].super \in 0..N /\ classes[k].super \notin C
    BY <2>1, <2>2
  <2> QED BY <2>1, <2>2, <2>3
<1> QED BY <1>2, <1>5

\* The number of environments around one is the length of its path.
LEMMA DepthIsLength ==
  ASSUME NEW p, NEW e, NEW n \in Nat, IsPath(p, envs, e, n), Len(envs) \in Nat,
         \A i \in 2..Len(envs) : envs[i].enclosing \in 1..(i - 1),
         NEW up, up = CHOOSE f : f = [i \in 1..Len(envs) |->
                                        IF i = Globals THEN 0 ELSE 1 + f[envs[i].enclosing]]
  PROVE  up[e] = n
<1> USE DEF Globals
<1> DEFINE N == Len(envs)
           Step(f, i) == IF i = Globals THEN 0 ELSE 1 + f[envs[i].enclosing]
           Fun(f, l) == f = [i \in 1..l |-> Step(f, i)]
<1>1. \E f : Fun(f, N)
  <2> DEFINE Bad == {l \in 0..N : ~\E f : Fun(f, l)}
  <2>1. ASSUME Bad # {} PROVE FALSE
    <3>1. PICK l \in 0..N : l \in Bad /\ \A y \in 0..(l - 1) : y \notin Bad
      <4>1. Bad \in SUBSET (0..N) /\ N \in Nat
        OBVIOUS
      <4> HIDE DEF Bad
      <4> QED BY <2>1, <4>1, LeastUpTo
    <3>2. CASE l = 0
      <4> DEFINE f == [i \in 1..0 |-> 0]
      <4>1. Fun(f, 0)
        OBVIOUS
      <4> HIDE DEF f, Fun
      <4> QED BY <3>1, <3>2, <4>1
    <3>3. CASE l # 0
      <4>1. l \in 1..N /\ l - 1 \in 0..N /\ l - 1 \notin Bad
        <5> HIDE DEF Bad
        <5> QED BY <3>1, <3>3
      <4>2. PICK f : Fun(f, l - 1)
        <5> HIDE DEF Fun
        <5> QED BY <4>1
      <4> DEFINE g == [i \in 1..l |-> IF i = l THEN Step(f, l) ELSE f[i]]
      <4>3. \A i \in 1..(l - 1) : f[i] = Step(f, i)
        BY <4>2, Zenon
      <4>4. ASSUME NEW i \in 2..l PROVE g[envs[i].enclosing] = f[envs[i].enclosing]
        <5>1. envs[i].enclosing \in 1..(l - 1)
          BY <4>1
        <5> QED BY <4>1, <5>1
      <4>5. ASSUME NEW i \in 1..l PROVE g[i] = Step(g, i)
        <5>1. Step(g, i) = Step(f, i)
          <6>1. i # 1 => g[envs[i].enclosing] = f[envs[i].enclosing]
            BY <4>4
          <6> HIDE DEF g
          <6> QED BY <6>1
        <5>2. g[i] = IF i = l THEN Step(f, l) ELSE f[i]
          OBVIOUS
        <5>3. i # l => f[i] = Step(f, i)
          BY <4>1, <4>3
        <5> HIDE DEF g, Step
        <5> QED BY <5>1, <5>2, <5>3
      <4>6. \A i \in 1..l : g[i] = Step(g, i)
        BY <4>5
      <4>7. Fun(g, l)
        BY <4>6
      <4> HIDE DEF g, Fun
      <4> QED BY <3>1, <4>7
    <3> QED BY <3>2, <3>3
  <2> QED BY <2>1
<1>2. Fun(up, N)
  BY <1>1, Zenon
<1>3. \A i \in 1..N : up[i] = Step(up, i)
  BY <1>2, Zenon
<1>4. /\ p \in [0..n -> 1..N] /\ p[0] = e /\ p[n] = 1
      /\ \A d \in 0..(n - 1) : p[d] # 1 /\ envs[p[d]].enclosing = p[d + 1]
  BY DEF IsPath
<1> DEFINE C == {k \in 0..n : up[p[n - k]] # k}
<1>5. ASSUME C # {} PROVE FALSE
  <2>1. PICK k \in 0..n : k \in C /\ \A y \in 0..(k - 1) : y \notin C
    <3>1. C \in SUBSET (0..n) /\ n \in Nat
      OBVIOUS
    <3> HIDE DEF C
    <3> QED BY <1>5, <3>1, LeastUpTo
  <2>2. up[p[n - k]] # k
    BY <2>1
  <2>3. k # 0
    <3>1. up[1] = 0
      BY <1>3, <1>4
    <3> QED BY <1>4, <2>2, <3>1
  <2>4. k - 1 \in 0..(k - 1) /\ k - 1 \in 0..n
    BY <2>3
  <2>5. up[p[n - (k - 1)]] = k - 1
    BY <2>1, <2>4
  <2>6. PICK m \in 0..(n - 1) : m = n - k /\ m + 1 = n - (k - 1)
    BY <2>3
  <2>7. p[m] \in 1..N /\ p[m] # 1 /\ envs[p[m]].enclosing = p[m + 1]
    BY <1>4
  <2>8. up[p[m]] = 1 + up[p[m + 1]]
    BY <1>3, <2>7
  <2> QED BY <2>2, <2>5, <2>6, <2>8
<1>6. up[p[n - n]] = n
  <2>1. n \notin C
    <3> HIDE DEF C
    <3> QED BY <1>5
  <2> QED BY <2>1
<1> QED BY <1>4, <1>6

-----------------------------------------------------------------------------
(* What keeps values and activations as they should be *)

\* The scopes around the methods of a class.
LEMMA ClassScopesAre ==
  ASSUME NEW from \in Names \cup {None}
  PROVE  /\ ClassScopes(from) \in Seq(Scope) /\ SuperScopes(from) \in Seq(Scope)
         /\ ClassScopes(from) = Append(SuperScopes(from), Only("this", TRUE))
         /\ Len(ClassScopes(from)) = IF from = None THEN 1 ELSE 2
         /\ from = None => ClassScopes(from)[1] = Only("this", TRUE)
         /\ from # None => /\ ClassScopes(from)[1] = Only("super", TRUE)
                           /\ ClassScopes(from)[2] = Only("this", TRUE)
<1>1. "this" \in AllNames /\ "super" \in AllNames
  BY DEF AllNames
<1>2. PICK t \in Scope : t = Only("this", TRUE)
  BY <1>1, ScopesAre
<1>3. PICK u \in Scope : u = Only("super", TRUE)
  BY <1>1, ScopesAre
<1>4. ClassScopes(from) = IF from = None THEN <<t>> ELSE <<u, t>>
  BY <1>2, <1>3 DEF ClassScopes
<1>5. SuperScopes(from) = IF from = None THEN <<>> ELSE <<u>>
  BY <1>3 DEF SuperScopes
<1>6. CASE from = None
  <2>1. ClassScopes(from) = <<t>> /\ SuperScopes(from) = <<>>
    BY <1>4, <1>5, <1>6
  <2>2. <<t>> \in Seq(Scope) /\ <<>> \in Seq(Scope) /\ <<t>> = Append(<<>>, t)
    OBVIOUS
  <2>3. Len(<<t>>) = 1 /\ <<t>>[1] = t
    OBVIOUS
  <2> QED BY <1>2, <1>6, <2>1, <2>2, <2>3
<1>7. CASE from # None
  <2>1. ClassScopes(from) = <<u, t>> /\ SuperScopes(from) = <<u>>
    BY <1>4, <1>5, <1>7
  <2>2. <<u, t>> \in Seq(Scope) /\ <<u>> \in Seq(Scope) /\ <<u, t>> = Append(<<u>>, t)
    OBVIOUS
  <2>3. Len(<<u, t>>) = 2 /\ <<u, t>>[1] = u /\ <<u, t>>[2] = t
    OBVIOUS
  <2> QED BY <1>2, <1>3, <1>7, <2>1, <2>2, <2>3
<1> QED BY <1>6, <1>7

\* There are scopes before each statement and behind the last.
LEMMA SnapIs ==
  ASSUME NEW cd \in Seq(Items), NEW sc \in Seq(Scope), NEW i \in 1..(Len(cd) + 1)
  PROVE  Snap(cd, sc, i) \in Seq(Scope)
<1>1. CASE i <= Len(cd)
  <2>1. cd[i] \in Items
    BY <1>1
  <2> QED BY <1>1, <2>1 DEF Snap, Items
<1>2. CASE ~(i <= Len(cd))
  BY <1>2 DEF Snap
<1> QED BY <1>1, <1>2

\* The code up to lim and the environments are still there.
Keeps(cd, lim, es, n, cd2, lim2, es2, n2) ==
  /\ cd \in Seq(Items) /\ cd2 \in Seq(Items)
  /\ lim \in 0..Len(cd) /\ lim2 \in lim..Len(cd2)
  /\ \A i \in 1..lim : cd2[i] = cd[i]
  /\ Len(es) \in Nat /\ Len(es2) \in Nat /\ Extends(es, es2)
  /\ n \in Nat /\ n2 \in Nat /\ n <= n2

\* A good value stays good when code, environments and classes are added.
LEMMA ValueKeeps ==
  ASSUME NEW v, NEW cd, NEW lim, NEW es, NEW n, NEW cd2, NEW lim2, NEW es2, NEW n2,
         Keeps(cd, lim, es, n, cd2, lim2, es2, n2), ValueOK(v, cd, lim, es, n)
  PROVE  ValueOK(v, cd2, lim2, es2, n2)
<1>0. /\ v \in ValueSet /\ v.at \in Nat /\ n \in Nat /\ n2 \in Nat /\ n <= n2
      /\ lim \in Nat /\ lim2 \in Nat /\ lim <= lim2
  BY DEF Keeps, ValueOK, ValueSet
<1>1. CASE v.kind = "fun"
  <2>1. /\ v.at \in 1..(lim - 1) /\ cd[v.at].op = "fun" /\ cd[v.at].name \in Names
        /\ Match(es, v.env, TopSet(cd[v.at].scopes, cd[v.at].name), v.bound)
    BY <1>1 DEF ValueOK
  <2>2. v.at \in 1..(lim2 - 1) /\ cd2[v.at] = cd[v.at] /\ cd[v.at] \in Items
    BY <1>0, <2>1 DEF Keeps
  <2>3. TopSet(cd[v.at].scopes, cd[v.at].name) \in Seq(Scope)
    BY <2>1, <2>2, TopSetIs DEF Items, AllNames
  <2>4. Match(es2, v.env, TopSet(cd[v.at].scopes, cd[v.at].name), v.bound)
    BY <2>1, <2>3, MatchGrows DEF Keeps, Match
  <2> QED BY <1>0, <1>1, <2>1, <2>2, <2>4 DEF ValueOK
<1>2. CASE v.kind # "fun"
  BY <1>0, <1>2 DEF ValueOK
<1> QED BY <1>1, <1>2

\* ... and so does a good method.
LEMMA MethodKeeps ==
  ASSUME NEW m, NEW cd, NEW lim, NEW es, NEW n, NEW cd2, NEW lim2, NEW es2, NEW n2,
         Keeps(cd, lim, es, n, cd2, lim2, es2, n2), MethodOK(m, cd, lim, es)
  PROVE  MethodOK(m, cd2, lim2, es2)
<1>1. CASE m = Nil
  BY <1>1 DEF MethodOK
<1>2. CASE m # Nil
  <2>1. /\ m \in ValueSet /\ m.kind = "fun" /\ m.at \in 1..(lim - 1)
        /\ cd[m.at].op \in {"method", "init"}
    BY <1>2 DEF MethodOK
  <2>2. PICK from \in Names \cup {None} : /\ cd[m.at].scopes = ClassScopes(from)
                                          /\ Match(es, m.env, SuperScopes(from), m.bound)
    BY <1>2 DEF MethodOK
  <2>3. m.at \in 1..(lim2 - 1) /\ cd2[m.at] = cd[m.at]
    BY <2>1 DEF Keeps
  <2>4. Match(es2, m.env, SuperScopes(from), m.bound)
    BY <2>2, ClassScopesAre, MatchGrows DEF Keeps, Match
  <2> QED BY <2>1, <2>2, <2>3, <2>4 DEF MethodOK
<1> QED BY <1>1, <1>2

\* New environments, variables and classes that are right themselves.
LEMMA HeapKeeps ==
  ASSUME NEW cd, NEW lim, NEW es, NEW cl, NEW cd2, NEW lim2, NEW es2, NEW cl2,
         HeapOK(cd, lim, es, cl), Keeps(cd, lim, es, Len(cl), cd2, lim2, es2, Len(cl2)),
         \A e \in (Len(es) + 1)..Len(es2) : es2[e].enclosing \in 1..(e - 1),
         \A e \in 1..Len(es2) : \A n \in DOMAIN es2[e].values :
           \/ e <= Len(es) /\ n \in DOMAIN es[e].values /\ es2[e].values[n] = es[e].values[n]
           \/ /\ ValueOK(es2[e].values[n], cd2, lim2, es2, Len(cl2))
              /\ n = "super" => es2[e].values[n].kind = "class",
         \A k \in 1..Len(cl) : cl2[k] = cl[k],
         \A k \in (Len(cl) + 1)..Len(cl2) : /\ cl2[k].super \in 0..(k - 1)
                                            /\ MethodOK(cl2[k].method, cd2, lim2, es2)
                                            /\ MethodOK(cl2[k].init, cd2, lim2, es2)
  PROVE  HeapOK(cd2, lim2, es2, cl2)
<1>0. /\ Len(es) \in Nat /\ Len(es2) \in Nat /\ Len(cl) \in Nat /\ Len(cl2) \in Nat /\ Extends(es, es2)
  BY DEF Keeps
<1>1. ASSUME NEW e \in 2..Len(es2) PROVE es2[e].enclosing \in 1..(e - 1)
  <2>1. CASE e <= Len(es)
    BY <1>0, <2>1 DEF HeapOK, Extends
  <2>2. CASE e > Len(es)
    BY <1>0, <2>2
  <2> QED BY <1>0, <2>1, <2>2
<1>2. ASSUME NEW e \in 1..Len(es2), NEW n \in DOMAIN es2[e].values
      PROVE  /\ ValueOK(es2[e].values[n], cd2, lim2, es2, Len(cl2))
             /\ n = "super" => es2[e].values[n].kind = "class"
  <2>1. CASE e <= Len(es) /\ n \in DOMAIN es[e].values /\ es2[e].values[n] = es[e].values[n]
    <3>1. e \in 1..Len(es)
      BY <1>0, <2>1
    <3>2. PICK v : v = es[e].values[n]
      OBVIOUS
    <3>3. ValueOK(v, cd, lim, es, Len(cl)) /\ (n = "super" => v.kind = "class")
      BY <2>1, <3>1, <3>2 DEF HeapOK
    <3>4. ValueOK(v, cd2, lim2, es2, Len(cl2))
      BY <3>3, ValueKeeps
    <3> QED BY <2>1, <3>2, <3>3, <3>4
  <2> QED BY <2>1
<1>3. ASSUME NEW k \in 1..Len(cl2)
      PROVE  /\ cl2[k].super \in 0..(k - 1) /\ MethodOK(cl2[k].method, cd2, lim2, es2)
             /\ MethodOK(cl2[k].init, cd2, lim2, es2)
  <2>1. CASE k <= Len(cl)
    <3>1. k \in 1..Len(cl) /\ cl2[k] = cl[k]
      BY <1>0, <2>1
    <3>2. PICK m, i : m = cl[k].method /\ i = cl[k].init
      OBVIOUS
    <3>3. cl[k].super \in 0..(k - 1) /\ MethodOK(m, cd, lim, es) /\ MethodOK(i, cd, lim, es)
      BY <3>1, <3>2 DEF HeapOK
    <3>4. MethodOK(m, cd2, lim2, es2) /\ MethodOK(i, cd2, lim2, es2)
      BY <3>3, MethodKeeps
    <3> QED BY <3>1, <3>2, <3>3, <3>4
  <2>2. CASE k > Len(cl)
    BY <1>0, <2>2
  <2> QED BY <1>0, <2>1, <2>2
<1> QED BY <1>1, <1>2, <1>3 DEF HeapOK

\* Activations are kept as well; their scopes lie in the code.
LEMMA ActKeeps ==
  ASSUME NEW c \in Acts, NEW cd \in Seq(Items), NEW sc \in Seq(Scope), NEW es, NEW n, NEW es2, NEW n2,
         Len(es) \in Nat, Len(es2) \in Nat, Extends(es, es2), n \in Nat, n2 \in Nat, n <= n2,
         ActOK(c, cd, sc, es, n)
  PROVE  ActOK(c, cd, sc, es2, n2)
<1>1. Snap(cd, sc, c.back) \in Seq(Scope)
  BY SnapIs DEF ActOK
<1>2. Keeps(cd, Len(cd), es, n, cd, Len(cd), es2, n2)
  BY DEF Keeps
<1>3. PICK v : v = c.result.instance
  OBVIOUS
<1>4. ValueOK(v, cd, Len(cd), es2, n2)
  BY <1>2, <1>3, ValueKeeps DEF ActOK
<1>5. CASE c.result.into = None
  <2>1. Match(es2, c.previous, Snap(cd, sc, c.back), c.bound)
    BY <1>1, <1>5, MatchGrows DEF ActOK, Match
  <2> QED BY <1>3, <1>4, <1>5, <2>1 DEF ActOK, Extends
<1>6. CASE c.result.into # None
  <2>1. PICK b : b = [c.bound EXCEPT ![c.result.into] = c.previous]
    OBVIOUS
  <2>2. MatchBut(es, c.previous, Snap(cd, sc, c.back), b, c.result.into)
    BY <1>6, <2>1 DEF ActOK
  <2>3. MatchBut(es2, c.previous, Snap(cd, sc, c.back), b, c.result.into)
    BY <1>1, <2>2, MatchGrows
  <2> QED BY <1>3, <1>4, <1>6, <2>1, <2>3 DEF ActOK, Extends
<1> QED BY <1>5, <1>6

-----------------------------------------------------------------------------
(* The resolver *)

\* A statement behind the others begins where they ended.
Extended(cd, sc, it, cd2, sc2) ==
  /\ cd2 \in Seq(Items) /\ Len(cd2) = Len(cd) + 1 /\ Len(cd) \in Nat
  /\ \A i \in 1..Len(cd) : cd2[i] = cd[i]
  /\ cd2[Len(cd) + 1] = it
  /\ \A i \in 1..(Len(cd) + 1) : Snap(cd2, sc2, i) = Snap(cd, sc, i)
  /\ Snap(cd2, sc2, Len(cd) + 2) = sc2

\* Another statement leaves the scopes of the earlier ones as they are.
LEMMA SnapAppend ==
  ASSUME NEW cd \in Seq(Items), NEW it \in Items, NEW sc2
  PROVE  Extended(cd, it.scopes, it, Append(cd, it), sc2)
<1>0. PICK cd2 : cd2 = Append(cd, it)
  OBVIOUS
<1>1. /\ cd2 \in Seq(Items) /\ Len(cd2) = Len(cd) + 1 /\ Len(cd) \in Nat
      /\ \A i \in 1..Len(cd) : cd2[i] = cd[i]
      /\ cd2[Len(cd) + 1] = it
  BY <1>0
<1>2. ASSUME NEW i \in 1..(Len(cd) + 1) PROVE Snap(cd2, sc2, i) = Snap(cd, it.scopes, i)
  <2>1. CASE i <= Len(cd)
    BY <1>1, <2>1 DEF Snap
  <2>2. CASE i = Len(cd) + 1
    BY <1>1, <2>2 DEF Snap
  <2> QED BY <1>1, <2>1, <2>2
<1>3. Snap(cd2, sc2, Len(cd) + 2) = sc2
  BY <1>1 DEF Snap
<1> QED BY <1>0, <1>1, <1>2, <1>3 DEF Extended

\* A method is in the scopes of the class that is open.
InOpenClass(cd, it) ==
  it.op \in {"method", "init"} =>
    \A i \in 1..Len(cd) : cd[i].op = "class" /\ cd[i].end = 0 => it.scopes = ClassScopes(cd[i].from)

\* A statement that is resolved leads on from where the code ended.
LEMMA StaticAppend ==
  ASSUME NEW cd \in Seq(Items), NEW sc, NEW it \in Items, NEW sc2, NEW cd2,
         Static(cd, sc), it.scopes = sc, Resolved(it), it.end = 0, InOpenClass(cd, it),
         it.op # "end" => sc2 = Following(it), cd2 = Append(cd, it)
  PROVE  Static(cd2, sc2)
<1>ext. Extended(cd, sc, it, cd2, sc2)
  BY SnapAppend
<1>0. /\ cd2 \in Seq(Items) /\ Len(cd2) = Len(cd) + 1 /\ Len(cd) \in Nat
      /\ \A i \in 1..Len(cd) : cd2[i] = cd[i]
      /\ cd2[Len(cd) + 1] = it
      /\ \A i \in 1..(Len(cd) + 1) : Snap(cd2, sc2, i) = Snap(cd, sc, i)
      /\ Snap(cd2, sc2, Len(cd) + 2) = sc2
  BY <1>ext DEF Extended
<1> SUFFICES ASSUME NEW i \in 1..Len(cd2)
             PROVE  /\ Resolved(cd2[i])
                    /\ cd2[i].op # "end" => Snap(cd2, sc2, i + 1) = Following(cd2[i])
                    /\ cd2[i].op \in Openers /\ cd2[i].end # 0 =>
                         /\ cd2[i].end \in (i + 1)..Len(cd2)
                         /\ Snap(cd2, sc2, cd2[i].end + 1) = Outer(cd2[i])
                    /\ cd2[i].op = "class" =>
                         \A j \in (i + 1)..Len(cd2) :
                           (cd2[i].end = 0 \/ j <= cd2[i].end) /\ cd2[j].op \in {"method", "init"} =>
                             cd2[j].scopes = ClassScopes(cd2[i].from)
  BY DEF Static
<1>1. CASE i = Len(cd) + 1
  <2>1. cd2[i] = it /\ i + 1 = Len(cd) + 2 /\ \A j \in (i + 1)..Len(cd2) : FALSE
    BY <1>0, <1>1
  <2> QED BY <1>0, <2>1
<1>2. CASE i # Len(cd) + 1
  <2>1. i \in 1..Len(cd) /\ i + 1 \in 1..(Len(cd) + 1)
    BY <1>0, <1>2
  <2>2. /\ cd2[i] = cd[i] /\ cd[i] \in Items
        /\ Snap(cd2, sc2, i + 1) = Snap(cd, sc, i + 1)
    BY <1>0, <2>1
  <2>3. /\ Resolved(cd[i])
        /\ cd[i].op # "end" => Snap(cd, sc, i + 1) = Following(cd[i])
        /\ cd[i].op \in Openers /\ cd[i].end # 0 =>
             /\ cd[i].end \in (i + 1)..Len(cd)
             /\ Snap(cd, sc, cd[i].end + 1) = Outer(cd[i])
    BY <2>1 DEF Static
  <2>4. ASSUME cd[i].op \in Openers, cd[i].end # 0
        PROVE  cd[i].end \in (i + 1)..Len(cd2) /\ Snap(cd2, sc2, cd[i].end + 1) = Outer(cd[i])
    <3>1. cd[i].end + 1 \in 1..(Len(cd) + 1) /\ cd[i].end \in (i + 1)..Len(cd2)
      BY <1>0, <2>1, <2>3, <2>4
    <3> QED BY <1>0, <2>3, <2>4, <3>1
  <2>5. ASSUME cd[i].op = "class", NEW j \in (i + 1)..Len(cd2), cd[i].end = 0 \/ j <= cd[i].end,
               cd2[j].op \in {"method", "init"}
        PROVE  cd2[j].scopes = ClassScopes(cd[i].from)
    <3>1. CASE j <= Len(cd)
      <4>1. j \in (i + 1)..Len(cd) /\ cd2[j] = cd[j]
        BY <1>0, <2>1, <3>1
      <4> QED BY <2>1, <2>5, <4>1 DEF Static
    <3>2. CASE ~(j <= Len(cd))
      <4>1. j = Len(cd) + 1 /\ cd2[j] = it
        BY <1>0, <2>1, <3>2
      <4>2. cd[i].end = 0
        BY <1>0, <2>1, <2>3, <2>5, <4>1 DEF Openers
      <4> QED BY <2>1, <2>5, <4>1, <4>2 DEF InOpenClass
    <3> QED BY <3>1, <3>2
  <2> QED BY <2>2, <2>3, <2>4, <2>5
<1> QED BY <1>1, <1>2

\* What the interpreter has does not depend on the line that is read.
LEMMA ResolverKeeps ==
  ASSUME IInv, phase = "resolve", UNCHANGED <<phase, start, interpreter>>,
         code' \in Seq(Items), Len(code') >= start - 1, \A i \in 1..(start - 1) : code'[i] = code[i],
         scopes' \in Seq(Scope), brackets' \in Seq(Brackets),
         currentFunction' \in {"NONE", "FUNCTION", "METHOD", "INITIALIZER"},
         currentClass' \in {"NONE", "CLASS", "SUBCLASS"}, CodeInv'
  PROVE  IInv'
<1> USE DEF interpreter
<1>0. Types /\ HeapInv /\ RunInv
  BY DEF IInv
<1>1. Types'
  BY <1>0 DEF Types
<1>2. PICK cd2 \in Seq(Items) : cd2 = code'
  OBVIOUS
<1>3. /\ Limit = start - 1 /\ Limit' = start - 1 /\ start - 1 \in Nat
      /\ Len(code) \in Nat /\ start - 1 <= Len(code) /\ Len(envs) \in Nat /\ Len(classes) \in Nat
  BY <1>0 DEF Types, Limit
<1>4. Keeps(code, start - 1, envs, Len(classes), cd2, start - 1, envs, Len(classes))
  BY <1>0, <1>2, <1>3 DEF Keeps, Extends, Types
<1>5. HeapOK(cd2, start - 1, envs, classes)
  BY <1>0, <1>3, <1>4, HeapKeeps, SMTT(30) DEF HeapInv
<1>6. ValueOK(returned, cd2, start - 1, envs, Len(classes))
  BY <1>0, <1>3, <1>4, ValueKeeps DEF HeapInv
<1>7. HeapInv'
  BY <1>0, <1>2, <1>3, <1>5, <1>6 DEF HeapInv
<1>8. RunInv'
  BY <1>0 DEF RunInv, CallsOK
<1> QED BY <1>1, <1>7, <1>8 DEF IInv

\* Only the innermost scope changes, by a name of the program.
Redefined(sc, sc2) ==
  /\ sc2 \in Seq(Scope) /\ Len(sc2) = Len(sc)
  /\ \A j \in 1..(Len(sc) - 1) : sc2[j] = sc[j]
  /\ sc # <<>> => DOMAIN sc2[Len(sc)] \subseteq DOMAIN sc[Len(sc)] \cup Names

\* What Nested says of bracket k.
LEMMA NestedAt ==
  ASSUME NEW cd \in Seq(Items), NEW sc \in Seq(Scope), NEW br \in Seq(Brackets), NEW st \in Nat \ {0},
         Nested(cd, br, sc, st), NEW k \in 1..Len(br)
  PROVE  /\ br[k] \in Brackets /\ br[k].at \in st..Len(cd) /\ br[k].at \in 1..Len(cd)
         /\ cd[br[k].at] \in Items /\ Len(cd[br[k].at].scopes) \in Nat
         /\ cd[br[k].at].op = br[k].op /\ cd[br[k].at].end = 0
         /\ br[k].pushed = Pushed(cd[br[k].at]) /\ br[k].pushed \in {1, 2}
         /\ cd[br[k].at].op \in Openers
<1>0. PICK b, a, it : b = br[k] /\ a = b.at /\ it = cd[a]
  OBVIOUS
<1>1. b \in Brackets /\ Len(cd) \in Nat
  BY <1>0
<1>2. /\ a \in st..Len(cd) /\ it.op = b.op /\ it.end = 0 /\ b.pushed = Pushed(it)
  BY <1>0 DEF Nested
<1>3. a \in 1..Len(cd)
  BY <1>1, <1>2
<1>4. it \in Items
  BY <1>0, <1>3
<1>5. Len(it.scopes) \in Nat
  BY <1>4 DEF Items
<1>6. Pushed(it) \in {1, 2}
  BY DEF Pushed
<1>7. it.op \in Openers
  BY <1>1, <1>2 DEF Brackets
<1> QED BY <1>0, <1>1, <1>2, <1>3, <1>4, <1>5, <1>6, <1>7

\* What a statement directly in a class, or further inside of it, sees.
LEMMA InsideClass ==
  ASSUME NEW cd \in Seq(Items), NEW sc \in Seq(Scope), NEW br \in Seq(Brackets), NEW st \in Nat \ {0},
         NEW class, Nested(cd, br, sc, st), ClassAround(cd, br, sc, class), InClass(br)
  PROVE  /\ 1 \in 1..Len(br) /\ cd[br[1].at].from \in Names \cup {None}
         /\ ClassScopes(cd[br[1].at].from) \in Seq(Scope)
         /\ Len(ClassScopes(cd[br[1].at].from)) = Pushed(cd[br[1].at])
         /\ br[Len(br)].op = "class" => Len(br) = 1 /\ sc = ClassScopes(cd[br[1].at].from)
         /\ br[Len(br)].op # "class" => Len(sc) > Len(ClassScopes(cd[br[1].at].from))
<1>0. /\ br # <<>> /\ br[1].op = "class" /\ Len(br) \in Nat \ {0} /\ Len(sc) \in Nat
      /\ 1 \in 1..Len(br) /\ Len(br) \in 1..Len(br)
  BY DEF InClass
<1>1. PICK c : c = cd[br[1].at]
  OBVIOUS
<1>2. c \in Items /\ c.op = "class" /\ br[1].pushed = Pushed(c) /\ br[1].pushed \in {1, 2}
  BY <1>0, <1>1, NestedAt
<1>3. c.scopes = <<>> /\ Len(c.scopes) = 0
  BY <1>0, <1>1 DEF Nested
<1>4. c.from \in Names \cup {None}
  BY <1>2 DEF Items
<1>5. PICK cs : cs = ClassScopes(c.from)
  OBVIOUS
<1>6. cs \in Seq(Scope) /\ Len(cs) = Pushed(c)
  BY <1>2, <1>4, <1>5, ClassScopesAre DEF Pushed
<1>7. Len(sc) >= Len(cs) /\ \A j \in 1..Len(cs) : sc[j] = cs[j]
  BY <1>1, <1>5 DEF ClassAround
<1>8. ASSUME br[Len(br)].op = "class" PROVE Len(br) = 1 /\ sc = cs
  <2>1. Len(br) = 1
    <3>1. PICK k \in 1..Len(br) : k = Len(br)
      BY <1>0
    <3>2. cd[br[k].at].op = br[k].op /\ (cd[br[k].at].op = "class" => k = 1)
      BY DEF Nested
    <3> QED BY <1>8, <3>1, <3>2
  <2>2. Len(sc) = Len(cs)
    <3>1. Len(sc) = Len(c.scopes) + br[1].pushed
      BY <1>0, <1>1, <2>1 DEF Nested
    <3> QED BY <1>2, <1>3, <1>6, <3>1
  <2> QED BY <1>6, <1>7, <2>1, <2>2, SeqEqual
<1>9. ASSUME br[Len(br)].op # "class" PROVE Len(sc) > Len(cs)
  <2>1. PICK l \in 1..Len(br) : l = Len(br) /\ l > 1
    BY <1>0, <1>9
  <2>2. PICK it : it = cd[br[l].at]
    OBVIOUS
  <2>3. Len(it.scopes) \in Nat /\ br[l].pushed \in {1, 2}
    BY <2>2, NestedAt
  <2>4. Len(sc) = Len(it.scopes) + br[l].pushed
    BY <2>1, <2>2 DEF Nested
  <2>5. Len(it.scopes) >= Len(c.scopes) + br[1].pushed
    <3>1. 1 \in 1..(l - 1)
      BY <2>1
    <3> QED BY <1>1, <2>2, <3>1 DEF Nested
  <2> QED BY <1>0, <1>2, <1>3, <1>6, <2>3, <2>4, <2>5
<1> QED BY <1>0, <1>1, <1>4, <1>5, <1>6, <1>8, <1>9

\* A statement that is no bracket.
LEMMA SimpleNested ==
  ASSUME NEW cd \in Seq(Items), NEW sc \in Seq(Scope), NEW br \in Seq(Brackets),
         NEW st \in 1..(Len(cd) + 1), NEW class,
         Nested(cd, br, sc, st), Closed(cd, br, st), ClassAround(cd, br, sc, class),
         br # <<>> => br[Len(br)].op # "class",
         NEW it \in Items, it.op \notin Openers, NEW cd2, cd2 = Append(cd, it), NEW sc2, Redefined(sc, sc2)
  PROVE  Nested(cd2, br, sc2, st) /\ Closed(cd2, br, st) /\ ClassAround(cd2, br, sc2, class)
<1>0. /\ cd2 \in Seq(Items) /\ Len(cd2) = Len(cd) + 1 /\ Len(cd) \in Nat
      /\ \A i \in 1..Len(cd) : cd2[i] = cd[i]
      /\ cd2[Len(cd) + 1] = it
      /\ st \in Nat \ {0} /\ Len(br) \in Nat /\ Len(sc) \in Nat
      /\ sc2 \in Seq(Scope) /\ Len(sc2) = Len(sc)
  BY DEF Redefined
<1>1. ASSUME NEW k \in 1..Len(br)
      PROVE  /\ cd2[br[k].at] = cd[br[k].at] /\ br[k].at \in st..Len(cd2)
             /\ \A j \in 1..Len(cd[br[k].at].scopes) : sc2[j] = sc[j]
  <2>1. /\ br[k].at \in 1..Len(cd) /\ br[k].at \in st..Len(cd) /\ br[k].pushed \in {1, 2}
        /\ Len(cd[br[k].at].scopes) \in Nat
    BY <1>0, NestedAt
  <2>2. Len(sc) >= Len(cd[br[k].at].scopes) + br[k].pushed
    BY DEF Nested
  <2>3. PICK l, a : l = Len(cd[br[k].at].scopes) /\ a = br[k].at
    OBVIOUS
  <2>4. l \in Nat /\ l <= Len(sc) - 1
    BY <1>0, <2>1, <2>2, <2>3, SMTT(30)
  <2>5. \A j \in 1..l : sc2[j] = sc[j]
    BY <1>0, <2>4 DEF Redefined
  <2>6. a \in 1..Len(cd) /\ a \in st..Len(cd)
    BY <2>1, <2>3
  <2>7. cd2[a] = cd[a] /\ a \in st..Len(cd2)
    BY <1>0, <2>6
  <2> QED BY <2>3, <2>5, <2>7
<1>2. Nested(cd2, br, sc2, st)
  <2>1. br = <<>> => sc2 = <<>>
    BY <1>0 DEF Nested
  <2>2. ASSUME NEW k \in 1..Len(br), NEW j \in 1..(k - 1) PROVE cd2[br[j].at] = cd[br[j].at]
    BY <1>0, <1>1
  <2> QED BY <1>0, <1>1, <2>1, <2>2, SMTT(30) DEF Nested
<1>3. Closed(cd2, br, st)
  <2> SUFFICES ASSUME NEW i \in 1..Len(cd2), cd2[i].op \in Openers
               PROVE  /\ cd2[i].end = 0 => \E k \in 1..Len(br) : br[k].at = i
                      /\ i < st => cd2[i].end # 0 /\ cd2[i].end < st
    BY DEF Closed
  <2>0. i # Len(cd) + 1
    BY <1>0
  <2>1. i \in 1..Len(cd) /\ cd2[i] = cd[i]
    BY <1>0, <2>0
  <2> QED BY <2>1 DEF Closed
<1>4. ClassAround(cd2, br, sc2, class)
  <2>1. CASE InClass(br)
    <3>1. PICK cs : cs = ClassScopes(cd[br[1].at].from)
      OBVIOUS
    <3>2. 1 \in 1..Len(br) /\ cs \in Seq(Scope) /\ Len(cs) \in Nat /\ Len(sc) > Len(cs)
      <4>1. br # <<>>
        BY <2>1 DEF InClass
      <4>2. 1 \in 1..Len(br) /\ cs \in Seq(Scope) /\ (br[Len(br)].op # "class" => Len(sc) > Len(cs))
        BY <1>0, <2>1, <3>1, InsideClass
      <4> QED BY <4>1, <4>2
    <3>3. cd2[br[1].at] = cd[br[1].at]
      BY <1>1, <3>2
    <3>4. /\ class = Kind(cd[br[1].at].from) /\ \A j \in 1..Len(cs) : sc[j] = cs[j]
          /\ \A j \in (Len(cs) + 1)..Len(sc) : DOMAIN sc[j] \subseteq Names
      BY <2>1, <3>1 DEF ClassAround
    <3>5. \A j \in 1..Len(cs) : sc2[j] = cs[j]
      BY <1>0, <3>2, <3>4 DEF Redefined
    <3>6. ASSUME NEW j \in (Len(cs) + 1)..Len(sc2) PROVE DOMAIN sc2[j] \subseteq Names
      <4>1. j \in (Len(cs) + 1)..Len(sc) /\ sc # <<>>
        BY <1>0, <3>2
      <4>2. CASE j < Len(sc)
        <5>1. j \in 1..(Len(sc) - 1)
          BY <1>0, <3>2, <4>1, <4>2
        <5> QED BY <3>4, <4>1, <5>1 DEF Redefined
      <4>3. CASE j = Len(sc)
        <5>1. DOMAIN sc[Len(sc)] \subseteq Names
          BY <3>4, <4>1, <4>3
        <5> QED BY <4>1, <4>3, <5>1 DEF Redefined
      <4> QED BY <1>0, <3>2, <4>1, <4>2, <4>3
    <3>7. \A k \in 1..Len(br) : br[k].class = IF k = 1 THEN "NONE" ELSE class
      BY DEF ClassAround
    <3> QED BY <1>0, <2>1, <3>1, <3>2, <3>3, <3>4, <3>5, <3>6, <3>7 DEF ClassAround
  <2>2. CASE ~InClass(br)
    <3>1. class = "NONE" /\ \A j \in 1..Len(sc) : DOMAIN sc[j] \subseteq Names
      BY <2>2 DEF ClassAround
    <3>2. ASSUME NEW j \in 1..Len(sc2) PROVE DOMAIN sc2[j] \subseteq Names
      <4>1. j \in 1..Len(sc) /\ sc # <<>>
        BY <1>0
      <4>2. CASE j < Len(sc)
        <5>1. j \in 1..(Len(sc) - 1)
          BY <1>0, <4>1, <4>2
        <5> QED BY <3>1, <4>1, <5>1 DEF Redefined
      <4>3. CASE j = Len(sc)
        BY <1>0, <3>1, <4>1, <4>3 DEF Redefined
      <4> QED BY <1>0, <4>1, <4>2, <4>3
    <3> QED BY <2>2, <3>1, <3>2 DEF ClassAround
  <2> QED BY <2>1, <2>2
<1> QED BY <1>2, <1>3, <1>4

\* The scopes inside a bracket: those outside, and one or two more.
LEMMA InnerIs ==
  ASSUME NEW it \in Items, it.op \in Openers, it.op = "fun" => it.name \in Names,
         it.op = "class" => it.scopes = <<>>
  PROVE  /\ Inner(it) \in Seq(Scope) /\ Len(Inner(it)) = Len(it.scopes) + Pushed(it)
         /\ Redefined(it.scopes, Outer(it))
         /\ \A j \in 1..Len(it.scopes) : Inner(it)[j] = Outer(it)[j]
         /\ it.op # "class" =>
              /\ \A j \in 1..Len(it.scopes) : Inner(it)[j] = Outer(it)[j]
              /\ DOMAIN Inner(it)[Len(it.scopes) + 1] \subseteq Names
<1>0. PICK s \in Seq(Scope), from \in Names \cup {None} : s = it.scopes /\ from = it.from
  BY DEF Items
<1>1. Len(s) \in Nat
  OBVIOUS
<1>2. PICK o \in Seq(Scope) : o = Outer(it) /\ Redefined(s, o)
  <2>1. CASE it.op = "fun"
    <3>1. PICK m \in AllNames : m = it.name /\ m \in Names
      BY <2>1 DEF AllNames
    <3>2. Outer(it) = TopSet(s, m)
      BY <1>0, <2>1, <3>1 DEF Outer
    <3>3. TopSet(s, m) \in Seq(Scope) /\ Redefined(s, TopSet(s, m))
      BY <3>1, TopSetIs DEF Redefined
    <3> QED BY <3>2, <3>3
  <2>2. CASE it.op # "fun"
    BY <1>0, <2>2 DEF Outer, Redefined
  <2> QED BY <2>1, <2>2
<1>3. CASE it.op = "class"
  <2>1. Inner(it) = ClassScopes(from) /\ s = <<>> /\ Pushed(it) = IF from = None THEN 1 ELSE 2
    BY <1>0, <1>3 DEF Inner, Pushed
  <2>2. ClassScopes(from) \in Seq(Scope) /\ Len(ClassScopes(from)) = IF from = None THEN 1 ELSE 2
    BY ClassScopesAre
  <2> QED BY <1>0, <1>2, <1>3, <2>1, <2>2
<1>4. CASE it.op # "class"
  <2>1. PICK T \in Scope : Inner(it) = Append(o, T) /\ DOMAIN T \subseteq Names
    <3>1. CASE it.op = "fun"
      <4>1. Inner(it) = Append(o, Parameters(from))
        BY <1>0, <1>2, <3>1 DEF Inner, Outer
      <4>2. Parameters(from) \in Scope /\ DOMAIN Parameters(from) \subseteq Names
        <5>1. CASE from = None
          BY <5>1, ScopesAre DEF Parameters
        <5>2. CASE from # None
          <6>1. from \in Names /\ from \in AllNames
            BY <5>2 DEF AllNames
          <6>2. Only(from, TRUE) \in Scope /\ DOMAIN Only(from, TRUE) = {from}
            BY <6>1, ScopesAre
          <6>3. Parameters(from) = Only(from, TRUE)
            BY <5>2 DEF Parameters
          <6> QED BY <6>1, <6>2, <6>3, Zenon
        <5> QED BY <5>1, <5>2
      <4> QED BY <4>1, <4>2
    <3>2. CASE it.op # "fun"
      <4>1. Inner(it) = Append(o, Empty)
        BY <1>0, <1>2, <1>4, <3>2 DEF Inner, Outer
      <4> QED BY <4>1, ScopesAre
    <3> QED BY <3>1, <3>2
  <2>2. Pushed(it) = 1 /\ Len(o) = Len(s)
    BY <1>2, <1>4 DEF Pushed, Redefined
  <2>3. /\ Append(o, T) \in Seq(Scope) /\ Len(Append(o, T)) = Len(s) + 1
        /\ \A j \in 1..Len(s) : Append(o, T)[j] = o[j]
        /\ Append(o, T)[Len(s) + 1] = T
    BY <2>2
  <2> QED BY <1>0, <1>2, <2>1, <2>2, <2>3
<1> QED BY <1>3, <1>4

\* A statement that opens a bracket.
Opened(cd, br, sc, class, it, b, cd2, br2, class2) ==
  /\ it \in Items /\ it.op \in Openers /\ it.scopes = sc /\ it.end = 0
  /\ it.op = "fun" => it.name \in Names
  /\ it.op = "class" => br = <<>> /\ sc = <<>>
  /\ br # <<>> /\ br[Len(br)].op = "class" => it.op \in {"method", "init"}
  /\ b \in Brackets /\ b.op = it.op /\ b.at = Len(cd) + 1 /\ b.pushed = Pushed(it) /\ b.class = class
  /\ cd2 = Append(cd, it) /\ br2 = Append(br, b)
  /\ class2 = IF it.op = "class" THEN Kind(it.from) ELSE class

\* The brackets are still nested when one is opened.
LEMMA OpenNested ==
  ASSUME NEW cd \in Seq(Items), NEW sc \in Seq(Scope), NEW br \in Seq(Brackets),
         NEW st \in 1..(Len(cd) + 1), NEW class,
         Nested(cd, br, sc, st), Closed(cd, br, st), ClassAround(cd, br, sc, class),
         NEW it, NEW b, NEW cd2, NEW br2, NEW sc2, NEW class2,
         Opened(cd, br, sc, class, it, b, cd2, br2, class2), sc2 = Inner(it)
  PROVE  Nested(cd2, br2, sc2, st) /\ Closed(cd2, br2, st) /\ ClassAround(cd2, br2, sc2, class2)
<1>i. /\ it \in Items /\ it.op \in Openers /\ it.scopes = sc /\ it.end = 0
      /\ it.op = "fun" => it.name \in Names
      /\ it.op = "class" => br = <<>> /\ sc = <<>>
      /\ br # <<>> /\ br[Len(br)].op = "class" => it.op \in {"method", "init"}
      /\ b \in Brackets /\ b.op = it.op /\ b.at = Len(cd) + 1 /\ b.pushed = Pushed(it) /\ b.class = class
      /\ class2 = IF it.op = "class" THEN Kind(it.from) ELSE class
  BY DEF Opened
<1>0. /\ cd2 \in Seq(Items) /\ Len(cd2) = Len(cd) + 1 /\ Len(cd) \in Nat
      /\ \A i \in 1..Len(cd) : cd2[i] = cd[i]
      /\ cd2[Len(cd) + 1] = it
      /\ st \in Nat \ {0} /\ Len(br) \in Nat /\ Len(sc) \in Nat
  BY <1>i DEF Opened
<1>b. /\ br2 \in Seq(Brackets) /\ Len(br2) = Len(br) + 1 /\ br2[Len(br) + 1] = b /\ br2 # <<>>
      /\ \A k \in 1..Len(br) : br2[k] = br[k]
  BY <1>i DEF Opened
<1>o. PICK o : o = Outer(it)
  OBVIOUS
<1>p. PICK u \in {1, 2} : u = Pushed(it)
  BY DEF Pushed
<1>s. /\ sc2 \in Seq(Scope) /\ Len(sc2) = Len(sc) + u
      /\ Redefined(sc, o)
      /\ \A j \in 1..Len(sc) : sc2[j] = o[j]
      /\ it.op # "class" => DOMAIN sc2[Len(sc) + 1] \subseteq Names
  BY <1>i, <1>o, <1>p, InnerIs
<1>1. ASSUME NEW k \in 1..Len(br)
      PROVE  /\ cd2[br[k].at] = cd[br[k].at] /\ br[k].at \in st..Len(cd2) /\ br[k].at < Len(cd) + 1
             /\ \A j \in 1..Len(cd[br[k].at].scopes) : sc2[j] = sc[j]
             /\ Len(sc2) >= Len(cd[br[k].at].scopes) + br[k].pushed
  <2>1. /\ br[k].at \in 1..Len(cd) /\ br[k].at \in st..Len(cd) /\ br[k].pushed \in {1, 2}
        /\ Len(cd[br[k].at].scopes) \in Nat
    BY <1>0, NestedAt
  <2>2. Len(sc) >= Len(cd[br[k].at].scopes) + br[k].pushed
    BY DEF Nested
  <2>3. PICK l, a, v : l = Len(cd[br[k].at].scopes) /\ a = br[k].at /\ v = br[k].pushed
    OBVIOUS
  <2>4. l \in Nat /\ v \in {1, 2} /\ l + v <= Len(sc)
    BY <1>0, <2>1, <2>2, <2>3
  <2>5. \A j \in 1..l : sc2[j] = sc[j]
    BY <1>0, <1>s, <2>4 DEF Redefined
  <2>6. a \in 1..Len(cd) /\ a \in st..Len(cd)
    BY <2>1, <2>3
  <2>7. cd2[a] = cd[a] /\ a \in st..Len(cd2) /\ a < Len(cd) + 1
    BY <1>0, <2>6
  <2>8. Len(sc2) >= l + v
    BY <1>0, <1>s, <2>4
  <2> QED BY <2>3, <2>5, <2>7, <2>8
<1>2. Nested(cd2, br2, sc2, st)
  <2> SUFFICES ASSUME NEW k \in 1..Len(br2), NEW x, x = cd2[br2[k].at]
               PROVE  /\ br2[k].at \in st..Len(cd2) /\ x.op = br2[k].op /\ x.end = 0
                      /\ br2[k].pushed = Pushed(x)
                      /\ k = 1 => x.scopes = <<>>
                      /\ x.op = "class" => k = 1
                      /\ Len(sc2) >= Len(x.scopes) + br2[k].pushed
                      /\ k = Len(br2) => Len(sc2) = Len(x.scopes) + br2[k].pushed
                      /\ \A j \in 1..Len(x.scopes) : sc2[j] = Outer(x)[j]
                      /\ \A j \in 1..(k - 1) :
                           LET out == cd2[br2[j].at] IN
                           /\ br2[j].at < br2[k].at
                           /\ Len(x.scopes) >= Len(out.scopes) + br2[j].pushed
                           /\ j = k - 1 => Len(x.scopes) = Len(out.scopes) + br2[j].pushed
    BY <1>b, SMTT(30) DEF Nested
  <2>1. CASE k \in 1..Len(br)
    <3>1. br2[k] = br[k] /\ x = cd[br[k].at] /\ k # Len(br2)
      BY <1>0, <1>1, <1>b, <2>1
    <3>2. ASSUME NEW j \in 1..(k - 1) PROVE j \in 1..Len(br) /\ br2[j] = br[j] /\ cd2[br[j].at] = cd[br[j].at]
      BY <1>0, <1>1, <1>b, <2>1
    <3>3. ASSUME NEW j \in 1..(k - 1)
          PROVE  /\ br[j].at < br[k].at
                 /\ Len(x.scopes) >= Len(cd[br[j].at].scopes) + br[j].pushed
                 /\ j = k - 1 => Len(x.scopes) = Len(cd[br[j].at].scopes) + br[j].pushed
      BY <2>1, <3>1 DEF Nested
    <3>4. /\ x.op = br[k].op /\ x.end = 0 /\ br[k].pushed = Pushed(x) /\ (k = 1 => x.scopes = <<>>)
          /\ x.op = "class" => k = 1
          /\ \A j \in 1..Len(x.scopes) : sc[j] = Outer(x)[j]
      BY <2>1, <3>1 DEF Nested
    <3>5. /\ br[k].at \in st..Len(cd2) /\ Len(sc2) >= Len(x.scopes) + br[k].pushed
          /\ \A j \in 1..Len(x.scopes) : sc2[j] = Outer(x)[j]
      BY <1>1, <2>1, <3>1, <3>4
    <3>6. ASSUME NEW j \in 1..(k - 1)
          PROVE  /\ br2[j].at < br2[k].at
                 /\ Len(x.scopes) >= Len(cd2[br2[j].at].scopes) + br2[j].pushed
                 /\ j = k - 1 => Len(x.scopes) = Len(cd2[br2[j].at].scopes) + br2[j].pushed
      BY <3>1, <3>2, <3>3
    <3> QED BY <3>1, <3>4, <3>5, <3>6
  <2>2. CASE k = Len(br) + 1
    <3>1. br2[k] = b /\ x = it
      BY <1>0, <1>b, <1>i, <2>2
    <3>2. b.at \in st..Len(cd2) /\ Len(sc2) = Len(it.scopes) + b.pushed
      BY <1>0, <1>i, <1>s, <1>p
    <3>3. k = 1 => it.scopes = <<>>
      BY <1>0, <1>i, <2>2 DEF Nested
    <3>4. it.op = "class" => k = 1
      BY <1>i, <2>2
    <3>5. ASSUME NEW j \in 1..(k - 1)
          PROVE  /\ j \in 1..Len(br) /\ br2[j] = br[j] /\ cd2[br[j].at] = cd[br[j].at]
                 /\ br[j].at < b.at
                 /\ Len(sc) >= Len(cd[br[j].at].scopes) + br[j].pushed
                 /\ j = k - 1 => Len(sc) = Len(cd[br[j].at].scopes) + br[j].pushed
      <4>1. j \in 1..Len(br)
        BY <1>0, <2>2
      <4> QED BY <1>0, <1>1, <1>b, <1>i, <2>2, <4>1 DEF Nested
    <3>6. \A j \in 1..Len(it.scopes) : sc2[j] = Outer(it)[j]
      BY <1>i, <1>o, <1>s
    <3>7. Len(sc2) >= Len(it.scopes) + b.pushed
      BY <1>0, <1>s, <1>i, <3>2
    <3>9. x.scopes = sc /\ br2[k].at = b.at
      BY <1>i, <3>1
    <3>8. ASSUME NEW j \in 1..(k - 1)
          PROVE  /\ br2[j].at < br2[k].at
                 /\ Len(x.scopes) >= Len(cd2[br2[j].at].scopes) + br2[j].pushed
                 /\ j = k - 1 => Len(x.scopes) = Len(cd2[br2[j].at].scopes) + br2[j].pushed
      BY <3>5, <3>9
    <3> QED BY <1>i, <3>1, <3>2, <3>3, <3>4, <3>6, <3>7, <3>8
  <2> QED BY <1>0, <1>b, <2>1, <2>2
<1>3. Closed(cd2, br2, st)
  <2> SUFFICES ASSUME NEW i \in 1..Len(cd2), cd2[i].op \in Openers
               PROVE  /\ cd2[i].end = 0 => \E k \in 1..Len(br2) : br2[k].at = i
                      /\ i < st => cd2[i].end # 0 /\ cd2[i].end < st
    BY DEF Closed
  <2>1. CASE i = Len(cd) + 1
    <3>1. Len(br) + 1 \in 1..Len(br2) /\ br2[Len(br) + 1].at = i /\ ~(i < st)
      BY <1>0, <1>b, <1>i, <2>1
    <3> QED BY <3>1
  <2>2. CASE i \in 1..Len(cd)
    <3>1. cd2[i] = cd[i]
      BY <1>0, <2>2
    <3>2. cd[i].end = 0 => \E k \in 1..Len(br) : br[k].at = i
      BY <2>2, <3>1 DEF Closed
    <3>3. ASSUME NEW k \in 1..Len(br) PROVE k \in 1..Len(br2) /\ br2[k] = br[k]
      BY <1>0, <1>b
    <3>4. i < st => cd[i].end # 0 /\ cd[i].end < st
      BY <2>2, <3>1 DEF Closed
    <3> QED BY <3>1, <3>2, <3>3, <3>4
  <2> QED BY <1>0, <2>1, <2>2
<1>4. ClassAround(cd2, br2, sc2, class2)
  <2>1. CASE br = <<>>
    <3>1. class = "NONE" /\ sc = <<>> /\ Len(sc) = 0 /\ Len(br) = 0 /\ Len(br2) = 1 /\ br2[1] = b
      BY <1>b, <2>1 DEF ClassAround, InClass, Nested
    <3>2. \A k \in 1..Len(br2) : br2[k].class = IF k = 1 THEN "NONE" ELSE class2
      BY <1>i, <3>1
    <3>3. CASE it.op = "class"
      <4>1. InClass(br2) /\ sc2 = ClassScopes(it.from) /\ cd2[br2[1].at] = it
        BY <1>0, <1>b, <1>i, <3>1, <3>3 DEF InClass, Inner
      <4>2. class2 = Kind(it.from)
        BY <1>i, <3>3
      <4>3. Len(sc2) \in Nat /\ \A j \in (Len(sc2) + 1)..Len(sc2) : FALSE
        BY <1>s
      <4> QED BY <3>2, <4>1, <4>2, <4>3 DEF ClassAround
    <3>4. CASE it.op # "class"
      <4>1. ~InClass(br2) /\ class2 = "NONE"
        BY <1>i, <3>1, <3>4 DEF InClass
      <4>2. u = 1
        BY <1>p, <3>4 DEF Pushed
      <4>3. \A j \in 1..Len(sc2) : DOMAIN sc2[j] \subseteq Names
        BY <1>s, <3>1, <3>4, <4>2
      <4> QED BY <3>2, <4>1, <4>3 DEF ClassAround
    <3> QED BY <3>3, <3>4
  <2>2. CASE br # <<>>
    <3>1. /\ it.op # "class" /\ class2 = class /\ u = 1 /\ Len(br) \in Nat \ {0} /\ 1 \in 1..Len(br)
          /\ br2[1] = br[1]
      BY <1>i, <1>b, <1>p, <2>2 DEF Pushed
    <3>2. \A k \in 1..Len(br2) : br2[k].class = IF k = 1 THEN "NONE" ELSE class2
      <4> SUFFICES ASSUME NEW k \in 1..Len(br2) PROVE br2[k].class = IF k = 1 THEN "NONE" ELSE class2
        OBVIOUS
      <4>1. CASE k \in 1..Len(br)
        BY <1>b, <3>1, <4>1 DEF ClassAround
      <4>2. CASE k = Len(br) + 1
        BY <1>b, <1>i, <3>1, <4>2
      <4> QED BY <1>0, <1>b, <4>1, <4>2
    <3>3. (InClass(br2) <=> InClass(br)) /\ cd2[br2[1].at] = cd[br[1].at]
      BY <1>1, <1>b, <2>2, <3>1 DEF InClass
    <3>4. CASE InClass(br)
      <4>1. PICK cs : cs = ClassScopes(cd[br[1].at].from)
        OBVIOUS
      <4>2. /\ cs \in Seq(Scope) /\ Len(cs) \in Nat
            /\ br[Len(br)].op = "class" => Len(br) = 1 /\ sc = cs
            /\ br[Len(br)].op # "class" => Len(sc) > Len(cs)
        <5>1. /\ cs \in Seq(Scope)
              /\ br[Len(br)].op = "class" => Len(br) = 1 /\ sc = cs
              /\ br[Len(br)].op # "class" => Len(sc) > Len(cs)
          BY <1>0, <3>4, <4>1, InsideClass
        <5> QED BY <5>1
      <4>3. /\ class = Kind(cd[br[1].at].from) /\ \A j \in 1..Len(cs) : sc[j] = cs[j]
            /\ \A j \in (Len(cs) + 1)..Len(sc) : DOMAIN sc[j] \subseteq Names
        BY <3>4, <4>1 DEF ClassAround
      <4>4. Len(sc2) >= Len(cs) /\ \A j \in 1..Len(cs) : sc2[j] = cs[j]
        <5>1. CASE br[Len(br)].op = "class"
          <6>1. o = sc
            BY <1>i, <1>o, <2>2, <5>1 DEF Outer
          <6> QED BY <1>0, <1>s, <3>1, <4>2, <4>3, <5>1, <6>1
        <5>2. CASE br[Len(br)].op # "class"
          BY <1>0, <1>s, <3>1, <4>2, <4>3, <5>2 DEF Redefined
        <5> QED BY <5>1, <5>2
      <4>5. ASSUME NEW j \in (Len(cs) + 1)..Len(sc2) PROVE DOMAIN sc2[j] \subseteq Names
        <5>1. CASE j = Len(sc) + 1
          BY <1>s, <3>1, <5>1
        <5>2. CASE j # Len(sc) + 1
          <6>1. j \in (Len(cs) + 1)..Len(sc) /\ j \in 1..Len(sc) /\ sc # <<>>
            BY <1>0, <1>s, <3>1, <4>2, <5>2
          <6>2. sc2[j] = o[j] /\ DOMAIN sc[j] \subseteq Names
            BY <1>s, <4>3, <6>1
          <6>3. CASE j < Len(sc)
            <7>1. j \in 1..(Len(sc) - 1)
              BY <1>0, <6>1, <6>3
            <7> QED BY <1>s, <6>2, <7>1 DEF Redefined
          <6>4. CASE j = Len(sc)
            BY <1>s, <6>1, <6>2, <6>4 DEF Redefined
          <6> QED BY <1>0, <6>1, <6>3, <6>4
        <5> QED BY <5>1, <5>2
      <4> QED BY <3>1, <3>2, <3>3, <3>4, <4>1, <4>3, <4>4, <4>5 DEF ClassAround
    <3>5. CASE ~InClass(br)
      <4>1. class = "NONE" /\ \A j \in 1..Len(sc) : DOMAIN sc[j] \subseteq Names
        BY <3>5 DEF ClassAround
      <4>2. ASSUME NEW j \in 1..Len(sc2) PROVE DOMAIN sc2[j] \subseteq Names
        <5>1. CASE j = Len(sc) + 1
          BY <1>s, <3>1, <5>1
        <5>2. CASE j # Len(sc) + 1
          <6>1. j \in 1..Len(sc) /\ sc # <<>>
            BY <1>0, <1>s, <3>1, <5>2
          <6>2. sc2[j] = o[j] /\ DOMAIN sc[j] \subseteq Names
            BY <1>s, <4>1, <6>1
          <6>3. CASE j < Len(sc)
            <7>1. j \in 1..(Len(sc) - 1)
              BY <1>0, <6>1, <6>3
            <7> QED BY <1>s, <6>2, <7>1 DEF Redefined
          <6>4. CASE j = Len(sc)
            BY <1>s, <6>1, <6>2, <6>4 DEF Redefined
          <6> QED BY <1>0, <6>1, <6>3, <6>4
        <5> QED BY <5>1, <5>2
      <4> QED BY <3>1, <3>2, <3>3, <3>5, <4>1, <4>2 DEF ClassAround
    <3> QED BY <3>4, <3>5
  <2> QED BY <2>1, <2>2
<1> QED BY <1>2, <1>3, <1>4

\* A closing bracket: the last open one is told where its end is.
Closing(cd, br, sc, e, cd2, br2, sc2) ==
  LET l == Len(br)
      a == br[l].at
  IN /\ br # <<>> /\ e \in Items /\ e.op = "end" /\ e.scopes = sc /\ e.end = 0
     /\ cd2 \in Seq(Items) /\ Len(cd2) = Len(cd) + 1
     /\ \A i \in 1..Len(cd) : i # a => cd2[i] = cd[i]
     /\ cd2[a] = [cd[a] EXCEPT !.end = Len(cd) + 1]
     /\ cd2[Len(cd) + 1] = e
     /\ br2 \in Seq(Brackets) /\ Len(br2) = l - 1 /\ \A k \in 1..(l - 1) : br2[k] = br[k]
     /\ sc2 \in Seq(Scope) /\ sc2 = Outer(cd[a])

\* Where a statement ends makes no difference to it otherwise.
LEMMA EndChanges ==
  ASSUME NEW x \in Items, NEW n \in Nat, NEW y, y = [x EXCEPT !.end = n]
  PROVE  /\ y.op = x.op /\ y.scopes = x.scopes /\ y.from = x.from /\ y.end = n
         /\ Resolved(y) <=> Resolved(x)
         /\ Following(y) = Following(x) /\ Outer(y) = Outer(x)
<1>2. /\ y.op = x.op /\ y.scopes = x.scopes /\ y.from = x.from /\ y.name = x.name /\ y.end = n
      /\ y.distance = x.distance /\ y.fromDistance = x.fromDistance
  BY DEF Items
<1>3. Resolved(y) <=> Resolved(x)
  BY <1>2 DEF Resolved
<1>4. Inner(y) = Inner(x) /\ Outer(y) = Outer(x)
  BY <1>2 DEF Inner, Outer
<1>5. Following(y) = Following(x)
  BY <1>2, <1>4 DEF Following
<1> QED BY <1>2, <1>3, <1>4, <1>5

\* Closing a bracket leads on from where it was opened.
LEMMA StaticClose ==
  ASSUME NEW cd \in Seq(Items), NEW sc \in Seq(Scope), NEW br \in Seq(Brackets), NEW st \in Nat \ {0},
         Static(cd, sc), Nested(cd, br, sc, st),
         NEW e, NEW cd2, NEW br2, NEW sc2, Closing(cd, br, sc, e, cd2, br2, sc2)
  PROVE  Static(cd2, sc2)
<1>0. PICK l, a, x : l = Len(br) /\ a = br[l].at /\ x = cd[a]
  OBVIOUS
<1>1. /\ br # <<>> /\ e \in Items /\ e.op = "end" /\ e.scopes = sc /\ e.end = 0
      /\ cd2 \in Seq(Items) /\ Len(cd2) = Len(cd) + 1 /\ Len(cd) \in Nat
      /\ \A i \in 1..Len(cd) : i # a => cd2[i] = cd[i]
      /\ cd2[a] = [x EXCEPT !.end = Len(cd) + 1]
      /\ cd2[Len(cd) + 1] = e /\ sc2 = Outer(x)
  BY <1>0 DEF Closing
<1>2. l \in 1..Len(br) /\ l \in Nat \ {0}
  BY <1>0, <1>1
<1>3. a \in 1..Len(cd) /\ x \in Items /\ x.end = 0 /\ br[l].pushed \in {1, 2}
      /\ Len(x.scopes) \in Nat
  BY <1>0, <1>2, NestedAt
<1>4. Len(sc) >= Len(x.scopes) + br[l].pushed
  BY <1>0, <1>2 DEF Nested
<1>5. sc # <<>>
  BY <1>3, <1>4
<1>6. ASSUME NEW i \in 1..Len(cd)
      PROVE  /\ cd2[i].op = cd[i].op /\ cd2[i].scopes = cd[i].scopes /\ cd2[i].from = cd[i].from
             /\ Resolved(cd2[i]) <=> Resolved(cd[i])
             /\ Following(cd2[i]) = Following(cd[i]) /\ Outer(cd2[i]) = Outer(cd[i])
             /\ cd2[i].end = IF i = a THEN Len(cd) + 1 ELSE cd[i].end
  <2>1. CASE i = a
    <3>1. PICK n \in Nat, y \in {cd2[a]} : n = Len(cd) + 1 /\ y = cd2[a] /\ y = [x EXCEPT !.end = n]
      <4>1. Len(cd) + 1 \in Nat
        BY <1>1
      <4> QED BY <1>1, <4>1
    <3>2. /\ y.op = x.op /\ y.scopes = x.scopes /\ y.from = x.from /\ y.end = n
          /\ Resolved(y) <=> Resolved(x)
          /\ Following(y) = Following(x) /\ Outer(y) = Outer(x)
      BY <1>3, <3>1, EndChanges
    <3> QED BY <1>0, <2>1, <3>1, <3>2
  <2>2. CASE i # a
    BY <1>1, <2>2
  <2> QED BY <2>1, <2>2
<1>7. ASSUME NEW i \in 1..(Len(cd) + 1) PROVE Snap(cd2, sc2, i) = Snap(cd, sc, i)
  <2>1. CASE i \in 1..Len(cd)
    <3>1. i <= Len(cd) /\ i <= Len(cd2)
      BY <1>1, <2>1
    <3> QED BY <1>6, <2>1, <3>1 DEF Snap
  <2>2. CASE i = Len(cd) + 1
    BY <1>1, <2>2 DEF Snap
  <2> QED BY <1>1, <2>1, <2>2
<1>8. Snap(cd2, sc2, Len(cd) + 2) = sc2
  BY <1>1 DEF Snap
<1> SUFFICES ASSUME NEW i \in 1..Len(cd2)
             PROVE  /\ Resolved(cd2[i])
                    /\ cd2[i].op # "end" => Snap(cd2, sc2, i + 1) = Following(cd2[i])
                    /\ cd2[i].op \in Openers /\ cd2[i].end # 0 =>
                         /\ cd2[i].end \in (i + 1)..Len(cd2)
                         /\ Snap(cd2, sc2, cd2[i].end + 1) = Outer(cd2[i])
                    /\ cd2[i].op = "class" =>
                         \A j \in (i + 1)..Len(cd2) :
                           (cd2[i].end = 0 \/ j <= cd2[i].end) /\ cd2[j].op \in {"method", "init"} =>
                             cd2[j].scopes = ClassScopes(cd2[i].from)
  BY DEF Static
<1>9. CASE i = Len(cd) + 1
  <2>1. Resolved(e)
    BY <1>1, <1>5 DEF Resolved
  <2> QED BY <1>1, <1>9, <2>1 DEF Openers
<1>10. CASE i \in 1..Len(cd)
  <2>1. i + 1 \in 1..(Len(cd) + 1) /\ cd[i] \in Items
    BY <1>1, <1>10
  <2>2. /\ Resolved(cd[i])
        /\ cd[i].op # "end" => Snap(cd, sc, i + 1) = Following(cd[i])
        /\ cd[i].op \in Openers /\ cd[i].end # 0 =>
             /\ cd[i].end \in (i + 1)..Len(cd)
             /\ Snap(cd, sc, cd[i].end + 1) = Outer(cd[i])
    BY <1>10 DEF Static
  <2>3. ASSUME cd[i].op \in Openers, cd2[i].end # 0
        PROVE  cd2[i].end \in (i + 1)..Len(cd2) /\ Snap(cd2, sc2, cd2[i].end + 1) = Outer(cd[i])
    <3>1. CASE i = a
      <4>1. cd2[i].end = Len(cd) + 1
        BY <1>6, <1>10, <3>1
      <4>2. Len(cd) + 1 \in (i + 1)..Len(cd2) /\ Len(cd) + 1 + 1 = Len(cd) + 2
        BY <1>1, <1>10
      <4> QED BY <1>0, <1>1, <1>8, <3>1, <4>1, <4>2
    <3>2. CASE i # a
      <4>1. cd2[i].end = cd[i].end
        BY <1>6, <1>10, <3>2
      <4>2. cd[i].end \in (i + 1)..Len(cd) /\ Snap(cd, sc, cd[i].end + 1) = Outer(cd[i])
        BY <2>2, <2>3, <4>1
      <4>3. cd[i].end + 1 \in 1..(Len(cd) + 1) /\ cd[i].end \in (i + 1)..Len(cd2)
        BY <1>1, <1>10, <4>2
      <4> QED BY <1>7, <4>1, <4>2, <4>3
    <3> QED BY <3>1, <3>2
  <2>4. ASSUME cd[i].op = "class", NEW j \in (i + 1)..Len(cd2), cd2[i].end = 0 \/ j <= cd2[i].end,
               cd2[j].op \in {"method", "init"}
        PROVE  cd2[j].scopes = ClassScopes(cd[i].from)
    <3>1. j # Len(cd) + 1
      BY <1>1, <2>4
    <3>2. j \in (i + 1)..Len(cd) /\ j \in 1..Len(cd)
      BY <1>1, <1>10, <3>1
    <3>3. cd2[j].op = cd[j].op /\ cd2[j].scopes = cd[j].scopes
      BY <1>6, <3>2
    <3>4. cd[i].end = 0 \/ j <= cd[i].end
      BY <1>0, <1>3, <1>6, <1>10, <2>4
    <3> QED BY <1>10, <2>4, <3>2, <3>3, <3>4 DEF Static
  <2>5. Snap(cd2, sc2, i + 1) = Snap(cd, sc, i + 1)
    BY <1>7, <2>1
  <2> QED BY <1>6, <1>10, <2>2, <2>3, <2>4, <2>5
<1> QED BY <1>1, <1>9, <1>10

\* The brackets are still nested when the last one is closed.
LEMMA CloseNested ==
  ASSUME NEW cd \in Seq(Items), NEW sc \in Seq(Scope), NEW br \in Seq(Brackets),
         NEW st \in 1..(Len(cd) + 1), NEW class,
         Nested(cd, br, sc, st), Closed(cd, br, st), ClassAround(cd, br, sc, class),
         NEW e, NEW cd2, NEW br2, NEW sc2, Closing(cd, br, sc, e, cd2, br2, sc2)
  PROVE  /\ Nested(cd2, br2, sc2, st) /\ Closed(cd2, br2, st)
         /\ ClassAround(cd2, br2, sc2, br[Len(br)].class)
<1>0. PICK l, a, x : l = Len(br) /\ a = br[l].at /\ x = cd[a]
  OBVIOUS
<1>1. /\ br # <<>> /\ e \in Items /\ e.op = "end"
      /\ cd2 \in Seq(Items) /\ Len(cd2) = Len(cd) + 1 /\ Len(cd) \in Nat
      /\ \A i \in 1..Len(cd) : i # a => cd2[i] = cd[i]
      /\ cd2[a] = [x EXCEPT !.end = Len(cd) + 1]
      /\ cd2[Len(cd) + 1] = e /\ sc2 = Outer(x) /\ sc2 \in Seq(Scope)
      /\ br2 \in Seq(Brackets) /\ Len(br2) = l - 1 /\ \A k \in 1..(l - 1) : br2[k] = br[k]
      /\ st \in Nat \ {0} /\ Len(sc) \in Nat /\ Len(sc2) \in Nat
  BY <1>0 DEF Closing
<1>2. l \in 1..Len(br) /\ l \in Nat \ {0} /\ 1 \in 1..Len(br)
  BY <1>0, <1>1
<1>3. /\ a \in 1..Len(cd) /\ a \in st..Len(cd) /\ x \in Items /\ x.end = 0 /\ br[l].pushed \in {1, 2}
      /\ Len(x.scopes) \in Nat
  BY <1>0, <1>1, <1>2, NestedAt, SMTT(30)
<1>4. Len(sc) = Len(x.scopes) + br[l].pushed /\ \A j \in 1..Len(x.scopes) : sc[j] = Outer(x)[j]
  BY <1>0, <1>2 DEF Nested
<1>5. Len(sc2) = Len(x.scopes)
  <2>1. CASE x.op = "fun"
    <3>1. x.scopes \in Seq(Scope) /\ Len(TopSet(x.scopes, x.name)) = Len(x.scopes)
      BY <1>3 DEF Items, TopSet
    <3> QED BY <1>1, <2>1, <3>1 DEF Outer
  <2>2. CASE x.op # "fun"
    BY <1>1, <2>2 DEF Outer
  <2> QED BY <2>1, <2>2
<1>6. \A j \in 1..Len(sc2) : sc2[j] = sc[j]
  BY <1>1, <1>4, <1>5
<1>7. ASSUME NEW k \in 1..(l - 1)
      PROVE  /\ k \in 1..Len(br) /\ br2[k] = br[k] /\ br[k].at < a /\ br[k].at # a
             /\ br[k].at \in 1..Len(cd) /\ cd2[br[k].at] = cd[br[k].at]
             /\ Len(cd[br[k].at].scopes) \in Nat /\ br[k].pushed \in {1, 2}
             /\ Len(sc2) >= Len(cd[br[k].at].scopes) + br[k].pushed
             /\ k = l - 1 => Len(sc2) = Len(cd[br[k].at].scopes) + br[k].pushed
  <2>1. k \in 1..Len(br) /\ br2[k] = br[k]
    BY <1>0, <1>1, <1>2
  <2>2. PICK c, y : c = br[k].at /\ y = cd[c]
    OBVIOUS
  <2>3. c \in 1..Len(cd) /\ Len(y.scopes) \in Nat /\ br[k].pushed \in {1, 2}
    BY <1>1, <2>1, <2>2, NestedAt
  <2>4. /\ c < a /\ Len(x.scopes) >= Len(y.scopes) + br[k].pushed
        /\ k = l - 1 => Len(x.scopes) = Len(y.scopes) + br[k].pushed
    BY <1>0, <1>2, <2>2 DEF Nested
  <2>5. c # a
    BY <1>3, <2>3, <2>4
  <2> QED BY <1>1, <1>5, <2>1, <2>2, <2>3, <2>4, <2>5
<1>8. Nested(cd2, br2, sc2, st)
  <2>1. br2 = <<>> => sc2 = <<>>
    <3> SUFFICES ASSUME br2 = <<>> PROVE sc2 = <<>>
      OBVIOUS
    <3>1. l = 1
      BY <1>1, <1>2
    <3>2. x.scopes = <<>>
      BY <1>0, <1>2, <3>1 DEF Nested
    <3> QED BY <1>1, <1>5, <3>2
  <2> SUFFICES ASSUME NEW k \in 1..Len(br2), NEW y, y = cd2[br2[k].at]
               PROVE  /\ br2[k].at \in st..Len(cd2) /\ y.op = br2[k].op /\ y.end = 0
                      /\ br2[k].pushed = Pushed(y)
                      /\ k = 1 => y.scopes = <<>>
                      /\ y.op = "class" => k = 1
                      /\ Len(sc2) >= Len(y.scopes) + br2[k].pushed
                      /\ k = Len(br2) => Len(sc2) = Len(y.scopes) + br2[k].pushed
                      /\ \A j \in 1..Len(y.scopes) : sc2[j] = Outer(y)[j]
                      /\ \A j \in 1..(k - 1) :
                           LET out == cd2[br2[j].at] IN
                           /\ br2[j].at < br2[k].at
                           /\ Len(y.scopes) >= Len(out.scopes) + br2[j].pushed
                           /\ j = k - 1 => Len(y.scopes) = Len(out.scopes) + br2[j].pushed
    BY <2>1, SMTT(40) DEF Nested
  <2>2. k \in 1..(l - 1)
    BY <1>1
  <2>3. k \in 1..Len(br) /\ br2[k] = br[k] /\ y = cd[br[k].at] /\ Len(y.scopes) \in Nat
    BY <1>7, <2>2
  <2>4. /\ br[k].at \in st..Len(cd) /\ y.op = br[k].op /\ y.end = 0 /\ br[k].pushed = Pushed(y)
        /\ k = 1 => y.scopes = <<>>
        /\ y.op = "class" => k = 1
        /\ \A j \in 1..Len(y.scopes) : sc[j] = Outer(y)[j]
    BY <2>3 DEF Nested
  <2>5. /\ Len(sc2) >= Len(y.scopes) + br[k].pushed /\ br[k].pushed \in {1, 2}
        /\ k = l - 1 => Len(sc2) = Len(y.scopes) + br[k].pushed
    BY <1>7, <2>2, <2>3
  <2>6. \A j \in 1..Len(y.scopes) : sc2[j] = Outer(y)[j]
    <3>1. PICK m, v : m = Len(y.scopes) /\ v = br[k].pushed
      OBVIOUS
    <3>2. m \in Nat /\ v \in {1, 2} /\ Len(sc2) >= m + v
      BY <2>3, <2>5, <3>1
    <3>3. \A j \in 1..m : j \in 1..Len(sc2)
      BY <1>1, <3>2
    <3> QED BY <1>6, <2>4, <3>1, <3>3
  <2>7. br[k].at \in st..Len(cd2)
    <3>1. PICK c : c = br[k].at
      OBVIOUS
    <3> QED BY <1>1, <2>4, <3>1
  <2>8. ASSUME NEW j \in 1..(k - 1)
        PROVE  /\ br2[j].at < br2[k].at
               /\ Len(y.scopes) >= Len(cd2[br2[j].at].scopes) + br2[j].pushed
               /\ j = k - 1 => Len(y.scopes) = Len(cd2[br2[j].at].scopes) + br2[j].pushed
    <3>1. j \in 1..(l - 1)
      BY <1>1, <2>2
    <3>2. br2[j] = br[j] /\ cd2[br[j].at] = cd[br[j].at]
      BY <1>7, <3>1
    <3>3. /\ br[j].at < br[k].at
          /\ Len(y.scopes) >= Len(cd[br[j].at].scopes) + br[j].pushed
          /\ j = k - 1 => Len(y.scopes) = Len(cd[br[j].at].scopes) + br[j].pushed
      BY <2>3 DEF Nested
    <3> QED BY <2>3, <3>2, <3>3
  <2> QED BY <1>1, <2>3, <2>4, <2>5, <2>6, <2>7, <2>8
<1>9. Closed(cd2, br2, st)
  <2> SUFFICES ASSUME NEW i \in 1..Len(cd2), cd2[i].op \in Openers
               PROVE  /\ cd2[i].end = 0 => \E k \in 1..Len(br2) : br2[k].at = i
                      /\ i < st => cd2[i].end # 0 /\ cd2[i].end < st
    BY DEF Closed
  <2>1. i # Len(cd) + 1
    BY <1>1 DEF Openers
  <2>2. i \in 1..Len(cd)
    BY <1>1, <2>1
  <2>3. CASE i = a
    <3>1. cd2[i].end = Len(cd) + 1
      <4>1. PICK n \in Nat, y \in {cd2[a]} : n = Len(cd) + 1 /\ y = cd2[a] /\ y = [x EXCEPT !.end = n]
        <5>1. Len(cd) + 1 \in Nat
          BY <1>1
        <5> QED BY <1>1, <5>1
      <4>2. y.end = n
        BY <1>3, <4>1, EndChanges
      <4> QED BY <2>3, <4>1, <4>2
    <3>2. Len(cd) + 1 # 0 /\ ~(i < st)
      BY <1>1, <1>3, <2>3
    <3> QED BY <3>1, <3>2
  <2>4. CASE i # a
    <3>1. cd2[i] = cd[i]
      BY <1>1, <2>2, <2>4
    <3>2. ASSUME cd[i].end = 0 PROVE \E k \in 1..Len(br2) : br2[k].at = i
      <4>1. PICK k \in 1..Len(br) : br[k].at = i
        BY <2>2, <3>1, <3>2 DEF Closed
      <4>2. k \in 1..(l - 1)
        BY <1>0, <1>2, <2>4, <4>1
      <4>3. k \in 1..Len(br2) /\ br2[k] = br[k]
        BY <1>1, <4>2
      <4> QED BY <4>1, <4>3
    <3>3. i < st => cd[i].end # 0 /\ cd[i].end < st
      BY <2>2, <3>1 DEF Closed
    <3> QED BY <3>1, <3>2, <3>3
  <2> QED BY <2>3, <2>4
<1>10. ClassAround(cd2, br2, sc2, br[Len(br)].class)
  <2>1. CASE l = 1
    <3>1. br2 = <<>> /\ ~InClass(br2) /\ br[Len(br)].class = "NONE"
      BY <1>0, <1>1, <1>2, <2>1 DEF ClassAround, InClass
    <3>2. Len(sc2) = 0
      BY <1>1, <1>8, <3>1 DEF Nested
    <3> QED BY <1>1, <2>1, <3>1, <3>2 DEF ClassAround
  <2>2. CASE l # 1
    <3>1. /\ 1 \in 1..(l - 1) /\ br2[1] = br[1] /\ br2 # <<>> /\ br[Len(br)].class = class
          /\ InClass(br2) <=> InClass(br)
      <4>1. 1 \in 1..(l - 1) /\ br2[1] = br[1] /\ br2 # <<>>
        <5>1. 1 \in 1..(l - 1) /\ Len(br2) # 0
          BY <1>1, <1>2, <2>2
        <5>2. br2 # <<>>
          BY <5>1
        <5> QED BY <1>1, <5>1, <5>2
      <4>2. br[l].class = class
        BY <1>0, <1>2, <2>2 DEF ClassAround
      <4> QED BY <1>0, <1>1, <4>1, <4>2 DEF InClass
    <3>2. \A k \in 1..Len(br2) : br2[k].class = IF k = 1 THEN "NONE" ELSE class
      BY <1>0, <1>1, <1>2 DEF ClassAround
    <3>3. CASE InClass(br)
      <4>1. PICK f, cs : f = cd[br[1].at].from /\ cs = ClassScopes(f)
        OBVIOUS
      <4>2. cs \in Seq(Scope) /\ Len(cs) \in Nat /\ Len(cs) = br[1].pushed
        <5>1. cs \in Seq(Scope) /\ Len(cs) = Pushed(cd[br[1].at])
          BY <1>1, <3>3, <4>1, InsideClass
        <5>2. br[1].pushed = Pushed(cd[br[1].at])
          BY <1>2 DEF Nested
        <5> QED BY <5>1, <5>2
      <4>3. /\ class = Kind(f) /\ \A j \in 1..Len(cs) : sc[j] = cs[j]
            /\ \A j \in (Len(cs) + 1)..Len(sc) : DOMAIN sc[j] \subseteq Names
        BY <3>3, <4>1 DEF ClassAround
      <4>4. cd2[br2[1].at].from = f
        BY <1>7, <3>1, <4>1
      <4>5. Len(sc2) >= Len(cs)
        <5>1. Len(sc2) >= Len(cd[br[1].at].scopes) + br[1].pushed /\ Len(cd[br[1].at].scopes) \in Nat
          BY <1>7, <3>1
        <5> QED BY <1>1, <4>2, <5>1, SMTT(30)
      <4>6. Len(sc2) <= Len(sc)
        BY <1>3, <1>4, <1>5
      <4>7. \A j \in 1..Len(cs) : sc2[j] = cs[j]
        BY <1>1, <1>6, <4>2, <4>3, <4>5
      <4>8. \A j \in (Len(cs) + 1)..Len(sc2) : DOMAIN sc2[j] \subseteq Names
        <5> SUFFICES ASSUME NEW j \in (Len(cs) + 1)..Len(sc2) PROVE DOMAIN sc2[j] \subseteq Names
          OBVIOUS
        <5>1. j \in 1..Len(sc2) /\ j \in (Len(cs) + 1)..Len(sc)
          BY <1>1, <4>2, <4>6
        <5> QED BY <1>6, <4>3, <5>1
      <4> QED BY <3>1, <3>2, <3>3, <4>1, <4>3, <4>4, <4>5, <4>7, <4>8 DEF ClassAround
    <3>4. CASE ~InClass(br)
      <4>1. class = "NONE" /\ \A j \in 1..Len(sc) : DOMAIN sc[j] \subseteq Names
        BY <3>4 DEF ClassAround
      <4>2. Len(sc2) <= Len(sc)
        BY <1>3, <1>4, <1>5
      <4>3. \A j \in 1..Len(sc2) : DOMAIN sc2[j] \subseteq Names
        BY <1>1, <1>6, <4>1, <4>2
      <4> QED BY <3>1, <3>2, <3>4, <4>1, <4>3 DEF ClassAround
    <3> QED BY <3>3, <3>4
  <2> QED BY <2>1, <2>2
<1> QED BY <1>8, <1>9, <1>10

\* The state of the resolver, spelled out.
LEMMA ReadingState ==
  ASSUME IInv, phase = "resolve"
  PROVE  /\ code \in Seq(Items) /\ scopes \in Seq(Scope) /\ brackets \in Seq(Brackets)
         /\ Len(code) \in Nat /\ start \in 1..(Len(code) + 1) /\ start \in Nat \ {0}
         /\ Static(code, scopes) /\ Nested(code, brackets, scopes, start)
         /\ Closed(code, brackets, start) /\ ClassAround(code, brackets, scopes, currentClass)
         /\ Snap(code, scopes, start) = <<>>
         /\ currentFunction \in {"NONE", "FUNCTION", "METHOD", "INITIALIZER"}
         /\ currentClass \in {"NONE", "CLASS", "SUBCLASS"}
         /\ (brackets = <<>> <=> scopes = <<>>)
<1>1. /\ code \in Seq(Items) /\ scopes \in Seq(Scope) /\ brackets \in Seq(Brackets)
      /\ Len(code) \in Nat /\ start \in 1..(Len(code) + 1) /\ start \in Nat \ {0}
      /\ currentFunction \in {"NONE", "FUNCTION", "METHOD", "INITIALIZER"}
      /\ currentClass \in {"NONE", "CLASS", "SUBCLASS"}
  BY DEF IInv, Types
<1>2. /\ Static(code, scopes) /\ Nested(code, brackets, scopes, start)
      /\ Closed(code, brackets, start) /\ ClassAround(code, brackets, scopes, currentClass)
      /\ Snap(code, scopes, start) = <<>>
  BY DEF IInv, CodeInv
<1>3. ASSUME brackets # <<>> PROVE scopes # <<>>
  <2>1. 1 \in 1..Len(brackets)
    BY <1>1, <1>3
  <2>2. PICK l, v : l = Len(code[brackets[1].at].scopes) /\ v = brackets[1].pushed
    OBVIOUS
  <2>3. l \in Nat /\ v \in {1, 2}
    BY <1>1, <1>2, <2>1, <2>2, NestedAt
  <2>4. Len(scopes) >= l + v
    BY <1>2, <2>1, <2>2 DEF Nested
  <2> QED BY <2>3, <2>4
<1>4. brackets = <<>> => scopes = <<>>
  BY <1>2 DEF Nested
<1> QED BY <1>1, <1>2, <1>3, <1>4

\* The resolver reads a statement that is no bracket.
LEMMA SimpleStep ==
  ASSUME IInv, NEW it, NEW name, NEW from, Offers(it.op, name, from), Writes(it),
         it \in Items, it.op \notin Openers, it.op # "end", it.scopes = scopes, it.end = 0, Resolved(it),
         scopes' = Following(it), UNCHANGED <<brackets, currentFunction, currentClass>>
  PROVE  IInv'
<1>0. /\ phase = "resolve" /\ code' = Append(code, it) /\ UNCHANGED <<phase, start, interpreter>>
      /\ brackets # <<>> => Last(brackets).op # "class"
  BY DEF Offers, Writes, Openers
<1>1. /\ code \in Seq(Items) /\ scopes \in Seq(Scope) /\ brackets \in Seq(Brackets)
      /\ Len(code) \in Nat /\ start \in 1..(Len(code) + 1) /\ start \in Nat \ {0}
      /\ Static(code, scopes) /\ Nested(code, brackets, scopes, start)
      /\ Closed(code, brackets, start) /\ ClassAround(code, brackets, scopes, currentClass)
      /\ Snap(code, scopes, start) = <<>>
      /\ currentFunction \in {"NONE", "FUNCTION", "METHOD", "INITIALIZER"}
      /\ currentClass \in {"NONE", "CLASS", "SUBCLASS"}
  BY <1>0, ReadingState
<1>2. PICK cd2, sc2 : cd2 = code' /\ sc2 = scopes'
  OBVIOUS
<1>3. Redefined(scopes, sc2)
  <2>1. CASE it.op \in {"var", "make"}
    <3>1. PICK m \in AllNames : m = it.name /\ m \in Names
      BY <2>1 DEF Resolved, AllNames
    <3>2. sc2 = TopSet(scopes, m)
      BY <1>2, <2>1, <3>1 DEF Following
    <3> QED BY <1>1, <3>1, <3>2, TopSetIs DEF Redefined
  <2>2. CASE it.op \notin {"var", "make"}
    BY <1>1, <1>2, <2>2 DEF Following, Redefined
  <2> QED BY <2>1, <2>2
<1>4. Extended(code, scopes, it, cd2, sc2)
  BY <1>0, <1>1, <1>2, SnapAppend
<1>5. Static(cd2, sc2)
  <2>1. InOpenClass(code, it)
    BY DEF InOpenClass, Openers
  <2> QED BY <1>0, <1>1, <1>2, <2>1, StaticAppend
<1>6. /\ Nested(cd2, brackets, sc2, start) /\ Closed(cd2, brackets, start)
      /\ ClassAround(cd2, brackets, sc2, currentClass)
  <2>1. brackets # <<>> => brackets[Len(brackets)].op # "class"
    BY <1>0 DEF Last
  <2> QED BY <1>0, <1>1, <1>2, <1>3, <2>1, SimpleNested
<1>7. CodeInv'
  <2>1. Snap(cd2, sc2, start) = <<>>
    BY <1>1, <1>4 DEF Extended
  <2> QED BY <1>0, <1>2, <1>5, <1>6, <2>1 DEF CodeInv
<1>8. /\ cd2 \in Seq(Items) /\ sc2 \in Seq(Scope) /\ Len(cd2) >= start - 1
      /\ \A i \in 1..(start - 1) : cd2[i] = code[i]
  BY <1>1, <1>3, <1>4 DEF Extended, Redefined
<1> QED BY <1>0, <1>1, <1>2, <1>7, <1>8, ResolverKeeps

\* The resolver reads a statement that opens a bracket.
LEMMA OpenStep ==
  ASSUME IInv, NEW it, NEW name, NEW from, Offers(it.op, name, from), Writes(it),
         it \in Items, it.op \in Openers, it.scopes = scopes, it.end = 0, Resolved(it),
         Opens(it.op, Pushed(it)), scopes' = Inner(it),
         currentFunction' \in {"NONE", "FUNCTION", "METHOD", "INITIALIZER"},
         currentClass' = IF it.op = "class" THEN Kind(it.from) ELSE currentClass
  PROVE  IInv'
<1>0. /\ phase = "resolve" /\ code' = Append(code, it) /\ UNCHANGED <<phase, start, interpreter>>
      /\ it.op \in {"method", "init"} <=> (brackets # <<>> /\ Last(brackets).op = "class")
  BY DEF Offers, Writes
<1>1. /\ code \in Seq(Items) /\ scopes \in Seq(Scope) /\ brackets \in Seq(Brackets)
      /\ Len(code) \in Nat /\ start \in 1..(Len(code) + 1) /\ start \in Nat \ {0}
      /\ Static(code, scopes) /\ Nested(code, brackets, scopes, start)
      /\ Closed(code, brackets, start) /\ ClassAround(code, brackets, scopes, currentClass)
      /\ Snap(code, scopes, start) = <<>>
      /\ currentFunction \in {"NONE", "FUNCTION", "METHOD", "INITIALIZER"}
      /\ currentClass \in {"NONE", "CLASS", "SUBCLASS"}
      /\ (brackets = <<>> <=> scopes = <<>>)
  BY <1>0, ReadingState
<1>2. PICK cd2, sc2, br2, class2 : cd2 = code' /\ sc2 = scopes' /\ br2 = brackets' /\ class2 = currentClass'
  OBVIOUS
<1>3. PICK b : b = [op |-> it.op, at |-> Len(code) + 1, pushed |-> Pushed(it),
                    function |-> currentFunction, class |-> currentClass]
  OBVIOUS
<1>4. b \in Brackets /\ br2 = Append(brackets, b) /\ br2 \in Seq(Brackets)
  <2>1. Pushed(it) \in Nat /\ Len(code) + 1 \in Nat
    BY <1>1 DEF Pushed
  <2>2. b \in Brackets
    BY <1>1, <1>3, <2>1 DEF Brackets
  <2>3. br2 = Append(brackets, b)
    BY <1>2, <1>3 DEF Opens, Place
  <2> QED BY <1>1, <2>2, <2>3
<1>5. Opened(code, brackets, scopes, currentClass, it, b, cd2, br2, class2)
  <2>1. /\ it.op = "fun" => it.name \in Names
        /\ it.op = "class" => brackets = <<>> /\ scopes = <<>>
    BY <1>1 DEF Resolved
  <2>2. brackets # <<>> /\ brackets[Len(brackets)].op = "class" => it.op \in {"method", "init"}
    BY <1>0 DEF Last
  <2>3. b.op = it.op /\ b.at = Len(code) + 1 /\ b.pushed = Pushed(it) /\ b.class = currentClass
    BY <1>3
  <2> QED BY <1>0, <1>2, <1>4, <2>1, <2>2, <2>3 DEF Opened
<1>6. /\ Nested(cd2, br2, sc2, start) /\ Closed(cd2, br2, start)
      /\ ClassAround(cd2, br2, sc2, class2)
  BY <1>1, <1>2, <1>5, OpenNested
<1>7. Extended(code, scopes, it, cd2, sc2)
  BY <1>0, <1>1, <1>2, SnapAppend
<1>8. Static(cd2, sc2)
  <2>1. InOpenClass(code, it)
    <3> SUFFICES ASSUME it.op \in {"method", "init"}, NEW i \in 1..Len(code), code[i].op = "class",
                        code[i].end = 0
                 PROVE  it.scopes = ClassScopes(code[i].from)
      BY DEF InOpenClass
    <3>1. PICK k \in 1..Len(brackets) : brackets[k].at = i
      BY <1>1 DEF Closed, Openers
    <3>2. k = 1 /\ brackets # <<>> /\ InClass(brackets)
      BY <1>1, <3>1 DEF Nested, InClass
    <3>3. brackets[Len(brackets)].op = "class"
      BY <1>0 DEF Last
    <3>4. scopes = ClassScopes(code[brackets[1].at].from)
      BY <1>1, <3>2, <3>3, InsideClass
    <3> QED BY <3>1, <3>2, <3>4
  <2>2. sc2 = Following(it)
    BY <1>2 DEF Following
  <2> QED BY <1>0, <1>1, <1>2, <2>1, <2>2, StaticAppend
<1>9. CodeInv'
  <2>1. Snap(cd2, sc2, start) = <<>>
    BY <1>1, <1>7 DEF Extended
  <2> QED BY <1>0, <1>2, <1>6, <1>8, <2>1 DEF CodeInv
<1>10. sc2 \in Seq(Scope)
  BY <1>2, InnerIs DEF Resolved
<1>11. /\ cd2 \in Seq(Items) /\ Len(cd2) >= start - 1
       /\ \A i \in 1..(start - 1) : cd2[i] = code[i]
  BY <1>1, <1>7 DEF Extended
<1>12. class2 \in {"NONE", "CLASS", "SUBCLASS"}
  BY <1>1, <1>2 DEF Kind
<1> QED BY <1>0, <1>1, <1>2, <1>4, <1>9, <1>10, <1>11, <1>12, ResolverKeeps

\* Distances are integers.
LEMMA DistanceInt ==
  ASSUME NEW S \in Seq(Scope), NEW n
  PROVE  Distance(n, S) \in Int /\ Unresolved \in Int
<1>1. Distance(n, S) = Unresolved \/ Distance(n, S) \in 0..(Len(S) - 1)
  BY DistanceIs
<1> QED BY <1>1 DEF Unresolved

\* What a declaration adds, and that an initializer cannot read it.
LEMMA DeclaredIs ==
  ASSUME scopes \in Seq(Scope), NEW name \in Names, NEW from
  PROVE  /\ Defined(name) = TopSet(scopes, name)
         /\ Declared(name) \in Seq(Scope)
         /\ ~ReadsItself(name, from) => Distance(from, Declared(name)) = Distance(from, scopes)
<1>1. Defined(name) = TopSet(scopes, name)
  BY DEF Defined, SetTop, TopSet
<1>2. CASE scopes = <<>>
  BY <1>1, <1>2 DEF Declared, SetTop
<1>3. CASE scopes # <<>>
  <2>1. PICK l \in 1..Len(scopes) : l = Len(scopes)
    BY <1>3
  <2>2. name \in AllNames /\ scopes[l] \in Scope
    BY <2>1 DEF AllNames
  <2>3. PICK T \in Scope : T = Put(scopes[l], name, FALSE) /\ DOMAIN T = DOMAIN scopes[l] \cup {name}
    BY <2>2, ScopesAre
  <2>4. T[name] = FALSE
    BY <2>3 DEF Put
  <2>5. PICK S2 : S2 = [scopes EXCEPT ![l] = T]
    OBVIOUS
  <2>6. /\ S2 \in Seq(Scope) /\ Len(S2) = Len(scopes)
        /\ \A j \in 1..Len(scopes) : S2[j] = IF j = l THEN T ELSE scopes[j]
    BY <2>5, ExceptSeq
  <2>7. Declared(name) = S2
    BY <1>3, <2>1, <2>3, <2>5 DEF Declared, SetTop
  <2>8. AddsToTop(scopes, S2, name)
    <3>1. \A j \in 1..(Len(scopes) - 1) : S2[j] = scopes[j]
      BY <2>1, <2>6
    <3>2. S2[Len(scopes)] = T
      BY <2>1, <2>6
    <3> QED BY <1>3, <2>1, <2>3, <2>6, <3>1, <3>2 DEF AddsToTop
  <2>9. Distance(from, S2) = IF from = name THEN 0 ELSE Distance(from, scopes)
    BY <2>6, <2>8, DistanceTop
  <2>10. ASSUME from = name PROVE ReadsItself(name, from)
    <3>1. Last(S2) = T
      BY <2>1, <2>6 DEF Last
    <3> QED BY <2>4, <2>7, <2>9, <2>10, <3>1 DEF ReadsItself
  <2> QED BY <1>1, <2>6, <2>7, <2>9, <2>10
<1> QED BY <1>2, <1>3

\* Where super is allowed, this is one scope nearer.
LEMMA SuperIs ==
  ASSUME IInv, phase = "resolve", currentClass = "SUBCLASS"
  PROVE  /\ Distance("super", scopes) # Unresolved /\ Distance("this", scopes) # Unresolved
         /\ Distance("this", scopes) = Distance("super", scopes) - 1
<1>1. /\ code \in Seq(Items) /\ scopes \in Seq(Scope) /\ brackets \in Seq(Brackets)
      /\ start \in Nat \ {0} /\ Nested(code, brackets, scopes, start)
      /\ ClassAround(code, brackets, scopes, currentClass)
  BY ReadingState
<1>2. InClass(brackets)
  BY <1>1 DEF ClassAround
<1>3. PICK from \in Names \cup {None} : from = code[brackets[1].at].from
  BY <1>1, <1>2, InsideClass
<1>4. PICK cs : cs = ClassScopes(from)
  OBVIOUS
<1>5. /\ from # None /\ Len(scopes) >= Len(cs) /\ \A j \in 1..Len(cs) : scopes[j] = cs[j]
      /\ \A j \in (Len(cs) + 1)..Len(scopes) : DOMAIN scopes[j] \subseteq Names
  BY <1>1, <1>2, <1>3, <1>4 DEF ClassAround, Kind
<1>6. Len(cs) = 2 /\ cs[1] = Only("super", TRUE) /\ cs[2] = Only("this", TRUE)
  BY <1>4, <1>5, ClassScopesAre
<1>7. DOMAIN scopes[1] = {"super"} /\ DOMAIN scopes[2] = {"this"} /\ Len(scopes) \in Nat
  <2>1. PICK a \in AllNames, b \in AllNames : a = "super" /\ b = "this"
    BY DEF AllNames
  <2>2. DOMAIN Only(a, TRUE) = {a} /\ DOMAIN Only(b, TRUE) = {b}
    BY ScopesAre
  <2>3. 1 \in 1..Len(cs) /\ 2 \in 1..Len(cs)
    BY <1>6
  <2>4. scopes[1] = cs[1] /\ scopes[2] = cs[2]
    BY <1>5, <2>3
  <2>5. scopes[1] = Only(a, TRUE) /\ scopes[2] = Only(b, TRUE)
    BY <1>6, <2>1, <2>4
  <2>6. DOMAIN scopes[1] = {a} /\ DOMAIN scopes[2] = {b}
    BY <2>2, <2>5, Zenon
  <2> QED BY <1>1, <2>1, <2>6
<1>8. /\ \A j \in 2..Len(scopes) : "super" \notin DOMAIN scopes[j]
      /\ \A j \in 3..Len(scopes) : "this" \notin DOMAIN scopes[j]
  BY <1>5, <1>6, <1>7, NoneIsNoName
<1>9. Distance("super", scopes) = Len(scopes) - 1
  <2>1. 1 \in 1..Len(scopes) /\ \A j \in (1 + 1)..Len(scopes) : "super" \notin DOMAIN scopes[j]
    BY <1>5, <1>6, <1>7, <1>8
  <2> QED BY <1>1, <1>7, <2>1, DistanceIs
<1>10. Distance("this", scopes) = Len(scopes) - 2
  <2>1. 2 \in 1..Len(scopes) /\ \A j \in (2 + 1)..Len(scopes) : "this" \notin DOMAIN scopes[j]
    BY <1>5, <1>6, <1>7, <1>8
  <2> QED BY <1>1, <1>7, <2>1, DistanceIs
<1> QED BY <1>5, <1>6, <1>7, <1>9, <1>10 DEF Unresolved

\* var name = from; and var name = from(); declare, resolve and define.
LEMMA ResolveVarStep ==
  ASSUME IInv, ResolveVar \/ ResolveMake
  PROVE  IInv'
<1>1. PICK op \in {"var", "make"}, name \in Names, from \in Names \cup {None} :
        /\ op = "make" => from \in Names
        /\ Reads(op, name, from) /\ scopes' = Defined(name)
        /\ Writes(Item(op, name, from, Unresolved, Distance(from, Declared(name))))
        /\ UNCHANGED <<brackets, currentFunction, currentClass>>
  BY DEF ResolveVar, ResolveMake
<1>2. phase = "resolve" /\ Offers(op, name, from) /\ ~ReadsItself(name, from)
  BY <1>1 DEF Reads, Offers, Rejects
<1>3. scopes \in Seq(Scope)
  BY <1>2, ReadingState
<1>4. /\ Defined(name) = TopSet(scopes, name)
      /\ Distance(from, Declared(name)) = Distance(from, scopes)
  BY <1>2, <1>3, DeclaredIs
<1>5. PICK d \in Int, u \in Int : d = Distance(from, scopes) /\ u = Unresolved
  BY <1>3, DistanceInt
<1>6. PICK it : it = Item(op, name, from, u, d)
  OBVIOUS
<1>7. op \in Ops /\ name \in AllNames \cup {None} \cup Ops /\ op \notin Openers /\ op # "end"
  BY DEF Ops, AllNames, Openers
<1>8. /\ it \in Items /\ it.op = op /\ it.name = name /\ it.from = from
      /\ it.fromDistance = d /\ it.scopes = scopes /\ it.end = 0
  BY <1>3, <1>6, <1>7 DEF Item, Items
<1>9. Resolved(it)
  BY <1>1, <1>5, <1>8, NoneIsNoName DEF Resolved
<1>10. scopes' = Following(it)
  BY <1>1, <1>4, <1>7, <1>8 DEF Following
<1>11. Writes(it)
  BY <1>1, <1>4, <1>5, <1>6
<1> QED BY <1>1, <1>2, <1>7, <1>8, <1>9, <1>10, <1>11, SimpleStep

\* name = from; resolves both names where it stands.
LEMMA ResolveAssignStep ==
  ASSUME IInv, ResolveAssign
  PROVE  IInv'
<1>1. PICK name \in Names, from \in Names \cup {None} :
        /\ Reads("assign", name, from)
        /\ Writes(Item("assign", name, from, Distance(name, scopes), Distance(from, scopes)))
        /\ UNCHANGED resolver
  BY DEF ResolveAssign
<1>2. phase = "resolve" /\ Offers("assign", name, from)
  BY <1>1 DEF Reads, Offers
<1>3. scopes \in Seq(Scope)
  BY <1>2, ReadingState
<1>4. PICK d \in Int, e \in Int : d = Distance(from, scopes) /\ e = Distance(name, scopes)
  BY <1>3, DistanceInt
<1>5. PICK it : it = Item("assign", name, from, e, d)
  OBVIOUS
<1>6. "assign" \in Ops /\ name \in AllNames \cup {None} \cup Ops /\ "assign" \notin Openers
  BY DEF Ops, AllNames, Openers
<1>7. /\ it \in Items /\ it.op = "assign" /\ it.name = name /\ it.from = from /\ it.distance = e
      /\ it.fromDistance = d /\ it.scopes = scopes /\ it.end = 0
  BY <1>3, <1>5, <1>6 DEF Item, Items
<1>8. Resolved(it)
  BY <1>4, <1>7 DEF Resolved
<1>9. scopes' = Following(it)
  BY <1>1, <1>6, <1>7 DEF Following, resolver
<1>10. Writes(it)
  BY <1>1, <1>4, <1>5
<1> QED BY <1>1, <1>2, <1>6, <1>7, <1>8, <1>9, <1>10, SimpleStep DEF resolver

\* print, call and method call resolve a name where they stand.
LEMMA ResolveUseStep ==
  ASSUME IInv, ResolveUse
  PROVE  IInv'
<1>1. PICK op \in {"print", "call", "invoke"}, name \in Names :
        /\ Reads(op, name, None)
        /\ Writes(Item(op, name, None, Distance(name, scopes), Unresolved))
        /\ UNCHANGED resolver
  BY DEF ResolveUse
<1>2. phase = "resolve" /\ Offers(op, name, None)
  BY <1>1 DEF Reads, Offers
<1>3. scopes \in Seq(Scope)
  BY <1>2, ReadingState
<1>4. PICK d \in Int, u \in Int : d = Distance(name, scopes) /\ u = Unresolved
  BY <1>3, DistanceInt
<1>5. PICK it : it = Item(op, name, None, d, u)
  OBVIOUS
<1>6. op \in Ops /\ name \in AllNames \cup {None} \cup Ops /\ op \notin Openers /\ op # "end"
  BY DEF Ops, AllNames, Openers
<1>7. /\ it \in Items /\ it.op = op /\ it.name = name /\ it.from = None /\ it.distance = d
      /\ it.scopes = scopes /\ it.end = 0
  BY <1>3, <1>5, <1>6 DEF Item, Items
<1>8. Resolved(it)
  BY <1>4, <1>7 DEF Resolved
<1>9. scopes' = Following(it)
  BY <1>1, <1>6, <1>7 DEF Following, resolver
<1>10. Writes(it)
  BY <1>1, <1>4, <1>5
<1> QED BY <1>1, <1>2, <1>6, <1>7, <1>8, <1>9, <1>10, SimpleStep DEF resolver

\* this and super are in the scopes of the class around.
LEMMA ResolveThisStep ==
  ASSUME IInv, ResolveThis
  PROVE  IInv'
<1>1. PICK op \in {"this", "super"} :
        /\ Reads(op, None, None)
        /\ Writes(Item(op, op, None, Distance(op, scopes), Unresolved))
        /\ UNCHANGED resolver
  BY DEF ResolveThis
<1>2. phase = "resolve" /\ Offers(op, None, None) /\ (op = "super" => currentClass = "SUBCLASS")
  BY <1>1 DEF Reads, Offers, Rejects
<1>3. scopes \in Seq(Scope)
  BY <1>2, ReadingState
<1>4. PICK d \in Int, u \in Int : d = Distance(op, scopes) /\ u = Unresolved
  BY <1>3, DistanceInt
<1>5. PICK it : it = Item(op, op, None, d, u)
  OBVIOUS
<1>6. op \in Ops /\ op \in AllNames \cup {None} \cup Ops /\ op \notin Openers /\ op # "end"
  BY DEF Ops, AllNames, Openers
<1>7. /\ it \in Items /\ it.op = op /\ it.name = op /\ it.from = None /\ it.distance = d
      /\ it.scopes = scopes /\ it.end = 0
  BY <1>3, <1>5, <1>6 DEF Item, Items
<1>8. Resolved(it)
  <2>1. op = "super" => /\ d # Unresolved /\ Distance("this", scopes) # Unresolved
                        /\ Distance("this", scopes) = d - 1
    BY <1>2, <1>4, SuperIs
  <2> QED BY <1>4, <1>7, <2>1 DEF Resolved
<1>9. scopes' = Following(it)
  BY <1>1, <1>6, <1>7 DEF Following, resolver
<1>10. Writes(it)
  BY <1>1, <1>4, <1>5
<1> QED BY <1>1, <1>2, <1>6, <1>7, <1>8, <1>9, <1>10, SimpleStep DEF resolver

\* return, and a statement that will fail.
LEMMA ResolveExitStep ==
  ASSUME IInv, ResolveExit
  PROVE  IInv'
<1>1. PICK op \in {"return", "fail"}, from \in Names \cup {None} :
        /\ Reads(op, None, from)
        /\ Writes(Item(op, None, from, Unresolved, Distance(from, scopes)))
        /\ UNCHANGED resolver
  BY DEF ResolveExit
<1>2. phase = "resolve" /\ Offers(op, None, from)
  BY <1>1 DEF Reads, Offers
<1>3. scopes \in Seq(Scope)
  BY <1>2, ReadingState
<1>4. PICK d \in Int, u \in Int : d = Distance(from, scopes) /\ u = Unresolved
  BY <1>3, DistanceInt
<1>5. PICK it : it = Item(op, None, from, u, d)
  OBVIOUS
<1>6. op \in Ops /\ None \in AllNames \cup {None} \cup Ops /\ op \notin Openers /\ op # "end"
  BY DEF Ops, AllNames, Openers
<1>7. /\ it \in Items /\ it.op = op /\ it.name = None /\ it.from = from /\ it.fromDistance = d
      /\ it.scopes = scopes /\ it.end = 0
  BY <1>3, <1>5, <1>6 DEF Item, Items
<1>8. Resolved(it)
  BY <1>4, <1>7 DEF Resolved
<1>9. scopes' = Following(it)
  BY <1>1, <1>6, <1>7 DEF Following, resolver
<1>10. Writes(it)
  BY <1>1, <1>4, <1>5
<1> QED BY <1>1, <1>2, <1>6, <1>7, <1>8, <1>9, <1>10, SimpleStep DEF resolver

\* A block, a loop or a method opens a scope.
LEMMA ResolveBlockStep ==
  ASSUME IInv, ResolveBlock \/ ResolveMethod
  PROVE  IInv'
<1>1. PICK op \in {"block", "while", "method", "init"} :
        /\ Reads(op, None, None) /\ Opens(op, 1) /\ scopes' = Append(scopes, Empty)
        /\ currentFunction' \in {currentFunction, "METHOD", "INITIALIZER"}
        /\ Writes(Item(op, None, None, Unresolved, Unresolved))
        /\ UNCHANGED currentClass
  BY DEF ResolveBlock, ResolveMethod
<1>2. phase = "resolve" /\ Offers(op, None, None)
  BY <1>1 DEF Reads, Offers
<1>3. scopes \in Seq(Scope) /\ currentFunction \in {"NONE", "FUNCTION", "METHOD", "INITIALIZER"}
  BY <1>2, ReadingState
<1>4. PICK u \in Int : u = Unresolved
  BY DEF Unresolved
<1>5. PICK it : it = Item(op, None, None, u, u)
  OBVIOUS
<1>6. op \in Ops /\ None \in AllNames \cup {None} \cup Ops /\ op \in Openers
  BY DEF Ops, AllNames, Openers
<1>7. /\ it \in Items /\ it.op = op /\ it.name = None /\ it.from = None
      /\ it.scopes = scopes /\ it.end = 0
  BY <1>3, <1>5, <1>6 DEF Item, Items
<1>8. Resolved(it) /\ Pushed(it) = 1
  BY <1>7 DEF Resolved, Pushed
<1>9. scopes' = Inner(it)
  BY <1>1, <1>7 DEF Inner
<1>10. Writes(it) /\ Opens(it.op, Pushed(it)) /\ it.op # "class"
  BY <1>1, <1>4, <1>5, <1>7, <1>8
<1>11. currentFunction' \in {"NONE", "FUNCTION", "METHOD", "INITIALIZER"}
  BY <1>1, <1>3
<1> QED BY <1>1, <1>2, <1>6, <1>7, <1>8, <1>9, <1>10, <1>11, OpenStep

\* A function defines its name and opens a scope for its parameter.
LEMMA ResolveFunctionStep ==
  ASSUME IInv, ResolveFunction
  PROVE  IInv'
<1>1. PICK name \in Names, from \in Names \cup {None} :
        /\ Reads("fun", name, from) /\ Opens("fun", 1)
        /\ scopes' = Append(Defined(name), Parameters(from)) /\ currentFunction' = "FUNCTION"
        /\ Writes(Item("fun", name, from, Unresolved, Unresolved))
        /\ UNCHANGED currentClass
  BY DEF ResolveFunction
<1>2. phase = "resolve" /\ Offers("fun", name, from)
  BY <1>1 DEF Reads, Offers
<1>3. scopes \in Seq(Scope)
  BY <1>2, ReadingState
<1>4. PICK u \in Int : u = Unresolved
  BY DEF Unresolved
<1>5. PICK it : it = Item("fun", name, from, u, u)
  OBVIOUS
<1>6. "fun" \in Ops /\ name \in AllNames \cup {None} \cup Ops /\ "fun" \in Openers
  BY DEF Ops, AllNames, Openers
<1>7. /\ it \in Items /\ it.op = "fun" /\ it.name = name /\ it.from = from
      /\ it.scopes = scopes /\ it.end = 0
  BY <1>3, <1>5, <1>6 DEF Item, Items
<1>8. Resolved(it) /\ Pushed(it) = 1
  BY <1>7 DEF Resolved, Pushed
<1>9. scopes' = Inner(it)
  <2>1. Defined(name) = TopSet(scopes, name)
    BY <1>3, DeclaredIs
  <2> QED BY <1>1, <1>7, <2>1 DEF Inner
<1>10. Writes(it) /\ Opens(it.op, Pushed(it)) /\ it.op # "class"
  BY <1>1, <1>4, <1>5, <1>7, <1>8
<1> QED BY <1>1, <1>2, <1>6, <1>7, <1>8, <1>9, <1>10, OpenStep

\* A class opens the scopes of super and this, outside of all others.
LEMMA ResolveClassStep ==
  ASSUME IInv, ResolveClass
  PROVE  IInv'
<1>1. PICK name \in Names, from \in Names \cup {None} :
        /\ Reads("class", name, from) /\ Opens("class", IF from = None THEN 1 ELSE 2)
        /\ currentClass' = IF from = None THEN "CLASS" ELSE "SUBCLASS"
        /\ scopes' = scopes \o ClassScopes(from)
        /\ Writes(Item("class", name, from, Unresolved, Distance(from, scopes)))
        /\ UNCHANGED currentFunction
  BY DEF ResolveClass
<1>2. phase = "resolve" /\ Offers("class", name, from) /\ scopes = <<>>
  BY <1>1 DEF Reads, Offers, Rejects
<1>3. scopes \in Seq(Scope) /\ currentFunction \in {"NONE", "FUNCTION", "METHOD", "INITIALIZER"}
  BY <1>2, ReadingState
<1>4. PICK d \in Int, u \in Int : d = Distance(from, scopes) /\ u = Unresolved
  BY <1>3, DistanceInt
<1>5. PICK it : it = Item("class", name, from, u, d)
  OBVIOUS
<1>6. "class" \in Ops /\ name \in AllNames \cup {None} \cup Ops /\ "class" \in Openers
  BY DEF Ops, AllNames, Openers
<1>7. /\ it \in Items /\ it.op = "class" /\ it.name = name /\ it.from = from
      /\ it.fromDistance = d /\ it.scopes = scopes /\ it.end = 0
  BY <1>3, <1>5, <1>6 DEF Item, Items
<1>8. Resolved(it) /\ Pushed(it) = IF from = None THEN 1 ELSE 2
  BY <1>2, <1>4, <1>7 DEF Resolved, Pushed
<1>9. scopes' = Inner(it)
  <2>1. ClassScopes(from) \in Seq(Scope)
    BY ClassScopesAre
  <2>2. PICK cs \in Seq(Scope) : cs = ClassScopes(from)
    BY <2>1
  <2>3. <<>> \o cs = cs
    OBVIOUS
  <2> QED BY <1>1, <1>2, <1>7, <2>2, <2>3 DEF Inner
<1>10. Writes(it) /\ Opens(it.op, Pushed(it)) /\ currentClass' = Kind(it.from)
  BY <1>1, <1>4, <1>5, <1>7, <1>8 DEF Kind
<1> QED BY <1>1, <1>2, <1>3, <1>6, <1>7, <1>8, <1>9, <1>10, OpenStep

\* The end of a bracket restores the scopes there were.
LEMMA ResolveCloseStep ==
  ASSUME IInv, ResolveClose
  PROVE  IInv'
<1>0. PICK b : b = Last(brackets)
  OBVIOUS
<1>1. PICK e : e = Item("end", b.op, None, Unresolved, Unresolved)
  OBVIOUS
<1>2. /\ phase = "resolve" /\ brackets # <<>>
      /\ code' = [Append(code, e) EXCEPT ![b.at].end = Len(code) + 1]
      /\ scopes' = SubSeq(scopes, 1, Len(scopes) - b.pushed)
      /\ currentFunction' = b.function /\ currentClass' = b.class
      /\ brackets' = Front(brackets) /\ UNCHANGED <<phase, start, interpreter>>
  BY <1>0, <1>1 DEF ResolveClose, Place
<1>3. /\ code \in Seq(Items) /\ scopes \in Seq(Scope) /\ brackets \in Seq(Brackets)
      /\ Len(code) \in Nat /\ start \in 1..(Len(code) + 1) /\ start \in Nat \ {0}
      /\ Static(code, scopes) /\ Nested(code, brackets, scopes, start)
      /\ Closed(code, brackets, start) /\ ClassAround(code, brackets, scopes, currentClass)
      /\ Snap(code, scopes, start) = <<>>
      /\ currentFunction \in {"NONE", "FUNCTION", "METHOD", "INITIALIZER"}
      /\ currentClass \in {"NONE", "CLASS", "SUBCLASS"}
  BY <1>2, ReadingState
<1>4. PICK l \in 1..Len(brackets) : l = Len(brackets) /\ b = brackets[l]
  BY <1>0, <1>2, <1>3 DEF Last
<1>5. PICK a, x : a = b.at /\ x = code[a]
  OBVIOUS
<1>6. /\ b \in Brackets /\ a \in 1..Len(code) /\ a \in start..Len(code) /\ x \in Items /\ x.op \in Openers
      /\ x.op = b.op /\ b.pushed \in {1, 2} /\ Len(x.scopes) \in Nat
  BY <1>3, <1>4, <1>5, NestedAt
<1>7. e \in Items /\ e.op = "end" /\ e.scopes = scopes /\ e.end = 0
  <2>1. b.op \in AllNames \cup {None} \cup Ops /\ "end" \in Ops /\ Unresolved \in Int
    BY <1>6 DEF Ops, Unresolved
  <2> QED BY <1>1, <1>3, <2>1 DEF Item, Items
<1>8. PICK n \in Nat, y \in {[x EXCEPT !.end = Len(code) + 1]} : n = Len(code) + 1 /\ y = [x EXCEPT !.end = n]
  <2>1. Len(code) + 1 \in Nat
    BY <1>3
  <2> QED BY <2>1
<1>9. y \in Items
  BY <1>6, <1>8 DEF Items
<1>10. PICK A, cd2 : A = Append(code, e) /\ cd2 = [A EXCEPT ![a] = y]
  OBVIOUS
<1>11. /\ A \in Seq(Items) /\ Len(A) = n /\ \A i \in 1..Len(code) : A[i] = code[i]
       /\ A[n] = e /\ a \in 1..Len(A) /\ A[a] = x /\ a # n
  BY <1>3, <1>5, <1>6, <1>7, <1>8, <1>10
<1>12. cd2 = code'
  BY <1>2, <1>5, <1>8, <1>10, <1>11
<1>13. /\ cd2 \in Seq(Items) /\ Len(cd2) = Len(A)
       /\ \A i \in 1..Len(A) : cd2[i] = IF i = a THEN y ELSE A[i]
  <2>1. PICK k \in 1..Len(A), z \in Items, q \in Seq(Items) : k = a /\ z = y /\ q = A
    BY <1>9, <1>11
  <2>2. /\ [q EXCEPT ![k] = z] \in Seq(Items) /\ Len([q EXCEPT ![k] = z]) = Len(q)
        /\ \A j \in 1..Len(q) : [q EXCEPT ![k] = z][j] = IF j = k THEN z ELSE q[j]
    BY <2>1, ExceptSeq
  <2> QED BY <1>10, <2>1, <2>2
<1>14. /\ Len(cd2) = Len(code) + 1 /\ cd2[a] = y /\ cd2[Len(code) + 1] = e
       /\ \A i \in 1..Len(code) : i # a => cd2[i] = code[i]
  BY <1>3, <1>8, <1>11, <1>13
<1>15. PICK br2, sc2 : br2 = brackets' /\ sc2 = scopes'
  OBVIOUS
<1>16. br2 \in Seq(Brackets) /\ Len(br2) = l - 1 /\ \A k \in 1..(l - 1) : br2[k] = brackets[k]
  BY <1>2, <1>3, <1>4, <1>15 DEF Front
<1>17. PICK o : o = Outer(x)
  OBVIOUS
<1>18. o \in Seq(Scope) /\ Len(o) = Len(x.scopes)
  <2>1. Resolved(x)
    BY <1>3, <1>5, <1>6 DEF Static
  <2>2. Redefined(x.scopes, o)
    BY <1>6, <1>17, <2>1, InnerIs DEF Resolved
  <2> QED BY <2>2 DEF Redefined
<1>19. sc2 = o
  <2>1. PICK m \in Nat, v \in {1, 2} : m = Len(x.scopes) /\ v = b.pushed
    BY <1>6
  <2>2. Len(scopes) = m + v /\ \A j \in 1..m : scopes[j] = o[j]
    BY <1>3, <1>4, <1>5, <1>17, <2>1 DEF Nested
  <2>3. Len(scopes) - v = m /\ m <= Len(scopes)
    BY <2>2
  <2>4. sc2 = SubSeq(scopes, 1, m)
    BY <1>2, <1>15, <2>1, <2>3
  <2>5. sc2 \in Seq(Scope) /\ Len(sc2) = m /\ \A j \in 1..m : sc2[j] = scopes[j]
    BY <1>3, <2>3, <2>4
  <2> QED BY <1>18, <2>1, <2>2, <2>5, SeqEqual
<1>20. Closing(code, brackets, scopes, e, cd2, br2, sc2)
  BY <1>2, <1>4, <1>5, <1>7, <1>8, <1>13, <1>14, <1>16, <1>17, <1>18, <1>19 DEF Closing
<1>21. Static(cd2, sc2)
  BY <1>3, <1>20, StaticClose
<1>22. Nested(cd2, br2, sc2, start) /\ Closed(cd2, br2, start) /\ ClassAround(cd2, br2, sc2, b.class)
  BY <1>3, <1>4, <1>20, CloseNested
<1>23. Snap(cd2, sc2, start) = <<>>
  <2>1. CASE start = Len(code) + 1
    BY <1>3, <1>7, <1>14, <2>1 DEF Snap
  <2>2. CASE start # Len(code) + 1
    <3>1. start \in 1..Len(code) /\ start <= Len(code) /\ start <= Len(cd2)
      BY <1>3, <1>14, <2>2
    <3>2. code[start].scopes = <<>>
      BY <1>3, <3>1 DEF Snap
    <3>3. CASE start = a
      <4>1. cd2[start].scopes = code[start].scopes
        BY <1>5, <1>6, <1>8, <1>14, <3>3 DEF Items
      <4> QED BY <3>1, <3>2, <4>1 DEF Snap
    <3>4. CASE start # a
      BY <1>14, <3>1, <3>2, <3>4 DEF Snap
    <3> QED BY <3>3, <3>4
  <2> QED BY <2>1, <2>2
<1>24. CodeInv'
  BY <1>2, <1>12, <1>15, <1>21, <1>22, <1>23 DEF CodeInv
<1>25. \A i \in 1..(start - 1) : cd2[i] = code[i]
  BY <1>3, <1>6, <1>14
<1>26. Len(cd2) >= start - 1 /\ b.function \in {"NONE", "FUNCTION", "METHOD", "INITIALIZER"}
       /\ b.class \in {"NONE", "CLASS", "SUBCLASS"}
  BY <1>3, <1>6, <1>14 DEF Brackets
<1> QED BY <1>2, <1>12, <1>13, <1>15, <1>16, <1>18, <1>19, <1>24, <1>25, <1>26, ResolverKeeps

\* A line with an error leaves nothing behind.
LEMMA RejectStep ==
  ASSUME IInv, Reject
  PROVE  IInv'
<1>0. PICK cd2 : cd2 = SubSeq(code, 1, start - 1)
  OBVIOUS
<1>1. /\ phase = "resolve" /\ phase' = "resolve" /\ code' = cd2 /\ UNCHANGED <<phase, start, interpreter>>
      /\ scopes' = <<>> /\ brackets' = <<>> /\ currentFunction' = "NONE" /\ currentClass' = "NONE"
  BY <1>0 DEF Reject, Offers, NextLine
<1>2. /\ code \in Seq(Items) /\ Len(code) \in Nat /\ start \in 1..(Len(code) + 1) /\ start \in Nat \ {0}
      /\ Static(code, scopes) /\ Closed(code, brackets, start) /\ Snap(code, scopes, start) = <<>>
  BY <1>1, ReadingState
<1>3. PICK m \in Nat : m = start - 1 /\ m <= Len(code)
  BY <1>2
<1>4. cd2 \in Seq(Items) /\ Len(cd2) = m /\ \A i \in 1..m : cd2[i] = code[i]
  BY <1>0, <1>2, <1>3
<1>5. ASSUME NEW i \in 1..start PROVE Snap(cd2, <<>>, i) = Snap(code, scopes, i)
  <2>1. CASE i = start
    BY <1>2, <1>3, <1>4, <2>1 DEF Snap
  <2>2. CASE i # start
    BY <1>2, <1>3, <1>4, <2>2 DEF Snap
  <2> QED BY <2>1, <2>2
<1>6. Static(cd2, <<>>)
  <2> SUFFICES ASSUME NEW i \in 1..Len(cd2)
               PROVE  /\ Resolved(cd2[i])
                      /\ cd2[i].op # "end" => Snap(cd2, <<>>, i + 1) = Following(cd2[i])
                      /\ cd2[i].op \in Openers /\ cd2[i].end # 0 =>
                           /\ cd2[i].end \in (i + 1)..Len(cd2)
                           /\ Snap(cd2, <<>>, cd2[i].end + 1) = Outer(cd2[i])
                      /\ cd2[i].op = "class" =>
                           \A j \in (i + 1)..Len(cd2) :
                             (cd2[i].end = 0 \/ j <= cd2[i].end) /\ cd2[j].op \in {"method", "init"} =>
                               cd2[j].scopes = ClassScopes(cd2[i].from)
    BY DEF Static
  <2>1. i \in 1..m /\ i \in 1..Len(code) /\ cd2[i] = code[i] /\ i + 1 \in 1..start /\ i < start
    BY <1>2, <1>3, <1>4
  <2>2. /\ Resolved(code[i])
        /\ code[i].op # "end" => Snap(code, scopes, i + 1) = Following(code[i])
        /\ code[i].op \in Openers /\ code[i].end # 0 =>
             /\ code[i].end \in (i + 1)..Len(code)
             /\ Snap(code, scopes, code[i].end + 1) = Outer(code[i])
    BY <1>2, <2>1 DEF Static
  <2>3. Snap(cd2, <<>>, i + 1) = Snap(code, scopes, i + 1)
    BY <1>5, <2>1
  <2>4. ASSUME code[i].op \in Openers, code[i].end # 0
        PROVE  code[i].end \in (i + 1)..Len(cd2) /\ Snap(cd2, <<>>, code[i].end + 1) = Outer(code[i])
    <3>1. PICK n : n = code[i].end
      OBVIOUS
    <3>2. n < start
      BY <1>2, <2>1, <2>4, <3>1 DEF Closed
    <3>3. n \in (i + 1)..Len(code) /\ Snap(code, scopes, n + 1) = Outer(code[i])
      BY <2>2, <2>4, <3>1
    <3>4. n \in (i + 1)..Len(cd2) /\ n + 1 \in 1..start
      BY <1>2, <1>3, <1>4, <2>1, <3>2, <3>3
    <3> QED BY <1>5, <3>1, <3>3, <3>4
  <2>5. ASSUME code[i].op = "class", NEW j \in (i + 1)..Len(cd2), code[i].end = 0 \/ j <= code[i].end,
               cd2[j].op \in {"method", "init"}
        PROVE  cd2[j].scopes = ClassScopes(code[i].from)
    <3>1. j \in (i + 1)..Len(code) /\ cd2[j] = code[j]
      BY <1>2, <1>3, <1>4, <2>1
    <3> QED BY <1>2, <2>1, <2>5, <3>1 DEF Static
  <2> QED BY <2>1, <2>2, <2>3, <2>4, <2>5
<1>7. Nested(cd2, <<>>, <<>>, start) /\ ClassAround(cd2, <<>>, <<>>, "NONE")
  BY DEF Nested, ClassAround, InClass
<1>8. Closed(cd2, <<>>, start)
  <2> SUFFICES ASSUME NEW i \in 1..Len(cd2), cd2[i].op \in Openers
               PROVE  /\ cd2[i].end = 0 => \E k \in 1..Len(<<>>) : <<>>[k].at = i
                      /\ i < start => cd2[i].end # 0 /\ cd2[i].end < start
    BY DEF Closed
  <2>1. i \in 1..Len(code) /\ cd2[i] = code[i] /\ i < start
    BY <1>2, <1>3, <1>4
  <2>2. code[i].end # 0 /\ code[i].end < start
    BY <1>2, <2>1 DEF Closed
  <2> QED BY <2>1, <2>2
<1>9. Snap(cd2, <<>>, start) = <<>>
  BY <1>2, <1>3, <1>4 DEF Snap
<1>10. CodeInv'
  BY <1>1, <1>6, <1>7, <1>8, <1>9 DEF CodeInv
<1>11. <<>> \in Seq(Scope) /\ <<>> \in Seq(Brackets)
  OBVIOUS
<1> QED BY <1>1, <1>3, <1>4, <1>10, <1>11, ResolverKeeps

\* A line that is resolved starts outside of all scopes.
LEMMA InterpretStep ==
  ASSUME IInv, Interpret
  PROVE  IInv'
<1>1. /\ phase = "resolve" /\ brackets = <<>> /\ phase' = "run" /\ pc' = start
      /\ UNCHANGED <<code, start, scopes, brackets, currentFunction, currentClass, envs, environment,
                     classes, calls, throwing, returned, bound, access>>
  BY DEF Interpret, resolver
<1>2. Types /\ CodeInv /\ HeapInv /\ RunInv
  BY DEF IInv
<1>3. Types'
  BY <1>1, <1>2 DEF Types
<1>4. CodeInv'
  BY <1>1, <1>2 DEF CodeInv
<1>5. /\ Limit = start - 1 /\ Limit' = Len(code) /\ start - 1 \in 0..Len(code) /\ Len(code) \in Nat
      /\ Len(envs) \in Nat \ {0} /\ Len(classes) \in Nat /\ code \in Seq(Items)
  BY <1>1, <1>2 DEF Types, Limit
<1>6. Keeps(code, start - 1, envs, Len(classes), code, Len(code), envs, Len(classes))
  BY <1>5 DEF Keeps, Extends
<1>7. HeapOK(code, Len(code), envs, classes) /\ ValueOK(returned, code, Len(code), envs, Len(classes))
  <2>1. HeapOK(code, start - 1, envs, classes) /\ ValueOK(returned, code, start - 1, envs, Len(classes))
    BY <1>2, <1>5 DEF HeapInv
  <2>2. HeapOK(code, Len(code), envs, classes)
    BY <1>5, <1>6, <2>1, HeapKeeps
  <2> QED BY <1>6, <2>1, <2>2, ValueKeeps
<1>8. HeapInv'
  BY <1>1, <1>2, <1>5, <1>7 DEF HeapInv
<1>9. RunInv'
  <2>1. calls = <<>> /\ throwing = None /\ CallsOK(calls, code, scopes, envs, Len(classes), environment, bound)
    BY <1>1, <1>2 DEF RunInv
  <2>2. Global(environment, bound)
    BY <2>1 DEF CallsOK
  <2>3. Match(envs, environment, <<>>, bound)
    BY <1>5, <2>2, MatchGlobal DEF Match
  <2>4. Snap(code, scopes, start) = <<>> /\ start \in 1..(Len(code) + 1)
    BY <1>2 DEF CodeInv, Types
  <2> QED BY <1>1, <2>1, <2>3, <2>4 DEF RunInv
<1> QED BY <1>3, <1>4, <1>8, <1>9 DEF IInv

\* A line that is over leaves its code, and no scopes.
LEMMA ReturnStep ==
  ASSUME IInv, Return
  PROVE  IInv'
<1>1. /\ phase = "run" /\ calls = <<>> /\ phase' = "resolve" /\ start' = Len(code) + 1
      /\ scopes' = <<>> /\ brackets' = <<>> /\ currentFunction' = "NONE" /\ currentClass' = "NONE"
      /\ throwing' = None /\ access' = {}
      /\ UNCHANGED <<code, envs, environment, classes, pc, calls, returned, bound>>
  BY DEF Return, NextLine
<1>2. Types /\ CodeInv /\ HeapInv /\ RunInv
  BY DEF IInv
<1>3. brackets = <<>> /\ scopes = <<>>
  BY <1>1, <1>2 DEF CodeInv, Nested
<1>4. code \in Seq(Items) /\ Len(code) \in Nat /\ Len(envs) \in Nat \ {0}
  BY <1>2 DEF Types
<1>5. Types'
  BY <1>1, <1>2, <1>4 DEF Types
<1>6. CodeInv'
  <2>1. Static(code, <<>>)
    BY <1>2, <1>3 DEF CodeInv
  <2>2. Nested(code, <<>>, <<>>, Len(code) + 1) /\ ClassAround(code, <<>>, <<>>, "NONE")
    BY DEF Nested, ClassAround, InClass
  <2>3. Closed(code, <<>>, Len(code) + 1)
    <3> SUFFICES ASSUME NEW i \in 1..Len(code), code[i].op \in Openers
                 PROVE  code[i].end # 0 /\ code[i].end < Len(code) + 1
      BY DEF Closed
    <3>1. code[i].end # 0
      BY <1>2, <1>3 DEF CodeInv, Closed
    <3>2. code[i].end \in (i + 1)..Len(code)
      BY <2>1, <3>1 DEF Static
    <3> QED BY <1>4, <3>1, <3>2
  <2>4. Snap(code, <<>>, Len(code) + 1) = <<>>
    BY <1>4 DEF Snap
  <2> QED BY <1>1, <2>1, <2>2, <2>3, <2>4 DEF CodeInv
<1>7. HeapInv'
  <2>1. Limit' = Limit
    BY <1>1, <1>4 DEF Limit
  <2> QED BY <1>1, <1>2, <2>1 DEF HeapInv, AccessOK
<1>8. RunInv'
  BY <1>1, <1>2 DEF RunInv, CallsOK
<1> QED BY <1>5, <1>6, <1>7, <1>8 DEF IInv

-----------------------------------------------------------------------------
(* The interpreter *)

\* nil and numbers are good values everywhere.
LEMMA ConstantValues ==
  /\ NoOne \in Bounds /\ Nil \in ValueSet /\ Number \in ValueSet
  /\ Nil.kind = "nil" /\ Number.kind = "number"
  /\ \A cd, lim, es, n : ValueOK(Nil, cd, lim, es, n) /\ ValueOK(Number, cd, lim, es, n)
<1>1. NoOne \in Bounds /\ Globals \in Nat
  BY DEF NoOne, Bounds, AllNames, Globals
<1>2. Nil \in ValueSet /\ Number \in ValueSet /\ Nil.kind = "nil" /\ Number.kind = "number"
  BY <1>1 DEF Nil, Number, Value, ValueSet
<1> QED BY <1>1, <1>2 DEF ValueOK

\* What a name leads to: its variable, if there is one, with a good value.
LEMMA ReachOK ==
  ASSUME IInv, phase = "run", NEW S \in Seq(Scope), Match(envs, environment, S, bound),
         NEW n \in AllNames, NEW d, d = Distance(n, S)
  PROVE  /\ Found(d) = bound[n] /\ Found(d) \in 1..Len(envs)
         /\ d # Unresolved => n \in DOMAIN envs[Found(d)].values
         /\ d = Unresolved => Found(d) = Globals
         /\ ValueOK(Read(n, d), code, Len(code), envs, Len(classes))
         /\ n = "super" /\ d # Unresolved => Read(n, d).kind = "class"
<1>1. PICK p : /\ IsPath(p, envs, environment, Len(S))
               /\ \A m \in AllNames :
                    LET k == Distance(m, S) IN
                      IF k = Unresolved THEN bound[m] = Globals
                      ELSE bound[m] = p[k] /\ (m # None => m \in DOMAIN envs[p[k]].values)
  BY DEF Match, MatchBut
<1>2. Types /\ HeapInv /\ Len(envs) \in Nat \ {0} /\ Len(S) \in Nat
  BY DEF IInv, Types
<1>3. /\ HeapOK(code, Len(code), envs, classes)
  BY <1>2 DEF HeapInv, Limit
<1>4. Found(d) = bound[n] /\ Found(d) \in 1..Len(envs)
      /\ (d # Unresolved => n \in DOMAIN envs[Found(d)].values)
  <2>1. CASE d = Unresolved
    <3>1. Found(d) = Globals /\ bound[n] = Globals
      BY <1>1, <2>1 DEF Found
    <3>2. Globals \in 1..Len(envs)
      BY <1>2 DEF Globals
    <3> QED BY <2>1, <3>1, <3>2
  <2>2. CASE d # Unresolved
    <3>1. d \in 0..Len(S)
      BY <1>2, <2>2, DistanceIs
    <3>2. Ancestor(environment, d) = p[d] /\ p[d] \in 1..Len(envs)
      <4>1. PICK l \in Nat : l = Len(S)
        BY <1>2
      <4>2. IsPath(p, envs, environment, l) /\ d \in 0..l
        BY <1>1, <3>1, <4>1
      <4>3. p[d] \in 1..Len(envs)
        BY <4>2 DEF IsPath
      <4> QED BY <4>2, <4>3, AncestorIsPath
    <3>3. bound[n] = p[d] /\ n \in DOMAIN envs[p[d]].values
      BY <1>1, <2>2, NoneIsNoName
    <3> QED BY <2>2, <3>2, <3>3 DEF Found
  <2> QED BY <2>1, <2>2
<1>5. PICK e \in 1..Len(envs) : e = Found(d)
  BY <1>4
<1>6. CASE n \in DOMAIN envs[e].values
  <2>1. Read(n, d) = envs[e].values[n]
    BY <1>5, <1>6 DEF Read
  <2>2. /\ ValueOK(envs[e].values[n], code, Len(code), envs, Len(classes))
        /\ n = "super" => envs[e].values[n].kind = "class"
    BY <1>3, <1>6 DEF HeapOK
  <2> QED BY <1>4, <1>5, <2>1, <2>2 DEF Found
<1>7. CASE n \notin DOMAIN envs[e].values
  <2>1. Read(n, d) = Nil /\ d = Unresolved
    BY <1>4, <1>5, <1>7 DEF Read
  <2> QED BY <1>4, <2>1, ConstantValues DEF Found
<1> QED BY <1>6, <1>7

\* The variables that a step reached are there, and stay there.
Reached(acc, es) ==
  \A a \in acc : /\ a.got = a.meant /\ a.got \in 1..Len(es)
                 /\ a.got # Globals => a.name \in DOMAIN es[a.got].values

\* A name that is resolved reaches its variable.
LEMMA ReachedIs ==
  ASSUME IInv, phase = "run", NEW S \in Seq(Scope), Match(envs, environment, S, bound),
         NEW n \in AllNames
  PROVE  Reached({Reach(n, Distance(n, S))}, envs)
<1>1. PICK d : d = Distance(n, S)
  OBVIOUS
<1>2. /\ Found(d) = bound[n] /\ Found(d) \in 1..Len(envs)
      /\ d # Unresolved => n \in DOMAIN envs[Found(d)].values
      /\ d = Unresolved => Found(d) = Globals
  BY <1>1, ReachOK
<1>3. PICK a : a = Reach(n, d)
  OBVIOUS
<1>4. a.got = Found(d) /\ a.meant = bound[n] /\ a.name = n
  BY <1>3 DEF Reach
<1> QED BY <1>1, <1>2, <1>3, <1>4 DEF Reached

\* ... which is still there when environments are added.
LEMMA ReachedGrows ==
  ASSUME NEW acc, NEW es, NEW es2, Reached(acc, es), Extends(es, es2)
  PROVE  AccessOK(acc, es2)
BY DEF Reached, AccessOK, Extends

\* The statement that is about to be executed.
Running == phase = "run" /\ throwing = None /\ pc <= Len(code)

\* What is known of that statement: its scopes match, and it is resolved.
LEMMA RunningState ==
  ASSUME IInv, Running
  PROVE  /\ pc \in 1..Len(code) /\ pc + 1 \in 1..(Len(code) + 1) /\ Len(code) \in Nat
         /\ Statement = code[pc] /\ Statement \in Items /\ Statement.scopes \in Seq(Scope)
         /\ Resolved(Statement) /\ Snap(code, scopes, pc) = Statement.scopes
         /\ Match(envs, environment, Statement.scopes, bound)
         /\ Statement.op # "end" => Snap(code, scopes, pc + 1) = Following(Statement)
         /\ Statement.op \in Openers =>
              /\ Statement.end \in (pc + 1)..Len(code) /\ Statement.end + 1 \in 1..(Len(code) + 1)
              /\ Snap(code, scopes, Statement.end + 1) = Outer(Statement)
<1>1. Types /\ CodeInv /\ RunInv /\ code \in Seq(Items) /\ Len(code) \in Nat
  BY DEF IInv, Types
<1>2. pc \in 1..(Len(code) + 1) /\ Match(envs, environment, Snap(code, scopes, pc), bound)
  BY <1>1 DEF RunInv, Running
<1>3. pc \in 1..Len(code) /\ pc + 1 \in 1..(Len(code) + 1) /\ Statement = code[pc] /\ Statement \in Items
  BY <1>1, <1>2 DEF Running, Statement
<1>4. Snap(code, scopes, pc) = Statement.scopes /\ Statement.scopes \in Seq(Scope)
  BY <1>3 DEF Snap, Running, Items
<1>5. /\ Resolved(Statement)
      /\ Statement.op # "end" => Snap(code, scopes, pc + 1) = Following(Statement)
      /\ Statement.op \in Openers /\ Statement.end # 0 =>
           /\ Statement.end \in (pc + 1)..Len(code)
           /\ Snap(code, scopes, Statement.end + 1) = Outer(Statement)
  BY <1>1, <1>3 DEF CodeInv, Static
<1>6. Statement.op \in Openers => Statement.end # 0
  BY <1>1, <1>3 DEF CodeInv, Closed, Running
<1>7. Statement.op \in Openers => Statement.end + 1 \in 1..(Len(code) + 1)
  BY <1>1, <1>3, <1>5, <1>6
<1> QED BY <1>2, <1>3, <1>4, <1>1, <1>5, <1>6, <1>7

\* What is left to show of a step of the interpreter.
LEMMA RunStep ==
  ASSUME IInv, phase = "run",
         UNCHANGED <<phase, code, start, scopes, brackets, currentFunction, currentClass>>,
         envs' \in Seq(Envs), Len(envs') >= 1, environment' \in 1..Len(envs'), classes' \in Seq(Classes),
         calls' \in Seq(Acts), bound' \in Bounds, throwing' \in {None, "Return", "RuntimeError"},
         HeapOK(code, Len(code), envs', classes'),
         ValueOK(returned', code, Len(code), envs', Len(classes')), AccessOK(access', envs'),
         CallsOK(calls', code, scopes, envs', Len(classes'), environment', bound'),
         throwing' = None => pc' \in 1..(Len(code) + 1)
                             /\ Match(envs', environment', Snap(code, scopes, pc'), bound')
  PROVE  IInv'
<1>1. Types /\ CodeInv
  BY DEF IInv
<1>2. Types'
  BY <1>1 DEF Types, ValueOK
<1>3. CodeInv'
  BY <1>1 DEF CodeInv
<1>4. HeapInv'
  <2>1. Limit' = Len(code)
    BY DEF Limit
  <2> QED BY <2>1 DEF HeapInv
<1>5. RunInv'
  BY DEF RunInv
<1> QED BY <1>2, <1>3, <1>4, <1>5 DEF IInv

\* What the interpreter has, spelled out.
LEMMA HeapState ==
  ASSUME IInv, phase = "run"
  PROVE  /\ code \in Seq(Items) /\ Len(code) \in Nat /\ scopes \in Seq(Scope)
         /\ envs \in Seq(Envs) /\ Len(envs) \in Nat \ {0} /\ environment \in 1..Len(envs)
         /\ classes \in Seq(Classes) /\ Len(classes) \in Nat /\ calls \in Seq(Acts) /\ bound \in Bounds
         /\ throwing \in {None, "Return", "RuntimeError"} /\ returned \in ValueSet
         /\ HeapOK(code, Len(code), envs, classes)
         /\ ValueOK(returned, code, Len(code), envs, Len(classes))
         /\ CallsOK(calls, code, scopes, envs, Len(classes), environment, bound)
BY DEF IInv, Types, HeapInv, RunInv, Limit

\* Maps of values stay maps of values.
LEMMA MapsAre ==
  /\ Empty \in Maps /\ DOMAIN Empty = {}
  /\ \A n \in AllNames, v \in ValueSet : Only(n, v) \in Maps /\ DOMAIN Only(n, v) = {n} /\ Only(n, v)[n] = v
  /\ \A T \in Maps, n \in AllNames, v \in ValueSet :
       /\ Put(T, n, v) \in Maps /\ DOMAIN Put(T, n, v) = DOMAIN T \cup {n}
       /\ \A m \in DOMAIN Put(T, n, v) : Put(T, n, v)[m] = IF m = n THEN v ELSE T[m]
<1>1. Empty \in [{} -> ValueSet] /\ DOMAIN Empty = {}
  BY DEF Empty
<1>2. ASSUME NEW n \in AllNames, NEW v \in ValueSet
      PROVE  Only(n, v) \in [{n} -> ValueSet] /\ {n} \in SUBSET AllNames /\ Only(n, v)[n] = v
  BY DEF Only
<1>3. ASSUME NEW T \in Maps, NEW n \in AllNames, NEW v \in ValueSet
      PROVE  /\ Put(T, n, v) \in Maps /\ DOMAIN Put(T, n, v) = DOMAIN T \cup {n}
             /\ \A m \in DOMAIN Put(T, n, v) : Put(T, n, v)[m] = IF m = n THEN v ELSE T[m]
  <2>1. PICK D \in SUBSET AllNames : T \in [D -> ValueSet]
    BY DEF Maps
  <2>2. Put(T, n, v) \in [D \cup {n} -> ValueSet] /\ DOMAIN T = D
    BY <2>1 DEF Put
  <2>3. D \cup {n} \in SUBSET AllNames
    BY <2>1
  <2>4. \A m \in DOMAIN Put(T, n, v) : Put(T, n, v)[m] = IF m = n THEN v ELSE T[m]
    BY DEF Put
  <2> QED BY <2>2, <2>3, <2>4 DEF Maps
<1>4. {} \in SUBSET AllNames
  OBVIOUS
<1>5. Empty \in Maps
  BY <1>1, <1>4 DEF Maps
<1>6. ASSUME NEW n \in AllNames, NEW v \in ValueSet PROVE Only(n, v) \in Maps /\ DOMAIN Only(n, v) = {n}
  BY <1>2 DEF Maps
<1> QED BY <1>1, <1>2, <1>3, <1>5, <1>6

\* Environment.define and assignAt.
LEMMA DefineIs ==
  ASSUME NEW es \in Seq(Envs), NEW e \in 1..Len(es), NEW n \in AllNames, NEW v \in ValueSet,
         NEW es2, es2 = Defining(es, e, n, v)
  PROVE  /\ es2 \in Seq(Envs) /\ Len(es2) = Len(es) /\ Extends(es, es2)
         /\ \A i \in 1..Len(es) : i # e => es2[i] = es[i]
         /\ DOMAIN es2[e].values = DOMAIN es[e].values \cup {n}
         /\ \A m \in DOMAIN es2[e].values : es2[e].values[m] = IF m = n THEN v ELSE es[e].values[m]
<1>1. es[e] \in Envs
  OBVIOUS
<1>2. PICK T \in Maps : T = es[e].values
  BY <1>1 DEF Envs
<1>3. PICK T2 \in Maps : T2 = Put(T, n, v)
  BY MapsAre
<1>4. DOMAIN T2 = DOMAIN T \cup {n} /\ \A m \in DOMAIN T2 : T2[m] = IF m = n THEN v ELSE T[m]
  <2>1. /\ DOMAIN Put(T, n, v) = DOMAIN T \cup {n}
        /\ \A m \in DOMAIN Put(T, n, v) : Put(T, n, v)[m] = IF m = n THEN v ELSE T[m]
    <3>1. DOMAIN Put(T, n, v) = DOMAIN T \cup {n}
      BY MapsAre
    <3> QED BY <3>1 DEF Put
  <2> QED BY <1>3, <2>1, Zenon
<1>5. PICK r \in Envs : r = [es[e] EXCEPT !.values = T2]
  BY <1>1 DEF Envs
<1>6. r.values = T2 /\ r.enclosing = es[e].enclosing
  BY <1>1, <1>5 DEF Envs
<1>7. es2 = [es EXCEPT ![e] = r]
  BY <1>2, <1>3, <1>5 DEF Defining
<1>8. /\ [es EXCEPT ![e] = r] \in Seq(Envs) /\ Len([es EXCEPT ![e] = r]) = Len(es)
      /\ \A j \in 1..Len(es) : [es EXCEPT ![e] = r][j] = IF j = e THEN r ELSE es[j]
  BY ExceptSeq
<1>9. es2 \in Seq(Envs) /\ Len(es2) = Len(es) /\ es2[e] = r /\ \A i \in 1..Len(es) : i # e => es2[i] = es[i]
  BY <1>7, <1>8
<1>10. Extends(es, es2)
  <2>1. ASSUME NEW i \in 1..Len(es)
        PROVE  es2[i].enclosing = es[i].enclosing /\ DOMAIN es[i].values \subseteq DOMAIN es2[i].values
    <3>1. CASE i = e
      <4>1. DOMAIN es2[e].values = DOMAIN T2 /\ DOMAIN es[e].values = DOMAIN T
        BY <1>2, <1>6, <1>9, Zenon
      <4> QED BY <1>4, <1>6, <1>9, <3>1, <4>1
    <3>2. CASE i # e
      BY <1>9, <3>2
    <3> QED BY <3>1, <3>2
  <2> QED BY <1>9, <2>1 DEF Extends
<1>11. es2[e].values = T2
  BY <1>6, <1>9
<1> QED BY <1>2, <1>4, <1>9, <1>10, <1>11

\* Defining a good value keeps all values good.
LEMMA DefineHeap ==
  ASSUME NEW cd \in Seq(Items), NEW es \in Seq(Envs), NEW cl, Len(cl) \in Nat,
         NEW e \in 1..Len(es), NEW n \in Names, NEW v \in ValueSet,
         NEW es2, es2 = Defining(es, e, n, v),
         HeapOK(cd, Len(cd), es, cl), ValueOK(v, cd, Len(cd), es2, Len(cl))
  PROVE  HeapOK(cd, Len(cd), es2, cl)
<1>1. n \in AllNames /\ n # "super"
  BY NoneIsNoName DEF AllNames
<1>2. /\ es2 \in Seq(Envs) /\ Len(es2) = Len(es) /\ Extends(es, es2)
      /\ \A i \in 1..Len(es) : i # e => es2[i] = es[i]
      /\ DOMAIN es2[e].values = DOMAIN es[e].values \cup {n}
      /\ \A m \in DOMAIN es2[e].values : es2[e].values[m] = IF m = n THEN v ELSE es[e].values[m]
  BY <1>1, DefineIs
<1>3. Keeps(cd, Len(cd), es, Len(cl), cd, Len(cd), es2, Len(cl))
  BY <1>2 DEF Keeps
<1>4. ASSUME NEW i \in 1..Len(es2), NEW m \in DOMAIN es2[i].values
      PROVE  \/ i <= Len(es) /\ m \in DOMAIN es[i].values /\ es2[i].values[m] = es[i].values[m]
             \/ /\ ValueOK(es2[i].values[m], cd, Len(cd), es2, Len(cl))
                /\ m = "super" => es2[i].values[m].kind = "class"
  <2>1. i \in 1..Len(es) /\ i <= Len(es)
    BY <1>2
  <2>2. CASE i # e
    BY <1>2, <2>1, <2>2
  <2>3. CASE i = e /\ m # n
    BY <1>2, <2>1, <2>3
  <2>4. CASE i = e /\ m = n
    BY <1>1, <1>2, <2>4
  <2> QED BY <2>2, <2>3, <2>4
<1>5. \A i \in (Len(es) + 1)..Len(es2) : es2[i].enclosing \in 1..(i - 1)
  BY <1>2
<1>6. \A k \in (Len(cl) + 1)..Len(cl) : FALSE
  OBVIOUS
<1> QED BY <1>3, <1>4, <1>5, <1>6, HeapKeeps

\* new Environment(enclosing), with at most a variable.
NewEnvironment(es, enc, vals, es2) ==
  /\ es2 \in Seq(Envs) /\ Len(es2) = Len(es) + 1 /\ Extends(es, es2) /\ Len(es) \in Nat
  /\ es2[Len(es) + 1].enclosing = enc /\ es2[Len(es) + 1].values = vals
  /\ \A i \in 1..Len(es) : es2[i] = es[i]

\* What appending an environment does.
LEMMA PushIs ==
  ASSUME NEW es \in Seq(Envs), NEW enc \in 1..Len(es), NEW vals \in Maps
  PROVE  NewEnvironment(es, enc, vals, Append(es, Environment(enc, vals)))
<1>1. PICK r \in Envs : r = Environment(enc, vals)
  <2>1. enc \in Nat
    OBVIOUS
  <2> QED BY <2>1 DEF Environment, Envs
<1>2. r.enclosing = enc /\ r.values = vals
  BY <1>1 DEF Environment
<1>3. PICK es2 : es2 = Append(es, r)
  OBVIOUS
<1>4. /\ es2 \in Seq(Envs) /\ Len(es2) = Len(es) + 1 /\ es2[Len(es) + 1] = r /\ Len(es) \in Nat
      /\ \A i \in 1..Len(es) : es2[i] = es[i]
  BY <1>3
<1>5. Extends(es, es2)
  BY <1>4 DEF Extends
<1> QED BY <1>1, <1>2, <1>3, <1>4, <1>5 DEF NewEnvironment

\* The variables vals of an environment are those of scope T.
Variables(vals, T, cd, es, n) ==
  /\ vals \in Maps /\ DOMAIN T = DOMAIN vals
  /\ \A m \in DOMAIN vals : /\ ValueOK(vals[m], cd, Len(cd), es, n)
                            /\ m = "super" => vals[m].kind = "class"

\* A new environment with good values keeps all values good.
LEMMA PushHeap ==
  ASSUME NEW cd \in Seq(Items), NEW es \in Seq(Envs), NEW cl, Len(cl) \in Nat,
         NEW enc \in 1..Len(es), NEW vals, NEW T, Variables(vals, T, cd, es, Len(cl)),
         NEW es2, NewEnvironment(es, enc, vals, es2), HeapOK(cd, Len(cd), es, cl)
  PROVE  HeapOK(cd, Len(cd), es2, cl)
<1>1. /\ es2 \in Seq(Envs) /\ Len(es2) = Len(es) + 1 /\ Extends(es, es2) /\ Len(es) \in Nat
      /\ es2[Len(es) + 1].enclosing = enc /\ es2[Len(es) + 1].values = vals
      /\ \A i \in 1..Len(es) : es2[i] = es[i]
  BY DEF NewEnvironment
<1>2. Keeps(cd, Len(cd), es, Len(cl), cd, Len(cd), es2, Len(cl))
  BY <1>1 DEF Keeps
<1>3. ASSUME NEW i \in 1..Len(es2), NEW m \in DOMAIN es2[i].values
      PROVE  \/ i <= Len(es) /\ m \in DOMAIN es[i].values /\ es2[i].values[m] = es[i].values[m]
             \/ /\ ValueOK(es2[i].values[m], cd, Len(cd), es2, Len(cl))
                /\ m = "super" => es2[i].values[m].kind = "class"
  <2>1. CASE i \in 1..Len(es)
    <3>1. es2[i] = es[i] /\ i <= Len(es)
      BY <1>1, <2>1
    <3> QED BY <3>1
  <2>2. CASE i = Len(es) + 1
    <3>1. PICK v : v = vals[m]
      OBVIOUS
    <3>2. es2[i].values = vals /\ m \in DOMAIN vals
      BY <1>1, <2>2
    <3>3. ValueOK(v, cd, Len(cd), es, Len(cl)) /\ (m = "super" => v.kind = "class")
      BY <3>1, <3>2 DEF Variables
    <3>4. ValueOK(v, cd, Len(cd), es2, Len(cl))
      BY <1>2, <3>3, ValueKeeps
    <3>5. es2[i].values[m] = v
      BY <3>1, <3>2
    <3> QED BY <3>3, <3>4, <3>5
  <2>3. i \in 1..Len(es) \/ i = Len(es) + 1
    <3>1. Len(es2) = Len(es) + 1 /\ Len(es) \in Nat
      BY <1>1
    <3> QED BY <3>1
  <2> QED BY <2>1, <2>2, <2>3
<1>4. \A i \in (Len(es) + 1)..Len(es2) : es2[i].enclosing \in 1..(i - 1)
  BY <1>1
<1>5. \A k \in (Len(cl) + 1)..Len(cl) : FALSE
  OBVIOUS
<1> QED BY <1>2, <1>3, <1>4, <1>5, HeapKeeps

\* The activations that are there stay as they are.
LEMMA CallsKeep ==
  ASSUME IInv, phase = "run", NEW es2, Len(es2) \in Nat, Extends(envs, es2), NEW n2 \in Nat, Len(classes) <= n2
  PROVE  \A k \in 1..Len(calls) : ActOK(calls[k], code, scopes, es2, n2)
<1> SUFFICES ASSUME NEW k \in 1..Len(calls) PROVE ActOK(calls[k], code, scopes, es2, n2)
  OBVIOUS
<1>1. /\ code \in Seq(Items) /\ scopes \in Seq(Scope) /\ Len(envs) \in Nat /\ Len(classes) \in Nat
      /\ calls \in Seq(Acts) /\ CallsOK(calls, code, scopes, envs, Len(classes), environment, bound)
  BY HeapState
<1>2. PICK c \in Acts : c = calls[k]
  BY <1>1
<1>3. ActOK(c, code, scopes, envs, Len(classes))
  BY <1>1, <1>2 DEF CallsOK
<1>4. ActOK(c, code, scopes, es2, n2)
  BY <1>1, <1>3, ActKeeps
<1> QED BY <1>2, <1>4

\* Where a statement may go on, once into is defined.
GoesOn(cd, sc, es, e, b, back, into) ==
  IF into = None THEN Match(es, e, Snap(cd, sc, back), b)
  ELSE MatchBut(es, e, Snap(cd, sc, back), [b EXCEPT ![into] = e], into)

\* ... whatever environments are made in the meantime.
LEMMA GoesOnGrows ==
  ASSUME NEW cd \in Seq(Items), NEW sc \in Seq(Scope), NEW es, NEW e, NEW b, NEW back \in 1..(Len(cd) + 1),
         NEW into, NEW es2, GoesOn(cd, sc, es, e, b, back, into), Extends(es, es2), Len(es) \in Nat, Len(es2) \in Nat
  PROVE  GoesOn(cd, sc, es2, e, b, back, into)
<1>1. PICK S \in Seq(Scope) : S = Snap(cd, sc, back)
  BY SnapIs
<1>2. PICK c : c = [b EXCEPT ![into] = e]
  OBVIOUS
<1>3. CASE into = None
  <2>1. MatchBut(es, e, S, b, None)
    BY <1>1, <1>3 DEF GoesOn, Match
  <2>2. MatchBut(es2, e, S, b, None)
    BY <2>1, MatchGrows
  <2> QED BY <1>1, <1>3, <2>2 DEF GoesOn, Match
<1>4. CASE into # None
  <2>1. MatchBut(es, e, S, c, into)
    BY <1>1, <1>2, <1>4 DEF GoesOn
  <2>2. MatchBut(es2, e, S, c, into)
    BY <2>1, MatchGrows
  <2> QED BY <1>1, <1>2, <1>4, <2>2 DEF GoesOn
<1> QED BY <1>3, <1>4

\* executeBlock is entered.
LEMMA EnterStep ==
  ASSUME IInv, Running, NEW es2 \in Seq(Envs), Extends(envs, es2), HeapOK(code, Len(code), es2, classes),
         NEW kind \in {"block", "call"}, NEW at \in 1..(Len(code) + 1), NEW back \in 1..(Len(code) + 1),
         NEW scope \in Bounds, NEW result \in Results,
         ValueOK(result.instance, code, Len(code), es2, Len(classes)),
         Match(es2, Len(es2), Snap(code, scopes, at), scope),
         GoesOn(code, scopes, envs, environment, bound, back, result.into),
         ExecuteBlock(kind, es2, at, back, scope, result), Reached(access', envs)
  PROVE  IInv'
<1>0. phase = "run" /\ throwing = None
  BY DEF Running
<1>1. /\ code \in Seq(Items) /\ Len(code) \in Nat /\ scopes \in Seq(Scope)
      /\ envs \in Seq(Envs) /\ Len(envs) \in Nat \ {0} /\ environment \in 1..Len(envs)
      /\ classes \in Seq(Classes) /\ Len(classes) \in Nat /\ calls \in Seq(Acts) /\ bound \in Bounds
      /\ ValueOK(returned, code, Len(code), envs, Len(classes))
      /\ CallsOK(calls, code, scopes, envs, Len(classes), environment, bound)
  BY <1>0, HeapState
<1>2. PICK c : c = [kind |-> kind, previous |-> environment, back |-> back, bound |-> bound,
                    result |-> result]
  OBVIOUS
<1>3. /\ envs' = es2 /\ environment' = Len(es2) /\ calls' = Append(calls, c) /\ pc' = at /\ bound' = scope
      /\ UNCHANGED <<phase, code, start, scopes, brackets, currentFunction, currentClass, returned,
                     classes, throwing>>
  BY <1>2 DEF ExecuteBlock, fixed, resolver
<1>4. Len(es2) \in Nat \ {0} /\ Len(envs) <= Len(es2) /\ Len(es2) \in 1..Len(es2)
  BY <1>1 DEF Extends
<1>5. c \in Acts
  <2>1. environment \in Nat /\ back \in Nat
    BY <1>1
  <2> QED BY <1>1, <1>2, <2>1 DEF Acts
<1>6. ActOK(c, code, scopes, es2, Len(classes))
  <2>1. c.back = back /\ c.previous = environment /\ c.result = result /\ c.bound = bound
    BY <1>2
  <2>2. GoesOn(code, scopes, es2, environment, bound, back, result.into)
    BY <1>1, <1>4, GoesOnGrows
  <2>3. c.previous \in 1..Len(es2)
    BY <1>1, <1>4, <2>1
  <2> QED BY <2>1, <2>2, <2>3 DEF ActOK, GoesOn
<1>7. CallsOK(Append(calls, c), code, scopes, es2, Len(classes), Len(es2), scope)
  <2>1. PICK cs2 : cs2 = Append(calls, c)
    OBVIOUS
  <2>2. /\ Len(cs2) = Len(calls) + 1 /\ cs2[Len(calls) + 1] = c /\ cs2 # <<>> /\ Len(calls) \in Nat
        /\ \A k \in 1..Len(calls) : cs2[k] = calls[k]
    <3>1. PICK a \in Acts : a = c
      BY <1>5
    <3>2. /\ Len(Append(calls, a)) = Len(calls) + 1 /\ Append(calls, a)[Len(calls) + 1] = a
          /\ Append(calls, a) # <<>> /\ Len(calls) \in Nat
          /\ \A k \in 1..Len(calls) : Append(calls, a)[k] = calls[k]
      BY <1>1, AppendProperties
    <3> QED BY <2>1, <3>1, <3>2
  <2>3. \A k \in 1..Len(calls) : ActOK(calls[k], code, scopes, es2, Len(classes))
    BY <1>0, <1>1, <1>4, CallsKeep
  <2>4. ASSUME NEW k \in 1..Len(cs2) PROVE ActOK(cs2[k], code, scopes, es2, Len(classes))
    <3>1. CASE k = Len(calls) + 1
      BY <1>6, <2>2, <3>1
    <3>2. CASE k # Len(calls) + 1
      <4>1. k \in 1..Len(calls)
        BY <2>2, <3>2
      <4> QED BY <2>2, <2>3, <4>1
    <3> QED BY <3>1, <3>2
  <2>5. Global(cs2[1].previous, cs2[1].bound)
    <3>1. CASE calls = <<>>
      <4>1. cs2[1] = c
        BY <2>2, <3>1
      <4>2. Global(environment, bound)
        BY <1>1, <3>1 DEF CallsOK
      <4> QED BY <1>2, <4>1, <4>2
    <3>2. CASE calls # <<>>
      <4>1. 1 \in 1..Len(calls)
        BY <1>1, <3>2
      <4>2. cs2[1] = calls[1]
        BY <2>2, <4>1
      <4> QED BY <1>1, <3>2, <4>2 DEF CallsOK
    <3> QED BY <3>1, <3>2
  <2> QED BY <2>1, <2>2, <2>4, <2>5 DEF CallsOK
<1>8. ValueOK(returned, code, Len(code), es2, Len(classes))
  <2>1. Keeps(code, Len(code), envs, Len(classes), code, Len(code), es2, Len(classes))
    BY <1>1, <1>4 DEF Keeps
  <2> QED BY <1>1, <2>1, ValueKeeps
<1>9. AccessOK(access', es2)
  BY ReachedGrows
<1>10. Append(calls, c) \in Seq(Acts)
  BY <1>1, <1>5
<1> QED BY <1>0, <1>1, <1>3, <1>4, <1>7, <1>8, <1>9, <1>10, RunStep

\* executeBlock returns, and the call defines its result.
LEMMA LeaveStep ==
  ASSUME IInv, phase = "run", calls # <<>>, NEW c, c = Last(calls), NEW v,
         ValueOK(v, code, Len(code), envs, Len(classes)),
         environment' = c.previous, pc' = c.back, Returns(c, v), calls' = Front(calls), access' = {},
         throwing' = None, returned' \in {returned, Nil},
         UNCHANGED <<phase, code, start, scopes, brackets, currentFunction, currentClass, classes>>
  PROVE  IInv'
<1>1. /\ code \in Seq(Items) /\ Len(code) \in Nat /\ scopes \in Seq(Scope)
      /\ envs \in Seq(Envs) /\ Len(envs) \in Nat \ {0}
      /\ classes \in Seq(Classes) /\ Len(classes) \in Nat /\ calls \in Seq(Acts)
      /\ HeapOK(code, Len(code), envs, classes)
      /\ ValueOK(returned, code, Len(code), envs, Len(classes))
      /\ CallsOK(calls, code, scopes, envs, Len(classes), environment, bound)
  BY HeapState
<1>2. PICK l \in 1..Len(calls) : l = Len(calls) /\ c = calls[l] /\ l \in Nat \ {0}
  BY <1>1 DEF Last
<1>3. c \in Acts /\ ActOK(c, code, scopes, envs, Len(classes))
  BY <1>1, <1>2 DEF CallsOK
<1>4. PICK into, S, e : into = c.result.into /\ S = Snap(code, scopes, c.back) /\ e = c.previous
  OBVIOUS
<1>5. /\ into \in Names \cup {None} /\ c.bound \in Bounds /\ c.result.instance \in ValueSet
      /\ c.back \in 1..(Len(code) + 1) /\ e \in 1..Len(envs) /\ e \in Nat
      /\ ValueOK(c.result.instance, code, Len(code), envs, Len(classes))
  BY <1>3, <1>4 DEF Acts, Results, ActOK
<1>6. S \in Seq(Scope)
  BY <1>1, <1>4, <1>5, SnapIs
<1>7. PICK es2 : es2 = envs'
  OBVIOUS
<1>8. /\ es2 \in Seq(Envs) /\ Len(es2) = Len(envs) /\ Extends(envs, es2)
      /\ HeapOK(code, Len(code), es2, classes) /\ bound' \in Bounds
      /\ Match(es2, e, S, bound')
      /\ Global(e, c.bound) => Global(e, bound')
  <2>1. CASE into = None
    <3>1. es2 = envs /\ bound' = c.bound
      BY <1>4, <1>7, <2>1 DEF Returns
    <3>2. Match(envs, e, S, c.bound)
      BY <1>3, <1>4, <2>1 DEF ActOK
    <3>3. Extends(envs, envs)
      BY <1>1 DEF Extends
    <3> QED BY <1>1, <1>5, <3>1, <3>2, <3>3
  <2>2. CASE into # None
    <3>1. PICK w, b : /\ w = IF c.result.instance # Nil THEN c.result.instance ELSE v
                      /\ b = [c.bound EXCEPT ![into] = e]
      OBVIOUS
    <3>2. ValueOK(w, code, Len(code), envs, Len(classes)) /\ w \in ValueSet
      BY <1>5, <3>1 DEF ValueOK
    <3>3. es2 = Defining(envs, e, into, w) /\ bound' = b
      BY <1>4, <1>7, <2>2, <3>1 DEF Returns
    <3>4. into \in Names /\ into \in AllNames
      BY <1>5, <2>2 DEF AllNames
    <3>5. /\ es2 \in Seq(Envs) /\ Len(es2) = Len(envs) /\ Extends(envs, es2)
          /\ DOMAIN es2[e].values = DOMAIN envs[e].values \cup {into}
      BY <1>1, <1>5, <3>2, <3>3, <3>4, DefineIs
    <3>6. ValueOK(w, code, Len(code), es2, Len(classes))
      <4>1. Keeps(code, Len(code), envs, Len(classes), code, Len(code), es2, Len(classes))
        BY <1>1, <3>5 DEF Keeps
      <4> QED BY <3>2, <4>1, ValueKeeps
    <3>7. HeapOK(code, Len(code), es2, classes)
      BY <1>1, <1>5, <3>2, <3>3, <3>4, <3>6, DefineHeap
    <3>8. MatchBut(envs, e, S, b, into)
      BY <1>3, <1>4, <2>2, <3>1 DEF ActOK
    <3>9. MatchBut(es2, e, S, b, into)
      BY <1>1, <1>6, <3>5, <3>8, MatchGrows
    <3>10. b[into] = e /\ b \in Bounds /\ \A n \in AllNames : n # into => b[n] = c.bound[n]
      BY <1>5, <3>1, <3>4 DEF Bounds
    <3>11. into \in DOMAIN es2[e].values
      BY <3>5
    <3>12. Match(es2, e, S, b)
      BY <1>6, <3>4, <3>9, <3>10, <3>11, MatchFill
    <3>13. Global(e, c.bound) => Global(e, b)
      BY <3>10 DEF Global
    <3> QED BY <3>3, <3>5, <3>7, <3>10, <3>12, <3>13
  <2> QED BY <2>1, <2>2
<1>9. PICK cs2, b2 : cs2 = Front(calls) /\ b2 = bound'
  OBVIOUS
<1>10. cs2 \in Seq(Acts) /\ Len(cs2) = l - 1 /\ \A k \in 1..(l - 1) : cs2[k] = calls[k]
  BY <1>1, <1>2, <1>9 DEF Front
<1>11. CallsOK(cs2, code, scopes, es2, Len(classes), e, b2)
  <2>1. \A k \in 1..Len(calls) : ActOK(calls[k], code, scopes, es2, Len(classes))
    BY <1>1, <1>8, CallsKeep
  <2>2. \A k \in 1..Len(cs2) : ActOK(cs2[k], code, scopes, es2, Len(classes))
    BY <1>2, <1>10, <2>1
  <2>3. Global(calls[1].previous, calls[1].bound)
    BY <1>1 DEF CallsOK
  <2>4. CASE l = 1
    BY <1>2, <1>4, <1>8, <1>9, <1>10, <2>2, <2>3, <2>4 DEF CallsOK
  <2>5. CASE l # 1
    <3>1. 1 \in 1..(l - 1) /\ Len(cs2) # 0
      BY <1>2, <1>10, <2>5
    <3>2. cs2 # <<>> /\ cs2[1] = calls[1]
      BY <1>10, <3>1
    <3> QED BY <2>2, <2>3, <3>2 DEF CallsOK
  <2> QED BY <2>4, <2>5
<1>12. ValueOK(returned', code, Len(code), es2, Len(classes))
  <2>1. CASE returned' = Nil
    BY <2>1, ConstantValues
  <2>2. CASE returned' = returned
    <3>1. Keeps(code, Len(code), envs, Len(classes), code, Len(code), es2, Len(classes))
      BY <1>1, <1>8 DEF Keeps
    <3> QED BY <1>1, <2>2, <3>1, ValueKeeps
  <2> QED BY <2>1, <2>2
<1>13. AccessOK({}, es2)
  BY DEF AccessOK
<1>14. Len(es2) >= 1 /\ e \in 1..Len(es2)
  BY <1>1, <1>5, <1>8
<1> QED BY <1>1, <1>4, <1>5, <1>7, <1>8, <1>9, <1>10, <1>11, <1>12, <1>13, <1>14, RunStep

\* A statement that changes nothing but the place.
LEMMA GoOnStep ==
  ASSUME IInv, Running, Reached(access', envs), pc' \in 1..(Len(code) + 1),
         Snap(code, scopes, pc') = Statement.scopes,
         UNCHANGED <<fixed, envs, environment, classes, calls, throwing, bound>>
  PROVE  IInv'
<1>0. phase = "run" /\ throwing = None
  BY DEF Running
<1>1. /\ envs \in Seq(Envs) /\ Len(envs) \in Nat \ {0} /\ environment \in 1..Len(envs)
      /\ classes \in Seq(Classes) /\ calls \in Seq(Acts) /\ bound \in Bounds
      /\ HeapOK(code, Len(code), envs, classes)
      /\ ValueOK(returned, code, Len(code), envs, Len(classes))
      /\ CallsOK(calls, code, scopes, envs, Len(classes), environment, bound)
  BY <1>0, HeapState
<1>2. /\ UNCHANGED <<phase, code, start, scopes, brackets, currentFunction, currentClass, returned>>
      /\ UNCHANGED <<envs, environment, classes, calls, throwing, bound>>
  BY DEF fixed, resolver
<1>3. Match(envs, environment, Statement.scopes, bound)
  BY RunningState
<1>4. AccessOK(access', envs)
  BY DEF Reached, AccessOK
<1>5. Match(envs, environment, Snap(code, scopes, pc'), bound)
  BY <1>3
<1>6. Len(envs) >= 1
  BY <1>1
<1> QED BY <1>0, <1>1, <1>2, <1>4, <1>5, <1>6, RunStep

\* A statement that defines a name where it stands.
LEMMA DefineStep ==
  ASSUME IInv, Running, NEW n \in Names, NEW v \in ValueSet, NEW reached, Defines(n, v, reached),
         Reached(reached, envs),
         ValueOK(v, code, Len(code), Defining(envs, environment, n, v), Len(classes)),
         pc' \in 1..(Len(code) + 1), Snap(code, scopes, pc') = TopSet(Statement.scopes, n)
  PROVE  IInv'
<1>0. phase = "run" /\ throwing = None
  BY DEF Running
<1>1. /\ code \in Seq(Items) /\ envs \in Seq(Envs) /\ Len(envs) \in Nat \ {0} /\ environment \in 1..Len(envs)
      /\ classes \in Seq(Classes) /\ calls \in Seq(Acts) /\ bound \in Bounds /\ Len(classes) \in Nat
      /\ HeapOK(code, Len(code), envs, classes)
      /\ ValueOK(returned, code, Len(code), envs, Len(classes))
      /\ CallsOK(calls, code, scopes, envs, Len(classes), environment, bound)
  BY <1>0, HeapState
<1>2. PICK es2, b : es2 = Defining(envs, environment, n, v) /\ b = [bound EXCEPT ![n] = environment]
  OBVIOUS
<1>3. /\ envs' = es2 /\ bound' = b /\ access' = reached
      /\ UNCHANGED <<phase, code, start, scopes, brackets, currentFunction, currentClass, returned,
                     environment, classes, calls, throwing>>
  BY <1>2 DEF Defines, fixed, resolver
<1>4. n \in AllNames
  BY DEF AllNames
<1>5. /\ es2 \in Seq(Envs) /\ Len(es2) = Len(envs) /\ Extends(envs, es2)
      /\ DOMAIN es2[environment].values = DOMAIN envs[environment].values \cup {n}
  BY <1>1, <1>2, <1>4, DefineIs
<1>6. HeapOK(code, Len(code), es2, classes)
  BY <1>1, <1>2, DefineHeap
<1>7. ValueOK(returned, code, Len(code), es2, Len(classes))
  <2>1. Keeps(code, Len(code), envs, Len(classes), code, Len(code), es2, Len(classes))
    BY <1>1, <1>5 DEF Keeps
  <2> QED BY <1>1, <2>1, ValueKeeps
<1>8. b[n] = environment /\ b \in Bounds /\ \A m \in AllNames : m # n => b[m] = bound[m]
  <2>1. environment \in Nat
    BY <1>1
  <2> QED BY <1>1, <1>2, <1>4, <2>1 DEF Bounds
<1>9. PICK S \in Seq(Scope), T \in Seq(Scope) :
        S = Statement.scopes /\ T = TopSet(S, n) /\ Match(envs, environment, S, bound)
  BY <1>4, RunningState, TopSetIs
<1>10. Match(es2, environment, T, b)
  <2>1. MatchBut(envs, environment, T, b, n)
    BY <1>1, <1>2, <1>9, MatchDefine
  <2>2. MatchBut(es2, environment, T, b, n)
    BY <1>1, <1>5, <2>1, MatchGrows
  <2>3. n \in DOMAIN es2[environment].values
    BY <1>5
  <2> QED BY <1>8, <2>2, <2>3, MatchFill
<1>11. CallsOK(calls, code, scopes, es2, Len(classes), environment, b)
  <2>1. \A k \in 1..Len(calls) : ActOK(calls[k], code, scopes, es2, Len(classes))
    <3>1. PICK m \in Nat : m = Len(classes) /\ Len(classes) <= m
      BY <1>1
    <3>2. Len(es2) \in Nat /\ Extends(envs, es2)
      BY <1>1, <1>5
    <3> QED BY <1>0, <3>1, <3>2, CallsKeep
  <2>2. Global(environment, bound) => Global(environment, b)
    BY <1>8 DEF Global
  <2> QED BY <1>1, <2>1, <2>2 DEF CallsOK
<1>12. AccessOK(reached, es2)
  BY <1>5, ReachedGrows
<1>13. Len(es2) >= 1 /\ environment \in 1..Len(es2)
  BY <1>1, <1>5
<1> QED BY <1>0, <1>1, <1>3, <1>5, <1>6, <1>7, <1>8, <1>9, <1>10, <1>11, <1>12, <1>13, RunStep

\* The right side of a statement has a good value.
LEMMA RightOK ==
  ASSUME IInv, Running, Statement.op \in {"var", "make", "assign", "class", "return"}
  PROVE  /\ ValueOK(Right, code, Len(code), envs, Len(classes)) /\ Right \in ValueSet
         /\ Reached(RightReached, envs)
<1>0. phase = "run"
  BY DEF Running
<1>1. PICK S \in Seq(Scope) : S = Statement.scopes /\ Match(envs, environment, S, bound)
  BY RunningState
<1>2. CASE Given
  <2>1. PICK n \in AllNames, d \in {Statement.fromDistance} : n = Statement.from /\ d = Statement.fromDistance
    <3>1. Statement.from \in Names \cup {None}
      BY RunningState DEF Items
    <3> QED BY <1>2, <3>1 DEF Given, AllNames
  <2>2. d = Distance(n, S)
    <3>1. Resolved(Statement)
      BY RunningState
    <3> QED BY <1>1, <1>2, <2>1, <3>1 DEF Given, Resolved
  <2>3. ValueOK(Read(n, d), code, Len(code), envs, Len(classes))
    BY <1>0, <1>1, <2>2, ReachOK
  <2>4. Reached({Reach(n, d)}, envs)
    BY <1>0, <1>1, <2>2, ReachedIs
  <2>5. Right = Read(n, d) /\ RightReached = {Reach(n, d)}
    <3>1. Right = Read(Statement.from, Statement.fromDistance)
      BY <1>2 DEF Right
    <3>2. RightReached = {Reach(Statement.from, Statement.fromDistance)}
      BY <1>2 DEF RightReached
    <3> QED BY <2>1, <3>1, <3>2
  <2> QED BY <2>3, <2>4, <2>5 DEF ValueOK
<1>3. CASE ~Given
  <2>1. Right = Number /\ RightReached = {}
    BY <1>3 DEF Right, RightReached
  <2> QED BY <2>1, ConstantValues DEF Reached
<1> QED BY <1>2, <1>3

\* The name a statement is about leads to its variable.
LEMMA LeftOK ==
  ASSUME IInv, Running, Statement.op \in {"assign", "print", "call", "invoke", "this", "super"}
  PROVE  /\ Statement.name \in AllNames
         /\ Statement.distance = Distance(Statement.name, Statement.scopes)
         /\ Found(Statement.distance) \in 1..Len(envs)
         /\ Reached({Reach(Statement.name, Statement.distance)}, envs)
         /\ ValueOK(Callee, code, Len(code), envs, Len(classes))
<1>0. phase = "run"
  BY DEF Running
<1>1. PICK S \in Seq(Scope) : S = Statement.scopes /\ Match(envs, environment, S, bound)
  BY RunningState
<1>2. Resolved(Statement)
  BY RunningState
<1>3. PICK n \in AllNames, d \in {Statement.distance} : n = Statement.name /\ d = Statement.distance
  BY <1>2 DEF Resolved, AllNames
<1>4. d = Distance(n, S)
  BY <1>1, <1>2, <1>3 DEF Resolved
<1>5. /\ Found(d) \in 1..Len(envs) /\ ValueOK(Read(n, d), code, Len(code), envs, Len(classes))
      /\ Reached({Reach(n, d)}, envs)
  BY <1>0, <1>1, <1>4, ReachOK, ReachedIs
<1> QED BY <1>1, <1>3, <1>4, <1>5 DEF Callee

\* An instruction is executed only while the program runs.
LEMMA OpRuns ==
  ASSUME NEW op, Op(op)
  PROVE  Running /\ Statement.op = op
BY DEF Op, Running

\* var name = from; defines name in the current environment.
LEMMA VarStep ==
  ASSUME IInv, Var
  PROVE  IInv'
<1>1. Op("var") /\ Defines(Statement.name, Right, RightReached) /\ pc' = pc + 1
  BY DEF Var
<1>2. Running /\ Statement.op = "var"
  BY <1>1, OpRuns
<1>3. PICK n \in Names, v \in ValueSet : n = Statement.name /\ v = Right
  BY <1>2, RunningState, RightOK DEF Resolved
<1>4. ValueOK(v, code, Len(code), envs, Len(classes)) /\ Reached(RightReached, envs)
  BY <1>2, <1>3, RightOK
<1>5. ValueOK(v, code, Len(code), Defining(envs, environment, n, v), Len(classes))
  <2>1. /\ code \in Seq(Items) /\ envs \in Seq(Envs) /\ environment \in 1..Len(envs) /\ Len(classes) \in Nat
    BY <1>2, HeapState DEF Running
  <2>2. PICK es2 : es2 = Defining(envs, environment, n, v)
    OBVIOUS
  <2>3. n \in AllNames
    BY DEF AllNames
  <2>4. es2 \in Seq(Envs) /\ Extends(envs, es2)
    BY <2>1, <2>2, <2>3, DefineIs
  <2>5. Keeps(code, Len(code), envs, Len(classes), code, Len(code), es2, Len(classes))
    BY <2>1, <2>4 DEF Keeps
  <2> QED BY <1>4, <2>2, <2>5, ValueKeeps
<1>6. pc' \in 1..(Len(code) + 1) /\ Snap(code, scopes, pc') = TopSet(Statement.scopes, n)
  BY <1>1, <1>2, <1>3, RunningState DEF Following, Openers
<1> QED BY <1>1, <1>2, <1>3, <1>4, <1>5, <1>6, DefineStep

\* print and this reach a variable and change nothing.
LEMMA UseStep ==
  ASSUME IInv, Use
  PROVE  IInv'
<1>1. /\ Op("print") \/ Op("this")
      /\ access' = {Reach(Statement.name, Statement.distance)} /\ pc' = pc + 1
      /\ UNCHANGED <<fixed, envs, environment, classes, calls, throwing, bound>>
  BY DEF Use
<1>2. Running /\ Statement.op \in {"print", "this"}
  BY <1>1, OpRuns
<1>3. Reached({Reach(Statement.name, Statement.distance)}, envs)
  BY <1>2, LeftOK
<1>4. pc' \in 1..(Len(code) + 1) /\ Snap(code, scopes, pc') = Statement.scopes
  BY <1>1, <1>2, RunningState DEF Following, Openers
<1> QED BY <1>1, <1>2, <1>3, <1>4, GoOnStep

\* name = from; changes a variable where it is.
LEMMA AssignStep ==
  ASSUME IInv, Assign
  PROVE  IInv'
<1>0. Op("assign")
  BY DEF Assign
<1>1. Running /\ Statement.op = "assign" /\ phase = "run" /\ throwing = None
  BY <1>0, OpRuns DEF Running
<1>2. PICK n \in Names, v \in ValueSet, e \in 1..Len(envs) :
        n = Statement.name /\ v = Right /\ e = Found(Statement.distance)
  BY <1>1, RunningState, RightOK, LeftOK DEF Resolved
<1>3. PICK es2 : es2 = Defining(envs, e, n, v)
  OBVIOUS
<1>4. /\ envs' = es2 /\ pc' = pc + 1
      /\ access' = {Reach(Statement.name, Statement.distance)} \cup RightReached
      /\ UNCHANGED <<phase, code, start, scopes, brackets, currentFunction, currentClass, returned,
                     environment, classes, calls, throwing, bound>>
  BY <1>2, <1>3 DEF Assign, fixed, resolver
<1>5. /\ code \in Seq(Items) /\ envs \in Seq(Envs) /\ Len(envs) \in Nat \ {0} /\ environment \in 1..Len(envs)
      /\ classes \in Seq(Classes) /\ calls \in Seq(Acts) /\ bound \in Bounds /\ Len(classes) \in Nat
      /\ HeapOK(code, Len(code), envs, classes)
      /\ ValueOK(returned, code, Len(code), envs, Len(classes))
      /\ CallsOK(calls, code, scopes, envs, Len(classes), environment, bound)
  BY <1>1, HeapState
<1>6. es2 \in Seq(Envs) /\ Len(es2) = Len(envs) /\ Extends(envs, es2)
  <2>1. n \in AllNames
    BY DEF AllNames
  <2> QED BY <1>3, <1>5, <2>1, DefineIs
<1>7. Keeps(code, Len(code), envs, Len(classes), code, Len(code), es2, Len(classes))
  BY <1>5, <1>6 DEF Keeps
<1>8. ValueOK(v, code, Len(code), es2, Len(classes))
  BY <1>1, <1>2, <1>7, RightOK, ValueKeeps
<1>9. HeapOK(code, Len(code), es2, classes)
  BY <1>3, <1>5, <1>8, DefineHeap
<1>10. ValueOK(returned, code, Len(code), es2, Len(classes))
  BY <1>5, <1>7, ValueKeeps
<1>11. Reached({Reach(Statement.name, Statement.distance)} \cup RightReached, envs)
  <2>1. Reached({Reach(Statement.name, Statement.distance)}, envs) /\ Reached(RightReached, envs)
    BY <1>1, LeftOK, RightOK
  <2> QED BY <2>1 DEF Reached
<1>12. AccessOK(access', es2)
  BY <1>4, <1>6, <1>11, ReachedGrows
<1>13. CallsOK(calls, code, scopes, es2, Len(classes), environment, bound)
  <2>1. \A k \in 1..Len(calls) : ActOK(calls[k], code, scopes, es2, Len(classes))
    BY <1>1, <1>5, <1>6, CallsKeep
  <2> QED BY <1>5, <2>1 DEF CallsOK
<1>14. pc' \in 1..(Len(code) + 1) /\ Snap(code, scopes, pc') = Statement.scopes
  BY <1>1, <1>4, RunningState DEF Following, Openers
<1>15. PICK S \in Seq(Scope) : S = Statement.scopes /\ Match(envs, environment, S, bound)
  BY <1>1, RunningState
<1>16. Match(es2, environment, S, bound)
  BY <1>5, <1>6, <1>15, MatchGrows DEF Match
<1>17. Len(es2) >= 1 /\ environment \in 1..Len(es2)
  BY <1>5, <1>6
<1> QED BY <1>1, <1>4, <1>5, <1>6, <1>9, <1>10, <1>12, <1>13, <1>14, <1>15, <1>16, <1>17, RunStep

\* Adding environments twice is adding environments.
LEMMA ExtendsTransitive ==
  ASSUME NEW es, NEW es1, NEW es2, Extends(es, es1), Extends(es1, es2),
         Len(es) \in Nat, Len(es1) \in Nat, Len(es2) \in Nat
  PROVE  Extends(es, es2)
BY DEF Extends

\* A new environment for a new scope.
Binds(b2, b, T, new) == \A n \in AllNames : b2[n] = IF n \in DOMAIN T THEN new ELSE b[n]

Entered(cd, cl, es, es2, S, T, b2) ==
  /\ es2 \in Seq(Envs) /\ Len(es2) = Len(es) + 1 /\ Extends(es, es2)
  /\ HeapOK(cd, Len(cd), es2, cl) /\ Match(es2, Len(es2), Append(S, T), b2)

\* A scope with the variables of the new environment matches it.
LEMMA PushStep ==
  ASSUME NEW cd \in Seq(Items), NEW es \in Seq(Envs), NEW cl, Len(cl) \in Nat,
         HeapOK(cd, Len(cd), es, cl), Len(es) # 0,
         NEW S \in Seq(Scope), NEW b \in Bounds, NEW e, Match(es, e, S, b),
         NEW T \in Scope, NEW vals, Variables(vals, T, cd, es, Len(cl)),
         NEW b2, Binds(b2, b, T, Len(es) + 1)
  PROVE  Entered(cd, cl, es, Append(es, Environment(e, vals)), S, T, b2)
<1>0. vals \in Maps /\ DOMAIN T = DOMAIN vals
  BY DEF Variables
<1>1. e \in 1..Len(es)
  <2>1. PICK p : IsPath(p, es, e, Len(S))
    BY DEF Match, MatchBut
  <2>2. PICK l \in Nat : l = Len(S)
    OBVIOUS
  <2>3. p \in [0..l -> 1..Len(es)] /\ p[0] = e /\ 0 \in 0..l
    BY <2>1, <2>2 DEF IsPath
  <2> QED BY <2>3
<1>2. PICK es2 : es2 = Append(es, Environment(e, vals)) /\ NewEnvironment(es, e, vals, es2)
  BY <1>0, <1>1, PushIs
<1>3. /\ es2 \in Seq(Envs) /\ Len(es2) = Len(es) + 1 /\ Extends(es, es2) /\ Len(es) \in Nat
      /\ es2[Len(es) + 1].enclosing = e /\ es2[Len(es) + 1].values = vals
  BY <1>2 DEF NewEnvironment
<1>4. HeapOK(cd, Len(cd), es2, cl)
  BY <1>0, <1>1, <1>2, PushHeap
<1>5. PICK new \in 1..Len(es2) : new = Len(es2) /\ new # Globals /\ new = Len(es) + 1
  BY <1>3 DEF Globals
<1>6. Match(es2, e, S, b)
  BY <1>3, MatchGrows DEF Match
<1>7. es2[new].enclosing = e /\ DOMAIN T \subseteq DOMAIN es2[new].values
  BY <1>0, <1>3, <1>5
<1>8. Match(es2, new, Append(S, T), b2)
  <2>1. \A n \in AllNames : b2[n] = IF n \in DOMAIN T THEN new ELSE b[n]
    BY <1>5 DEF Binds
  <2>2. Len(es2) \in Nat \ {0}
    BY <1>3
  <2> QED BY <1>5, <1>6, <1>7, <2>1, <2>2, MatchPush
<1> QED BY <1>2, <1>3, <1>4, <1>5, <1>8 DEF Entered

\* The body of a block, or of a loop.
LEMMA BodyStep ==
  ASSUME IInv, Running, Statement.op \in {"block", "while"}, access' = {},
         NEW back \in 1..(Len(code) + 1), Snap(code, scopes, back) = Statement.scopes,
         ExecuteBlock("block", Append(envs, Environment(environment, Empty)), pc + 1, back, bound, NoResult)
  PROVE  IInv'
<1>0. phase = "run"
  BY DEF Running
<1>1. /\ code \in Seq(Items) /\ envs \in Seq(Envs) /\ Len(envs) \in Nat \ {0} /\ environment \in 1..Len(envs)
      /\ bound \in Bounds /\ Len(classes) \in Nat /\ HeapOK(code, Len(code), envs, classes)
  BY <1>0, HeapState
<1>2. PICK S \in Seq(Scope) : S = Statement.scopes /\ Match(envs, environment, S, bound)
  BY RunningState
<1>3. Empty \in Scope /\ Empty \in Maps /\ DOMAIN Empty = {}
  BY ScopesAre, MapsAre
<1>4. PICK es2 : es2 = Append(envs, Environment(environment, Empty))
  OBVIOUS
<1>5. /\ es2 \in Seq(Envs) /\ Len(es2) = Len(envs) + 1 /\ Extends(envs, es2)
      /\ HeapOK(code, Len(code), es2, classes) /\ Match(es2, Len(es2), Append(S, Empty), bound)
  <2>1. Variables(Empty, Empty, code, envs, Len(classes))
    BY <1>3 DEF Variables
  <2>2. Len(envs) # 0 /\ Binds(bound, bound, Empty, Len(envs) + 1)
    BY <1>1, <1>3 DEF Binds
  <2>3. Entered(code, classes, envs, Append(envs, Environment(environment, Empty)), S, Empty, bound)
    BY <1>1, <1>2, <1>3, <2>1, <2>2, PushStep
  <2> QED BY <1>4, <2>3 DEF Entered
<1>6. pc + 1 \in 1..(Len(code) + 1) /\ Snap(code, scopes, pc + 1) = Append(S, Empty)
  BY <1>2, RunningState DEF Following, Openers, Inner
<1>7. PICK r \in Results : r = NoResult /\ r.into = None /\ r.instance = Nil
  BY ConstantValues DEF Results, NoResult
<1>8. GoesOn(code, scopes, envs, environment, bound, back, None)
  BY <1>2 DEF GoesOn
<1>9. ValueOK(r.instance, code, Len(code), es2, Len(classes))
  BY <1>7, ConstantValues
<1>10. Reached(access', envs)
  BY DEF Reached
<1> QED BY <1>1, <1>4, <1>5, <1>6, <1>7, <1>8, <1>9, <1>10, EnterStep

\* A block goes on behind its end.
LEMMA BlockStep ==
  ASSUME IInv, Block
  PROVE  IInv'
<1>1. Running /\ Statement.op = "block" /\ access' = {}
  BY OpRuns DEF Block
<1>2. PICK back \in 1..(Len(code) + 1) : back = Statement.end + 1 /\ Snap(code, scopes, back) = Statement.scopes
  BY <1>1, RunningState DEF Openers, Outer
<1>3. ExecuteBlock("block", Append(envs, Environment(environment, Empty)), pc + 1, back, bound, NoResult)
  BY <1>2 DEF Block
<1> QED BY <1>1, <1>2, <1>3, BodyStep

\* A loop is entered again or left.
LEMMA WhileStep ==
  ASSUME IInv, While
  PROVE  IInv'
<1>1. Running /\ Statement.op = "while" /\ access' = {}
  BY OpRuns DEF While
<1>2. CASE ExecuteBlock("block", Append(envs, Environment(environment, Empty)), pc + 1, pc, bound, NoResult)
  <2>1. pc \in 1..(Len(code) + 1) /\ Snap(code, scopes, pc) = Statement.scopes
    <3>1. pc \in 1..Len(code) /\ Snap(code, scopes, pc) = Statement.scopes /\ Len(code) \in Nat
      BY <1>1, RunningState
    <3> QED BY <3>1
  <2> QED BY <1>1, <1>2, <2>1, BodyStep
<1>3. CASE /\ pc' = Statement.end + 1
           /\ UNCHANGED <<fixed, envs, environment, classes, calls, throwing, bound>>
  <2>1. pc' \in 1..(Len(code) + 1) /\ Snap(code, scopes, pc') = Statement.scopes
    BY <1>1, <1>3, RunningState DEF Openers, Outer
  <2>2. Reached(access', envs)
    BY <1>1 DEF Reached
  <2> QED BY <1>1, <1>3, <2>1, <2>2, GoOnStep
<1> QED BY <1>2, <1>3 DEF While

\* A function closes over the environment in which its name is defined.
LEMMA FunctionStep ==
  ASSUME IInv, Function
  PROVE  IInv'
<1>1. Running /\ Statement.op = "fun" /\ phase = "run"
  BY OpRuns DEF Function, Running
<1>2. PICK n \in Names : n = Statement.name
  BY <1>1, RunningState DEF Resolved
<1>3. PICK b, v : b = [bound EXCEPT ![n] = environment] /\ v = Value("fun", pc, environment, b)
  OBVIOUS
<1>4. Defines(n, v, {}) /\ pc' = Statement.end + 1
  BY <1>2, <1>3 DEF Function
<1>5. /\ code \in Seq(Items) /\ envs \in Seq(Envs) /\ Len(envs) \in Nat \ {0} /\ environment \in 1..Len(envs)
      /\ environment \in Nat /\ bound \in Bounds /\ Len(classes) \in Nat /\ n \in AllNames
  BY <1>1, HeapState DEF AllNames
<1>6. /\ pc \in 1..Len(code) /\ Statement.end \in (pc + 1)..Len(code) /\ Len(code) \in Nat
      /\ pc' \in 1..(Len(code) + 1) /\ Snap(code, scopes, pc') = TopSet(Statement.scopes, n)
  BY <1>1, <1>2, <1>4, RunningState DEF Openers, Outer
<1>7. pc \in 1..(Len(code) - 1) /\ pc \in Nat
  BY <1>6
<1>8. b \in Bounds /\ b[n] = environment
  BY <1>3, <1>5 DEF Bounds
<1>9. v \in ValueSet /\ v.kind = "fun" /\ v.at = pc /\ v.env = environment /\ v.bound = b
  BY <1>3, <1>5, <1>7, <1>8 DEF Value, ValueSet
<1>10. PICK es2 : es2 = Defining(envs, environment, n, v)
  OBVIOUS
<1>11. /\ es2 \in Seq(Envs) /\ Len(es2) = Len(envs) /\ Extends(envs, es2)
       /\ DOMAIN es2[environment].values = DOMAIN envs[environment].values \cup {n}
  BY <1>5, <1>9, <1>10, DefineIs
<1>12. PICK S \in Seq(Scope), T \in Seq(Scope) :
         S = Statement.scopes /\ T = TopSet(S, n) /\ Match(envs, environment, S, bound)
  BY <1>1, <1>5, RunningState, TopSetIs
<1>13. Match(es2, environment, T, b)
  <2>1. MatchBut(envs, environment, T, b, n)
    BY <1>3, <1>5, <1>12, MatchDefine
  <2>2. MatchBut(es2, environment, T, b, n)
    BY <1>5, <1>11, <2>1, MatchGrows
  <2>3. n \in DOMAIN es2[environment].values
    BY <1>11
  <2> QED BY <1>8, <2>2, <2>3, MatchFill
<1>14. ValueOK(v, code, Len(code), es2, Len(classes))
  <2>1. code[pc].op = "fun" /\ code[pc].name = n /\ code[pc].scopes = S
    BY <1>1, <1>2, <1>12, RunningState
  <2> QED BY <1>7, <1>9, <1>12, <1>13, <2>1 DEF ValueOK
<1>15. Reached({}, envs)
  BY DEF Reached
<1> QED BY <1>1, <1>4, <1>6, <1>9, <1>10, <1>14, <1>15, DefineStep

\* An environment with one variable.
LEMMA OneVariable ==
  ASSUME NEW n \in AllNames, NEW v \in ValueSet, NEW cd, NEW es, NEW k, ValueOK(v, cd, Len(cd), es, k),
         n = "super" => v.kind = "class"
  PROVE  Variables(Only(n, v), Only(n, TRUE), cd, es, k)
<1>1. PICK T, vals : T = Only(n, TRUE) /\ vals = Only(n, v)
  OBVIOUS
<1>2. vals \in Maps
  BY <1>1, MapsAre
<1>3. DOMAIN T = {n} /\ DOMAIN vals = {n} /\ vals[n] = v
  BY <1>1 DEF Only
<1> QED BY <1>1, <1>2, <1>3 DEF Variables

\* ... and what the names mean in it.
LEMMA OneBinding ==
  ASSUME NEW n \in AllNames, NEW b \in Bounds, NEW new \in Nat
  PROVE  [b EXCEPT ![n] = new] \in Bounds /\ Binds([b EXCEPT ![n] = new], b, Only(n, TRUE), new)
<1>1. PICK T, b2 : T = Only(n, TRUE) /\ b2 = [b EXCEPT ![n] = new]
  OBVIOUS
<1>2. DOMAIN T = {n}
  BY <1>1 DEF Only
<1>3. b2 \in Bounds /\ \A m \in AllNames : b2[m] = IF m = n THEN new ELSE b[m]
  BY <1>1 DEF Bounds
<1>4. Binds(b2, b, T, new)
  BY <1>2, <1>3 DEF Binds
<1> QED BY <1>1, <1>3, <1>4

\* The body of a function, in its new environment.
LEMMA CallBody ==
  ASSUME IInv, Running, NEW es \in Seq(Envs), Extends(envs, es), HeapOK(code, Len(code), es, classes),
         NEW at, at + 1 \in 1..(Len(code) + 1), NEW S \in Seq(Scope), NEW b \in Bounds, NEW e,
         Match(es, e, S, b), NEW T \in Scope, Snap(code, scopes, at + 1) = Append(S, T),
         NEW vals, Variables(vals, T, code, es, Len(classes)),
         NEW b2 \in Bounds, Binds(b2, b, T, Len(es) + 1),
         NEW result \in Results, ValueOK(result.instance, code, Len(code), envs, Len(classes)),
         GoesOn(code, scopes, envs, environment, bound, pc + 1, result.into), Reached(access', envs),
         ExecuteBlock("call", Append(es, Environment(e, vals)), at + 1, pc + 1, b2, result)
  PROVE  IInv'
<1>0. phase = "run"
  BY DEF Running
<1>1. /\ code \in Seq(Items) /\ envs \in Seq(Envs) /\ Len(envs) \in Nat \ {0} /\ Len(classes) \in Nat
      /\ Len(es) \in Nat /\ Len(es) # 0 /\ Len(code) \in Nat
  BY <1>0, HeapState DEF Extends
<1>2. PICK es2 : es2 = Append(es, Environment(e, vals))
  OBVIOUS
<1>3. Entered(code, classes, es, es2, S, T, b2)
  BY <1>1, <1>2, PushStep
<1>4. /\ es2 \in Seq(Envs) /\ Len(es2) = Len(es) + 1 /\ Extends(es, es2)
      /\ HeapOK(code, Len(code), es2, classes) /\ Match(es2, Len(es2), Snap(code, scopes, at + 1), b2)
  BY <1>3 DEF Entered
<1>5. Len(es2) \in Nat
  BY <1>1, <1>4
<1>6. Extends(envs, es2)
  BY <1>1, <1>4, <1>5, ExtendsTransitive
<1>7. ValueOK(result.instance, code, Len(code), es2, Len(classes))
  <2>1. Keeps(code, Len(code), envs, Len(classes), code, Len(code), es2, Len(classes))
    BY <1>1, <1>5, <1>6 DEF Keeps
  <2> QED BY <2>1, ValueKeeps
<1>8. pc + 1 \in 1..(Len(code) + 1)
  BY RunningState
<1>9. ExecuteBlock("call", es2, at + 1, pc + 1, b2, result)
  BY <1>2
<1> QED BY <1>4, <1>6, <1>7, <1>8, <1>9, EnterStep

\* LoxFunction.call, when the function's environment matches its scopes.
LEMMA CallFunctionStep ==
  ASSUME IInv, Running, NEW es \in Seq(Envs), Extends(envs, es), HeapOK(code, Len(code), es, classes),
         NEW f, f.at + 1 \in 1..(Len(code) + 1), NEW S \in Seq(Scope), f.bound \in Bounds,
         Match(es, f.env, S, f.bound), NEW param \in Names \cup {None}, param = code[f.at].from,
         Snap(code, scopes, f.at + 1) = Append(S, Parameters(param)),
         NEW result \in Results, ValueOK(result.instance, code, Len(code), envs, Len(classes)),
         GoesOn(code, scopes, envs, environment, bound, pc + 1, result.into),
         Reached(access', envs), CallFunction(f, es, result)
  PROVE  IInv'
<1>1. Len(es) + 1 \in Nat
  OBVIOUS
<1>2. PICK b \in Bounds, e \in {f.env}, at \in {f.at} : b = f.bound /\ e = f.env /\ at = f.at
  OBVIOUS
<1>3. at + 1 \in 1..(Len(code) + 1) /\ Match(es, e, S, b)
  BY <1>2
<1>4. CASE param = None
  <2>1. Empty \in Scope /\ Empty \in Maps /\ DOMAIN Empty = {}
    BY ScopesAre, MapsAre
  <2>2. Snap(code, scopes, at + 1) = Append(S, Empty)
    BY <1>2, <1>4 DEF Parameters
  <2>3. ExecuteBlock("call", Append(es, Environment(e, Empty)), at + 1, pc + 1, b, result)
    BY <1>2, <1>4 DEF CallFunction
  <2>4. Variables(Empty, Empty, code, es, Len(classes)) /\ Binds(b, b, Empty, Len(es) + 1)
    BY <2>1 DEF Variables, Binds
  <2> QED BY <1>3, <2>1, <2>2, <2>3, <2>4, CallBody
<1>5. CASE param # None
  <2>1. param \in AllNames /\ param # "super"
    BY <1>5, NoneIsNoName DEF AllNames
  <2>0. PICK T \in Scope, vals \in {Only(param, Number)} : T = Only(param, TRUE) /\ vals = Only(param, Number)
    BY <2>1, ScopesAre
  <2>2. PICK b2 : b2 = [b EXCEPT ![param] = Len(es) + 1]
    OBVIOUS
  <2>3. Snap(code, scopes, at + 1) = Append(S, T)
    BY <1>2, <1>5, <2>0 DEF Parameters
  <2>4. ExecuteBlock("call", Append(es, Environment(e, vals)), at + 1, pc + 1, b2, result)
    BY <1>2, <1>5, <2>0, <2>2 DEF CallFunction
  <2>5. Variables(vals, T, code, es, Len(classes))
    BY <2>0, <2>1, OneVariable, ConstantValues
  <2>6. b2 \in Bounds /\ Binds(b2, b, T, Len(es) + 1)
    BY <1>1, <2>0, <2>1, <2>2, OneBinding
  <2> QED BY <1>3, <2>3, <2>4, <2>5, <2>6, CallBody
<1> QED BY <1>4, <1>5

\* findMethod returns a method that may be bound, if any.
LEMMA FoundMethod ==
  ASSUME IInv, phase = "run", NEW c \in 0..Len(classes), NEW name \in {"method", "init"}
  PROVE  MethodOK(FindMethod(c, name), code, Len(code), envs)
<1>1. classes \in Seq(Classes) /\ HeapOK(code, Len(code), envs, classes)
  BY HeapState
<1>2. \A k \in 1..Len(classes) : /\ classes[k].super \in 0..(k - 1)
                                 /\ MethodOK(classes[k].method, code, Len(code), envs)
                                 /\ MethodOK(classes[k].init, code, Len(code), envs)
  BY <1>1 DEF HeapOK
<1>3. PICK m : m = FindMethod(c, name)
  OBVIOUS
<1>4. m = Nil \/ \E k \in 1..Len(classes) : m = classes[k][name]
  BY <1>1, <1>2, <1>3, FindMethodIs
<1>5. CASE m = Nil
  BY <1>3, <1>5 DEF MethodOK
<1>6. CASE m # Nil
  <2>1. PICK k \in 1..Len(classes) : m = classes[k][name]
    BY <1>4, <1>6
  <2>2. m = classes[k].method \/ m = classes[k].init
    BY <2>1
  <2> QED BY <1>2, <1>3, <2>2
<1> QED BY <1>5, <1>6

\* bind and call: the environment of this is between the method's and the body's.
LEMMA MethodStep ==
  ASSUME IInv, Running, NEW m, MethodOK(m, code, Len(code), envs), m # Nil,
         NEW instance, ValueOK(instance, code, Len(code), envs, Len(classes)),
         NEW result \in Results, ValueOK(result.instance, code, Len(code), envs, Len(classes)),
         GoesOn(code, scopes, envs, environment, bound, pc + 1, result.into),
         Reached(access', envs), CallMethod(m, instance, result)
  PROVE  IInv'
<1>0. phase = "run"
  BY DEF Running
<1>1. /\ code \in Seq(Items) /\ Len(code) \in Nat /\ envs \in Seq(Envs) /\ Len(envs) \in Nat /\ Len(envs) # 0
      /\ Len(classes) \in Nat /\ HeapOK(code, Len(code), envs, classes) /\ instance \in ValueSet
  BY <1>0, HeapState DEF ValueOK
<1>2. m \in ValueSet /\ m.at \in 1..(Len(code) - 1) /\ code[m.at].op \in {"method", "init"}
  BY DEF MethodOK
<1>3. PICK from \in Names \cup {None} : /\ code[m.at].scopes = ClassScopes(from)
                                        /\ Match(envs, m.env, SuperScopes(from), m.bound)
  BY DEF MethodOK
<1>4. PICK S \in Seq(Scope), C \in Seq(Scope), T \in Scope :
        S = SuperScopes(from) /\ C = ClassScopes(from) /\ T = Only("this", TRUE) /\ C = Append(S, T)
  BY ClassScopesAre, ScopesAre DEF AllNames
<1>5. PICK this \in Nat : this = Len(envs) + 1
  BY <1>1
<1>6. PICK b \in Bounds, e \in {m.env}, at \in {m.at} : b = m.bound /\ e = m.env /\ at = m.at
  BY <1>2 DEF ValueSet
<1>7. PICK b2 : b2 = [b EXCEPT !["this"] = this]
  OBVIOUS
<1>8. "this" \in AllNames
  BY DEF AllNames
<1>9. b2 \in Bounds /\ Binds(b2, b, T, this)
  BY <1>4, <1>7, <1>8, OneBinding
<1>10. PICK f : f = [m EXCEPT !.env = this, !.bound["this"] = this]
  OBVIOUS
<1>11. f.at = at /\ f.env = this /\ f.bound = b2
  BY <1>2, <1>6, <1>7, <1>10 DEF ValueSet
<1>12. PICK vals, es : vals = Only("this", instance) /\ es = Append(envs, Environment(e, vals))
  OBVIOUS
<1>13. Variables(vals, T, code, envs, Len(classes))
  BY <1>1, <1>4, <1>8, <1>12, OneVariable
<1>14. Entered(code, classes, envs, es, S, T, b2)
  <2>1. Binds(b2, b, T, Len(envs) + 1) /\ Match(envs, e, S, b)
    BY <1>3, <1>4, <1>5, <1>6, <1>9
  <2> QED BY <1>1, <1>12, <1>13, <2>1, PushStep
<1>15. /\ es \in Seq(Envs) /\ Extends(envs, es) /\ HeapOK(code, Len(code), es, classes)
       /\ Match(es, this, C, b2)
  BY <1>4, <1>5, <1>14 DEF Entered
<1>16. /\ at \in 1..Len(code) /\ at + 1 \in 1..(Len(code) + 1) /\ code[at].op \in {"method", "init"}
       /\ code[at].scopes = C
  <2>1. at \in 1..Len(code) /\ at + 1 \in 1..(Len(code) + 1)
    BY <1>1, <1>2, <1>6
  <2> QED BY <1>2, <1>3, <1>4, <1>6, <2>1
<1>17. code[at].from = None /\ Snap(code, scopes, at + 1) = Append(C, Empty)
  <2>1. Resolved(code[at]) /\ (code[at].op # "end" => Snap(code, scopes, at + 1) = Following(code[at]))
    BY <1>16 DEF IInv, CodeInv, Static
  <2> QED BY <1>16, <2>1 DEF Resolved, Following, Openers, Inner
<1>18. CallFunction(f, es, result)
  BY <1>5, <1>6, <1>10, <1>12 DEF CallMethod
<1>19. PICK param \in Names \cup {None} : param = None
  OBVIOUS
<1>20. Parameters(param) = Empty
  BY <1>19 DEF Parameters
<1> QED BY <1>9, <1>11, <1>15, <1>16, <1>17, <1>18, <1>19, <1>20, CallFunctionStep

\* LoxClass.call with an initializer.
LEMMA ConstructStep ==
  ASSUME IInv, Running, NEW class, ValueOK(class, code, Len(code), envs, Len(classes)), class.kind = "class",
         NEW into \in Names \cup {None},
         GoesOn(code, scopes, envs, environment, bound, pc + 1, into),
         Reached(access', envs), Construct(class, into)
  PROVE  IInv'
<1>0. phase = "run" /\ Len(classes) \in Nat
  BY HeapState DEF Running
<1>1. class \in ValueSet /\ class.at \in 1..Len(classes) /\ class.at \in 0..Len(classes)
  BY <1>0 DEF ValueOK
<1>2. PICK m, i : m = FindMethod(class.at, "init") /\ i = Instance(class)
  OBVIOUS
<1>3. PICK r : r = [into |-> into, instance |-> i]
  OBVIOUS
<1>4. m # Nil /\ CallMethod(m, i, r)
  BY <1>2, <1>3 DEF Construct, HasInit
<1>5. MethodOK(m, code, Len(code), envs)
  BY <1>0, <1>1, <1>2, FoundMethod
<1>6. i \in ValueSet /\ i.kind = "instance" /\ i.at = class.at
  BY <1>1, <1>2 DEF Instance, ValueSet
<1>7. ValueOK(i, code, Len(code), envs, Len(classes))
  BY <1>1, <1>6 DEF ValueOK
<1>8. r \in Results /\ r.into = into /\ r.instance = i
  BY <1>3, <1>6 DEF Results
<1> QED BY <1>4, <1>5, <1>7, <1>8, MethodStep

\* A call whose result is dropped.
LEMMA NoResultIs == NoResult \in Results /\ NoResult.into = None /\ NoResult.instance = Nil
BY ConstantValues DEF Results, NoResult

\* A function that a value refers to is called.
LEMMA FunctionCall ==
  ASSUME IInv, Running, NEW f, ValueOK(f, code, Len(code), envs, Len(classes)), f.kind = "fun",
         NEW result \in Results, ValueOK(result.instance, code, Len(code), envs, Len(classes)),
         GoesOn(code, scopes, envs, environment, bound, pc + 1, result.into),
         Reached(access', envs), CallFunction(f, envs, result)
  PROVE  IInv'
<1>0. phase = "run"
  BY DEF Running
<1>1. /\ code \in Seq(Items) /\ Len(code) \in Nat /\ envs \in Seq(Envs) /\ Len(envs) \in Nat
      /\ HeapOK(code, Len(code), envs, classes)
  BY <1>0, HeapState
<1>2. /\ f \in ValueSet /\ f.at \in 1..(Len(code) - 1) /\ code[f.at].op = "fun" /\ code[f.at].name \in Names
      /\ Match(envs, f.env, TopSet(code[f.at].scopes, code[f.at].name), f.bound)
  BY DEF ValueOK
<1>3. f.at \in 1..Len(code) /\ f.at + 1 \in 1..(Len(code) + 1) /\ f.bound \in Bounds
  BY <1>1, <1>2 DEF ValueSet
<1>4. PICK it \in Items : it = code[f.at]
  BY <1>1, <1>3
<1>5. PICK S \in Seq(Scope), param \in Names \cup {None} : S = TopSet(it.scopes, it.name) /\ param = it.from
  BY <1>2, <1>4, TopSetIs DEF Items, AllNames
<1>6. Snap(code, scopes, f.at + 1) = Append(S, Parameters(param))
  <2>1. code[f.at].op # "end" => Snap(code, scopes, f.at + 1) = Following(code[f.at])
    BY <1>3 DEF IInv, CodeInv, Static
  <2> QED BY <1>2, <1>4, <1>5, <2>1 DEF Following, Openers, Inner
<1>7. Extends(envs, envs)
  BY <1>1 DEF Extends
<1>8. Match(envs, f.env, S, f.bound) /\ param = code[f.at].from
  BY <1>2, <1>4, <1>5
<1> QED BY <1>1, <1>3, <1>6, <1>7, <1>8, CallFunctionStep

\* name(); calls a function or makes an instance, and drops the result.
LEMMA CallStep ==
  ASSUME IInv, Call
  PROVE  IInv'
<1>1. Running /\ Statement.op = "call" /\ phase = "run"
  BY OpRuns DEF Call, Running
<1>2. /\ access' = {Reach(Statement.name, Statement.distance)} /\ Reached(access', envs)
      /\ ValueOK(Callee, code, Len(code), envs, Len(classes))
  BY <1>1, LeftOK DEF Call
<1>3. /\ Match(envs, environment, Statement.scopes, bound) /\ pc + 1 \in 1..(Len(code) + 1)
      /\ Snap(code, scopes, pc + 1) = Statement.scopes
  BY <1>1, RunningState DEF Following, Openers
<1>4. GoesOn(code, scopes, envs, environment, bound, pc + 1, None)
  BY <1>3 DEF GoesOn
<1>5. PICK v : v = Callee /\ ValueOK(v, code, Len(code), envs, Len(classes))
  BY <1>2
<1>6. CASE v.kind = "fun" /\ CallFunction(v, envs, NoResult)
  <2>1. PICK r \in Results : r = NoResult /\ r.into = None /\ r.instance = Nil
    BY NoResultIs, Zenon
  <2>2. ValueOK(r.instance, code, Len(code), envs, Len(classes))
    BY <2>1, ConstantValues
  <2> QED BY <1>1, <1>2, <1>4, <1>5, <1>6, <2>1, <2>2, FunctionCall
<1>7. CASE v.kind = "class" /\ Construct(v, None)
  <2>1. PICK into \in Names \cup {None} : into = None
    OBVIOUS
  <2> QED BY <1>1, <1>2, <1>4, <1>5, <1>7, <2>1, ConstructStep
<1>8. CASE /\ pc' = pc + 1
           /\ UNCHANGED <<fixed, envs, environment, classes, calls, throwing, bound>>
  BY <1>1, <1>2, <1>3, <1>8, GoOnStep
<1> QED BY <1>5, <1>6, <1>7, <1>8 DEF Call

\* var name = from(); defines name when the call is over.
LEMMA MakeStep ==
  ASSUME IInv, Make
  PROVE  IInv'
<1>1. Running /\ Statement.op = "make" /\ phase = "run"
  BY OpRuns DEF Make, Running
<1>0. PICK v, acc, n : v = Right /\ acc = RightReached /\ n = Statement.name
  OBVIOUS
<1>2. v \in ValueSet /\ n \in Names
  <2>1. Statement.name \in Names
    BY <1>1, RunningState DEF Resolved
  <2>2. Right \in ValueSet
    BY <1>1, RightOK
  <2> QED BY <1>0, <2>1, <2>2
<1>3. ValueOK(v, code, Len(code), envs, Len(classes)) /\ Reached(acc, envs)
  BY <1>0, <1>1, RightOK
<1>4. PICK S \in Seq(Scope) : S = Statement.scopes /\ Match(envs, environment, S, bound)
  BY <1>1, RunningState
<1>5. pc + 1 \in 1..(Len(code) + 1) /\ Snap(code, scopes, pc + 1) = TopSet(S, n)
  BY <1>0, <1>1, <1>4, RunningState DEF Following, Openers
<1>6. /\ code \in Seq(Items) /\ envs \in Seq(Envs) /\ Len(envs) \in Nat \ {0} /\ environment \in 1..Len(envs)
      /\ bound \in Bounds /\ Len(classes) \in Nat
  BY <1>1, HeapState
<1>7. GoesOn(code, scopes, envs, environment, bound, pc + 1, n)
  <2>1. n # None
    BY <1>2, NoneIsNoName
  <2>2. MatchBut(envs, environment, TopSet(S, n), [bound EXCEPT ![n] = environment], n)
    BY <1>2, <1>4, <1>6, MatchDefine
  <2> QED BY <1>5, <2>1, <2>2 DEF GoesOn
<1>8. CASE v.kind = "fun" /\ access' = acc /\ CallFunction(v, envs, [into |-> n, instance |-> Nil])
  <2>1. PICK r : r = [into |-> n, instance |-> Nil]
    OBVIOUS
  <2>3. r \in Results /\ r.into = n /\ r.instance = Nil
    BY <1>2, <2>1, ConstantValues DEF Results
  <2>2. ValueOK(r.instance, code, Len(code), envs, Len(classes))
    BY <2>3, ConstantValues
  <2> QED BY <1>1, <1>3, <1>7, <1>8, <2>1, <2>2, <2>3, FunctionCall
<1>9. CASE v.kind = "class" /\ access' = acc /\ Construct(v, n)
  <2>1. n \in Names \cup {None}
    BY <1>2
  <2> QED BY <1>1, <1>3, <1>7, <1>9, <2>1, ConstructStep
<1>10. CASE v.kind = "class" /\ pc' = pc + 1 /\ Defines(n, Instance(v), acc)
  <2>1. PICK i : i = Instance(v)
    OBVIOUS
  <2>2. i \in ValueSet /\ i.kind = "instance" /\ i.at = v.at /\ v.at \in 1..Len(classes)
    BY <1>2, <1>3, <1>10, <2>1 DEF Instance, ValueSet, ValueOK
  <2>3. ValueOK(i, code, Len(code), Defining(envs, environment, n, i), Len(classes))
    BY <2>2 DEF ValueOK
  <2>4. Defines(n, i, acc) /\ pc' \in 1..(Len(code) + 1)
        /\ Snap(code, scopes, pc') = TopSet(Statement.scopes, n)
    BY <1>4, <1>5, <1>10, <2>1
  <2> QED BY <1>1, <1>2, <1>3, <2>2, <2>3, <2>4, DefineStep
<1> QED BY <1>0, <1>8, <1>9, <1>10 DEF Make

\* name.m(); finds a method of the class of the instance.
LEMMA InvokeStep ==
  ASSUME IInv, Invoke
  PROVE  IInv'
<1>1. Running /\ Statement.op = "invoke" /\ phase = "run" /\ Len(classes) \in Nat
  BY OpRuns, HeapState DEF Invoke, Running
<1>2. /\ access' = {Reach(Statement.name, Statement.distance)} /\ Reached(access', envs)
      /\ ValueOK(Callee, code, Len(code), envs, Len(classes))
  BY <1>1, LeftOK DEF Invoke
<1>3. /\ Match(envs, environment, Statement.scopes, bound)
      /\ Snap(code, scopes, pc + 1) = Statement.scopes
  BY <1>1, RunningState DEF Following, Openers
<1>4. GoesOn(code, scopes, envs, environment, bound, pc + 1, None)
  BY <1>3 DEF GoesOn
<1>5. PICK v, m : v = Callee /\ m = FindMethod(v.at, "method")
  OBVIOUS
<1>6. v.kind = "instance" /\ m # Nil /\ CallMethod(m, v, NoResult)
  BY <1>5 DEF Invoke
<1>7. ValueOK(v, code, Len(code), envs, Len(classes)) /\ v.at \in 0..Len(classes)
  BY <1>1, <1>2, <1>5, <1>6 DEF ValueOK
<1>8. MethodOK(m, code, Len(code), envs)
  BY <1>1, <1>5, <1>7, FoundMethod
<1>9. PICK r \in Results : r = NoResult /\ r.into = None /\ r.instance = Nil
  BY NoResultIs, Zenon
<1>10. ValueOK(r.instance, code, Len(code), envs, Len(classes))
  BY <1>9, ConstantValues
<1> QED BY <1>1, <1>2, <1>4, <1>6, <1>7, <1>8, <1>9, <1>10, MethodStep

\* super.m(): this is found one environment nearer than super.
LEMMA SuperStep ==
  ASSUME IInv, Super
  PROVE  IInv'
<1>1. Running /\ Statement.op = "super" /\ phase = "run" /\ Len(classes) \in Nat
  BY OpRuns, HeapState DEF Super, Running
<1>2. PICK S \in Seq(Scope) : S = Statement.scopes /\ Match(envs, environment, S, bound)
  BY <1>1, RunningState
<1>3. PICK d, t : d = Statement.distance /\ t = d - 1
  OBVIOUS
<1>4. /\ d = Distance("super", S) /\ t = Distance("this", S) /\ d # Unresolved
      /\ "this" \in AllNames /\ "super" \in AllNames
  BY <1>1, <1>2, <1>3, RunningState DEF Resolved, AllNames
<1>5. PICK c, i, m : c = Read("super", d) /\ i = Read("this", t) /\ m = FindMethod(c.at, "method")
  OBVIOUS
<1>6. m # Nil /\ access' = {Reach("super", d), Reach("this", t)} /\ CallMethod(m, i, NoResult)
  BY <1>3, <1>5 DEF Super
<1>7. ValueOK(c, code, Len(code), envs, Len(classes)) /\ c.kind = "class"
  BY <1>1, <1>2, <1>4, <1>5, ReachOK
<1>8. ValueOK(i, code, Len(code), envs, Len(classes))
  BY <1>1, <1>2, <1>4, <1>5, ReachOK
<1>9. c.at \in 0..Len(classes)
  BY <1>1, <1>7 DEF ValueOK
<1>10. MethodOK(m, code, Len(code), envs)
  BY <1>1, <1>5, <1>9, FoundMethod
<1>11. Reached(access', envs)
  <2>1. Reached({Reach("super", d)}, envs) /\ Reached({Reach("this", t)}, envs)
    BY <1>1, <1>2, <1>4, ReachedIs
  <2> QED BY <1>6, <2>1 DEF Reached
<1>12. GoesOn(code, scopes, envs, environment, bound, pc + 1, None)
  BY <1>1, <1>2, RunningState DEF Following, Openers, GoesOn
<1>13. PICK r \in Results : r = NoResult /\ r.into = None /\ r.instance = Nil
  BY NoResultIs, Zenon
<1>14. ValueOK(r.instance, code, Len(code), envs, Len(classes))
  BY <1>13, ConstantValues
<1> QED BY <1>1, <1>6, <1>8, <1>10, <1>11, <1>12, <1>13, <1>14, MethodStep

\* The end of a body is inside of an activation.
LEMMA EndStep ==
  ASSUME IInv, End
  PROVE  IInv'
<1>1. Running /\ Statement.op = "end" /\ phase = "run" /\ throwing = None
  BY OpRuns DEF End, Running
<1>2. PICK S \in Seq(Scope) : S = Statement.scopes /\ Match(envs, environment, S, bound) /\ S # <<>>
  BY <1>1, RunningState DEF Resolved
<1>3. environment # Globals
  BY <1>2, MatchNotGlobal
<1>4. calls # <<>>
  BY <1>1, <1>3, HeapState DEF CallsOK, Global
<1>5. PICK c, v : c = Last(calls) /\ v = Nil
  OBVIOUS
<1>6. /\ environment' = c.previous /\ pc' = c.back /\ Returns(c, v) /\ calls' = Front(calls) /\ access' = {}
      /\ throwing' = None /\ returned' = returned
      /\ UNCHANGED <<phase, code, start, scopes, brackets, currentFunction, currentClass, classes>>
  BY <1>1, <1>5 DEF End, fixed, resolver
<1>7. ValueOK(v, code, Len(code), envs, Len(classes))
  BY <1>5, ConstantValues
<1> QED BY <1>1, <1>4, <1>5, <1>6, <1>7, LeaveStep

\* A Return carries a good value; nothing else changes.
LEMMA ThrowStep ==
  ASSUME IInv, Throw
  PROVE  IInv'
<1>1. /\ UNCHANGED <<phase, code, start, scopes, brackets, currentFunction, currentClass>>
      /\ UNCHANGED <<envs, environment, classes, pc, calls, bound>>
  BY DEF Throw, resolver
<1>2. /\ phase = "run" /\ throwing' \in {"Return", "RuntimeError"} /\ Reached(access', envs)
      /\ ValueOK(returned', code, Len(code), envs, Len(classes))
  <2>1. CASE /\ Op("return") /\ throwing' = "Return" /\ returned' = (IF Given THEN Right ELSE Nil)
             /\ access' = RightReached
    <3>1. Running /\ Statement.op = "return"
      BY <2>1, OpRuns
    <3>2. ValueOK(Right, code, Len(code), envs, Len(classes)) /\ Reached(RightReached, envs)
      BY <3>1, RightOK
    <3>3. ValueOK(returned', code, Len(code), envs, Len(classes))
      <4>1. CASE Given
        BY <2>1, <3>2, <4>1
      <4>2. CASE ~Given
        BY <2>1, <4>2, ConstantValues
      <4> QED BY <4>1, <4>2
    <3> QED BY <2>1, <3>1, <3>2, <3>3 DEF Running
  <2>2. CASE Fails /\ throwing' = "RuntimeError" /\ access' = {} /\ returned' = returned
    <3>1. phase = "run"
      BY <2>2 DEF Fails, Op
    <3>2. Reached({}, envs)
      BY DEF Reached
    <3> QED BY <2>2, <3>1, <3>2, HeapState
  <2> QED BY <2>1, <2>2 DEF Throw
<1>3. /\ envs \in Seq(Envs) /\ Len(envs) >= 1 /\ environment \in 1..Len(envs)
      /\ classes \in Seq(Classes) /\ calls \in Seq(Acts) /\ bound \in Bounds
      /\ HeapOK(code, Len(code), envs, classes)
      /\ CallsOK(calls, code, scopes, envs, Len(classes), environment, bound)
  BY <1>2, HeapState
<1>4. AccessOK(access', envs)
  BY <1>2 DEF Reached, AccessOK
<1>5. throwing' # None /\ throwing' \in {None, "Return", "RuntimeError"}
  BY <1>2 DEF None
<1> QED BY <1>1, <1>2, <1>3, <1>4, <1>5, RunStep

\* executeBlock's finally, whether or not the call catches a Return.
LEMMA FinallyStep ==
  ASSUME IInv, Finally
  PROVE  IInv'
<1>1. throwing # None /\ calls # <<>> /\ phase = "run"
  BY DEF Finally, IInv, RunInv, Types
<1>2. /\ code \in Seq(Items) /\ Len(code) \in Nat /\ scopes \in Seq(Scope)
      /\ envs \in Seq(Envs) /\ Len(envs) \in Nat \ {0} /\ classes \in Seq(Classes) /\ Len(classes) \in Nat
      /\ calls \in Seq(Acts) /\ throwing \in {None, "Return", "RuntimeError"}
      /\ HeapOK(code, Len(code), envs, classes)
      /\ ValueOK(returned, code, Len(code), envs, Len(classes))
      /\ CallsOK(calls, code, scopes, envs, Len(classes), environment, bound)
  BY <1>1, HeapState
<1>3. PICK c : c = Last(calls)
  OBVIOUS
<1>4. /\ environment' = c.previous /\ calls' = Front(calls) /\ access' = {}
      /\ UNCHANGED <<phase, code, start, scopes, brackets, currentFunction, currentClass, classes>>
  BY <1>3 DEF Finally, resolver
<1>5. CASE throwing = "Return" /\ c.kind = "call"
  <2>1. throwing' = None /\ returned' = Nil /\ pc' = c.back /\ Returns(c, returned)
    BY <1>3, <1>5 DEF Finally
  <2> QED BY <1>1, <1>2, <1>3, <1>4, <2>1, LeaveStep
<1>6. CASE ~(throwing = "Return" /\ c.kind = "call")
  <2>1. bound' = c.bound /\ UNCHANGED <<throwing, returned, pc, envs>>
    BY <1>3, <1>6 DEF Finally
  <2>2. PICK l \in 1..Len(calls) : l = Len(calls) /\ c = calls[l] /\ l \in Nat \ {0}
    BY <1>1, <1>2, <1>3 DEF Last
  <2>3. c \in Acts /\ ActOK(c, code, scopes, envs, Len(classes))
    BY <1>2, <2>2 DEF CallsOK
  <2>4. c.previous \in 1..Len(envs) /\ c.bound \in Bounds
    BY <2>3 DEF ActOK, Acts
  <2>5. PICK cs2 : cs2 = Front(calls)
    OBVIOUS
  <2>6. cs2 \in Seq(Acts) /\ Len(cs2) = l - 1 /\ \A k \in 1..(l - 1) : cs2[k] = calls[k]
    BY <1>2, <2>2, <2>5 DEF Front
  <2>7. CallsOK(cs2, code, scopes, envs, Len(classes), c.previous, c.bound)
    <3>1. \A k \in 1..Len(cs2) : ActOK(cs2[k], code, scopes, envs, Len(classes))
      BY <1>2, <2>2, <2>6 DEF CallsOK
    <3>2. Global(calls[1].previous, calls[1].bound)
      BY <1>1, <1>2 DEF CallsOK
    <3>3. CASE l = 1
      <4>1. cs2 = <<>>
        BY <2>6, <3>3
      <4> QED BY <2>2, <3>1, <3>2, <3>3, <4>1 DEF CallsOK
    <3>4. CASE l # 1
      <4>1. 1 \in 1..(l - 1) /\ Len(cs2) # 0
        BY <2>2, <2>6, <3>4
      <4>2. cs2 # <<>> /\ cs2[1] = calls[1]
        BY <2>6, <4>1
      <4> QED BY <3>1, <3>2, <4>2 DEF CallsOK
    <3> QED BY <3>3, <3>4
  <2>8. AccessOK({}, envs) /\ Len(envs) >= 1
    BY <1>2 DEF AccessOK
  <2> QED BY <1>1, <1>2, <1>4, <2>1, <2>4, <2>5, <2>6, <2>7, <2>8, RunStep
<1> QED BY <1>5, <1>6

\* The environment for super, if there is one, matches the scopes around that of this.
ForSuper(n, b1, env, es, scope) ==
  /\ b1 = [bound EXCEPT ![n] = environment]
  /\ env = IF Given THEN Len(envs) + 1 ELSE environment
  /\ es = IF Given THEN Append(envs, Environment(environment, Only("super", Right))) ELSE envs
  /\ scope = [b1 EXCEPT !["super"] = IF Given THEN env ELSE b1["super"]]

\* ... and the methods of the class may be bound in it.
LEMMA ClassEnvironment ==
  ASSUME IInv, Running, Statement.op = "class", Given => Right.kind = "class",
         NEW n \in Names, n = Statement.name, NEW from \in Names \cup {None}, from = Statement.from,
         NEW b1, NEW env, NEW es, NEW scope, ForSuper(n, b1, env, es, scope)
  PROVE  /\ es \in Seq(Envs) /\ Extends(envs, es) /\ HeapOK(code, Len(code), es, classes)
         /\ Match(es, env, SuperScopes(from), scope) /\ scope \in Bounds /\ env \in Nat
         /\ b1 \in Bounds /\ Global(environment, b1)
<1>0. phase = "run"
  BY DEF Running
<1>1. /\ code \in Seq(Items) /\ envs \in Seq(Envs) /\ Len(envs) \in Nat \ {0} /\ environment \in 1..Len(envs)
      /\ environment \in Nat /\ bound \in Bounds /\ Len(classes) \in Nat
      /\ HeapOK(code, Len(code), envs, classes)
  BY <1>0, HeapState
<1>2. Match(envs, environment, <<>>, bound)
  BY RunningState DEF Resolved
<1>3. Global(environment, bound)
  BY <1>2, MatchGlobal DEF Match
<1>4. n \in AllNames /\ "super" \in AllNames
  BY DEF AllNames
<1>5. b1 \in Bounds /\ \A m \in AllNames : b1[m] = IF m = n THEN environment ELSE bound[m]
  BY <1>1, <1>4 DEF Bounds, ForSuper
<1>6. Global(environment, b1)
  BY <1>3, <1>5 DEF Global
<1>7. Match(envs, environment, <<>>, b1)
  BY <1>1, <1>6, MatchGlobal DEF Match
<1>8. CASE ~Given
  <2>1. env = environment /\ es = envs /\ SuperScopes(from) = <<>>
    BY <1>8 DEF Given, SuperScopes, ForSuper
  <2>2. scope = b1
    BY <1>4, <1>5, <1>8 DEF Bounds, ForSuper
  <2>3. Extends(envs, envs)
    BY <1>1 DEF Extends
  <2> QED BY <1>1, <1>5, <1>6, <1>7, <2>1, <2>2, <2>3
<1>9. CASE Given
  <2>1. PICK v \in ValueSet : v = Right
    BY RightOK
  <2>2. v.kind = "class" /\ ValueOK(v, code, Len(code), envs, Len(classes))
    BY <1>9, <2>1, RightOK
  <2>12. PICK T \in Scope : T = Only("super", TRUE)
    BY <1>4, ScopesAre
  <2>13. PICK S \in Seq(Scope) : S = <<>>
    <3>1. <<>> \in Seq(Scope)
      OBVIOUS
    <3> QED BY <3>1, Zenon
  <2>3. PICK vals : T = Only("super", TRUE) /\ vals = Only("super", v) /\ S = <<>>
    BY <2>12, <2>13
  <2>4. Variables(vals, T, code, envs, Len(classes))
    BY <1>4, <2>2, <2>3, OneVariable
  <2>5. env = Len(envs) + 1 /\ env \in Nat /\ es = Append(envs, Environment(environment, vals))
    BY <1>1, <1>9, <2>1, <2>3 DEF ForSuper
  <2>6. scope = [b1 EXCEPT !["super"] = env]
    BY <1>9 DEF ForSuper
  <2>7. scope \in Bounds /\ Binds(scope, b1, T, env)
    <3>1. PICK new \in Nat, b2 \in Bounds, k \in AllNames : new = env /\ b2 = b1 /\ k = "super"
      BY <1>4, <1>5, <2>5
    <3>2. [b2 EXCEPT ![k] = new] \in Bounds /\ Binds([b2 EXCEPT ![k] = new], b2, Only(k, TRUE), new)
      BY OneBinding
    <3> QED BY <2>3, <2>6, <3>1, <3>2
  <2>8. Binds(scope, b1, T, Len(envs) + 1) /\ Match(envs, environment, S, b1) /\ Len(envs) # 0
    BY <1>1, <1>7, <2>3, <2>5, <2>7
  <2>9. Entered(code, classes, envs, es, S, T, scope)
    BY <1>1, <1>5, <2>4, <2>5, <2>8, PushStep
  <2>10. SuperScopes(from) = Append(S, T)
    <3>1. SuperScopes(from) = <<T>>
      BY <1>9, <2>3 DEF Given, SuperScopes
    <3>2. Append(<<>>, T) = <<T>>
      OBVIOUS
    <3> QED BY <2>3, <3>1, <3>2
  <2>11. /\ es \in Seq(Envs) /\ Len(es) = env /\ Extends(envs, es)
         /\ HeapOK(code, Len(code), es, classes) /\ Match(es, Len(es), Append(S, T), scope)
    BY <2>5, <2>9 DEF Entered
  <2> QED BY <1>5, <1>6, <2>5, <2>7, <2>10, <2>11
<1> QED BY <1>8, <1>9

\* The methods that a class statement finds in its body.
LEMMA ClassMethod ==
  ASSUME IInv, Running, Statement.op = "class", NEW from \in Names \cup {None}, from = Statement.from,
         NEW op \in {"method", "init"}, NEW env \in Nat, NEW scope \in Bounds, NEW es,
         Match(es, env, SuperScopes(from), scope),
         NEW found, found = {i \in (pc + 1)..Statement.end : code[i].op = op},
         NEW m, m = IF found = {} THEN Nil ELSE Value("fun", Max(found), env, scope)
  PROVE  MethodOK(m, code, Len(code), es) /\ m \in ValueSet
<1>1. CASE found = {}
  BY <1>1, ConstantValues DEF MethodOK
<1>2. CASE found # {}
  <2>1. /\ pc \in 1..Len(code) /\ Len(code) \in Nat /\ Statement = code[pc]
        /\ Statement.end \in (pc + 1)..Len(code)
    BY RunningState DEF Openers
  <2>2. PICK e \in (pc + 1)..Len(code) : e = Statement.end
    BY <2>1
  <2>3. PICK l \in Nat : l = Len(code)
    BY <2>1
  <2>4. found \in SUBSET (0..l)
    BY <2>1, <2>2, <2>3
  <2>5. PICK j : j = Max(found)
    OBVIOUS
  <2>6. j \in found
    BY <1>2, <2>4, <2>5, MaxIsGreatest
  <2>7. j \in (pc + 1)..e /\ code[j].op = op
    BY <2>2, <2>6
  <2>8. j \in (pc + 1)..Len(code) /\ j <= e /\ j \in 1..Len(code) /\ j \in Nat
    BY <2>1, <2>2, <2>7
  <2>9. code[j].scopes = ClassScopes(from)
    <3>1. \A k \in (pc + 1)..Len(code) :
            (code[pc].end = 0 \/ k <= code[pc].end) /\ code[k].op \in {"method", "init"} =>
              code[k].scopes = ClassScopes(code[pc].from)
      BY <2>1 DEF IInv, CodeInv, Static
    <3> QED BY <2>1, <2>2, <2>7, <2>8, <3>1
  <2>10. j \in 1..(Len(code) - 1)
    <3>1. code[j].op \in Openers
      BY <2>7 DEF Openers
    <3>2. brackets = <<>>
      BY DEF IInv, CodeInv, Running
    <3>3. code[j].end # 0
      BY <2>8, <3>1, <3>2 DEF IInv, CodeInv, Closed
    <3>4. code[j].end \in (j + 1)..Len(code)
      BY <2>8, <3>1, <3>3 DEF IInv, CodeInv, Static
    <3> QED BY <2>1, <2>8, <3>4
  <2>11. m = Value("fun", j, env, scope)
    BY <1>2, <2>5
  <2>12. m \in ValueSet /\ m.kind = "fun" /\ m.at = j /\ m.env = env /\ m.bound = scope
    BY <2>8, <2>11 DEF Value, ValueSet
  <2> QED BY <2>7, <2>9, <2>10, <2>12 DEF MethodOK
<1> QED BY <1>1, <1>2

\* visitClassStmt makes a good class, and binds its name outside of all scopes.
LEMMA ClassStep ==
  ASSUME IInv, Class
  PROVE  IInv'
<1>1. Running /\ Statement.op = "class" /\ phase = "run" /\ throwing = None
  BY OpRuns DEF Class, Running
<1>2. PICK n \in Names, from \in Names \cup {None} : n = Statement.name /\ from = Statement.from
  <2>1. Statement.name \in Names
    BY <1>1, RunningState DEF Resolved
  <2>2. Statement.from \in Names \cup {None}
    BY <1>1, RunningState DEF Items
  <2> QED BY <2>1, <2>2
<1>3. /\ code \in Seq(Items) /\ Len(code) \in Nat /\ envs \in Seq(Envs) /\ Len(envs) \in Nat \ {0}
      /\ environment \in 1..Len(envs) /\ bound \in Bounds /\ classes \in Seq(Classes) /\ Len(classes) \in Nat
      /\ calls \in Seq(Acts) /\ ValueOK(returned, code, Len(code), envs, Len(classes))
      /\ CallsOK(calls, code, scopes, envs, Len(classes), environment, bound)
  BY <1>1, HeapState
<1>4. PICK b1 : b1 = [bound EXCEPT ![n] = environment]
  OBVIOUS
<1>5. PICK env : env = IF Given THEN Len(envs) + 1 ELSE environment
  OBVIOUS
<1>6. PICK es : es = IF Given THEN Append(envs, Environment(environment, Only("super", Right))) ELSE envs
  OBVIOUS
<1>7. PICK scope : scope = [b1 EXCEPT !["super"] = IF Given THEN env ELSE b1["super"]]
  OBVIOUS
<1>8. (Given => Right.kind = "class") /\ ForSuper(n, b1, env, es, scope)
  BY <1>4, <1>5, <1>6, <1>7 DEF Class, ForSuper
<1>9. /\ es \in Seq(Envs) /\ Extends(envs, es) /\ HeapOK(code, Len(code), es, classes)
      /\ Match(es, env, SuperScopes(from), scope) /\ scope \in Bounds /\ env \in Nat
      /\ b1 \in Bounds /\ Global(environment, b1)
  BY <1>1, <1>2, <1>8, ClassEnvironment
<1> DEFINE Bodies(op) == {i \in (pc + 1)..Statement.end : code[i].op = op}
           Latest(op) == IF Bodies(op) = {} THEN Nil ELSE Value("fun", Max(Bodies(op)), env, scope)
<1>10. PICK m : m = Latest("method")
  OBVIOUS
<1>11. PICK i : i = Latest("init")
  OBVIOUS
<1>12. MethodOK(m, code, Len(code), es) /\ m \in ValueSet
  <2>1. PICK found : found = Bodies("method")
    OBVIOUS
  <2>2. m = IF found = {} THEN Nil ELSE Value("fun", Max(found), env, scope)
    BY <1>10, <2>1
  <2> QED BY <1>1, <1>2, <1>9, <2>1, <2>2, ClassMethod
<1>13. MethodOK(i, code, Len(code), es) /\ i \in ValueSet
  <2>1. PICK found : found = Bodies("init")
    OBVIOUS
  <2>2. i = IF found = {} THEN Nil ELSE Value("fun", Max(found), env, scope)
    BY <1>11, <2>1
  <2> QED BY <1>1, <1>2, <1>9, <2>1, <2>2, ClassMethod
<1>14. PICK s : s = IF Given THEN Right.at ELSE 0
  OBVIOUS
<1>15. PICK r, cl2 : r = [super |-> s, method |-> m, init |-> i] /\ cl2 = Append(classes, r)
  OBVIOUS
<1>16. PICK v, es2 : /\ v = Value("class", Len(classes) + 1, Globals, NoOne)
                     /\ es2 = Defining(es, environment, n, v)
  OBVIOUS
<1>17. /\ classes' = cl2 /\ envs' = es2 /\ bound' = b1 /\ access' = RightReached /\ pc' = Statement.end + 1
       /\ UNCHANGED <<phase, code, start, scopes, brackets, currentFunction, currentClass, returned>>
       /\ UNCHANGED <<environment, calls, throwing>>
  <2>1. scope = [bound EXCEPT ![Statement.name] = environment, !["super"] = IF Given THEN env ELSE @]
    <3>1. CASE Given
      <4>1. scope = [b1 EXCEPT !["super"] = env]
        BY <1>7, <3>1
      <4>2. [bound EXCEPT ![Statement.name] = environment, !["super"] = IF Given THEN env ELSE @]
              = [[bound EXCEPT ![n] = environment] EXCEPT !["super"] = env]
        BY <1>2, <3>1
      <4> QED BY <1>4, <4>1, <4>2
    <3>2. CASE ~Given
      <4>1. scope = [b1 EXCEPT !["super"] = b1["super"]]
        BY <1>7, <3>2
      <4>2. b1["super"] = bound["super"]
        BY <1>3, <1>4, NoneIsNoName DEF Bounds, AllNames
      <4>3. [bound EXCEPT ![Statement.name] = environment, !["super"] = IF Given THEN env ELSE @]
              = [[bound EXCEPT ![n] = environment] EXCEPT !["super"] = bound["super"]]
        BY <1>2, <3>2
      <4> QED BY <1>4, <4>1, <4>2, <4>3
    <3> QED BY <3>1, <3>2
  <2>2. classes' = cl2
    <3>1. classes' = Append(classes, [super |-> s, method |-> Latest("method"), init |-> Latest("init")])
      BY <1>5, <1>14, <2>1 DEF Class
    <3> QED BY <1>10, <1>11, <1>15, <3>1
  <2>3. envs' = es2
    BY <1>2, <1>5, <1>6, <1>16 DEF Class
  <2>4. bound' = b1 /\ access' = RightReached /\ pc' = Statement.end + 1
    BY <1>2, <1>4 DEF Class
  <2>5. /\ UNCHANGED <<phase, code, start, scopes, brackets, currentFunction, currentClass, returned>>
        /\ UNCHANGED <<environment, calls, throwing>>
    BY DEF Class, fixed, resolver
  <2> QED BY <2>2, <2>3, <2>4, <2>5
<1> HIDE DEF Bodies, Latest
<1>18. s \in 0..Len(classes) /\ s \in Nat
  <2>1. CASE ~Given
    BY <1>3, <1>14, <2>1
  <2>2. CASE Given
    BY <1>1, <1>3, <1>8, <1>14, <2>2, RightOK DEF ValueOK
  <2> QED BY <2>1, <2>2
<1>19. r \in Classes /\ r.super = s /\ r.method = m /\ r.init = i
  BY <1>12, <1>13, <1>15, <1>18 DEF Classes
<1>20. PICK k \in Nat : k = Len(classes) + 1
  BY <1>3
<1>21. cl2 \in Seq(Classes) /\ Len(cl2) = k /\ cl2[k] = r /\ \A j \in 1..Len(classes) : cl2[j] = classes[j]
  <2>1. PICK a \in Classes : a = r
    BY <1>19
  <2>2. /\ Append(classes, a) \in Seq(Classes) /\ Len(Append(classes, a)) = Len(classes) + 1
        /\ Append(classes, a)[Len(classes) + 1] = a
        /\ \A j \in 1..Len(classes) : Append(classes, a)[j] = classes[j]
    BY <1>3, AppendProperties
  <2> QED BY <1>15, <1>20, <2>1, <2>2
<1>22. HeapOK(code, Len(code), es, cl2)
  <2>1. Len(es) \in Nat /\ Extends(es, es)
    BY <1>9 DEF Extends
  <2>2. Keeps(code, Len(code), es, Len(classes), code, Len(code), es, Len(cl2))
    BY <1>3, <1>20, <1>21, <2>1 DEF Keeps
  <2>3. \A j \in (Len(classes) + 1)..Len(cl2) : /\ cl2[j].super \in 0..(j - 1)
                                               /\ MethodOK(cl2[j].method, code, Len(code), es)
                                               /\ MethodOK(cl2[j].init, code, Len(code), es)
    <3> SUFFICES ASSUME NEW j \in (Len(classes) + 1)..Len(cl2)
                 PROVE  /\ cl2[j].super \in 0..(j - 1)
                        /\ MethodOK(cl2[j].method, code, Len(code), es)
                        /\ MethodOK(cl2[j].init, code, Len(code), es)
      OBVIOUS
    <3>1. j = k /\ Len(classes) = j - 1
      BY <1>3, <1>20, <1>21
    <3> QED BY <1>12, <1>13, <1>18, <1>19, <1>21, <3>1
  <2>4. \A e \in (Len(es) + 1)..Len(es) : es[e].enclosing \in 1..(e - 1)
    BY <2>1
  <2>5. \A e \in 1..Len(es) : \A x \in DOMAIN es[e].values : e <= Len(es)
    BY <2>1
  <2>6. \A e \in 1..Len(es) : \A x \in DOMAIN es[e].values :
          \/ e <= Len(es) /\ x \in DOMAIN es[e].values /\ es[e].values[x] = es[e].values[x]
          \/ /\ ValueOK(es[e].values[x], code, Len(code), es, Len(cl2))
             /\ x = "super" => es[e].values[x].kind = "class"
    BY <2>5
  <2> QED BY <1>9, <1>21, <2>2, <2>3, <2>4, <2>6, HeapKeeps
<1>23. v \in ValueSet /\ v.kind = "class" /\ v.at = k
  BY <1>16, <1>20, ConstantValues DEF Value, ValueSet, Globals
<1>24. ValueOK(v, code, Len(code), es2, Len(cl2))
  BY <1>20, <1>21, <1>23 DEF ValueOK
<1>25. Len(es) \in Nat \ {0} /\ environment \in 1..Len(es) /\ n \in AllNames
  BY <1>3, <1>9 DEF Extends, AllNames
<1>26. es2 \in Seq(Envs) /\ Len(es2) = Len(es) /\ Extends(es, es2)
  BY <1>9, <1>16, <1>23, <1>25, DefineIs
<1>27. HeapOK(code, Len(code), es2, cl2)
  <2>1. Len(cl2) \in Nat
    BY <1>20, <1>21
  <2> QED BY <1>3, <1>9, <1>16, <1>22, <1>23, <1>24, <1>25, <2>1, DefineHeap
<1>28. Extends(envs, es2) /\ Len(es2) \in Nat \ {0} /\ environment \in 1..Len(es2)
  BY <1>3, <1>9, <1>25, <1>26, ExtendsTransitive
<1>29. ValueOK(returned, code, Len(code), es2, Len(cl2))
  <2>1. Keeps(code, Len(code), envs, Len(classes), code, Len(code), es2, Len(cl2))
    BY <1>3, <1>20, <1>21, <1>28 DEF Keeps
  <2> QED BY <1>3, <2>1, ValueKeeps
<1>30. AccessOK(RightReached, es2)
  BY <1>1, <1>28, RightOK, ReachedGrows
<1>31. CallsOK(calls, code, scopes, es2, Len(cl2), environment, b1)
  <2>1. \A j \in 1..Len(calls) : ActOK(calls[j], code, scopes, es2, k)
    BY <1>1, <1>3, <1>20, <1>28, CallsKeep, SMTT(30)
  <2> QED BY <1>3, <1>9, <1>21, <2>1 DEF CallsOK
<1>32. /\ Statement.end + 1 \in 1..(Len(code) + 1)
       /\ Match(es2, environment, Snap(code, scopes, Statement.end + 1), b1)
  <2>1. Statement.end + 1 \in 1..(Len(code) + 1) /\ Snap(code, scopes, Statement.end + 1) = <<>>
    BY <1>1, RunningState DEF Openers, Outer, Resolved
  <2>2. Match(es2, environment, <<>>, b1)
    BY <1>9, <1>28, MatchGlobal DEF Match
  <2> QED BY <2>1, <2>2
<1>33. Len(es2) >= 1 /\ throwing' = None
  BY <1>1, <1>17, <1>28
<1> QED BY <1>1, <1>3, <1>9, <1>17, <1>21, <1>26, <1>27, <1>28, <1>29, <1>30, <1>31, <1>32, <1>33, RunStep

-----------------------------------------------------------------------------
(* The theorems *)

\* The invariant holds when the REPL starts.
LEMMA InitIInv ==
  ASSUME Init
  PROVE  IInv
<1>1. /\ phase = "resolve" /\ code = <<>> /\ start = 1 /\ scopes = <<>> /\ brackets = <<>>
      /\ currentFunction = "NONE" /\ currentClass = "NONE" /\ environment = Globals
      /\ classes = <<>> /\ calls = <<>> /\ throwing = None /\ returned = Nil /\ bound = NoOne /\ access = {}
  BY DEF Init
<1>2. PICK g : g = [enclosing |-> 0, values |-> Empty] /\ envs = <<g>>
  BY DEF Init
<1>3. g \in Envs /\ g.values = Empty
  BY <1>2, MapsAre DEF Envs
<1>4. envs \in Seq(Envs) /\ Len(envs) = 1 /\ envs[1] = g
  BY <1>2, <1>3
<1>5. Types
  BY <1>1, <1>4, ConstantValues DEF Types, Globals
<1>6. CodeInv
  BY <1>1 DEF CodeInv, Static, Nested, Closed, ClassAround, InClass, Snap
<1>7. HeapInv
  <2>1. \A e \in 1..Len(envs) : DOMAIN envs[e].values = {}
    BY <1>3, <1>4, MapsAre
  <2>2. HeapOK(code, Limit, envs, classes)
    BY <1>1, <1>4, <2>1 DEF HeapOK
  <2> QED BY <1>1, <2>2, ConstantValues DEF HeapInv, AccessOK
<1>8. RunInv
  <2>1. Global(environment, bound)
    BY <1>1 DEF Global, NoOne, AllNames
  <2> QED BY <1>1, <2>1 DEF RunInv, CallsOK
<1> QED BY <1>5, <1>6, <1>7, <1>8 DEF IInv

\* Every step keeps the invariant.
LEMMA NextIInv ==
  ASSUME IInv, [Next]_vars
  PROVE  IInv'
<1>1. CASE UNCHANGED vars
  <2>1. /\ UNCHANGED <<phase, code, start, scopes, brackets, currentFunction, currentClass>>
        /\ UNCHANGED <<envs, environment, classes, pc, calls, throwing, returned, bound, access>>
    BY <1>1 DEF vars, resolver, interpreter
  <2>2. Types'
    BY <2>1 DEF IInv, Types
  <2>3. CodeInv'
    BY <2>1 DEF IInv, CodeInv
  <2>4. HeapInv' /\ RunInv'
    BY <2>1 DEF IInv, HeapInv, Limit, RunInv
  <2> QED BY <2>2, <2>3, <2>4 DEF IInv
<1>2. CASE ResolveBlock \/ ResolveMethod
  BY <1>2, ResolveBlockStep
<1>3. CASE ResolveVar \/ ResolveMake
  BY <1>3, ResolveVarStep
<1>4. CASE ResolveUse
  BY <1>4, ResolveUseStep
<1>5. CASE ResolveAssign
  BY <1>5, ResolveAssignStep
<1>6. CASE ResolveFunction
  BY <1>6, ResolveFunctionStep
<1>7. CASE ResolveClass
  BY <1>7, ResolveClassStep
<1>8. CASE ResolveThis
  BY <1>8, ResolveThisStep
<1>9. CASE ResolveExit
  BY <1>9, ResolveExitStep
<1>10. CASE ResolveClose
  BY <1>10, ResolveCloseStep
<1>11. CASE Reject
  BY <1>11, RejectStep
<1>12. CASE Interpret
  BY <1>12, InterpretStep
<1>13. CASE Var
  BY <1>13, VarStep
<1>14. CASE Use
  BY <1>14, UseStep
<1>15. CASE Assign
  BY <1>15, AssignStep
<1>16. CASE Block
  BY <1>16, BlockStep
<1>17. CASE While
  BY <1>17, WhileStep
<1>18. CASE Function
  BY <1>18, FunctionStep
<1>19. CASE Call
  BY <1>19, CallStep
<1>20. CASE Make
  BY <1>20, MakeStep
<1>21. CASE Invoke
  BY <1>21, InvokeStep
<1>22. CASE Super
  BY <1>22, SuperStep
<1>23. CASE Class
  BY <1>23, ClassStep
<1>24. CASE End
  BY <1>24, EndStep
<1>25. CASE Throw
  BY <1>25, ThrowStep
<1>26. CASE Finally
  BY <1>26, FinallyStep
<1>27. CASE Return
  BY <1>27, ReturnStep
<1> QED BY <1>1, <1>2, <1>3, <1>4, <1>5, <1>6, <1>7, <1>8, <1>9, <1>10, <1>11, <1>12, <1>13, <1>14, <1>15,
           <1>16, <1>17, <1>18, <1>19, <1>20, <1>21, <1>22, <1>23, <1>24, <1>25, <1>26, <1>27 DEF Next

\* The invariant holds throughout.
LEMMA Invariance == Spec => []IInv
BY InitIInv, NextIInv, PTL DEF Spec

\* Every variable that the interpreter reaches by a distance the resolver
\* counted is the one its source means, and it is defined there.
THEOREM LexicalAccessIsLexical == Spec => []AccessIsLexical
<1>1. IInv => AccessIsLexical
  BY DEF IInv, HeapInv, AccessOK, AccessIsLexical
<1> QED BY <1>1, Invariance, PTL

\* Before each statement there are as many environments around the current
\* one as the resolver had scopes: both open and close them at the same places.
THEOREM LexicalDepthsAgree == Spec => []DepthsAgree
<1>1. ASSUME IInv PROVE DepthsAgree
  <2> DEFINE up == CHOOSE f : f = [e \in 1..Len(envs) |-> IF e = Globals THEN 0 ELSE 1 + f[envs[e].enclosing]]
  <2>1. ASSUME Running PROVE up[environment] = Len(code[pc].scopes)
    <3>1. PICK S \in Seq(Scope) : S = code[pc].scopes /\ Match(envs, environment, S, bound)
      BY <1>1, <2>1, RunningState
    <3>2. PICK n \in Nat : n = Len(S)
      OBVIOUS
    <3>3. PICK p : IsPath(p, envs, environment, n)
      BY <3>1, <3>2 DEF Match, MatchBut
    <3>4. Len(envs) \in Nat /\ \A i \in 2..Len(envs) : envs[i].enclosing \in 1..(i - 1)
      BY <1>1, <2>1, HeapState DEF Running, HeapOK
    <3>5. PICK u : u = up
      OBVIOUS
    <3>6. u[environment] = n
      BY <3>3, <3>4, <3>5, DepthIsLength
    <3> HIDE DEF up
    <3> QED BY <3>1, <3>2, <3>5, <3>6
  <2> QED BY <2>1 DEF DepthsAgree, Running
<1> QED BY <1>1, Invariance, PTL

\* However a line ended, by returns out of nested blocks or by an error inside
\* calls, the next line of the REPL starts in the globals.
THEOREM LexicalLinesStartGlobal == Spec => []LinesStartGlobal
<1>1. IInv => LinesStartGlobal
  BY DEF IInv, RunInv, CallsOK, Global, LinesStartGlobal
<1> QED BY <1>1, Invariance, PTL
=============================================================================
