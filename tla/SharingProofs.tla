---------------------------- MODULE SharingProofs ---------------------------
(***************************************************************************)
(* The VM's stack and upvalues implement shared variables (Sharing): proof *)
(* of the refinement, step by step, for programs run from a file.          *)
(***************************************************************************)
EXTENDS ClosuresProofs

-----------------------------------------------------------------------------
(* Names, places and values *)

\* A name is a slot's or a closure's, never both.
LEMMA NameForms ==
  /\ S!Names = Names /\ Captures \subseteq Names
  /\ \A s \in Slots : S!StackName(s) \in Names /\ S!StackName(s) \notin Captures
  /\ \A n \in Names : n \in Captures \/ \E s \in Slots : n = S!StackName(s)
  /\ \A s, t \in Slots : S!StackName(s) = S!StackName(t) => s = t
<1>1. \A n : n \in Captures <=> \E c \in ClosureIds, i \in Indices : n = <<c, i>>
  BY DEF Captures
<1>2. \A n : n \in Names <=> n \in Captures \/ \E s \in Slots : n = S!StackName(s)
  BY DEF Names, S!StackName
<1>3. S!Names = Names
  BY <1>2 DEF S!Names, S!StackNames
<1>4. \A s \in Slots : S!StackName(s) \notin Captures
  BY <1>1, AddressAssumption DEF S!StackName
<1>5. \A s, t \in Slots : S!StackName(s) = S!StackName(t) => s = t
  BY DEF S!StackName
<1> QED BY <1>2, <1>3, <1>4, <1>5

\* Where the variable of a name is kept, now and after a step.
LEMMA Places ==
  /\ \A s \in Slots : Place(S!StackName(s)) = IF s < Visible THEN s ELSE Absent
  /\ \A c \in ClosureIds, i \in Indices :
       Place(<<c, i>>) = IF upvalues[c][i] = Null THEN Absent
                         ELSE IF IsOpen(upvalues[c][i]) THEN location[upvalues[c][i]]
                         ELSE upvalues[c][i]
<1>1. \A s \in Slots : Place(S!StackName(s)) = IF s < Visible THEN s ELSE Absent
  BY DEF Place, S!StackName
<1>2. \A c \in ClosureIds : c # "stack"
  BY AddressAssumption
<1> QED BY <1>1, <1>2 DEF Place

LEMMA PlacesNext ==
  /\ \A s \in Slots : Place(S!StackName(s))' = IF s < Visible' THEN s ELSE Absent
  /\ \A c \in ClosureIds, i \in Indices :
       Place(<<c, i>>)' = IF upvalues'[c][i] = Null THEN Absent
                         ELSE IF IsOpen(upvalues[c][i])' THEN location'[upvalues'[c][i]]
                         ELSE upvalues'[c][i]
<1>1. \A s \in Slots : Place(S!StackName(s))' = IF s < Visible' THEN s ELSE Absent
  BY DEF Place, S!StackName
<1>2. \A c \in ClosureIds : c # "stack"
  BY AddressAssumption
<1> QED BY <1>1, <1>2 DEF Place

\* The variables of the abstract specification, now and after a step.
LEMMA SharedState ==
  /\ \A n \in Names : ValueOf(n) = IF Place(n) = Absent THEN Absent
                                   ELSE IF Place(n) \in Slots THEN stack[Place(n)]
                                   ELSE closed[Place(n)]
  /\ \A n \in Names : Group(n) = IF Place(n) = Absent THEN {}
                                 ELSE {m \in Names : Place(m) = Place(n)}
BY DEF ValueOf, Group

LEMMA SharedStateNext ==
  /\ \A n \in Names : ValueOf(n)' = IF Place(n)' = Absent THEN Absent
                                    ELSE IF Place(n)' \in Slots THEN stack'[Place(n)']
                                    ELSE closed'[Place(n)']
  /\ \A n \in Names : Group(n)' = IF Place(n)' = Absent THEN {}
                                  ELSE {m \in Names : Place(m)' = Place(n)'}
BY DEF ValueOf, Group

\* The slots the abstract specification sees are below the stack top.
LEMMA VisibleBelowTop ==
  ASSUME IInv PROVE Visible \in Nat /\ Visible <= top
<1>1. CASE pc # "close"
  BY <1>1, Basics DEF Visible
<1>2. CASE pc = "close"
  <2>1. Visible = last /\ last \in Nat /\ after \in {"pop", "return"}
    BY <1>2 DEF Visible, IInv, TypeOK
  <2>2. last <= top
    BY <1>2, <2>1, Basics, TopFrame DEF IInv, CloseInv
  <2> QED BY <2>1, <2>2
<1> QED BY <1>1, <1>2

\* Before the program ends, a name in use leads to a value.
LEMMA NameInUse ==
  ASSUME IInv, ~Repl, pc \notin {"wild", "done"}, NEW n \in Names, Place(n) # Absent
  PROVE  /\ Place(n) \in Slots \cup UpvalueIds
         /\ Place(n) \in Slots => Place(n) < top
         /\ ValueOf(n) \in Values /\ ValueOf(n) # Absent
<1>1. \A v \in Held : v # NoValue => v \in Values /\ v # Absent
  BY HeldValues, Basics, AddressAssumption
<1>2. CASE n \in Captures
  <2>1. PICK c \in ClosureIds, i \in Indices : n = <<c, i>>
    BY <1>2 DEF Captures
  <2> DEFINE u == upvalues[c][i]
  <2>2. u # Null /\ u \in UpvalueIds /\ location[u] # Null /\ location[u] \in Slots \cup {Null, Self}
    BY <2>1, Places DEF IInv, TypeOK, MakeInv
  <2>3. CASE IsOpen(u)
    <3>1. Place(n) = location[u] /\ location[u] \in Slots /\ location[u] < top
      BY <2>1, <2>2, <2>3, Places, Basics DEF IsOpen, IInv, OpenInv
    <3>2. stack[location[u]] \in Held /\ stack[location[u]] # NoValue
      BY <3>1, Basics
    <3> QED BY <1>1, <3>1, <3>2, SharedState
  <2>4. CASE ~IsOpen(u)
    <3>1. Place(n) = u /\ location[u] = Self /\ u \notin Slots
      BY <2>1, <2>2, <2>4, Places, AddressAssumption DEF IsOpen
    <3>2. closed[u] \in Held /\ closed[u] # NoValue
      BY <2>2, <3>1, Basics
    <3> QED BY <1>1, <2>2, <3>1, <3>2, SharedState
  <2> QED BY <2>3, <2>4
<1>3. CASE n \notin Captures
  <2>1. PICK s \in Slots : n = S!StackName(s)
    BY <1>3, NameForms
  <2>2. Place(n) = s /\ s < Visible
    BY <2>1, Places
  <2>3. s < top
    BY <2>2, VisibleBelowTop, Basics
  <2>4. stack[s] \in Held /\ stack[s] # NoValue
    BY <2>3, Basics
  <2> QED BY <1>1, <2>2, <2>3, <2>4, SharedState
<1> QED BY <1>2, <1>3

\* The names in use are the live ones.
LEMMA LiveNames ==
  ASSUME IInv, ~Repl, pc \notin {"wild", "done"}
  PROVE  S!Live = {n \in Names : Place(n) # Absent}
<1>1. \A n \in Names : ValueOf(n) # Absent <=> Place(n) # Absent
  BY NameInUse, SharedState
<1>2. S!Live = {n \in Names : ValueOf(n) # Absent}
  BY NameForms DEF S!Live
<1> QED BY <1>1, <1>2

-----------------------------------------------------------------------------
(* The abstract steps *)

\* A step that leaves the variables closures have captured alone.
KeepsCaptures ==
  \A n \in Captures : Place(n)' = Place(n) /\ ValueOf(n)' = ValueOf(n)

LEMMA CapturesKept ==
  ASSUME IInv, ~Repl, pc \notin {"wild", "done"}, UNCHANGED <<upvalues, location, closed>>,
         \A u \in UpvalueIds : IsOpen(u) => stack'[location[u]] = stack[location[u]]
  PROVE  KeepsCaptures
<1> SUFFICES ASSUME NEW c \in ClosureIds, NEW i \in Indices
             PROVE  Place(<<c, i>>)' = Place(<<c, i>>) /\ ValueOf(<<c, i>>)' = ValueOf(<<c, i>>)
  BY DEF KeepsCaptures, Captures
<1> DEFINE n == <<c, i>>  u == upvalues[c][i]
<1>1. n \in Names /\ (u # Null => u \in UpvalueIds)
  BY NameForms DEF Captures, IInv, TypeOK
<1>2. Place(n)' = Place(n)
  BY Places, PlacesNext DEF IsOpen
<1>3. CASE Place(n) \in Slots /\ Place(n) # Absent
  <2>1. u # Null /\ IsOpen(u) /\ Place(n) = location[u]
    BY <1>1, <1>3, Places, AddressAssumption
  <2>2. stack'[Place(n)] = stack[Place(n)]
    BY <1>1, <2>1
  <2> QED BY <1>1, <1>2, <1>3, <2>2, SharedState, SharedStateNext
<1>4. CASE ~ (Place(n) \in Slots /\ Place(n) # Absent)
  BY <1>1, <1>2, <1>4, SharedState, SharedStateNext
<1> QED BY <1>2, <1>3, <1>4

\* The slots from s on go out of scope.
LEMMA DropRefined ==
  ASSUME IInv, ~Repl, pc \notin {"wild", "done"}, NEW s \in Nat, s <= Visible, Visible' = s,
         KeepsCaptures, \A t \in Slots : t < s => stack'[t] = stack[t]
  PROVE  S!Drop(s)
<1> DEFINE K == S!Kept(s)
<1>1. K = {n \in Names : Place(n) # Absent /\ \A t \in Slots : t >= s => n # S!StackName(t)}
  BY LiveNames DEF S!Kept
<1>2. ASSUME NEW n \in Names
      PROVE  /\ n \in K => Place(n) # Absent /\ Place(n)' = Place(n) /\ ValueOf(n)' = ValueOf(n)
             /\ n \notin K => Place(n)' = Absent /\ ValueOf(n)' = Absent
  <2>1. CASE n \in Captures
    <3>1. n \in K <=> Place(n) # Absent
      BY <1>1, <2>1, NameForms
    <3> QED BY <2>1, <3>1, SharedStateNext DEF KeepsCaptures
  <2>2. CASE n \notin Captures
    <3>1. PICK t \in Slots : n = S!StackName(t)
      BY <2>2, NameForms
    <3>2. t \in Nat /\ Visible \in Nat
      BY Basics, VisibleBelowTop
    <3>3. /\ Place(n) = IF t < Visible THEN t ELSE Absent
          /\ Place(n)' = IF t < s THEN t ELSE Absent
      BY <3>1, Places, PlacesNext
    <3>4. CASE t < s
      <4>1. Place(n) = t /\ Place(n)' = t /\ t # Absent
        BY <3>2, <3>3, <3>4, AddressAssumption
      <4>2. n \in K
        BY <1>1, <3>1, <3>2, <3>4, <4>1, NameForms
      <4> QED BY <3>4, <4>1, <4>2, SharedState, SharedStateNext
    <3>5. CASE ~ (t < s)
      <4>1. n \notin K
        BY <1>1, <3>1, <3>2, <3>5
      <4> QED BY <3>3, <3>5, <4>1, SharedStateNext
    <3> QED BY <3>4, <3>5
  <2> QED BY <2>1, <2>2
<1>3. ASSUME NEW n \in Names
      PROVE  /\ n \in K => Group(n)' = Group(n) \cap K
             /\ n \notin K => Group(n)' = {}
  BY <1>1, <1>2, SharedState, SharedStateNext
<1> HIDE DEF K
<1>4. [n \in Names |-> ValueOf(n)]' =
        [n \in S!Names |-> IF n \in K THEN [m \in Names |-> ValueOf(m)][n] ELSE Absent]
  BY <1>2, NameForms
<1>5. [n \in Names |-> Group(n)]' =
        [n \in S!Names |-> IF n \in K THEN [m \in Names |-> Group(m)][n] \cap K ELSE {}]
  BY <1>3, NameForms
<1> QED BY <1>4, <1>5 DEF S!Drop, K

\* A value takes the place of the slots from s on.
LEMMA PushRefined ==
  ASSUME IInv, ~Repl, pc \notin {"wild", "done"}, NEW s \in Slots, s <= Visible,
         Visible' = s + 1, KeepsCaptures, stack'[s] \in Values,
         \A u \in UpvalueIds : IsOpen(u) => location[u] < s,
         \A t \in Slots : t < s => stack'[t] = stack[t]
  PROVE  S!Push(s)
<1> DEFINE K == S!Kept(s)  N == S!StackName(s)
<1>0. s \in Nat /\ Slots \subseteq Nat /\ Visible \in Nat
  BY Basics, VisibleBelowTop
<1>1. K = {n \in Names : Place(n) # Absent /\ \A t \in Slots : t >= s => n # S!StackName(t)}
  BY LiveNames DEF S!Kept
<1>2. N \in Names /\ N \notin K /\ Place(N)' = s /\ ValueOf(N)' = stack'[s]
  <2>1. N \in Names /\ N \notin K
    BY <1>0, <1>1, NameForms
  <2>2. Place(N)' = s /\ s # Absent
    BY <1>0, PlacesNext, AddressAssumption
  <2> QED BY <2>1, <2>2, SharedStateNext
<1>3. ASSUME NEW n \in Names, n # N
      PROVE  /\ n \in K => /\ Place(n) # Absent /\ Place(n)' = Place(n) /\ Place(n) # s
                           /\ ValueOf(n)' = ValueOf(n)
             /\ n \notin K => Place(n)' = Absent /\ ValueOf(n)' = Absent
  <2>1. CASE n \in Captures
    <3>1. n \in K <=> Place(n) # Absent
      BY <1>1, <2>1, NameForms
    <3>2. Place(n) # s
      <4>1. PICK c \in ClosureIds, i \in Indices : n = <<c, i>>
        BY <2>1 DEF Captures
      <4>2. upvalues[c][i] # Null => upvalues[c][i] \in UpvalueIds
        BY DEF IInv, TypeOK
      <4>3. \A u \in UpvalueIds : IsOpen(u) => location[u] # s
        BY <1>0 DEF IsOpen
      <4> QED BY <4>1, <4>2, <4>3, Places, AddressAssumption
    <3> QED BY <2>1, <3>1, <3>2, SharedStateNext DEF KeepsCaptures
  <2>2. CASE n \notin Captures
    <3>1. PICK t \in Slots : n = S!StackName(t)
      BY <2>2, NameForms
    <3>2. t \in Nat /\ t # s
      BY <1>0, <1>3, <3>1
    <3>3. /\ Place(n) = IF t < Visible THEN t ELSE Absent
          /\ Place(n)' = IF t < s + 1 THEN t ELSE Absent
      BY <3>1, Places, PlacesNext
    <3>4. CASE t < s
      <4>1. Place(n) = t /\ Place(n)' = t /\ t # Absent
        BY <1>0, <3>2, <3>3, <3>4, AddressAssumption
      <4>2. n \in K
        BY <1>0, <1>1, <3>1, <3>2, <3>4, <4>1, NameForms
      <4> QED BY <3>2, <3>4, <4>1, <4>2, SharedState, SharedStateNext
    <3>5. CASE ~ (t < s)
      <4>1. n \notin K
        BY <1>0, <1>1, <3>1, <3>2, <3>5
      <4>2. Place(n)' = Absent
        BY <1>0, <3>2, <3>3, <3>5
      <4> QED BY <4>1, <4>2, SharedStateNext
    <3> QED BY <3>4, <3>5
  <2> QED BY <2>1, <2>2
<1>4. ASSUME NEW n \in Names
      PROVE  /\ n = N => Group(n)' = {N}
             /\ n # N /\ n \in K => Group(n)' = Group(n) \cap K
             /\ n # N /\ n \notin K => Group(n)' = {}
  <2>1. s # Absent
    BY AddressAssumption
  <2>2. n = N => Group(n)' = {N}
    <3>1. {m \in Names : Place(m)' = s} = {N}
      BY <1>2, <1>3, <2>1
    <3> QED BY <1>2, <2>1, <3>1, SharedStateNext
  <2>3. ASSUME n # N, n \in K PROVE Group(n)' = Group(n) \cap K
    <3>1. Place(n) # Absent /\ Place(n)' = Place(n) /\ Place(n) # s
      BY <1>3, <2>3
    <3>2. \A m \in Names : Place(m)' = Place(n) <=> m \in K /\ Place(m) = Place(n)
      BY <1>2, <1>3, <3>1
    <3>3. K \subseteq Names
      BY <1>1
    <3> QED BY <3>1, <3>2, <3>3, SharedState, SharedStateNext
  <2>4. n # N /\ n \notin K => Group(n)' = {}
    BY <1>3, SharedStateNext
  <2> QED BY <2>2, <2>3, <2>4
<1> HIDE DEF K
<1>5. [n \in Names |-> ValueOf(n)]'[N] = stack'[s]
  BY <1>2
<1>6. [n \in Names |-> ValueOf(n)]' =
        [n \in S!Names |-> IF n = N THEN stack'[s]
                           ELSE IF n \in K THEN [m \in Names |-> ValueOf(m)][n] ELSE Absent]
  BY <1>2, <1>3, NameForms
<1>7. [n \in Names |-> Group(n)]' =
        [n \in S!Names |-> IF n = N THEN {N}
                           ELSE IF n \in K THEN [m \in Names |-> Group(m)][n] \cap K ELSE {}]
  BY <1>4, NameForms
<1> QED BY <1>5, <1>6, <1>7 DEF S!Push, K

\* The variable of name n is assigned.
LEMMA WriteRefined ==
  ASSUME IInv, ~Repl, pc \notin {"wild", "done"}, NEW n \in Names, Place(n) # Absent,
         Visible' = Visible, \A m \in Names : Place(m)' = Place(m),
         ValueOf(n)' \in Values,
         \A m \in Names : Place(m) # Place(n) => ValueOf(m)' = ValueOf(m)
  PROVE  S!Write(n)
<1>1. ValueOf(n) # Absent
  BY NameInUse
<1>2. \A m \in Names : Place(m) = Place(n) => ValueOf(m)' = ValueOf(n)'
  BY SharedStateNext
<1>3. \A m \in Names : Group(m)' = Group(m)
  BY SharedState, SharedStateNext
<1>4. Group(n) = {m \in Names : Place(m) = Place(n)}
  BY SharedState
<1>5. [m \in Names |-> ValueOf(m)]' =
        [m \in S!Names |-> IF m \in Group(n) THEN ValueOf(n)' ELSE [k \in Names |-> ValueOf(k)][m]]
  BY <1>2, <1>4, NameForms
<1>6. [m \in Names |-> Group(m)]' = [m \in Names |-> Group(m)]
  BY <1>3
<1>7. [m \in Names |-> ValueOf(m)]'[n] = ValueOf(n)'
  OBVIOUS
<1> QED BY <1>1, <1>5, <1>6, <1>7 DEF S!Write

\* A closure captures the variable of name n.
LEMMA CaptureRefined ==
  ASSUME IInv, ~Repl, pc \notin {"wild", "done"}, NEW c \in Captures, NEW n \in Names,
         Place(c) = Absent, Place(n) # Absent, Visible' = Visible,
         Place(c)' = Place(n), \A m \in Names \ {c} : Place(m)' = Place(m),
         UNCHANGED <<stack, closed>>
  PROVE  S!Capture(c, n)
<1>1. c \in Names /\ ValueOf(n) # Absent /\ ValueOf(c) = Absent /\ n # c
  BY NameInUse, NameForms, SharedState
<1>2. ValueOf(c)' = ValueOf(n) /\ \A m \in Names \ {c} : ValueOf(m)' = ValueOf(m)
  BY <1>1, SharedState, SharedStateNext
<1>3. ASSUME NEW m \in Names
      PROVE  Group(m)' = IF m \in Group(n) \cup {c} THEN Group(n) \cup {c} ELSE Group(m)
  <2>1. Group(n) = {k \in Names : Place(k) = Place(n)}
    BY SharedState
  <2>2. {k \in Names : Place(k)' = Place(n)} = Group(n) \cup {c}
    BY <1>1, <2>1
  <2>3. CASE m \in Group(n) \cup {c}
    BY <1>1, <2>1, <2>2, <2>3, SharedStateNext
  <2>4. CASE m \notin Group(n) \cup {c}
    <3>1. m # c /\ Place(m)' = Place(m) /\ Place(m) # Place(n)
      BY <2>1, <2>4
    <3>2. Place(m) # Absent =>
            {k \in Names : Place(k)' = Place(m)} = {k \in Names : Place(k) = Place(m)}
      BY <3>1
    <3> QED BY <2>4, <3>1, <3>2, SharedState, SharedStateNext
  <2> QED BY <2>3, <2>4
<1>4. [m \in Names |-> ValueOf(m)]' = [[m \in Names |-> ValueOf(m)] EXCEPT ![c] = ValueOf(n)]
  BY <1>1, <1>2
<1>5. [m \in Names |-> Group(m)]' =
        [m \in S!Names |-> IF m \in Group(n) \cup {c} THEN Group(n) \cup {c}
                           ELSE [k \in Names |-> Group(k)][m]]
  BY <1>3, NameForms
<1> QED BY <1>1, <1>4, <1>5 DEF S!Capture

\* A step the programmer does not see.
LEMMA StutterRefined ==
  ASSUME Visible' = Visible,
         \A n \in Names : ValueOf(n)' = ValueOf(n) /\ Group(n)' = Group(n)
  PROVE  UNCHANGED S!svars
BY DEF S!svars

LEMMA SamePlaces ==
  ASSUME \A n \in Names : Place(n)' = Place(n) /\ ValueOf(n)' = ValueOf(n), Visible' = Visible
  PROVE  UNCHANGED S!svars
<1>1. \A n \in Names : Group(n)' = Group(n)
  BY SharedState, SharedStateNext
<1> QED BY <1>1, StutterRefined

-----------------------------------------------------------------------------
(* The VM's steps *)

\* A step of the VM is one of the abstract specification, or none.
Refined == [S!Next]_(S!svars)

\* The upvalues that point into the stack point below its top.
LEMMA OpenBelowTop ==
  ASSUME IInv, ~Repl, pc \notin {"wild", "done"}
  PROVE  \A u \in UpvalueIds : IsOpen(u) => location[u] \in Nat /\ location[u] < top
BY Basics DEF IInv, OpenInv

\* A value is pushed, or takes the place of the slots from s on.
LEMMA PushAct ==
  ASSUME IInv, ~Repl, pc \notin {"wild", "done"}, NEW s \in Slots, s <= Visible,
         pc' # "close", top' = s + 1, UNCHANGED <<upvalues, location, closed>>,
         stack'[s] \in Values, \A t \in Slots : t < s => stack'[t] = stack[t],
         \A u \in UpvalueIds : IsOpen(u) => location[u] < s
  PROVE  Refined
<1>1. KeepsCaptures
  BY CapturesKept DEF IsOpen
<1>2. S!Push(s)
  BY <1>1, PushRefined DEF Visible
<1>3. s \in Slots \cap 0..Visible
  BY Basics, VisibleBelowTop
<1> QED BY <1>2, <1>3 DEF Refined, S!Next

\* The slots from s on go out of scope.
LEMMA DropAct ==
  ASSUME IInv, ~Repl, pc \notin {"wild", "done"}, NEW s \in Nat, s <= Visible, Visible' = s,
         UNCHANGED <<upvalues, location, closed>>,
         \A t \in Slots : t < s => stack'[t] = stack[t],
         \A u \in UpvalueIds : IsOpen(u) => stack'[location[u]] = stack[location[u]]
  PROVE  Refined
<1>1. S!Drop(s)
  BY CapturesKept, DropRefined
<1>2. s \in 0..Visible
  BY VisibleBelowTop
<1> QED BY <1>1, <1>2 DEF Refined, S!Next

\* A slot below the top is assigned.
LEMMA AssignAct ==
  ASSUME IInv, ~Repl, pc = "run", pc' = "run", top' = top, NEW s \in Slots, s < top,
         NEW v \in Values, stack' = [stack EXCEPT ![s] = v],
         UNCHANGED <<upvalues, location, closed>>
  PROVE  Refined
<1> DEFINE n == S!StackName(s)
<1>1. Visible = top /\ Visible' = Visible
  BY DEF Visible
<1>2. n \in Names /\ Place(n) = s /\ s # Absent
  BY <1>1, NameForms, Places, AddressAssumption
<1>3. \A m \in Names : Place(m)' = Place(m)
  <2>1. \A m \in Captures : Place(m)' = Place(m)
    BY Places, PlacesNext DEF Captures, IsOpen
  <2>2. \A t \in Slots : Place(S!StackName(t))' = Place(S!StackName(t))
    BY <1>1, Places, PlacesNext
  <2> QED BY <2>1, <2>2, NameForms
<1>4. \A t \in Slots : stack'[t] = IF t = s THEN v ELSE stack[t]
  BY Basics
<1>5. ValueOf(n)' \in Values
  BY <1>2, <1>3, <1>4, SharedStateNext
<1>6. \A m \in Names : Place(m) # Place(n) => ValueOf(m)' = ValueOf(m)
  BY <1>2, <1>3, <1>4, SharedState, SharedStateNext
<1>7. S!Write(n)
  BY <1>1, <1>2, <1>3, <1>5, <1>6, WriteRefined
<1> QED BY <1>2, <1>7, NameForms DEF Refined, S!Next

\* A step that leaves the variables in use alone.
LEMMA StutterAct ==
  ASSUME IInv, ~Repl, pc \notin {"wild", "done"}, Visible' = Visible,
         UNCHANGED <<upvalues, location, closed>>,
         \A t \in Slots : t < Visible => stack'[t] = stack[t],
         \A u \in UpvalueIds : IsOpen(u) => stack'[location[u]] = stack[location[u]]
  PROVE  Refined
<1>1. KeepsCaptures
  BY CapturesKept
<1>2. ASSUME NEW t \in Slots
      PROVE  LET n == S!StackName(t) IN Place(n)' = Place(n) /\ ValueOf(n)' = ValueOf(n)
  BY NameForms, Places, PlacesNext, SharedState, SharedStateNext
<1>3. \A n \in Names : Place(n)' = Place(n) /\ ValueOf(n)' = ValueOf(n)
  BY <1>1, <1>2, NameForms DEF KeepsCaptures
<1> QED BY <1>3, SamePlaces DEF Refined

\* A runtime error: all slots go out of scope, captured variables stay.
LEMMA ResetAct ==
  ASSUME IInv, ~Repl, pc = "run", pc' \in {Finished, "wild"}, ResetStack,
         UNCHANGED <<location, closed, upvalues>>,
         \A u \in UpvalueIds : IsOpen(u) => stack'[location[u]] = stack[location[u]]
  PROVE  Refined
<1>1. Visible' = 0 /\ 0 <= Visible
  BY VisibleBelowTop DEF Visible, ResetStack, Finished
<1>2. \A t \in Slots : ~ (t < 0)
  BY Basics
<1> QED BY <1>1, <1>2, DropAct

\* callValue, the callee's slot s being captured by nobody.
LEMMA CallValueAct ==
  ASSUME IInv, ~Repl, pc = "run", NEW v \in Values, NEW argCount \in Nat,
         NEW s \in Slots, s + argCount + 1 = top,
         \A u \in UpvalueIds : IsOpen(u) => location[u] < s,
         CallValue(v, argCount, s), UNCHANGED <<closureVars, loopVars>>
  PROVE  Refined
<1>0. /\ s \in Nat /\ s < top /\ s <= Visible /\ upvalues' = upvalues
      /\ Instance \in Values /\ \A d \in Data : Datum(d) \in Values
      /\ \A u \in UpvalueIds : IsOpen(u) => location[u] \in Slots /\ location[u] # s
  BY Basics, ValuesAreValues DEF Visible, closureVars, IsOpen
<1>1. ASSUME NEW w, stack' = [stack EXCEPT ![s] = w]
      PROVE  \A u \in UpvalueIds : IsOpen(u) => stack'[location[u]] = stack[location[u]]
  BY <1>0, <1>1, Basics
<1>2. ASSUME NEW c, NEW w \in Values, Call(c, argCount, s), stack' = [stack EXCEPT ![s] = w]
      PROVE  Refined
  <2>1. CASE RuntimeError
    BY <1>0, <1>1, <1>2, <2>1, ResetAct DEF RuntimeError
  <2>2. CASE top' = s + argCount + 1 /\ UNCHANGED <<pc, listVars>>
    BY <1>0, <1>2, <2>2, AssignAct DEF listVars
  <2> QED BY <1>2, <2>1, <2>2 DEF Call
<1>3. CASE /\ v[1] \in {"closure", "bound"} /\ Call(v[2], argCount, s)
           /\ stack' = [stack EXCEPT ![s] = IF v[1] = "bound" THEN Instance ELSE v]
  BY <1>0, <1>2, <1>3
<1>4. CASE Call(init, argCount, s) /\ stack' = [stack EXCEPT ![s] = Instance]
  BY <1>0, <1>2, <1>4
<1>5. CASE /\ stack' = [stack EXCEPT ![s] = Instance]
           /\ UNCHANGED <<pc, top, frames, frameCount, listVars>>
  BY <1>0, <1>5, AssignAct DEF listVars
<1>6. CASE /\ stack' = [stack EXCEPT ![s] = Instance] /\ ResetStack /\ pc' = "wild"
           /\ UNCHANGED <<next, location, closed>>
  BY <1>0, <1>1, <1>6, ResetAct
<1>7. CASE /\ \E d \in Data : stack' = [Cut(stack, s) EXCEPT ![s] = Datum(d)]
           /\ top' = s + 1
           /\ UNCHANGED <<pc, frames, frameCount, listVars>>
  <2>1. PICK d \in Data : stack' = [Cut(stack, s) EXCEPT ![s] = Datum(d)]
    BY <1>7
  <2>2. stack'[s] = Datum(d) /\ \A t \in Slots : t < s => stack'[t] = stack[t]
    BY <1>0, <2>1, Basics DEF Cut
  <2> QED BY <1>0, <1>7, <2>2, PushAct DEF listVars
<1>8. CASE RuntimeError /\ stack' = [stack EXCEPT ![s] = v]
  BY <1>0, <1>1, <1>8, ResetAct DEF RuntimeError
<1> QED BY <1>3, <1>4, <1>5, <1>6, <1>7, <1>8 DEF CallValue

\* Without the repl every upvalue that points into the stack is on the list, so an
\* instruction drops no slot that one of them points to.
LEMMA DropsNoOpen ==
  ASSUME IInv, ~Repl, pc = "run", NEW s \in Int, s < top, Droppable(s)
  PROVE  \A u \in UpvalueIds : IsOpen(u) => location[u] \in Slots /\ location[u] < s
BY DEF IInv, OpenInv, Droppable, IsOpen

LEMMA CallsRefined ==
  ASSUME IInv, ~Repl, NEW a \in Arities,
         \/ OpCall(a)
         \/ \E v \in Values : InvokeField(a, v)
  PROVE  Refined
<1>0. /\ pc = "run" /\ Droppable(top - a - 1) /\ a \in Nat /\ top - a - 1 \in Int
      /\ UNCHANGED <<closureVars, loopVars>>
  BY Basics, ClosuresAssumption DEF OpCall, InvokeField, Arities
<1>2. top - a - 1 < top /\ (top - a - 1) + a + 1 = top
  BY <1>0, Basics
<1>1. /\ pc = "run" /\ Droppable(top - a - 1) /\ a \in Nat /\ top - a - 1 \in Int
      /\ UNCHANGED <<closureVars, loopVars>>
      /\ \A u \in UpvalueIds : IsOpen(u) => location[u] < top - a - 1
  BY <1>0, <1>2, DropsNoOpen
<1>3. top - a - 1 \in Slots
  BY <1>1, <1>2, Dropping
<1>4. CASE OpCall(a)
  <2>1. a < top
    BY <1>1, <1>3, Basics
  <2>2. Peek(a) \in Values
    BY <1>1, <2>1, Peeking, HeldValues, Basics
  <2> QED BY <1>1, <1>2, <1>3, <1>4, <2>2, CallValueAct DEF OpCall
<1>5. CASE \E v \in Values : InvokeField(a, v)
  <2>1. PICK v \in Values : InvokeField(a, v)
    BY <1>5
  <2> QED BY <1>1, <1>2, <1>3, <2>1, CallValueAct DEF InvokeField
<1> QED BY <1>4, <1>5

LEMMA InvokeMethodRefined ==
  ASSUME IInv, ~Repl, NEW a \in Arities, NEW c \in ClosureIds, InvokeMethod(a, c)
  PROVE  Refined
<1>1. /\ pc = "run" /\ Call(c, a, top - a - 1) /\ stack' = stack /\ upvalues' = upvalues
      /\ (top - a - 1) + a + 1 = top
  BY Basics, ClosuresAssumption DEF InvokeMethod, Arities, closureVars
<1>2. CASE RuntimeError
  BY <1>1, <1>2, ResetAct DEF RuntimeError
<1>3. CASE top' = (top - a - 1) + a + 1 /\ UNCHANGED <<pc, listVars>>
  BY <1>1, <1>3, StutterAct DEF Visible, listVars
<1> QED BY <1>1, <1>2, <1>3 DEF Call

\* The superclass on the top of the stack goes.
LEMMA SuperInvokeRefined ==
  ASSUME IInv, ~Repl, NEW a \in Arities, NEW c \in ClosureIds, SuperInvoke(a, c)
  PROVE  Refined
<1>1. /\ pc = "run" /\ Call(c, a, top - a - 2) /\ stack' = Cut(stack, top - 1)
      /\ upvalues' = upvalues /\ Droppable(top - a - 2) /\ a \in Nat
      /\ (top - a - 2) + a + 1 = top - 1 /\ top - a - 2 \in Int /\ top - a - 2 < top
  BY Basics, ClosuresAssumption DEF SuperInvoke, Arities, closureVars
<1>2. top - 1 \in Nat /\ top - 1 <= top /\ top - a - 2 < top - 1
  BY <1>1, Dropping, Basics
<1>3. /\ \A t \in Slots : t < top - 1 => stack'[t] = stack[t]
      /\ \A u \in UpvalueIds : IsOpen(u) => location[u] \in Slots /\ location[u] < top - 1
  <2>1. \A u \in UpvalueIds : IsOpen(u) => location[u] \in Slots /\ location[u] < top - a - 2
    BY <1>1, DropsNoOpen
  <2> QED BY <1>1, <1>2, <2>1, CutStack, Basics
<1>4. \A u \in UpvalueIds : IsOpen(u) => stack'[location[u]] = stack[location[u]]
  BY <1>3
<1>5. CASE RuntimeError
  BY <1>1, <1>4, <1>5, ResetAct DEF RuntimeError
<1>6. CASE top' = top - 1 /\ UNCHANGED <<pc, listVars>>
  BY <1>1, <1>2, <1>3, <1>4, <1>6, DropAct DEF Visible, listVars
<1> QED BY <1>1, <1>5, <1>6 DEF Call

LEMMA ErrorRefined == IInv /\ ~Repl /\ Error => Refined
BY ResetAct DEF Error, RuntimeError, closureVars

LEMMA InterpretRefined ==
  ASSUME IInv, ~Repl, NEW c \in ClosureIds, Interpret(c) PROVE Refined
<1>1. /\ pc = "idle" /\ pc' = "run" /\ top < StackMax /\ top' = top + 1
      /\ stack' = [stack EXCEPT ![top] = Closure(c)]
      /\ UNCHANGED <<upvalues, location, closed>>
  BY DEF Interpret, listVars
<1>2. /\ top \in Slots /\ top <= Visible /\ Closure(c) \in Values
      /\ \A u \in UpvalueIds : IsOpen(u) => location[u] < top
  BY <1>1, Basics, ValuesAreValues, OpenBelowTop DEF Visible
<1>3. stack'[top] = Closure(c) /\ \A t \in Slots : t < top => stack'[t] = stack[t]
  BY <1>1, <1>2, Basics
<1> QED BY <1>1, <1>2, <1>3, PushAct

\* The instructions that push one value.
LEMMA PushesRefined ==
  ASSUME IInv, ~Repl, pc = "run", pc' # "close", top < StackMax, NEW v \in Values,
         stack' = [stack EXCEPT ![top] = v], top' = top + 1,
         UNCHANGED <<upvalues, location, closed>>
  PROVE  Refined
<1>2. /\ top \in Slots /\ top <= Visible
      /\ \A u \in UpvalueIds : IsOpen(u) => location[u] < top
  BY Basics, OpenBelowTop DEF Visible
<1>3. stack'[top] = v /\ \A t \in Slots : t < top => stack'[t] = stack[t]
  BY <1>2, Basics
<1> QED BY <1>2, <1>3, PushAct

LEMMA GetsRefined ==
  ASSUME IInv, ~Repl,
         \/ \E v \in Values : Push(v)
         \/ \E s \in Slots : GetLocal(s)
         \/ \E i \in Indices : GetUpvalue(i)
         \/ \E c \in ClosureIds, n \in 0..MaxUpvalues, a \in Arities : ClosureBegin(c, n, a)
  PROVE  Refined
<1>0. \A v \in Held : v # NoValue => v \in Values
  BY HeldValues, Basics
<1>1. ASSUME NEW v \in Values, Push(v) PROVE Refined
  BY <1>1, PushesRefined DEF Push, closureVars, listVars
<1>2. ASSUME NEW s \in Slots, GetLocal(s) PROVE Refined
  <2>1. stack[s] \in Values
    BY <1>0, <1>2, Basics DEF GetLocal
  <2> QED BY <1>2, <2>1, PushesRefined DEF GetLocal, closureVars, listVars
<1>3. ASSUME NEW i \in Indices, GetUpvalue(i) PROVE Refined
  <2>1. PICK v \in Read(upvalues[Frame.closure][i]) : stack' = [stack EXCEPT ![top] = v]
    BY <1>3 DEF GetUpvalue
  <2>2. v \in Values
    BY <1>0, <1>3, <2>1, OwnUpvalue DEF GetUpvalue, Read
  <2> QED BY <1>3, <2>1, <2>2, PushesRefined DEF GetUpvalue, closureVars, listVars
<1>4. ASSUME NEW c \in ClosureIds, NEW n \in 0..MaxUpvalues, NEW a \in Arities,
             ClosureBegin(c, n, a)
      PROVE  Refined
  <2>1. Closure(c) \in Values
    BY ValuesAreValues
  <2> QED BY <1>4, <2>1, PushesRefined DEF ClosureBegin, listVars
<1> QED BY <1>1, <1>2, <1>3, <1>4

LEMMA OperateRefined ==
  ASSUME IInv, ~Repl, NEW v \in Values, NEW n \in {1, 2}, Operate(n, v) PROVE Refined
<1>1. /\ pc = "run" /\ pc' = "run" /\ Droppable(top - n)
      /\ stack' = [Cut(stack, top - n) EXCEPT ![top - n] = v] /\ top' = (top - n) + 1
      /\ UNCHANGED <<upvalues, location, closed>>
  BY DEF Operate, closureVars, listVars
<1>2. top - n \in Int /\ top - n < top /\ top - n <= top /\ top - n <= Visible
  BY <1>1, Basics DEF Visible
<1>3. /\ top - n \in Slots
      /\ \A u \in UpvalueIds : IsOpen(u) => location[u] < top - n
  BY <1>1, <1>2, Dropping, DropsNoOpen
<1>4. stack'[top - n] = v /\ \A t \in Slots : t < top - n => stack'[t] = stack[t]
  BY <1>1, <1>2, <1>3, Basics DEF Cut
<1> QED BY <1>1, <1>2, <1>3, <1>4, PushAct

\* The instructions that pop one value.
LEMMA PopsRefined == IInv /\ ~Repl /\ (Pop \/ DefineInit) => Refined
<1> SUFFICES ASSUME IInv, ~Repl, Pop \/ DefineInit PROVE Refined
  OBVIOUS
<1>1. /\ pc = "run" /\ pc' = "run" /\ Droppable(top - 1)
      /\ stack' = Cut(stack, top - 1) /\ top' = top - 1
      /\ UNCHANGED <<upvalues, location, closed>>
  BY DEF Pop, DefineInit, closureVars, listVars
<1>2. top - 1 \in Int /\ top - 1 < top /\ top - 1 <= top /\ top - 1 <= Visible
  BY <1>1, Basics DEF Visible
<1>3. /\ top - 1 \in Nat
      /\ \A u \in UpvalueIds : IsOpen(u) => location[u] \in Slots /\ location[u] < top - 1
  BY <1>1, <1>2, Dropping, DropsNoOpen, Basics
<1>4. \A t \in Slots : t < top - 1 => stack'[t] = stack[t]
  BY <1>1, <1>2, CutStack
<1> QED BY <1>1, <1>2, <1>3, <1>4, DropAct DEF Visible

LEMMA SetLocalRefined ==
  ASSUME IInv, ~Repl, NEW s \in Slots, SetLocal(s) PROVE Refined
<1>1. 0 < top
  BY Basics DEF SetLocal
<1>2. Peek(0) \in Values
  BY <1>1, Peeking, HeldValues, Basics
<1> QED BY <1>2, AssignAct DEF SetLocal, closureVars, listVars

LEMMA SetUpvalueRefined ==
  ASSUME IInv, ~Repl, NEW i \in Indices, SetUpvalue(i) PROVE Refined
<1>0. /\ pc = "run" /\ pc' = "run" /\ i < count[Frame.closure] /\ top' = top
      /\ UNCHANGED <<upvalues, location>>
  BY DEF SetUpvalue, closureVars
<1>a. PICK c \in ClosureIds : c = Frame.closure
  BY <1>0, TopFrame, Basics
<1>b. PICK u \in UpvalueIds : u = upvalues[c][i]
  BY <1>0, <1>a, OwnUpvalue
<1> DEFINE n == <<c, i>>
<1>1. /\ location[u] \in Slots \cup {Self}
      /\ location[u] # Self => location[u] < top
  BY <1>0, <1>a, <1>b, OwnUpvalue
<1>2. Peek(0) \in Values
  <2>1. 0 < top
    BY <1>0, TopFrame, Basics
  <2> QED BY <2>1, Peeking, HeldValues, Basics
<1>3. CASE location[u] # Self
  <2>1. stack' = [stack EXCEPT ![location[u]] = Peek(0)] /\ closed' = closed
    BY <1>3, <1>a, <1>b DEF SetUpvalue
  <2> QED BY <1>0, <1>1, <1>2, <1>3, <2>1, AssignAct
<1>4. CASE location[u] = Self
  <2>1. closed' = [closed EXCEPT ![u] = Peek(0)] /\ stack' = stack
    BY <1>4, <1>a, <1>b DEF SetUpvalue
  <2>2. \A w \in UpvalueIds : closed'[w] = IF w = u THEN Peek(0) ELSE closed[w]
    BY <2>1, Basics
  <2>3. n \in Names /\ Place(n) = u /\ u # Absent /\ u \notin Slots
    <3>1. u # Null /\ ~IsOpen(u)
      BY <1>1, <1>4, ClosuresAssumption, AddressAssumption DEF IsOpen
    <3>2. n \in Names /\ u # Absent /\ u \notin Slots
      BY <1>1, NameForms, AddressAssumption DEF Captures
    <3> QED BY <1>b, <3>1, <3>2, Places
  <2>4. \A m \in Names : Place(m)' = Place(m)
    <3>1. Visible' = Visible
      BY <1>0 DEF Visible
    <3>2. \A m \in Captures : Place(m)' = Place(m)
      BY <1>0, Places, PlacesNext DEF Captures, IsOpen
    <3>3. \A t \in Slots : Place(S!StackName(t))' = Place(S!StackName(t))
      BY <3>1, Places, PlacesNext
    <3> QED BY <3>2, <3>3, NameForms
  <2>5. ValueOf(n)' \in Values
    <3>1. Place(n)' = u
      BY <2>3, <2>4
    <3> QED BY <1>1, <1>2, <2>2, <2>3, <3>1, SharedStateNext
  <2>6. ASSUME NEW m \in Names, Place(m) # Place(n) PROVE ValueOf(m)' = ValueOf(m)
    <3>1. Place(m) # Absent => Place(m) \in Slots \cup UpvalueIds
      BY <1>0, NameInUse
    <3> QED BY <2>1, <2>2, <2>3, <2>4, <2>6, <3>1, SharedState, SharedStateNext
  <2>7. S!Write(n)
    <3>1. Visible' = Visible
      BY <1>0 DEF Visible
    <3> HIDE DEF n
    <3> QED BY <1>0, <2>3, <2>4, <2>5, <2>6, <3>1, WriteRefined
  <2> QED BY <2>3, <2>7, NameForms DEF Refined, S!Next
<1> QED BY <1>3, <1>4

\* OP_CLOSURE stores upvalue u under the name <<making, ui>>: from now on that is
\* a name of the variable that u stands for.
LEMMA StoreRefined ==
  ASSUME IInv, ~Repl, pc \in {"capture", "walk"}, pc' = "capture", ui < count[making],
         NEW u \in UpvalueIds, upvalues' = [upvalues EXCEPT ![making][ui] = u],
         UNCHANGED <<stack, top, closed>>,
         \A w \in UpvalueIds : location[w] # Null => location'[w] = location[w],
         NEW n \in Names, Place(n) # Absent,
         Place(n) = IF location'[u] \in Slots THEN location'[u] ELSE u
  PROVE  Refined
<1>1. PICK c \in ClosureIds, j \in Indices : c = making /\ j = ui
  BY Making
<1> DEFINE name == <<c, j>>
<1>2. upvalues[c][j] = Null /\ name \in Captures /\ name \in Names
  BY <1>1, Making, NameForms DEF Captures
<1>3. \A x \in ClosureIds, k \in Indices :
        upvalues'[x][k] = IF x = c /\ k = j THEN u ELSE upvalues[x][k]
  <2>1. upvalues \in [ClosureIds -> [Indices -> UpvalueIds \cup {Null}]]
    BY DEF IInv, TypeOK
  <2> QED BY <1>1, <2>1
<1>4. Visible' = Visible /\ pc \notin {"wild", "done"}
  BY DEF Visible
<1>5. Place(name) = Absent
  BY <1>2, Places
<1>6. Place(name)' = Place(n)
  <2>1. u # Null /\ upvalues'[c][j] = u
    BY <1>3, ClosuresAssumption
  <2> QED BY <2>1, PlacesNext DEF IsOpen
<1>7. ASSUME NEW m \in Names \ {name} PROVE Place(m)' = Place(m)
  <2>1. CASE m \in Captures
    <3>1. PICK x \in ClosureIds, k \in Indices : m = <<x, k>>
      BY <2>1 DEF Captures
    <3>2. upvalues'[x][k] = upvalues[x][k]
      BY <1>3, <1>7, <3>1
    <3>3. upvalues[x][k] # Null =>
            upvalues[x][k] \in UpvalueIds /\ location'[upvalues[x][k]] = location[upvalues[x][k]]
      BY DEF IInv, TypeOK, MakeInv
    <3> QED BY <3>1, <3>2, <3>3, Places, PlacesNext DEF IsOpen
  <2>2. CASE m \notin Captures
    BY <1>4, <1>7, <2>2, NameForms, Places, PlacesNext
  <2> QED BY <2>1, <2>2
<1>8. S!Capture(name, n)
  <2> HIDE DEF name
  <2> QED BY <1>2, <1>4, <1>5, <1>6, <1>7, CaptureRefined
<1> QED BY <1>2, <1>8, NameForms DEF Refined, S!Next

LEMMA CaptureOuterRefined ==
  ASSUME IInv, ~Repl, NEW i \in Indices, CaptureOuter(i) PROVE Refined
<1>1. /\ pc = "capture" /\ pc' = "capture" /\ ui < count[making] /\ i < count[Frame.closure]
      /\ upvalues' = [upvalues EXCEPT ![making][ui] = upvalues[Frame.closure][i]]
      /\ UNCHANGED <<stack, top, closed, location>>
  BY DEF CaptureOuter, Stored, listVars
<1>2. PICK c \in ClosureIds : c = Frame.closure
  BY <1>1, TopFrame, Basics
<1>3. PICK u \in UpvalueIds : u = upvalues[c][i]
  BY <1>1, <1>2, OwnUpvalue
<1>4. location[u] \in Slots \cup {Self}
  BY <1>1, <1>2, <1>3, OwnUpvalue
<1>5. /\ <<c, i>> \in Names /\ u # Null
      /\ Place(<<c, i>>) = IF location'[u] \in Slots THEN location'[u] ELSE u
      /\ Place(<<c, i>>) # Absent
  <2>1. <<c, i>> \in Names /\ u # Null
    BY NameForms, ClosuresAssumption DEF Captures
  <2>2. Place(<<c, i>>) = IF location'[u] \in Slots THEN location'[u] ELSE u
    BY <1>1, <1>3, <2>1, Places DEF IsOpen
  <2> QED BY <2>1, <2>2, AddressAssumption
<1> QED BY <1>1, <1>2, <1>3, <1>5, StoreRefined

\* The variable in slot local, which captureUpvalue looked for.
LEMMA LocalName ==
  ASSUME IInv, pc = "walk"
  PROVE  \E n \in Names : Place(n) = local /\ local # Absent /\ local \in Slots
<1>1. local \in Slots /\ local < Visible
  BY CursorOnList DEF Visible
<1> QED BY <1>1, NameForms, Places, AddressAssumption

LEMMA WalkFoundRefined == IInv /\ ~Repl /\ WalkFound => Refined
<1> SUFFICES ASSUME IInv, ~Repl, WalkFound PROVE Refined
  OBVIOUS
<1>1. /\ pc = "walk" /\ pc' = "capture" /\ cur # Null /\ location[cur] = local
      /\ upvalues' = [upvalues EXCEPT ![making][ui] = cur]
      /\ UNCHANGED <<stack, top, closed, location>>
  BY DEF WalkFound, SameSlot, Stored, listVars
<1>2. PICK u \in UpvalueIds : u = cur
  BY <1>1, CursorOnList
<1>3. PICK n \in Names : Place(n) = local /\ local # Absent /\ local \in Slots
  BY <1>1, LocalName
<1>4. ui < count[making]
  BY <1>1, CursorOnList
<1> QED BY <1>1, <1>2, <1>3, <1>4, StoreRefined

LEMMA WalkNewRefined ==
  ASSUME IInv, ~Repl, NEW u \in UpvalueIds, WalkNew(u) PROVE Refined
<1>1. /\ pc = "walk" /\ pc' = "capture" /\ location[u] = Null
      /\ location' = [location EXCEPT ![u] = local]
      /\ upvalues' = [upvalues EXCEPT ![making][ui] = u]
      /\ UNCHANGED <<stack, top, closed>>
  BY DEF WalkNew, Stored
<1>2. PICK n \in Names : Place(n) = local /\ local # Absent /\ local \in Slots
  BY <1>1, LocalName
<1>3. /\ location'[u] = local
      /\ \A w \in UpvalueIds : location[w] # Null => location'[w] = location[w]
  BY <1>1 DEF IInv, TypeOK
<1>4. ui < count[making]
  BY <1>1, CursorOnList
<1> QED BY <1>1, <1>2, <1>3, <1>4, StoreRefined

\* The steps inside OP_CLOSURE that only look.
LEMMA LooksRefined ==
  ASSUME IInv, ~Repl, Walk \/ ClosureEnd \/ \E s \in Slots : CaptureLocal(s)
  PROVE  Refined
<1>1. /\ pc \in {"walk", "capture"} /\ pc' # "close"
      /\ UNCHANGED <<stack, top, upvalues, location, closed>>
  BY DEF Walk, ClosureEnd, CaptureLocal, closureVars, listVars
<1> QED BY <1>1, StutterAct DEF Visible

-----------------------------------------------------------------------------
(* Variables that leave the stack *)

LEMMA CloseBeginRefined == IInv /\ ~Repl /\ CloseBegin => Refined
<1> SUFFICES ASSUME IInv, ~Repl, CloseBegin PROVE Refined
  OBVIOUS
<1>1. /\ pc = "run" /\ pc' = "close" /\ last' = top - 1 /\ top - 1 > Frame.slots
      /\ UNCHANGED <<stack, upvalues, location, closed>>
  BY DEF CloseBegin, closureVars, listVars
<1>2. top - 1 \in Nat /\ top - 1 <= Visible /\ Visible' = top - 1
  BY <1>1, TopFrame, Basics DEF Visible
<1> QED BY <1>1, <1>2, DropAct

LEMMA ReturnRefined == IInv /\ ~Repl /\ Return => Refined
<1> SUFFICES ASSUME IInv, ~Repl, Return PROVE Refined
  OBVIOUS
<1>1. /\ pc = "run" /\ pc' = "close" /\ last' = Frame.slots /\ Droppable(top - 1)
      /\ stack' = Cut(stack, top - 1)
      /\ UNCHANGED <<upvalues, location, closed>>
  BY DEF Return, closureVars, listVars
<1>2. /\ Frame.slots \in Nat /\ Frame.slots <= Visible /\ Visible' = Frame.slots
      /\ top - 1 \in Int /\ top - 1 <= top /\ Frame.slots <= top - 1
  BY <1>1, TopFrame, Basics DEF Visible
<1>3. \A t \in Slots : t < top - 1 => stack'[t] = stack[t]
  BY <1>1, <1>2, CutStack
<1>4. \A t \in Slots : t < Frame.slots => stack'[t] = stack[t]
  BY <1>2, <1>3, Basics
<1>5. \A u \in UpvalueIds : IsOpen(u) => stack'[location[u]] = stack[location[u]]
  BY <1>1, <1>2, <1>3, DropsNoOpen, Basics
<1>6. PICK s \in Nat : s = Frame.slots
  BY <1>2
<1> QED BY <1>1, <1>2, <1>4, <1>5, <1>6, DropAct

\* closeUpvalues moves a variable out of its slot: the closures that share it
\* share it still, with its value, and no other name is affected.
LEMMA CloseStepRefined == IInv /\ ~Repl /\ CloseStep => Refined
<1> SUFFICES ASSUME IInv, ~Repl, CloseStep PROVE Refined
  OBVIOUS
<1>0. /\ pc = "close" /\ pc' = "close" /\ open # Null /\ location[open] >= last
      /\ closed' = [closed EXCEPT ![open] = stack[location[open]]]
      /\ location' = [location EXCEPT ![open] = Self]
      /\ UNCHANGED <<stack, top, upvalues, last>>
  BY DEF CloseStep, CloseOn, closureVars, loopVars
<1>1. PICK o \in UpvalueIds : o = open
  BY <1>0 DEF IInv, TypeOK
<1>2. PICK p \in Slots : p = location[o]
  BY <1>0, <1>1, OpenListLeast, Basics DEF IInv, TypeOK
<1>3. Visible = last /\ Visible' = Visible /\ p >= last /\ p \in Nat /\ last \in Nat
  BY <1>0, <1>1, <1>2, Basics DEF Visible, IInv, TypeOK
<1>4. /\ location'[o] = Self /\ \A w \in UpvalueIds \ {o} : location'[w] = location[w]
      /\ closed'[o] = stack[p] /\ \A w \in UpvalueIds \ {o} : closed'[w] = closed[w]
  BY <1>0, <1>1, <1>2, Basics DEF IInv, TypeOK
<1>5. o # Null /\ o # Absent /\ o \notin Slots /\ p # Absent
  BY ClosuresAssumption, AddressAssumption
<1>6. ASSUME NEW n \in Names
      PROVE  /\ Place(n) # o
             /\ Place(n) = p => Place(n)' = o
             /\ Place(n) # p => Place(n)' = Place(n)
  <2>1. CASE n \in Captures
    <3>1. PICK c \in ClosureIds, i \in Indices : n = <<c, i>>
      BY <2>1 DEF Captures
    <3>2. CASE upvalues[c][i] = Null
      BY <1>0, <1>5, <3>1, <3>2, Places, PlacesNext
    <3>3. CASE upvalues[c][i] # Null
      <4>1. PICK w \in UpvalueIds : w = upvalues[c][i]
        BY <3>3 DEF IInv, TypeOK
      <4>2. /\ Place(n) = IF location[w] \in Slots THEN location[w] ELSE w
            /\ Place(n)' = IF location'[w] \in Slots THEN location'[w] ELSE w
        BY <1>0, <3>1, <3>3, <4>1, Places, PlacesNext DEF IsOpen
      <4>3. CASE w = o
        BY <1>2, <1>4, <1>5, <4>2, <4>3, AddressAssumption
      <4>4. CASE w # o
        <5>1. location[w] \in Slots => location[w] # p
          BY <1>2, <4>4 DEF IInv, OpenInv, OneUpvaluePerValue, IsOpen
        <5>2. w \notin Slots /\ location'[w] = location[w]
          BY <1>4, <4>4, AddressAssumption
        <5> QED BY <1>5, <4>2, <4>4, <5>1, <5>2
      <4> QED BY <4>3, <4>4
    <3> QED BY <3>2, <3>3
  <2>2. CASE n \notin Captures
    <3>1. PICK t \in Slots : n = S!StackName(t)
      BY <2>2, NameForms
    <3>2. t \in Nat
      BY Basics
    <3> QED BY <1>3, <1>5, <3>1, <3>2, Places, PlacesNext
  <2> QED BY <2>1, <2>2
<1>7. ASSUME NEW n \in Names PROVE ValueOf(n)' = ValueOf(n)
  <2>1. CASE Place(n) = p
    BY <1>4, <1>5, <1>6, <2>1, SharedState, SharedStateNext
  <2>2. CASE Place(n) # p
    <3>1. Place(n) # Absent => Place(n) \in Slots \cup UpvalueIds
      BY <1>0, NameInUse
    <3>2. Place(n)' = Place(n) /\ Place(n) # o
      BY <1>6, <2>2
    <3> QED BY <1>0, <1>4, <3>1, <3>2, SharedState, SharedStateNext
  <2> QED BY <2>1, <2>2
<1>8. ASSUME NEW n \in Names PROVE Group(n)' = Group(n)
  <2>1. \A m \in Names : Place(m)' = Place(n)' <=> Place(m) = Place(n)
    BY <1>6
  <2>2. Place(n)' = Absent <=> Place(n) = Absent
    BY <1>5, <1>6
  <2> QED BY <2>1, <2>2, SharedState, SharedStateNext
<1> QED BY <1>3, <1>7, <1>8, StutterRefined DEF Refined

LEMMA CloseEndPopRefined == IInv /\ ~Repl /\ CloseEndPop => Refined
<1> SUFFICES ASSUME IInv, ~Repl, CloseEndPop PROVE Refined
  OBVIOUS
<1>1. /\ pc = "close" /\ ~CloseOn /\ after = "pop" /\ pc' = "run"
      /\ stack' = Cut(stack, top - 1) /\ top' = top - 1
      /\ UNCHANGED <<upvalues, location, closed>>
  BY DEF CloseEndPop, closureVars, listVars
<1>2. last = top - 1 /\ Visible = last /\ Visible' = Visible /\ top - 1 \in Int /\ top - 1 <= top
  BY <1>1, Basics DEF IInv, CloseInv, Visible
<1>3. \A t \in Slots : t < Visible => stack'[t] = stack[t]
  BY <1>1, <1>2, CutStack
<1>4. \A u \in UpvalueIds : IsOpen(u) => location[u] \in Slots /\ location[u] < last
  BY <1>1, AllClosed DEF IInv, OpenInv, IsOpen
<1> QED BY <1>1, <1>2, <1>3, <1>4, StutterAct

LEMMA ReturnEndRefined == IInv /\ ~Repl /\ ReturnEnd => Refined
<1> SUFFICES ASSUME IInv, ~Repl, ReturnEnd PROVE Refined
  OBVIOUS
<1>0. /\ pc = "close" /\ ~CloseOn /\ after = "return"
      /\ UNCHANGED <<upvalues, location, closed>>
  BY DEF ReturnEnd, closureVars, listVars
<1>1. PICK s \in Nat : s = Frame.slots
  BY <1>0, TopFrame
<1>2. /\ s \in Slots /\ last = s /\ Visible = s /\ (frameCount = 1 => top = 1) /\ s < top
  BY <1>0, <1>1, TopFrame, Basics DEF IInv, CloseInv, Visible
<1>3. \A u \in UpvalueIds : IsOpen(u) => location[u] \in Nat /\ location[u] < s
  BY <1>0, <1>2, AllClosed DEF IInv, OpenInv
<1>4. CASE frameCount = 1
  <2>1. top' = 0 /\ Visible' = 0 /\ 0 <= Visible
    BY <1>2, <1>4 DEF ReturnEnd, Visible, Finished
  <2>2. /\ \A t \in Slots : ~ (t < 0)
        /\ \A u \in UpvalueIds : ~IsOpen(u)
    BY <1>2, <1>3, <1>4, Basics
  <2> QED BY <1>0, <2>1, <2>2, DropAct
<1>5. CASE frameCount # 1
  <2>1. stack' = [Cut(stack, s) EXCEPT ![s] = result] /\ top' = s + 1 /\ pc' = "run"
    BY <1>1, <1>5 DEF ReturnEnd
  <2>2. result \in Values
    BY <1>0, HeldValues, Basics DEF IInv, FilledInv
  <2>3. stack'[s] = result /\ \A t \in Slots : t < s => stack'[t] = stack[t]
    BY <1>2, <2>1, Basics DEF Cut
  <2> QED BY <1>0, <1>2, <1>3, <2>1, <2>2, <2>3, PushAct
<1> QED BY <1>4, <1>5

-----------------------------------------------------------------------------
(* The refinement *)

LEMMA InitRefined == Init => S!Init
<1> SUFFICES ASSUME Init PROVE S!Init
  OBVIOUS
<1>1. Visible = 0 /\ \A t \in Slots : ~ (t < 0)
  BY ClosuresAssumption DEF Init, Visible, Slots
<1>2. \A c \in ClosureIds, i \in Indices : upvalues[c][i] = Null
  BY DEF Init
<1>3. \A n \in Names : Place(n) = Absent
  BY <1>1, <1>2, NameForms, Places DEF Captures
<1>4. \A n \in Names : ValueOf(n) = Absent /\ Group(n) = {}
  BY <1>3, SharedState
<1> QED BY <1>1, <1>4, NameForms DEF S!Init

LEMMA NextRefined == IInv /\ ~Repl /\ [Next]_vars => Refined
<1> SUFFICES ASSUME IInv, ~Repl, [Next]_vars PROVE Refined
  OBVIOUS
<1>1. CASE \E c \in ClosureIds : Interpret(c)
  BY <1>1, InterpretRefined
<1>2. CASE \E v \in Values : Push(v) \/ Operate(1, v) \/ Operate(2, v)
  <2>1. 1 \in {1, 2} /\ 2 \in {1, 2}
    OBVIOUS
  <2> QED BY <1>2, <2>1, GetsRefined, OperateRefined
<1>3. CASE \/ \E a \in Arities : OpCall(a)
           \/ \E a \in Arities, v \in Values : InvokeField(a, v)
  BY <1>3, CallsRefined
<1>4. CASE \E a \in Arities, c \in ClosureIds : InvokeMethod(a, c) \/ SuperInvoke(a, c)
  BY <1>4, InvokeMethodRefined, SuperInvokeRefined
<1>5. CASE \E s \in Slots : GetLocal(s) \/ SetLocal(s) \/ CaptureLocal(s)
  BY <1>5, GetsRefined, SetLocalRefined, LooksRefined
<1>6. CASE \E i \in Indices : GetUpvalue(i) \/ SetUpvalue(i) \/ CaptureOuter(i)
  BY <1>6, GetsRefined, SetUpvalueRefined, CaptureOuterRefined
<1>7. CASE \E c \in ClosureIds, n \in 0..MaxUpvalues, a \in Arities : ClosureBegin(c, n, a)
  BY <1>7, GetsRefined
<1>8. CASE \E u \in UpvalueIds : WalkNew(u)
  BY <1>8, WalkNewRefined
<1>9. CASE Error \/ Pop \/ DefineInit \/ Walk \/ WalkFound \/ ClosureEnd
  BY <1>9, ErrorRefined, PopsRefined, LooksRefined, WalkFoundRefined
<1>10. CASE CloseBegin \/ Return \/ CloseStep \/ CloseEndPop \/ ReturnEnd
  BY <1>10, CloseBeginRefined, ReturnRefined, CloseStepRefined, CloseEndPopRefined,
     ReturnEndRefined
<1>11. CASE UNCHANGED vars
  <2>1. UNCHANGED <<pc, stack, top, upvalues, location, closed, last>>
    BY <1>11 DEF vars, closureVars, listVars, loopVars
  <2>2. \A n \in Names : Place(n)' = Place(n) /\ ValueOf(n)' = ValueOf(n)
    BY <2>1 DEF Place, ValueOf, Visible, IsOpen
  <2>3. Visible' = Visible
    BY <2>1 DEF Visible
  <2> QED BY <2>2, <2>3, SamePlaces DEF Refined
<1> QED BY <1>1, <1>2, <1>3, <1>4, <1>5, <1>6, <1>7, <1>8, <1>9, <1>10, <1>11 DEF Next

\* Run from a file, the VM's stack, frames and upvalues implement shared
\* variables: a variable has one value under all its names, a write through one
\* is seen through the others and through no other name, and closures keep it when
\* its slot is gone, whatever is called, captured, closed or aborted meanwhile.
THEOREM ClosuresImplementSharing ==
  ASSUME ~Repl PROVE Spec => ImplementsSharing
<1>1. IInv /\ [Next]_vars => [S!Next]_(S!svars)
  BY NextRefined DEF Refined
<1> QED BY <1>1, InitRefined, ClosuresInvariant, PTL DEF Spec, ImplementsSharing, S!Spec

=============================================================================
