-------------------------- MODULE CollectorProofs ---------------------------
(***************************************************************************)
(* Proofs about the collector, for every number of objects and every       *)
(* object graph.                                                           *)
(***************************************************************************)
EXTENDS Collector, FiniteSetTheorems, TLAPS

-----------------------------------------------------------------------------
(* Pointers *)

\* Everything object o points to.
Out(o) == Targets(o, Fields(type[o]))

\* A set of objects that nothing points out of.
Sealed(S) == \A o \in S : Out(o) \subseteq S

\* A sealed set that contains the roots.
RootedIn(S) == AllRoots \subseteq S /\ Sealed(S)

\* Membership in the unions the model is written with.
LEMMA Members ==
  /\ \A x : x \in AllRoots <=> \E k \in RootKinds : x \in roots[k]
  /\ \A o, F, x : x \in Targets(o, F) <=> \E f \in F : x \in ref[o][f]
BY DEF AllRoots, Targets

\* blackenObject marks every pointer field that the struct has, for every type.
LEMMA TracedIsFields == \A t \in ObjType : Traced(t) = Fields(t)
BY DEF Traced, Fields

\* Pointers lead to objects.
LEMMA PointersTyped ==
  ASSUME PointerTypes
  PROVE  /\ AllRoots \subseteq Objects
         /\ \A o \in Objects : Out(o) \subseteq Objects
         /\ \A t \in ObjType : Fields(t) \subseteq AllFields
<1>1. \A t \in ObjType : Fields(t) \subseteq AllFields
  BY DEF AllFields
<1>2. AllRoots \subseteq Objects
  BY Members DEF PointerTypes
<1>3. ASSUME NEW o \in Objects PROVE Out(o) \subseteq Objects
  <2>1. type[o] \in ObjType /\ ref[o] \in [AllFields -> SUBSET Objects]
    BY DEF PointerTypes
  <2> QED BY <1>1, <2>1, Members DEF Out
<1> QED BY <1>1, <1>2, <1>3

\* The location of an open upvalue leads to the stack, which is a root: a set
\* with the roots is closed if it is sealed.
LEMMA ClosedIsSealed ==
  ASSUME NEW S, AllRoots \subseteq S
  PROVE  Closed(S) <=> Sealed(S)
<1>1. \A o : Slot(o) \subseteq AllRoots
  BY Members DEF Slot, RootKinds
<1> QED BY <1>1 DEF Closed, Sealed, Leads, Out

\* Reachable is contained in every sealed set with the roots, and is one itself.
LEMMA ReachableLeast ==
  /\ \A S \in SUBSET Objects : RootedIn(S) => Reachable \subseteq S
  /\ PointerTypes => AllRoots \subseteq Reachable
  /\ PointerTypes => \A o \in Reachable : Out(o) \subseteq Reachable
<1>1. ASSUME NEW S \in SUBSET Objects, RootedIn(S) PROVE Reachable \subseteq S
  <2>1. AllRoots \subseteq S /\ Closed(S)
    BY <1>1, ClosedIsSealed DEF RootedIn
  <2> QED BY <2>1 DEF Reachable
<1>2. PointerTypes => AllRoots \subseteq Reachable
  BY PointersTyped DEF Reachable
<1>3. ASSUME PointerTypes, NEW o \in Reachable PROVE Out(o) \subseteq Reachable
  <2>1. o \in Objects /\ Out(o) \subseteq Objects
    BY <1>3, PointersTyped DEF Reachable
  <2>2. ASSUME NEW S \in SUBSET Objects, AllRoots \subseteq S, Closed(S)
        PROVE  Out(o) \subseteq S
    <3>1. o \in S
      BY <2>2 DEF Reachable
    <3> QED BY <2>2, <3>1 DEF Closed, Leads, Out
  <2> QED BY <2>1, <2>2 DEF Reachable
<1> QED BY <1>1, <1>2, <1>3

-----------------------------------------------------------------------------
(* The inductive invariant *)

\* The list that starts at first holds every allocated object: links stay in
\* the heap, no two objects have the same successor, nothing leads back to the
\* first, and no part of the heap is cut off from it.
List(first) ==
  /\ first \in heap \cup {Null}
  /\ \A o \in heap : next[o] \in heap \cup {Null}
  /\ \A o \in heap : next[o] # Null => next[o] # first
  /\ \A o, p \in heap : next[o] # Null /\ next[o] = next[p] => o = p
  /\ \A S \in SUBSET heap : S # {} =>
       \E o \in S : o = first \/ \E p \in heap \ S : next[p] = o

ListInv ==
  /\ pc \notin {"free", "done"} => List(head)
  /\ pc = "free" => List(object)
  /\ pc = "done" /\ want = "none" => heap = {}

\* The objects this collection keeps.
Survivors == marked \cup swept

\* Outside of a sweep the heap itself is rooted and closed.
HeapInv ==
  pc \notin {"free", "done"} =>
    /\ \A o \in Objects \ heap : ref[o] = NoRefs
    /\ pc # "sweep" => RootedIn(heap)

\* The tri-colour invariant while tracing; at the end of it the marked objects
\* are the reachable ones, and the sweep keeps exactly those.
MarkInv ==
  /\ pc \notin {"trace", "sweep"} => marked = {} /\ gray = {} /\ swept = {}
  /\ pc = "trace" =>
       /\ swept = {} /\ gray \subseteq marked
       /\ AllRoots \subseteq marked /\ marked \subseteq heap /\ marked \subseteq Reachable
       /\ \A o \in marked \ gray : Out(o) \subseteq marked
  /\ pc = "sweep" =>
       /\ gray = {} /\ marked \cap swept = {}
       /\ Survivors \subseteq heap /\ Survivors \subseteq Reachable
       /\ RootedIn(Survivors)

\* The cursors of the sweep: what is behind them is kept, and nothing ahead of
\* them leads back.
SweepInv ==
  pc = "sweep" =>
    /\ object \in heap \cup {Null} /\ object \notin swept
    /\ previous = Null => swept = {} /\ object = head
    /\ previous # Null => previous \in swept /\ next[previous] = object /\ head \in swept
    /\ \A o \in swept : next[o] \in swept \cup {object}
    /\ \A o \in heap \ swept : next[o] \notin swept

\* The intern table: exactly the strings of the heap, or of its survivors; only
\* the table grows while a string waits to be interned.
StringInv ==
  /\ fresh # Null => /\ fresh \in roots["stack"] /\ type[fresh] = "string"
                     /\ want \in {"none", "table"}
  /\ pc \in {"run", "free"} => want = "none"
  /\ pc \in {"roots", "trace", "sweep", "link"} => want # "none"
  /\ pc \in {"run", "link", "roots", "trace"} =>
       strings = {o \in heap : type[o] = "string"} \ {fresh}
  /\ pc = "sweep" => strings = {o \in Survivors : type[o] = "string"} \ {fresh}

IInv == PointerTypes /\ ListInv /\ HeapInv /\ MarkInv /\ SweepInv /\ StringInv

-----------------------------------------------------------------------------
(* The program between two collections *)

\* What the program can name is allocated.
LEMMA NamedAllocated ==
  ASSUME IInv, pc = "run"
  PROVE  AllRoots \subseteq heap /\ Named \subseteq heap /\ Sealed(heap)
<1>1. AllRoots \subseteq heap /\ Sealed(heap)
  BY DEF IInv, HeapInv, RootedIn
<1>2. \A x \in Named : x \in AllRoots \/ \E o \in AllRoots : x \in Out(o)
  BY Members DEF Named, Leads, Slot, Out, RootKinds
<1> QED BY <1>1, <1>2 DEF Sealed, Out

\* A step of the program that leaves the heap, the list and the collector alone
\* needs to be examined for its pointers only.
LEMMA ProgramStep ==
  ASSUME IInv, pc = "run", pc' = "run", fresh = Null, fresh' = Null,
         UNCHANGED <<want, strings, type, collector, list>>,
         PointerTypes', RootedIn(heap)',
         \A o \in Objects \ heap : ref'[o] = NoRefs
  PROVE  IInv'
<1>1. ListInv' /\ SweepInv'
  BY DEF IInv, ListInv, List, SweepInv, list, collector
<1>2. HeapInv' /\ MarkInv'
  BY DEF IInv, HeapInv, MarkInv, list, collector
<1>3. StringInv'
  BY DEF IInv, StringInv, list
<1> QED BY <1>1, <1>2, <1>3 DEF IInv

\* Storing a pointer the program can name.
LEMMA StoreIInv ==
  ASSUME IInv, NEW o \in Objects, NEW p \in Objects, NEW f \in Fields(type[o]), Store(o, f, p)
  PROVE  IInv'
<1>0. /\ pc = "run" /\ pc' = "run" /\ fresh = Null /\ fresh' = Null
      /\ UNCHANGED <<want, strings, type, location, roots, collector, list>>
      /\ ref' = [ref EXCEPT ![o][f] = IF IsTable(f) THEN @ \cup {p} ELSE {p}]
      /\ o \in AllRoots /\ p \in Named
  BY DEF Store, Idle, request
<1>1. /\ PointerTypes /\ ref \in [Objects -> [AllFields -> SUBSET Objects]]
      /\ type \in [Objects -> ObjType] /\ f \in AllFields /\ heap \subseteq Objects
  BY PointersTyped DEF IInv, PointerTypes
<1>2. AllRoots \subseteq heap /\ Named \subseteq heap /\ Sealed(heap)
  BY <1>0, NamedAllocated
<1>3. /\ ref' \in [Objects -> [AllFields -> SUBSET Objects]]
      /\ \A x \in Objects : x # o => ref'[x] = ref[x]
      /\ \A g \in AllFields : ref'[o][g] \subseteq ref[o][g] \cup {p}
  BY <1>0, <1>1
<1>4. PointerTypes'
  BY <1>0, <1>1, <1>3 DEF PointerTypes, list, collector
<1>5. Sealed(heap)'
  <2>1. SUFFICES ASSUME NEW x \in heap, NEW y, y \in Targets(x, Fields(type[x]))'
                 PROVE  y \in heap
    BY <1>0 DEF Sealed, Out, list
  <2>2. PICK g \in Fields(type[x]) : y \in ref'[x][g]
    BY <1>0, <2>1 DEF Targets
  <2>3. g \in AllFields
    BY <1>1, PointersTyped
  <2>4. CASE x = o
    <3>1. y = p \/ y \in ref[o][g]
      BY <1>3, <2>2, <2>3, <2>4
    <3>2. y \in ref[o][g] => y \in Out(o)
      BY <2>4, Members DEF Out
    <3> QED BY <1>0, <1>2, <2>4, <3>1, <3>2 DEF Sealed
  <2>5. CASE x # o
    <3>1. y \in Out(x)
      BY <1>1, <1>3, <2>2, <2>5, Members DEF Out
    <3> QED BY <1>2, <3>1 DEF Sealed
  <2> QED BY <2>4, <2>5
<1>6. RootedIn(heap)'
  BY <1>0, <1>2, <1>5 DEF RootedIn, AllRoots, list
<1>7. \A x \in Objects \ heap : ref'[x] = NoRefs
  BY <1>0, <1>2, <1>3 DEF IInv, HeapInv
<1> QED BY <1>0, <1>4, <1>6, <1>7, ProgramStep

\* Changing the roots to objects the program can name.
LEMMA RootsIInv ==
  ASSUME IInv, pc = "run", pc' = "run", fresh = Null, fresh' = Null,
         UNCHANGED <<want, strings, location, type, ref, collector, list>>,
         roots' \in [RootKinds -> SUBSET Objects],
         \A k \in RootKinds : roots'[k] \subseteq roots[k] \cup Named
  PROVE  IInv'
<1>1. AllRoots \subseteq heap /\ Named \subseteq heap /\ Sealed(heap)
  BY NamedAllocated
<1>2. PointerTypes'
  BY DEF IInv, PointerTypes, list, collector
<1>3. AllRoots' \subseteq heap
  <2>1. \A x \in AllRoots' : \E k \in RootKinds : x \in roots'[k]
    BY DEF AllRoots
  <2>2. \A k \in RootKinds : roots[k] \subseteq AllRoots
    BY Members
  <2> QED BY <1>1, <2>1, <2>2
<1>4. Sealed(heap)'
  BY <1>1 DEF Sealed, Out, Targets, list
<1>5. RootedIn(heap)'
  BY <1>3, <1>4 DEF RootedIn, list
<1>6. \A x \in Objects \ heap : ref'[x] = NoRefs
  BY DEF IInv, HeapInv
<1> QED BY <1>2, <1>5, <1>6, ProgramStep

\* Writing a value of the stack into an upvalue: by an assignment, or when it is
\* closed.
LEMMA UpvalueIInv ==
  ASSUME IInv, pc = "run", pc' = "run", fresh = Null, fresh' = Null,
         UNCHANGED <<want, strings, type, collector, list>>,
         NEW u \in heap, NEW V \in SUBSET roots["stack"],
         ref' = [ref EXCEPT ![u]["closed"] = V],
         location' \in [Objects -> {"stack", "closed"}],
         roots' \in [RootKinds -> SUBSET Objects],
         \A k \in RootKinds : roots'[k] \subseteq roots[k]
  PROVE  IInv'
<1>1. /\ PointerTypes /\ ref \in [Objects -> [AllFields -> SUBSET Objects]]
      /\ type \in [Objects -> ObjType] /\ heap \subseteq Objects
  BY DEF IInv, PointerTypes
<1>2. AllRoots \subseteq heap /\ Sealed(heap)
  BY NamedAllocated
<1>3. V \subseteq heap /\ \A k \in RootKinds : roots[k] \subseteq heap
  BY <1>2, Members DEF RootKinds
<1>4. "closed" \in AllFields
  <2>1. "closed" \in Fields("upvalue") /\ "upvalue" \in ObjType
    BY DEF Fields, ObjType
  <2> QED BY <2>1 DEF AllFields
<1>5. /\ ref' \in [Objects -> [AllFields -> SUBSET Objects]]
      /\ \A x \in Objects : x # u => ref'[x] = ref[x]
      /\ \A g \in AllFields : ref'[u][g] \subseteq ref[u][g] \cup V
  BY <1>1, <1>3, <1>4
<1>7. PointerTypes'
  BY <1>1, <1>5 DEF PointerTypes, list, collector
<1>8. Sealed(heap)'
  <2>1. SUFFICES ASSUME NEW x \in heap, NEW y, y \in Targets(x, Fields(type[x]))'
                 PROVE  y \in heap
    BY DEF Sealed, Out, list
  <2>2. PICK g \in Fields(type[x]) : y \in ref'[x][g]
    BY <2>1 DEF Targets
  <2>3. g \in AllFields
    BY <1>1, PointersTyped
  <2>4. y \in ref[x][g] \/ y \in heap
    BY <1>1, <1>3, <1>5, <2>2, <2>3
  <2>5. y \in ref[x][g] => y \in Out(x)
    BY Members DEF Out
  <2> QED BY <1>2, <2>4, <2>5 DEF Sealed
<1>9. RootedIn(heap)'
  <2>1. AllRoots' \subseteq heap
    BY <1>3 DEF AllRoots
  <2> QED BY <1>8, <2>1 DEF RootedIn, list
<1>10. \A x \in Objects \ heap : ref'[x] = NoRefs
  BY <1>5 DEF IInv, HeapInv
<1> QED BY <1>7, <1>9, <1>10, ProgramStep

\* OP_SET_UPVALUE.
LEMMA AssignIInv ==
  ASSUME IInv, NEW u \in Objects, NEW p \in Objects, Assign(u, p)
  PROVE  IInv'
<1>1. /\ pc = "run" /\ pc' = "run" /\ fresh = Null /\ fresh' = Null
      /\ UNCHANGED <<want, strings, type, location, roots, collector, list>>
      /\ ref' = [ref EXCEPT ![u]["closed"] = {p}] /\ u \in Named /\ p \in roots["stack"]
  BY DEF Assign, Idle, request
<1>2. u \in heap /\ {p} \in SUBSET roots["stack"]
  BY <1>1, NamedAllocated
<1>3. /\ location' \in [Objects -> {"stack", "closed"}]
      /\ roots' \in [RootKinds -> SUBSET Objects]
      /\ \A k \in RootKinds : roots'[k] \subseteq roots[k]
  BY <1>1 DEF IInv, PointerTypes
<1> QED BY <1>1, <1>2, <1>3, UpvalueIInv

\* Closing an upvalue: the value comes from the stack.
LEMMA CloseUpvalueIInv ==
  ASSUME IInv, NEW u \in Objects, NEW p \in Objects \cup {Null}, CloseUpvalue(u, p)
  PROVE  IInv'
<1>1. /\ pc = "run" /\ pc' = "run" /\ fresh = Null /\ fresh' = Null
      /\ UNCHANGED <<want, strings, type, collector, list>>
      /\ ref' = [ref EXCEPT ![u]["closed"] = {p} \ {Null}]
      /\ location' = [location EXCEPT ![u] = "closed"]
      /\ roots' = [roots EXCEPT !["open"] = @ \ {u}]
      /\ u \in roots["open"] /\ p \in roots["stack"] \cup {Null}
  BY DEF CloseUpvalue, Idle, request
<1>2. u \in heap /\ {p} \ {Null} \in SUBSET roots["stack"]
  BY <1>1, NamedAllocated, Members DEF RootKinds
<1>3. /\ location' \in [Objects -> {"stack", "closed"}]
      /\ roots' \in [RootKinds -> SUBSET Objects]
      /\ \A k \in RootKinds : roots'[k] \subseteq roots[k]
  BY <1>1 DEF IInv, PointerTypes
<1> QED BY <1>1, <1>2, <1>3, UpvalueIInv

-----------------------------------------------------------------------------
(* Allocation *)

\* The reachable objects depend on the pointers only.
LEMMA PointersUnchanged ==
  ASSUME UNCHANGED <<type, ref, roots>>
  PROVE  /\ AllRoots' = AllRoots /\ Reachable' = Reachable
         /\ \A o : Out(o)' = Out(o)
         /\ \A S : Sealed(S)' <=> Sealed(S)
<1>1. AllRoots' = AllRoots /\ \A o, F : Targets(o, F)' = Targets(o, F)
  BY DEF AllRoots, Targets
<1>2. \A o : Out(o)' = Out(o) /\ Leads(o)' = Leads(o)
  BY <1>1 DEF Out, Leads, Slot
<1>3. Reachable' = Reachable
  BY <1>1, <1>2 DEF Reachable, Closed
<1> QED BY <1>1, <1>2, <1>3 DEF Sealed

\* The heap is finite, so it can be counted.
LEMMA HeapFinite ==
  ASSUME PointerTypes
  PROVE  IsFiniteSet(heap) /\ Cardinality(heap) \in Nat
<1>1. IsFiniteSet(heap)
  BY CollectorAssumption, FS_Subset DEF PointerTypes
<1> QED BY <1>1, FS_CardinalityType

\* A step between two phases in which nothing is marked and nothing is moved.
LEMMA QuietStep ==
  ASSUME IInv, pc \in {"run", "link"}, pc' \in {"run", "link", "roots"},
         UNCHANGED <<type, ref, roots, heap, head, next, marked, gray, swept>>
  PROVE  ListInv' /\ HeapInv' /\ MarkInv' /\ SweepInv'
<1>1. ListInv'
  BY DEF IInv, ListInv, List
<1>2. HeapInv'
  BY PointersUnchanged DEF IInv, HeapInv, RootedIn
<1>3. MarkInv' /\ SweepInv'
  BY DEF IInv, MarkInv, SweepInv
<1> QED BY <1>1, <1>2, <1>3

\* What a call of reallocate may be for.
Wants == ObjType \cup {"chars", "upvalues", "table", "code", "lines", "constants"}

\* The calls of reallocate and their ends, which change counts and blocks only:
\* the pointers do not notice them.
LEMMA BlockStep ==
  ASSUME IInv, pc \in {"run", "link"}, pc' \in {"run", "link", "roots"},
         UNCHANGED <<strings, mutator, collector, list>>,
         IF pc' = "run" THEN want' = "none" ELSE want' \in Wants,
         fresh # Null => want' \in {"none", "table"}
  PROVE  IInv'
<1>0. /\ UNCHANGED <<strings, type, ref, location, roots, fresh>>
      /\ UNCHANGED <<marked, gray, previous, object, swept, heap, head, next>>
  BY DEF mutator, collector, list
<1>1. PointerTypes'
  BY <1>0 DEF IInv, PointerTypes, Wants
<1>2. StringInv'
  BY <1>0 DEF IInv, StringInv, Wants, ObjType
<1> QED BY <1>0, <1>1, <1>2, QuietStep DEF IInv

\* The program calls reallocate.
LEMMA RequestIInv ==
  ASSUME IInv,
         \/ \E l \in {"chars", "upvalues"}, n \in Lengths : AllocateLocal(l, n)
         \/ \E t \in Types : Allocate(t)
         \/ \E x \in Owners : GrowTable(x)
         \/ \E o \in Objects : GrowCode(o) \/ GrowConstants(o)
  PROVE  IInv'
<1>1. /\ pc = "run" /\ pc' \in {"link", "roots"}
      /\ UNCHANGED <<strings, mutator, collector, list>>
      /\ want' \in Wants /\ (fresh # Null => want' = "table")
  BY CollectorAssumption
  DEF AllocateLocal, Allocate, GrowTable, GrowCode, GrowConstants, Reallocate, Request,
      Idle, Wants
<1> QED BY <1>1, BlockStep

\* reallocate returns, to a caller that goes on or that calls it again.
LEMMA ReturnIInv ==
  ASSUME IInv, LinkLocal \/ FreeChars \/ LinkTable \/ LinkCode \/ LinkLines \/ LinkConstants
  PROVE  IInv'
<1>1. CASE FreeChars
  <2>1. /\ pc = "run" /\ pc' = "run" /\ want' = want
        /\ UNCHANGED <<strings, mutator, collector, list>>
    BY <1>1 DEF FreeChars, request
  <2>2. want' = "none"
    BY <2>1 DEF IInv, StringInv
  <2> QED BY <2>1, <2>2, BlockStep
<1>2. CASE LinkCode
  <2>1. /\ pc = "link" /\ pc' \in {"link", "roots"} /\ want = "code" /\ want' = "lines"
        /\ UNCHANGED <<strings, mutator, collector, list>>
    BY <1>2 DEF LinkCode, Request, Reallocate
  <2>2. fresh = Null
    BY <2>1 DEF IInv, StringInv
  <2> QED BY <2>1, <2>2, BlockStep DEF Wants
<1>3. CASE LinkLocal \/ LinkTable \/ LinkLines \/ LinkConstants
  <2>1. /\ pc = "link" /\ pc' = "run" /\ want' = "none"
        /\ UNCHANGED <<strings, mutator, collector, list>>
    BY <1>3 DEF LinkLocal, LinkTable, LinkLines, LinkConstants, Return, Request
  <2> QED BY <2>1, BlockStep
<1> QED BY <1>1, <1>2, <1>3

\* exit(1): the pointers are no longer followed.
LEMMA OutOfMemoryIInv == IInv /\ OutOfMemory => IInv'
<1> SUFFICES ASSUME IInv, OutOfMemory PROVE IInv'
  OBVIOUS
<1>0. /\ pc = "link" /\ pc' = "done"
      /\ UNCHANGED <<want, strings, location, type, ref, roots, fresh>>
      /\ UNCHANGED <<marked, gray, previous, object, swept, heap, head, next>>
  BY DEF OutOfMemory, request, mutator, collector, list
<1>1. PointerTypes'
  BY <1>0 DEF IInv, PointerTypes
<1>2. ListInv' /\ HeapInv' /\ MarkInv' /\ SweepInv' /\ StringInv'
  BY <1>0 DEF IInv, ListInv, HeapInv, MarkInv, SweepInv, StringInv
<1> QED BY <1>1, <1>2 DEF IInv

\* The string that was pushed enters the intern table.
LEMMA InternIInv == IInv /\ Intern => IInv'
<1> SUFFICES ASSUME IInv, Intern PROVE IInv'
  OBVIOUS
<1>0. /\ pc = "run" /\ pc' = "run" /\ fresh # Null /\ fresh' = Null
      /\ strings' = strings \cup {fresh}
      /\ UNCHANGED <<want, location, type, ref, roots>>
      /\ UNCHANGED <<marked, gray, previous, object, swept, heap, head, next>>
  BY DEF Intern, request, collector, list
<1>1. PointerTypes'
  BY <1>0 DEF IInv, PointerTypes
<1>2. fresh \in heap /\ type[fresh] = "string"
  BY <1>0, NamedAllocated, Members DEF IInv, StringInv, RootKinds
<1>3. StringInv'
  BY <1>0, <1>2, CollectorAssumption DEF IInv, StringInv, PointerTypes
<1> QED BY <1>0, <1>1, <1>3, QuietStep DEF IInv

\* A new object becomes the first of the list.
LEMMA LinkList ==
  ASSUME List(head), NEW o \in Objects \ heap, heap \subseteq Objects,
         next \in [Objects -> Objects \cup {Null}],
         heap' = heap \cup {o}, head' = o, next' = [next EXCEPT ![o] = head]
  PROVE  List(head)'
<1>1. o # Null /\ next'[o] = head /\ \A x \in heap : next'[x] = next[x]
  BY CollectorAssumption
<1>2. /\ head' \in heap' \cup {Null}
      /\ \A x \in heap' : next'[x] \in heap' \cup {Null}
      /\ \A x \in heap' : next'[x] # Null => next'[x] # head'
      /\ \A x, y \in heap' : next'[x] # Null /\ next'[x] = next'[y] => x = y
  BY <1>1 DEF List
<1>3. ASSUME NEW S \in SUBSET heap', S # {}
      PROVE  \E x \in S : x = head' \/ \E p \in heap' \ S : next'[p] = x
  <2>1. CASE o \in S
    BY <2>1
  <2>2. CASE o \notin S
    <3>1. PICK x \in S : x = head \/ \E p \in heap \ S : next[p] = x
      BY <1>3, <2>2 DEF List
    <3> QED BY <1>1, <2>2, <3>1
  <2> QED BY <2>1, <2>2
<1> QED BY <1>2, <1>3 DEF List

\* allocateObject.
LEMMA LinkIInv ==
  ASSUME IInv, NEW o \in Objects, Link(o)
  PROVE  IInv'
<1>0. /\ pc = "link" /\ pc' = "run" /\ want \in ObjType /\ want' = "none"
      /\ o \notin heap /\ heap' = heap \cup {o}
      /\ type' = [type EXCEPT ![o] = want]
      /\ next' = [next EXCEPT ![o] = head] /\ head' = o
      /\ roots' = [roots EXCEPT ![FirstRoot(want)] = @ \cup {o}]
      /\ fresh' = IF want = "string" THEN o ELSE Null
      /\ UNCHANGED <<strings, location, ref, marked, gray, previous, object, swept>>
  BY DEF Link, Return, Request, collector
<1>1. PointerTypes
  BY DEF IInv
<1>2. want \in ObjType /\ FirstRoot(want) \in RootKinds /\ fresh = Null
  <2>1. FirstRoot(want) \in RootKinds
    BY DEF FirstRoot, RootKinds
  <2> QED BY <1>0, <2>1 DEF IInv, StringInv, ObjType
<1>3. /\ roots' \in [RootKinds -> SUBSET Objects]
      /\ \A k \in RootKinds : roots'[k] \subseteq roots[k] \cup {o}
      /\ roots'[FirstRoot(want)] = roots[FirstRoot(want)] \cup {o}
  BY <1>0, <1>1, <1>2 DEF PointerTypes
<1>4. /\ type' \in [Objects -> ObjType] /\ type'[o] = want
      /\ \A x \in heap : type'[x] = type[x]
  BY <1>0, <1>1, <1>2 DEF PointerTypes
<1>5. PointerTypes'
  BY <1>0, <1>1, <1>3, <1>4 DEF PointerTypes
<1>6. ListInv'
  <2>1. List(head)'
    BY <1>0, <1>1, LinkList DEF IInv, ListInv, PointerTypes
  <2> QED BY <1>0, <2>1 DEF ListInv
<1>7. HeapInv'
  <2>1. ref[o] = NoRefs /\ AllRoots \subseteq heap /\ Sealed(heap)
    BY <1>0 DEF IInv, HeapInv, RootedIn
  <2>2. AllRoots' \subseteq heap'
    <3>1. \A k \in RootKinds : roots[k] \subseteq AllRoots
      BY Members
    <3>2. \A x \in AllRoots' : \E k \in RootKinds : x \in roots'[k]
      BY DEF AllRoots
    <3> QED BY <1>0, <1>3, <2>1, <3>1, <3>2
  <2>3. ASSUME NEW x \in heap' PROVE Targets(x, Fields(type[x]))' \subseteq heap'
    <3>1. CASE x = o
      <4>1. \A f \in Fields(want) : ref'[o][f] = {}
        BY <1>0, <1>2, <2>1, PointersTyped, <1>1 DEF NoRefs
      <4> QED BY <1>4, <3>1, <4>1 DEF Targets
    <3>2. CASE x \in heap
      <4>1. Targets(x, Fields(type[x]))' = Targets(x, Fields(type[x]))
        BY <1>0, <1>4, <3>2 DEF Targets
      <4> QED BY <1>0, <2>1, <3>2, <4>1 DEF Sealed, Out
    <3> QED BY <1>0, <3>1, <3>2
  <2>4. RootedIn(heap)'
    BY <2>2, <2>3 DEF RootedIn, Sealed, Out
  <2> QED BY <1>0, <2>4 DEF IInv, HeapInv
<1>8. MarkInv' /\ SweepInv'
  BY <1>0 DEF IInv, MarkInv, SweepInv
<1>9. StringInv'
  <2>1. strings = {x \in heap : type[x] = "string"} /\ Null \notin heap
    BY <1>0, <1>1, <1>2, CollectorAssumption DEF IInv, StringInv, PointerTypes
  <2>2. want = "string" => FirstRoot(want) = "stack"
    BY DEF FirstRoot
  <2>3. strings' = {x \in heap' : type'[x] = "string"} \ {fresh'}
    BY <1>0, <1>4, <2>1, CollectorAssumption
  <2> QED BY <1>0, <1>3, <1>4, <2>2, <2>3 DEF StringInv
<1> QED BY <1>5, <1>6, <1>7, <1>8, <1>9 DEF IInv

-----------------------------------------------------------------------------
(* Marking and tracing *)

\* The roots become gray.
LEMMA MarkRootsIInv == IInv /\ MarkRoots => IInv'
<1> SUFFICES ASSUME IInv, MarkRoots PROVE IInv'
  OBVIOUS
<1>0. /\ pc = "roots" /\ pc' = "trace"
      /\ marked' = marked \cup AllRoots /\ gray' = gray \cup (AllRoots \ marked)
      /\ UNCHANGED <<want, strings, location, type, ref, roots, fresh>>
      /\ UNCHANGED <<previous, object, swept, heap, head, next>>
  BY DEF MarkRoots, MarkAll, MarkedKinds, NewGray, AllRoots, request, mutator, list
<1>1. PointerTypes /\ marked = {} /\ gray = {} /\ swept = {}
  BY <1>0 DEF IInv, MarkInv
<1>2. marked' = AllRoots /\ gray' = AllRoots
  BY <1>0, <1>1
<1>3. AllRoots \subseteq heap /\ AllRoots \subseteq Reachable
  BY <1>0, <1>1, ReachableLeast DEF IInv, HeapInv, RootedIn
<1>4. PointerTypes'
  BY <1>0, <1>1, <1>2, PointersTyped DEF PointerTypes
<1>5. MarkInv'
  BY <1>0, <1>1, <1>2, <1>3, PointersUnchanged DEF MarkInv
<1>6. HeapInv'
  BY <1>0, PointersUnchanged DEF IInv, HeapInv, RootedIn
<1>7. ListInv' /\ SweepInv' /\ StringInv'
  BY <1>0 DEF IInv, ListInv, List, SweepInv, StringInv
<1> QED BY <1>4, <1>5, <1>6, <1>7 DEF IInv

\* A gray object is blackened: what it points to is marked, so no black object
\* points to a white one, and only reachable objects are marked.
LEMMA BlackenIInv ==
  ASSUME IInv, NEW o \in Objects, Blacken(o)
  PROVE  IInv'
<1>1. PointerTypes /\ type[o] \in ObjType /\ pc = "trace" /\ o \in gray /\ o \in marked
  BY DEF IInv, PointerTypes, Blacken
<1>0. /\ pc' = "trace"
      /\ marked' = marked \cup Out(o)
      /\ gray' = (gray \ {o}) \cup (Out(o) \ marked)
      /\ UNCHANGED <<want, strings, location, type, ref, roots, fresh>>
      /\ UNCHANGED <<previous, object, swept, heap, head, next>>
  BY <1>1, TracedIsFields DEF Blacken, NewGray, Out, request, mutator, list
<1>2. /\ marked \subseteq heap /\ marked \subseteq Reachable /\ Sealed(heap)
      /\ \A x \in marked \ gray : Out(x) \subseteq marked
  BY <1>1 DEF IInv, MarkInv, HeapInv, RootedIn
<1>3. Out(o) \subseteq heap /\ Out(o) \subseteq Reachable /\ Out(o) \subseteq Objects
  <2>1. Out(o) \subseteq heap
    BY <1>1, <1>2 DEF Sealed, Out
  <2> QED BY <1>1, <1>2, <2>1, ReachableLeast, PointersTyped
<1>4. PointerTypes'
  BY <1>0, <1>1, <1>3 DEF PointerTypes
<1>5. \A x \in marked' \ gray' : Out(x) \subseteq marked'
  BY <1>0, <1>2
<1>6. MarkInv'
  <2>1. swept = {} /\ gray \subseteq marked /\ AllRoots \subseteq marked
    BY <1>1 DEF IInv, MarkInv
  <2>2. gray' \subseteq marked' /\ marked' \subseteq heap /\ marked' \subseteq Reachable
    BY <1>0, <1>2, <1>3, <2>1
  <2> QED BY <1>0, <1>5, <2>1, <2>2, PointersUnchanged DEF MarkInv
<1>7. HeapInv'
  BY <1>0, <1>1, PointersUnchanged DEF IInv, HeapInv, RootedIn
<1>8. ListInv' /\ SweepInv' /\ StringInv'
  BY <1>0, <1>1 DEF IInv, ListInv, List, SweepInv, StringInv
<1> QED BY <1>4, <1>6, <1>7, <1>8 DEF IInv

\* Tracing has ended: the marked objects are closed, and the weak table loses
\* the others.
LEMMA RemoveWhiteIInv == IInv /\ RemoveWhite => IInv'
<1> SUFFICES ASSUME IInv, RemoveWhite PROVE IInv'
  OBVIOUS
<1>0. /\ pc = "trace" /\ pc' = "sweep" /\ gray = {}
      /\ strings' = strings \cap marked
      /\ previous' = Null /\ object' = head /\ swept' = {}
      /\ UNCHANGED <<want, location, type, ref, roots, fresh>>
      /\ UNCHANGED <<marked, gray, heap, head, next>>
  BY DEF RemoveWhite, StringsLeft, request, mutator, list
<1>1. PointerTypes'
  BY <1>0 DEF IInv, PointerTypes
<1>2. /\ AllRoots \subseteq marked /\ marked \subseteq heap /\ marked \subseteq Reachable
      /\ \A o \in marked : Out(o) \subseteq marked
  BY <1>0 DEF IInv, MarkInv
<1>3. Survivors' = marked /\ RootedIn(Survivors)'
  <2>1. Survivors' = marked
    BY <1>0 DEF Survivors
  <2>2. AllRoots' \subseteq marked /\ \A o \in marked : Out(o)' \subseteq marked
    BY <1>0, <1>2, PointersUnchanged
  <2> QED BY <2>1, <2>2 DEF RootedIn, Sealed, Out
<1>4. MarkInv'
  BY <1>0, <1>2, <1>3, PointersUnchanged DEF MarkInv
<1>5. StringInv'
  <2>1. strings = {o \in heap : type[o] = "string"} \ {fresh}
    BY <1>0 DEF IInv, StringInv
  <2>2. strings' = {o \in Survivors' : type'[o] = "string"} \ {fresh'}
    BY <1>0, <1>2, <1>3, <2>1
  <2> QED BY <1>0, <2>2 DEF IInv, StringInv
<1>6. ListInv' /\ SweepInv' /\ HeapInv'
  BY <1>0 DEF IInv, ListInv, List, SweepInv, HeapInv
<1> QED BY <1>1, <1>4, <1>5, <1>6 DEF IInv

-----------------------------------------------------------------------------
(* The sweep *)

\* No object of a list is its own successor.
LEMMA NoSelfLoop ==
  ASSUME NEW first, List(first), NEW o \in heap, next[o] # Null
  PROVE  next[o] # o
<1>0. {o} \in SUBSET heap /\ {o} # {}
  OBVIOUS
<1>1. PICK x \in {o} : x = first \/ \E p \in heap \ {o} : next[p] = x
  BY <1>0 DEF List
<1> QED BY <1>1 DEF List

\* The cursors move past a marked object.
LEMMA SweepKeepIInv == IInv /\ SweepKeep => IInv'
<1> SUFFICES ASSUME IInv, SweepKeep PROVE IInv'
  OBVIOUS
<1>0. /\ pc = "sweep" /\ pc' = "sweep" /\ object \in marked
      /\ marked' = marked \ {object} /\ swept' = swept \cup {object}
      /\ previous' = object /\ object' = next[object]
      /\ UNCHANGED <<want, strings, location, type, ref, roots, fresh>>
      /\ UNCHANGED <<gray, heap, head, next>>
  BY DEF SweepKeep, request, mutator, list
<1>1. /\ PointerTypes /\ List(head) /\ Survivors \subseteq heap /\ gray = {}
      /\ object \in heap /\ object \notin swept /\ Null \notin heap
      /\ swept \subseteq heap
  BY <1>0, CollectorAssumption DEF IInv, ListInv, MarkInv, SweepInv, Survivors, PointerTypes
<1>2. PointerTypes'
  BY <1>0, <1>1 DEF PointerTypes
<1>3. Survivors' = Survivors
  BY <1>0 DEF Survivors
<1>4. MarkInv' /\ StringInv'
  <2>1. RootedIn(Survivors)' <=> RootedIn(Survivors)
    BY <1>0, <1>3, PointersUnchanged DEF RootedIn
  <2>2. MarkInv'
    BY <1>0, <1>1, <1>3, <2>1, PointersUnchanged DEF IInv, MarkInv
  <2> QED BY <1>0, <1>3, <2>2 DEF IInv, StringInv
<1>5. ListInv' /\ HeapInv'
  BY <1>0 DEF IInv, ListInv, List, HeapInv
<1>6. SweepInv'
  <2>1. object' \in heap' \cup {Null} /\ object' \notin swept'
    BY <1>0, <1>1, NoSelfLoop DEF IInv, SweepInv, List
  <2>2. previous' # Null /\ head' \in swept'
    BY <1>0, <1>1 DEF IInv, SweepInv
  <2>3. \A o \in swept' : next'[o] \in swept' \cup {object'}
    BY <1>0 DEF IInv, SweepInv
  <2>4. ASSUME NEW o \in heap \ swept' PROVE next[o] # object
    <3>1. CASE previous = Null
      BY <1>0, <1>1, <3>1 DEF IInv, SweepInv, List
    <3>2. CASE previous # Null
      <4>1. previous \in swept /\ next[previous] = object /\ previous \in heap
        BY <1>0, <1>1, <3>2 DEF IInv, SweepInv
      <4>2. next[o] = object => o = previous
        BY <1>1, <4>1 DEF List
      <4> QED BY <1>0, <4>1, <4>2
    <3> QED BY <3>1, <3>2
  <2>5. \A o \in heap' \ swept' : next'[o] \notin swept'
    BY <1>0, <2>4 DEF IInv, SweepInv
  <2> QED BY <1>0, <2>1, <2>2, <2>3, <2>5 DEF SweepInv
<1> QED BY <1>2, <1>4, <1>5, <1>6 DEF IInv

\* The first object of the list is unlinked.
LEMMA UnlinkFirst ==
  ASSUME NEW first, NEW d \in heap, first = d, List(first), Null \notin heap,
         NEW h, h = heap \ {d}, NEW n, \A x \in h : n[x] = next[x]
  PROVE  /\ next[d] \in h \cup {Null}
         /\ \A x \in h : n[x] \in h \cup {Null}
         /\ \A x \in h : n[x] # Null => n[x] # next[d]
         /\ \A x, y \in h : n[x] # Null /\ n[x] = n[y] => x = y
         /\ \A S \in SUBSET h : S # {} =>
              \E x \in S : x = next[d] \/ \E p \in h \ S : n[p] = x
<1>1. /\ next[d] \in h \cup {Null}
      /\ \A x \in h : n[x] \in h \cup {Null}
      /\ \A x \in h : n[x] # Null => n[x] # next[d]
      /\ \A x, y \in h : n[x] # Null /\ n[x] = n[y] => x = y
  BY DEF List
<1>2. ASSUME NEW S \in SUBSET h, S # {}
      PROVE  \E x \in S : x = next[d] \/ \E p \in h \ S : n[p] = x
  <2>1. PICK x \in S : x = first \/ \E p \in heap \ S : next[p] = x
    BY <1>2 DEF List
  <2>2. x # first
    BY <2>1
  <2>3. PICK p \in heap \ S : next[p] = x
    BY <2>1, <2>2
  <2> QED BY <2>3
<1> QED BY <1>1, <1>2

\* An object inside the list is unlinked: its predecessor takes its successor.
LEMMA UnlinkInner ==
  ASSUME List(head), head' = head, NEW d \in heap, NEW q \in heap, q # d, next[q] = d,
         Null \notin heap, heap' = heap \ {d}, next'[q] = next[d],
         \A x \in heap' : x # q => next'[x] = next[x]
  PROVE  List(head)'
<1>0. head # d /\ next[d] \in heap' \cup {Null} /\ \A x \in heap' : x # q => next[x] # d
  BY NoSelfLoop DEF List
<1>1. /\ head \in heap' \cup {Null}
      /\ \A x \in heap' : next'[x] \in heap' \cup {Null}
      /\ \A x \in heap' : next'[x] # Null => next'[x] # head
      /\ \A x, y \in heap' : next'[x] # Null /\ next'[x] = next'[y] => x = y
  BY <1>0 DEF List
<1>2. ASSUME NEW S \in SUBSET heap', S # {}
      PROVE  \E x \in S : x = head \/ \E p \in heap' \ S : next'[p] = x
  <2>1. CASE q \in S
    <3>1. S \cup {d} \in SUBSET heap /\ S \cup {d} # {}
      BY <1>2
    <3>2. PICK x \in S \cup {d} : x = head \/ \E p \in heap \ (S \cup {d}) : next[p] = x
      BY <3>1 DEF List
    <3>3. x # d
      BY <1>0, <2>1, <3>2
    <3> QED BY <2>1, <3>2, <3>3
  <2>2. CASE q \notin S
    <3>1. PICK x \in S : x = head \/ \E p \in heap \ S : next[p] = x
      BY <1>2 DEF List
    <3>2. ASSUME NEW p \in heap \ S, next[p] = x PROVE \E r \in heap' \ S : next'[r] = x
      <4>1. CASE p = d
        BY <2>2, <3>2, <4>1
      <4>2. CASE p # d
        BY <3>2, <4>2
      <4> QED BY <4>1, <4>2
    <3> QED BY <3>1, <3>2
  <2> QED BY <2>1, <2>2
<1> QED BY <1>1, <1>2 DEF List

\* An object outside of the survivors is freed, and unlinked by Unlink.
LEMMA SweepFreeIInv == IInv /\ SweepFree => IInv'
<1> SUFFICES ASSUME IInv, SweepFree PROVE IInv'
  OBVIOUS
<1> DEFINE d == object
<1>0. /\ pc = "sweep" /\ pc' = "sweep" /\ d \in Objects \ marked
      /\ object' = next[d] /\ Unlink(d)
      /\ heap' = heap \ {d}
      /\ type' = [type EXCEPT ![d] = "string"] /\ ref' = [ref EXCEPT ![d] = NoRefs]
      /\ location' = [location EXCEPT ![d] = "stack"]
      /\ UNCHANGED <<want, strings, roots, fresh, marked, gray, previous, swept>>
  BY DEF SweepFree, FreeObject, request
<1>1. /\ PointerTypes /\ List(head) /\ Survivors \subseteq heap /\ gray = {}
      /\ d \in heap /\ d \notin swept /\ d \notin Survivors /\ Null \notin heap
      /\ swept \subseteq heap
  BY <1>0, CollectorAssumption
  DEF IInv, ListInv, MarkInv, SweepInv, Survivors, PointerTypes
<1>2. /\ previous = Null => d = head /\ swept = {}
      /\ previous = Null => head' = next[d] /\ next' = [next EXCEPT ![d] = Null]
      /\ previous # Null => /\ previous \in swept /\ previous \in heap
                            /\ previous # d /\ next[previous] = d /\ head \in swept
      /\ previous # Null =>
           head' = head /\ next' = [next EXCEPT ![previous] = next[d], ![d] = Null]
  BY <1>0, <1>1 DEF Unlink, IInv, SweepInv
<1>3. /\ next \in [Objects -> Objects \cup {Null}] /\ heap \subseteq Objects
      /\ next' \in [Objects -> Objects \cup {Null}]
      /\ \A x \in heap' : x # previous => next'[x] = next[x]
      /\ previous # Null => next'[previous] = next[d]
  BY <1>0, <1>1, <1>2 DEF PointerTypes
<1>5. /\ \A x \in Objects : x # d => ref'[x] = ref[x] /\ type'[x] = type[x]
      /\ ref'[d] = NoRefs
      /\ ref' \in [Objects -> [AllFields -> SUBSET Objects]]
      /\ type' \in [Objects -> ObjType] /\ location' \in [Objects -> {"stack", "closed"}]
  BY <1>0, <1>1 DEF PointerTypes, NoRefs, ObjType
<1>6. PointerTypes'
  <2>1. head' \in Objects \cup {Null} /\ object' \in Objects \cup {Null}
    BY <1>0, <1>1, <1>2, <1>3 DEF PointerTypes
  <2> QED BY <1>0, <1>1, <1>3, <1>5, <2>1 DEF PointerTypes
<1>7. ListInv'
  <2>1. CASE previous = Null
    <3>1. \A x \in heap' : next'[x] = next[x]
      BY <1>1, <1>0, <1>2, <1>3, <2>1
    <3>2. List(head)'
      BY <1>0, <1>1, <1>2, <2>1, <3>1, UnlinkFirst DEF List
    <3> QED BY <1>0, <3>2 DEF ListInv
  <2>2. CASE previous # Null
    <3>1. /\ previous \in heap /\ previous # d /\ next[previous] = d
          /\ head' = head /\ heap' = heap \ {d} /\ next'[previous] = next[d]
          /\ \A x \in heap' : x # previous => next'[x] = next[x]
          /\ List(head) /\ d \in heap /\ Null \notin heap
      BY <1>0, <1>1, <1>2, <1>3, <2>2
    <3> HIDE DEF d
    <3>3. List(head)'
      BY <3>1, UnlinkInner
    <3> QED BY <1>0, <3>3 DEF ListInv
  <2> QED BY <2>1, <2>2
<1>8. HeapInv'
  BY <1>0, <1>5 DEF IInv, HeapInv
<1>9. Survivors' = Survivors /\ AllRoots' = AllRoots /\ \A x \in Survivors : Out(x)' = Out(x)
  <2>1. Survivors' = Survivors /\ AllRoots' = AllRoots
    BY <1>0 DEF Survivors, AllRoots
  <2>2. \A x \in Survivors : ref'[x] = ref[x] /\ type'[x] = type[x]
    BY <1>1, <1>3, <1>5
  <2> QED BY <2>1, <2>2 DEF Out, Targets
<1>10. AllRoots \subseteq Survivors /\ \A x \in Survivors : Out(x) \subseteq Survivors
  BY <1>0 DEF IInv, MarkInv, RootedIn, Sealed, Out
<1>11. Survivors \subseteq Reachable'
  <2>1. SUFFICES ASSUME NEW S \in SUBSET Objects, AllRoots' \subseteq S, Closed(S)'
                 PROVE  Survivors \subseteq S
    BY <1>1, <1>3 DEF Reachable
  <2>2. AllRoots \subseteq S \cap Survivors
    BY <1>9, <1>10, <2>1
  <2>3. Sealed(S \cap Survivors)
    BY <1>9, <1>10, <2>1 DEF Sealed, Closed, Leads, Out
  <2>4. Reachable \subseteq S \cap Survivors
    BY <2>2, <2>3, ReachableLeast DEF RootedIn
  <2> QED BY <1>0, <2>4 DEF IInv, MarkInv
<1>12. MarkInv'
  <2>1. RootedIn(Survivors)'
    BY <1>9, <1>10 DEF RootedIn, Sealed, Out
  <2>2. Survivors \subseteq heap'
    BY <1>0, <1>1
  <2> QED BY <1>0, <1>1, <1>9, <1>11, <2>1, <2>2 DEF IInv, MarkInv
<1>13. StringInv'
  <2>1. \A x \in Survivors : type'[x] = type[x]
    BY <1>1, <1>3, <1>5
  <2>2. fresh # Null => fresh \in Survivors
    BY <1>10, Members DEF IInv, StringInv, RootKinds
  <2> QED BY <1>0, <1>9, <2>1, <2>2 DEF IInv, StringInv
<1>14. SweepInv'
  <2>1. object' \in heap' \cup {Null} /\ object' \notin swept'
    BY <1>0, <1>1, NoSelfLoop DEF IInv, SweepInv, List
  <2>2. CASE previous = Null
    BY <1>0, <1>2, <2>1, <2>2 DEF SweepInv
  <2>3. CASE previous # Null
    <3>1. \A x \in swept : next'[x] \in swept \cup {object'}
      <4>1. \A x \in swept : x # previous => next[x] # d
        BY <1>1, <1>2, <2>3 DEF List
      <4> QED BY <1>0, <1>1, <1>3, <2>3, <4>1 DEF IInv, SweepInv
    <3>2. \A x \in heap' \ swept : next'[x] \notin swept
      BY <1>0, <1>2, <1>3, <2>3 DEF IInv, SweepInv
    <3> QED BY <1>0, <1>2, <1>3, <2>1, <2>3, <3>1, <3>2 DEF SweepInv
  <2> QED BY <2>2, <2>3
<1> QED BY <1>6, <1>7, <1>8, <1>12, <1>13, <1>14 DEF IInv

\* The list has been walked to its end: what is left is what can be reached.
LEMMA SweepExact ==
  ASSUME IInv, pc = "sweep", object = Null
  PROVE  heap = swept /\ marked = {} /\ heap = Reachable /\ RootedIn(heap)
<1>1. /\ PointerTypes /\ List(head) /\ Null \notin heap
      /\ swept \subseteq heap /\ marked \subseteq heap /\ marked \cap swept = {}
      /\ heap \subseteq Objects
  BY CollectorAssumption DEF IInv, ListInv, MarkInv, Survivors, PointerTypes
<1>2. heap \subseteq swept
  <2>1. SUFFICES ASSUME heap \ swept # {} PROVE FALSE
    OBVIOUS
  <2>2. heap \ swept \in SUBSET heap
    OBVIOUS
  <2>3. PICK o \in heap \ swept :
          o = head \/ \E p \in heap \ (heap \ swept) : next[p] = o
    BY <1>1, <2>1, <2>2 DEF List
  <2>4. o # head
    BY <1>1 DEF IInv, SweepInv
  <2> QED BY <1>1, <2>3, <2>4 DEF IInv, SweepInv
<1>3. heap = swept /\ marked = {} /\ Survivors = heap
  BY <1>1, <1>2 DEF Survivors
<1>4. RootedIn(heap) /\ heap \subseteq Reachable
  BY <1>3 DEF IInv, MarkInv
<1>5. Reachable \subseteq heap
  BY <1>1, <1>4, ReachableLeast DEF RootedIn
<1> QED BY <1>3, <1>4, <1>5

\* The end of the sweep.
LEMMA SweepEndIInv == IInv /\ SweepEnd => IInv'
<1> SUFFICES ASSUME IInv, SweepEnd PROVE IInv'
  OBVIOUS
<1>0. /\ pc = "sweep" /\ pc' = "link" /\ object = Null
      /\ previous' = Null /\ swept' = {}
      /\ UNCHANGED <<want, strings, location, type, ref, roots, fresh>>
      /\ UNCHANGED <<marked, gray, object, heap, head, next>>
  BY DEF SweepEnd, request, mutator, list
<1>1. heap = swept /\ marked = {} /\ RootedIn(heap)
  BY <1>0, SweepExact
<1>2. PointerTypes'
  BY <1>0 DEF IInv, PointerTypes
<1>3. HeapInv'
  BY <1>0, <1>1, PointersUnchanged DEF IInv, HeapInv, RootedIn
<1>4. MarkInv' /\ SweepInv'
  BY <1>0, <1>1 DEF IInv, MarkInv, SweepInv
<1>5. StringInv'
  BY <1>0, <1>1 DEF IInv, StringInv, Survivors
<1>6. ListInv'
  BY <1>0 DEF IInv, ListInv, List
<1> QED BY <1>2, <1>3, <1>4, <1>5, <1>6 DEF IInv

-----------------------------------------------------------------------------
(* freeVM *)

\* The strings table goes first; the objects are still all in the list.
LEMMA FreeVMIInv == IInv /\ FreeVM => IInv'
<1> SUFFICES ASSUME IInv, FreeVM PROVE IInv'
  OBVIOUS
<1>0. /\ pc = "run" /\ pc' = "free" /\ fresh = Null
      /\ strings' = {} /\ object' = head /\ roots' = [roots EXCEPT !["init"] = {}]
      /\ UNCHANGED <<want, location, type, ref, fresh>>
      /\ UNCHANGED <<marked, gray, previous, swept, heap, head, next>>
  BY DEF FreeVM, Idle, request, list
<1>1. PointerTypes'
  BY <1>0 DEF IInv, PointerTypes
<1>2. ListInv' /\ HeapInv'
  BY <1>0 DEF IInv, ListInv, List, HeapInv
<1>3. MarkInv' /\ SweepInv' /\ StringInv'
  BY <1>0 DEF IInv, MarkInv, SweepInv, StringInv
<1> QED BY <1>1, <1>2, <1>3 DEF IInv

\* One object is freed; the rest of the list is intact.
LEMMA FreeObjectsStepIInv == IInv /\ FreeObjectsStep => IInv'
<1> SUFFICES ASSUME IInv, FreeObjectsStep PROVE IInv'
  OBVIOUS
<1> DEFINE d == object
<1>0. /\ pc = "free" /\ pc' = "free" /\ d # Null /\ object' = next[d]
      /\ heap' = heap \ {d}
      /\ type' = [type EXCEPT ![d] = "string"] /\ ref' = [ref EXCEPT ![d] = NoRefs]
      /\ location' = [location EXCEPT ![d] = "stack"]
      /\ UNCHANGED <<want, strings, roots, fresh, marked, gray, previous, swept>>
      /\ UNCHANGED <<head, next>>
  BY DEF FreeObjectsStep, FreeObject, request
<1>1. /\ PointerTypes /\ List(object) /\ d \in heap /\ Null \notin heap /\ d \in Objects
  BY <1>0, CollectorAssumption DEF IInv, ListInv, List, PointerTypes
<1>3. /\ ref' \in [Objects -> [AllFields -> SUBSET Objects]]
      /\ type' \in [Objects -> ObjType] /\ location' \in [Objects -> {"stack", "closed"}]
  BY <1>0, <1>1 DEF PointerTypes, NoRefs, ObjType
<1>4. PointerTypes'
  BY <1>0, <1>1, <1>3 DEF PointerTypes
<1>5. ListInv'
  <2>1. List(object)'
    BY <1>0, <1>1, UnlinkFirst DEF List
  <2> QED BY <1>0, <2>1 DEF ListInv
<1>6. HeapInv' /\ MarkInv' /\ SweepInv'
  BY <1>0 DEF IInv, HeapInv, MarkInv, SweepInv
<1>7. StringInv'
  BY <1>0 DEF IInv, StringInv
<1> QED BY <1>4, <1>5, <1>6, <1>7 DEF IInv

\* The list is used up: so is the heap.
LEMMA FreeObjectsEndIInv == IInv /\ FreeObjectsEnd => IInv'
<1> SUFFICES ASSUME IInv, FreeObjectsEnd PROVE IInv'
  OBVIOUS
<1>0. /\ pc = "free" /\ pc' = "done" /\ object = Null
      /\ UNCHANGED <<want, strings, location, type, ref, roots, fresh>>
      /\ UNCHANGED <<marked, gray, previous, object, swept, heap, head, next>>
  BY DEF FreeObjectsEnd, request, mutator, collector, list
<1>1. heap = {}
  <2>1. List(Null) /\ Null \notin heap
    BY <1>0, CollectorAssumption DEF IInv, ListInv, PointerTypes
  <2>2. heap \in SUBSET heap
    OBVIOUS
  <2> QED BY <2>1, <2>2 DEF List
<1>2. PointerTypes'
  BY <1>0 DEF IInv, PointerTypes
<1>3. ListInv' /\ HeapInv' /\ MarkInv' /\ SweepInv' /\ StringInv'
  BY <1>0, <1>1 DEF IInv, ListInv, HeapInv, MarkInv, SweepInv, StringInv
<1> QED BY <1>2, <1>3 DEF IInv

-----------------------------------------------------------------------------
(* The invariant of the pointers holds *)

\* The empty heap.
LEMMA InitIInv == Init => IInv
<1> SUFFICES ASSUME Init PROVE IInv
  OBVIOUS
<1>1. PointerTypes
  BY CollectorAssumption DEF Init, PointerTypes, NoRefs, ObjType
<1>2. ListInv
  BY DEF Init, ListInv, List
<1>3. HeapInv
  <2>1. AllRoots = {}
    BY DEF Init, AllRoots
  <2> QED BY <2>1 DEF Init, HeapInv, RootedIn, Sealed
<1>4. MarkInv /\ SweepInv /\ StringInv
  BY DEF Init, MarkInv, SweepInv, StringInv
<1> QED BY <1>1, <1>2, <1>3, <1>4 DEF IInv

\* Every step keeps the invariant.
LEMMA NextIInv == IInv /\ [Next]_vars => IInv'
<1> SUFFICES ASSUME IInv, [Next]_vars PROVE IInv'
  OBVIOUS
<1>1. ASSUME NEW o \in Objects, NEW p \in Objects, NEW f \in Fields(type[o]), Store(o, f, p)
      PROVE  IInv'
  BY <1>1, StoreIInv
<1>2. ASSUME NEW u \in Objects, NEW p \in Objects, Assign(u, p) PROVE IInv'
  BY <1>2, AssignIInv
<1>3. ASSUME \/ \E k \in Kinds, p \in Objects : Root(k, p)
             \/ \E k \in RootKinds, p \in Objects : Drop(k, p)
             \/ ResetStack
      PROVE  IInv'
  <2>1. /\ pc = "run" /\ pc' = "run" /\ fresh = Null /\ fresh' = Null
        /\ UNCHANGED <<want, strings, location, type, ref, collector, list>>
    BY <1>3 DEF Root, Drop, ResetStack, Idle, request
  <2>2. roots \in [RootKinds -> SUBSET Objects]
    BY DEF IInv, PointerTypes
  <2>3. /\ roots' \in [RootKinds -> SUBSET Objects]
        /\ \A j \in RootKinds : roots'[j] \subseteq roots[j] \cup Named
    <3>1. CASE \E k \in Kinds, p \in Objects : Root(k, p)
      BY <2>2, <3>1 DEF Root
    <3>2. CASE \E k \in RootKinds, p \in Objects : Drop(k, p)
      BY <2>2, <3>2 DEF Drop
    <3>3. CASE ResetStack
      BY <2>2, <3>3 DEF ResetStack
    <3> QED BY <1>3, <3>1, <3>2, <3>3
  <2> QED BY <2>1, <2>3, RootsIInv
<1>4. ASSUME NEW u \in Objects, NEW p \in Objects \cup {Null}, CloseUpvalue(u, p)
      PROVE  IInv'
  BY <1>4, CloseUpvalueIInv
<1>6. ASSUME NEW o \in Objects, Link(o) PROVE IInv'
  BY <1>6, LinkIInv
<1>7. ASSUME NEW o \in Objects, Blacken(o) PROVE IInv'
  BY <1>7, BlackenIInv
<1>8. CASE UNCHANGED vars
  <2>1. /\ UNCHANGED <<pc, want, strings, type, ref, location, roots, fresh>>
        /\ UNCHANGED <<marked, gray, previous, object, swept, heap, head, next>>
    BY <1>8 DEF vars, request, mutator, collector, list
  <2>2. Survivors' = Survivors
    BY <2>1 DEF Survivors
  <2>3. HeapInv' /\ MarkInv'
    BY <2>1, <2>2, PointersUnchanged DEF IInv, HeapInv, MarkInv, RootedIn
  <2>4. PointerTypes'
    BY <2>1 DEF IInv, PointerTypes
  <2>5. ListInv' /\ SweepInv'
    BY <2>1 DEF IInv, ListInv, List, SweepInv
  <2>6. StringInv'
    BY <2>1, <2>2 DEF IInv, StringInv
  <2> QED BY <2>3, <2>4, <2>5, <2>6 DEF IInv
<1>9. CASE Program
  BY <1>9, <1>1, <1>2, <1>3, <1>4, RequestIInv, FreeVMIInv DEF Program
<1>10. CASE Internal
  BY <1>10, <1>6, <1>7, ReturnIInv, OutOfMemoryIInv, InternIInv, MarkRootsIInv,
     RemoveWhiteIInv, SweepKeepIInv, SweepFreeIInv, SweepEndIInv,
     FreeObjectsStepIInv, FreeObjectsEndIInv
  DEF Internal
<1> QED BY <1>8, <1>9, <1>10 DEF Next

-----------------------------------------------------------------------------
(* The account: how many bytes there are *)

Sizes == [Owners -> [Parts -> Nat]]
Block(x, p, n) == {<<x, p, i>> : i \in 1..n}

\* The bytes of all blocks when their sizes are s.
Bytes(s) == UNION {Block(x, p, s[x][p]) : x \in Owners, p \in Parts}

\* A block of n bytes has n bytes.
LEMMA BlockBytes ==
  ASSUME NEW x, NEW p, NEW n \in Nat
  PROVE  IsFiniteSet(Block(x, p, n)) /\ Cardinality(Block(x, p, n)) = n
<1> DEFINE f == [i \in 1..n |-> <<x, p, i>>]
<1>1. IsFiniteSet(1..n) /\ Cardinality(1..n) = n
  BY FS_Interval
<1>2. f \in Bijection(1..n, Block(x, p, n))
  <2>1. f \in [1..n -> Block(x, p, n)]
    BY DEF Block
  <2>2. \A i, j \in 1..n : f[i] = f[j] => i = j
    OBVIOUS
  <2>3. \A b \in Block(x, p, n) : \E i \in 1..n : f[i] = b
    BY DEF Block
  <2> QED BY <2>1, <2>2, <2>3 DEF Bijection, Injection, Surjection, IsInjective
<1>3. ExistsBijection(1..n, Block(x, p, n))
  BY <1>2 DEF ExistsBijection
<1> QED BY <1>1, <1>3, FS_Bijection

\* When one block changes its size, the number of bytes changes by as much.
LEMMA OneBlock ==
  ASSUME NEW s \in Sizes, NEW t \in Sizes, NEW x \in Owners, NEW p \in Parts,
         \A y \in Owners, q \in Parts : y # x \/ q # p => t[y][q] = s[y][q],
         IsFiniteSet(Bytes(s))
  PROVE  /\ IsFiniteSet(Bytes(t))
         /\ Cardinality(Bytes(t)) = Cardinality(Bytes(s)) - s[x][p] + t[x][p]
<1> DEFINE Old == Block(x, p, s[x][p])
           New == Block(x, p, t[x][p])
           Rest == Bytes(s) \ Old
<1>1. s[x][p] \in Nat /\ t[x][p] \in Nat
  BY DEF Sizes
<1>2. Old \subseteq Bytes(s) /\ Old \cap Rest = {} /\ New \cap Rest = {}
  <2>1. Old \subseteq Bytes(s)
    BY DEF Bytes
  <2>2. ASSUME NEW b \in New, b \in Bytes(s) PROVE b \in Old
    <3>1. PICK i \in 1..t[x][p] : b = <<x, p, i>>
      BY <2>2 DEF Block
    <3>2. PICK y \in Owners, q \in Parts : b \in Block(y, q, s[y][q])
      BY <2>2 DEF Bytes
    <3>3. PICK j \in 1..s[y][q] : b = <<y, q, j>>
      BY <3>2 DEF Block
    <3>4. y = x /\ q = p
      BY <3>1, <3>3
    <3> QED BY <3>2, <3>4
  <2> QED BY <2>1, <2>2
<1>3. Bytes(s) = Rest \cup Old
  BY <1>2
<1>4. Bytes(t) = Rest \cup New
  <2>1. ASSUME NEW y \in Owners, NEW q \in Parts, y # x \/ q # p
        PROVE  Block(y, q, t[y][q]) \subseteq Rest
    <3>1. Block(y, q, t[y][q]) \subseteq Bytes(s)
      BY <2>1 DEF Bytes
    <3>2. Block(y, q, t[y][q]) \cap Old = {}
      BY <2>1 DEF Block
    <3> QED BY <3>1, <3>2
  <2>2. ASSUME NEW b \in Bytes(t) PROVE b \in Rest \cup New
    <3>1. PICK y \in Owners, q \in Parts : b \in Block(y, q, t[y][q])
      BY DEF Bytes
    <3> QED BY <2>1, <3>1
  <2>3. New \subseteq Bytes(t)
    BY DEF Bytes
  <2>4. ASSUME NEW b \in Rest PROVE b \in Bytes(t)
    <3>1. PICK y \in Owners, q \in Parts : b \in Block(y, q, s[y][q])
      BY DEF Bytes
    <3>2. y # x \/ q # p
      BY <3>1
    <3> QED BY <3>1, <3>2 DEF Bytes
  <2> QED BY <2>2, <2>3, <2>4
<1>5. /\ IsFiniteSet(Old) /\ Cardinality(Old) = s[x][p]
      /\ IsFiniteSet(New) /\ Cardinality(New) = t[x][p]
  BY <1>1, BlockBytes
<1>6. IsFiniteSet(Rest) /\ Cardinality(Rest) \in Nat
  BY FS_Difference, FS_CardinalityType
<1>7. Cardinality(Rest \cap Old) = 0 /\ Cardinality(Rest \cap New) = 0
  <2>1. Rest \cap Old = {} /\ Rest \cap New = {}
    BY <1>2
  <2> QED BY <2>1, FS_EmptySet
<1> HIDE DEF Old, New, Rest
<1>8. /\ Cardinality(Rest \cup Old)
           = Cardinality(Rest) + Cardinality(Old) - Cardinality(Rest \cap Old)
      /\ IsFiniteSet(Rest \cup New)
      /\ Cardinality(Rest \cup New)
           = Cardinality(Rest) + Cardinality(New) - Cardinality(Rest \cap New)
  BY <1>5, <1>6, FS_Union, Zenon
<1> QED BY <1>1, <1>3, <1>4, <1>5, <1>6, <1>7, <1>8

\* When an object loses its blocks, the bytes of all four go.
LEMMA FourBlocks ==
  ASSUME NEW s \in Sizes, NEW t \in Sizes, NEW x \in Owners,
         \A y \in Owners, q \in Parts : t[y][q] = IF y = x THEN 0 ELSE s[y][q],
         IsFiniteSet(Bytes(s))
  PROVE  /\ IsFiniteSet(Bytes(t))
         /\ Cardinality(Bytes(t)) = Cardinality(Bytes(s))
              - (s[x]["struct"] + s[x]["array"] + s[x]["lines"] + s[x]["constants"])
<1> DEFINE Without(P) == [y \in Owners |-> [q \in Parts |->
                            IF y = x /\ q \in P THEN 0 ELSE s[y][q]]]
           t1 == Without({"struct"})
           t2 == Without({"struct", "array"})
           t3 == Without({"struct", "array", "lines"})
<1>0. /\ \A q \in Parts : s[x][q] \in Nat
      /\ {"struct", "array", "lines", "constants"} = Parts
  BY DEF Sizes, Parts
<1>1. t1 \in Sizes /\ t2 \in Sizes /\ t3 \in Sizes
  BY DEF Sizes
<1>2. /\ \A y \in Owners, q \in Parts : y # x \/ q # "struct" => t1[y][q] = s[y][q]
      /\ t1[x]["struct"] = 0 /\ t1[x]["array"] = s[x]["array"]
  BY DEF Parts
<1>3. /\ \A y \in Owners, q \in Parts : y # x \/ q # "array" => t2[y][q] = t1[y][q]
      /\ t2[x]["array"] = 0 /\ t2[x]["lines"] = s[x]["lines"]
  BY DEF Parts
<1>4. /\ \A y \in Owners, q \in Parts : y # x \/ q # "lines" => t3[y][q] = t2[y][q]
      /\ t3[x]["lines"] = 0 /\ t3[x]["constants"] = s[x]["constants"]
  BY DEF Parts
<1>5. /\ \A y \in Owners, q \in Parts : y # x \/ q # "constants" => t[y][q] = t3[y][q]
      /\ t[x]["constants"] = 0
  BY DEF Parts
<1> HIDE DEF t1, t2, t3, Without
<1>6. /\ IsFiniteSet(Bytes(t1))
      /\ Cardinality(Bytes(t1)) = Cardinality(Bytes(s)) - s[x]["struct"] + t1[x]["struct"]
  BY <1>0, <1>1, <1>2, OneBlock
<1>7. /\ IsFiniteSet(Bytes(t2))
      /\ Cardinality(Bytes(t2)) = Cardinality(Bytes(t1)) - t1[x]["array"] + t2[x]["array"]
  BY <1>0, <1>1, <1>2, <1>3, <1>6, OneBlock
<1>8. /\ IsFiniteSet(Bytes(t3))
      /\ Cardinality(Bytes(t3)) = Cardinality(Bytes(t2)) - t2[x]["lines"] + t3[x]["lines"]
  BY <1>0, <1>1, <1>3, <1>4, <1>7, OneBlock
<1>9. /\ IsFiniteSet(Bytes(t))
      /\ Cardinality(Bytes(t)) = Cardinality(Bytes(t3)) - t3[x]["constants"] + t[x]["constants"]
  BY <1>0, <1>1, <1>4, <1>5, <1>8, OneBlock
<1>10. Cardinality(Bytes(s)) \in Nat
  BY FS_CardinalityType
<1> QED BY <1>0, <1>2, <1>3, <1>4, <1>5, <1>6, <1>7, <1>8, <1>9, <1>10

-----------------------------------------------------------------------------
(* The account: its invariant *)

CountTypes ==
  /\ owner \in Owners /\ arg \in Nat
  /\ count \in [Owners -> Nat] /\ constants \in [Objects -> Nat]
  /\ local \in {"none", "chars", "upvalues"}
  /\ size \in Sizes /\ nextGC \in Nat

\* The array that a C local holds.
LocalInv ==
  /\ \A p \in Parts \ {"array"} : size["local"][p] = 0
  /\ local = "none" => count["local"] = 0 /\ size["local"]["array"] = 0
  /\ local # "none" => size["local"]["array"] = LocalBytes(local, count["local"])

\* The object whose array grows is a root, so that no collection frees it; the
\* arrays of chunks grow in functions the compiler is working on.
CallInv ==
  /\ want \in ObjType => local = LocalOf(want)
  /\ want \notin ObjType \cup {"none"} => local = "none"
  /\ want = "table" =>
       owner \in Tables \/ (owner \in AllRoots /\ type[owner] \in {"class", "instance"})
  /\ want \in {"code", "lines"} =>
       owner \in roots["compiler"] /\ type[owner] = "function" /\ arg <= count[owner]
  /\ want = "constants" =>
       owner \in roots["compiler"] /\ type[owner] = "function" /\ arg <= constants[owner]
  /\ pc \notin {"free", "done"} => \A o \in roots["compiler"] : type[o] = "function"

\* The count of a chunk is the new capacity before its arrays have it.
Growing(o, p) ==
  /\ owner = o
  /\ \/ want = "code" /\ p \in {"array", "lines"}
     \/ want = "lines" /\ p = "lines"
     \/ want = "constants" /\ p = "constants"

\* How large a block of an object is.
Held(o, p) ==
  IF Growing(o, p) THEN Sizeof[Element("function", p)] * arg ELSE FreedBytes(o, p)

SizeInv ==
  /\ \A o \in heap : \A p \in Parts : size[o][p] = Held(o, p)
  /\ \A o \in Objects \ heap :
       count[o] = 0 /\ constants[o] = 0 /\ \A p \in Parts : size[o][p] = 0
  /\ \A x \in Tables : \A p \in Parts :
       size[x][p] = IF p = "array" THEN Sizeof["Entry"] * count[x] ELSE 0

AInv == CountTypes /\ LocalInv /\ CallInv /\ SizeInv /\ IsFiniteSet(Memory) /\ BytesExact

\* Products of sizes and counts.
LEMMA Products ==
  /\ \A a, b \in Nat : a * b \in Nat
  /\ \A a \in Nat : a * 0 = 0 /\ a * 1 = a
  /\ \A a, b, c \in Nat : a * (b - c) = a * b - a * c
  /\ \A a, b, c \in Nat : c <= b => a * (b - c) \in Nat
<1>1. \A a, b \in Nat : a * b \in Nat
  OBVIOUS
<1>2. \A a \in Nat : a * 0 = 0 /\ a * 1 = a
  OBVIOUS
<1>3. \A a, b, c \in Nat : a * (b - c) = a * b - a * c
  OBVIOUS
<1>4. ASSUME NEW a \in Nat, NEW b \in Nat, NEW c \in Nat, c <= b PROVE a * (b - c) \in Nat
  <2>1. b - c \in Nat
    BY <1>4
  <2> QED BY <1>1, <2>1
<1> QED BY <1>1, <1>2, <1>3, <1>4

\* The sizes of the C types.
LEMMA SizeofTypes ==
  /\ \A t \in ObjType : Sizeof[t] \in Nat
  /\ Sizeof["char"] \in Nat /\ Sizeof["ObjUpvalue*"] \in Nat /\ Sizeof["Entry"] \in Nat
  /\ Sizeof["uint8_t"] \in Nat /\ Sizeof["int"] \in Nat /\ Sizeof["Value"] \in Nat
  /\ \A l : \A n \in Nat : LocalBytes(l, n) \in Nat
<1>1. \A e \in ObjType \cup ElementTypes : Sizeof[e] \in Nat
  BY CollectorAssumption
<1>2. /\ \A t \in ObjType : Sizeof[t] \in Nat
      /\ Sizeof["char"] \in Nat /\ Sizeof["ObjUpvalue*"] \in Nat /\ Sizeof["Entry"] \in Nat
      /\ Sizeof["uint8_t"] \in Nat /\ Sizeof["int"] \in Nat /\ Sizeof["Value"] \in Nat
  BY <1>1 DEF ElementTypes
<1>3. ASSUME NEW l, NEW n \in Nat PROVE LocalBytes(l, n) \in Nat
  BY <1>2, Products DEF LocalBytes
<1> QED BY <1>2, <1>3

\* What a call adds to the account is a number of bytes.
LEMMA AskedNat ==
  ASSUME PointerTypes, CountTypes, CallInv
  PROVE  Asked \in Nat
<1>1. want \in ObjType => Asked \in Nat
  BY SizeofTypes DEF Asked, ObjType
<1>2. want \in {"chars", "upvalues"} => Asked \in Nat
  BY SizeofTypes DEF Asked, CountTypes, ObjType
<1>3. want = "table" => Asked \in Nat
  BY SizeofTypes, Products DEF Asked, CountTypes, ObjType
<1>4. want \in {"code", "lines", "constants"} => Asked \in Nat
  <2>1. want \in {"code", "lines"} => count[owner] \in Nat /\ arg \in Nat /\ arg <= count[owner]
    BY DEF CountTypes, CallInv
  <2>2. want = "constants" => constants[owner] \in Nat /\ arg \in Nat /\ arg <= constants[owner]
    BY DEF CountTypes, CallInv, PointerTypes, RootKinds
  <2> QED BY <2>1, <2>2, SizeofTypes, Products DEF Asked, ObjType
<1>5. want = "none" => Asked \in Nat
  BY DEF Asked, ObjType
<1> QED BY <1>1, <1>2, <1>3, <1>4, <1>5 DEF PointerTypes

\* bytesAllocated does not go below zero.
LEMMA BytesNat ==
  ASSUME PointerTypes, AInv
  PROVE  bytes \in Nat /\ Cardinality(Memory) \in Nat /\ Asked \in Nat
<1>1. Asked \in Nat
  BY AskedNat DEF AInv
<1>2. Cardinality(Memory) \in Nat
  BY FS_CardinalityType DEF AInv
<1> QED BY <1>1, <1>2 DEF AInv, BytesExact

\* The names of arrays that belong to no object are no objects.
LEMMA OwnersApart ==
  /\ \A o \in Objects : o \in Owners /\ o # "local" /\ o # "strings" /\ o # "globals"
  /\ "local" \in Owners /\ "strings" \in Owners /\ "globals" \in Owners
BY CollectorAssumption DEF Owners, Tables

\* The bytes there are when one block has changed its size.
LEMMA MemoryStep ==
  ASSUME CountTypes, IsFiniteSet(Memory), NEW x \in Owners, NEW p \in Parts, NEW n \in Nat,
         size' = [size EXCEPT ![x][p] = n]
  PROVE  /\ size' \in Sizes /\ size'[x][p] = n
         /\ \A y \in Owners, q \in Parts : y # x \/ q # p => size'[y][q] = size[y][q]
         /\ IsFiniteSet(Memory')
         /\ Cardinality(Memory') = Cardinality(Memory) - size[x][p] + n
<1>1. /\ size' \in Sizes /\ size'[x][p] = n
      /\ \A y \in Owners, q \in Parts : y # x \/ q # p => size'[y][q] = size[y][q]
  BY DEF CountTypes, Sizes
<1>2. Memory = Bytes(size) /\ Memory' = Bytes(size')
  BY DEF Memory, Bytes, Block
<1>3. /\ IsFiniteSet(Bytes(size'))
      /\ Cardinality(Bytes(size')) = Cardinality(Bytes(size)) - size[x][p] + size'[x][p]
  <2>1. size \in Sizes /\ IsFiniteSet(Bytes(size))
    BY <1>2 DEF CountTypes
  <2> QED BY <1>1, <2>1, OneBlock
<1> QED BY <1>1, <1>2, <1>3

\* Steps that touch neither a block nor the call in progress.
LEMMA PointerStep ==
  ASSUME AInv, UNCHANGED <<request, blocks, bytes, type, heap>>, nextGC' \in Nat,
         want = "none" \/ UNCHANGED roots,
         pc' \notin {"free", "done"} => \A o \in roots'["compiler"] : type[o] = "function"
  PROVE  AInv'
<1>1. UNCHANGED <<want, owner, arg, count, constants, local, size>>
  BY DEF request, blocks
<1>2. CountTypes' /\ LocalInv' /\ SizeInv'
  BY <1>1 DEF AInv, CountTypes, LocalInv, SizeInv, Held, Growing, FreedBytes, Number
<1>3. CallInv'
  BY <1>1 DEF AInv, CallInv, AllRoots, ObjType
<1>4. IsFiniteSet(Memory') /\ BytesExact'
  BY <1>1 DEF AInv, Memory, BytesExact, Asked
<1> QED BY <1>2, <1>3, <1>4 DEF AInv

-----------------------------------------------------------------------------
(* The account: calls of reallocate *)

\* Before a call no array is growing, and all the bytes counted are there.
LEMMA NoCall ==
  ASSUME IInv, AInv, pc = "run"
  PROVE  /\ want = "none" /\ bytes = Cardinality(Memory) /\ Cardinality(Memory) \in Nat
         /\ \A o \in heap : \A p \in Parts : size[o][p] = FreedBytes(o, p)
         /\ \A o \in roots["compiler"] : type[o] = "function" /\ o \in heap /\ o \in Objects
<1>1. want = "none"
  BY DEF IInv, StringInv
<1>2. bytes = Cardinality(Memory) /\ Cardinality(Memory) \in Nat
  BY <1>1, BytesNat DEF IInv, AInv, BytesExact, Asked, ObjType
<1>3. \A o \in heap : \A p \in Parts : size[o][p] = FreedBytes(o, p)
  BY <1>1 DEF AInv, SizeInv, Held, Growing
<1>4. \A o \in roots["compiler"] : type[o] = "function" /\ o \in heap /\ o \in Objects
  BY NamedAllocated, Members DEF AInv, CallInv, RootKinds, IInv, PointerTypes
<1> QED BY <1>1, <1>2, <1>3, <1>4

\* A call for a block that no object has yet.
LEMMA NewBlockAInv ==
  ASSUME IInv, AInv, pc = "run", pc' \in {"roots", "link"},
         UNCHANGED <<blocks, type, heap, roots, nextGC>>,
         owner' \in Owners, arg' \in Nat, want' \in ObjType \cup {"chars", "upvalues", "table"},
         want' \in ObjType => local = LocalOf(want'),
         want' \notin ObjType => local = "none",
         want' = "table" =>
           owner' \in Tables \/ (owner' \in AllRoots /\ type[owner'] \in {"class", "instance"}),
         bytes' = bytes + Asked'
  PROVE  AInv'
<1>1. UNCHANGED <<count, constants, local, size>>
  BY DEF blocks
<1>2. CountTypes' /\ LocalInv'
  BY <1>1 DEF AInv, CountTypes, LocalInv
<1>3. CallInv'
  BY <1>1 DEF AInv, CallInv, AllRoots, ObjType
<1>4. SizeInv'
  <2>1. \A o, p : FreedBytes(o, p)' = FreedBytes(o, p) /\ Held(o, p)' = FreedBytes(o, p)'
    BY <1>1 DEF FreedBytes, Number, Held, Growing, ObjType
  <2> QED BY <1>1, <2>1, NoCall DEF AInv, SizeInv
<1>5. IsFiniteSet(Memory') /\ BytesExact'
  BY <1>1, NoCall DEF AInv, Memory, BytesExact
<1> QED BY <1>2, <1>3, <1>4, <1>5 DEF AInv

\* ALLOCATE for a C local, ALLOCATE_OBJ, and the new array of adjustCapacity.
LEMMA AllocateAInv ==
  ASSUME IInv, AInv,
         \/ \E l \in {"chars", "upvalues"}, n \in Lengths : AllocateLocal(l, n)
         \/ \E t \in Types : Allocate(t)
         \/ \E x \in Owners : GrowTable(x)
  PROVE  AInv'
<1>0. bytes \in Nat /\ CountTypes
  BY BytesNat DEF IInv, AInv
<1>1. ASSUME NEW l \in {"chars", "upvalues"}, NEW n \in Lengths, AllocateLocal(l, n) PROVE AInv'
  <2>1. /\ pc = "run" /\ pc' \in {"roots", "link"} /\ local = "none"
        /\ UNCHANGED <<blocks, type, heap, roots, nextGC>>
        /\ want' = l /\ owner' = "local" /\ arg' = n
        /\ bytes' = bytes + LocalBytes(l, n) - 0
    BY <1>1 DEF AllocateLocal, Idle, Request, Reallocate, mutator, list
  <2>2. n \in Nat /\ "local" \in Owners /\ LocalBytes(l, n) \in Nat
    BY CollectorAssumption, OwnersApart, SizeofTypes
  <2>3. Asked' = LocalBytes(l, n) /\ want' \notin ObjType
    BY <2>1 DEF Asked, ObjType, LocalBytes
  <2> QED BY <1>0, <2>1, <2>2, <2>3, NewBlockAInv
<1>2. ASSUME NEW t \in Types, Allocate(t) PROVE AInv'
  <2>1. /\ pc = "run" /\ pc' \in {"roots", "link"} /\ local = LocalOf(t)
        /\ UNCHANGED <<blocks, type, heap, roots, nextGC>>
        /\ want' = t /\ owner' = "local" /\ arg' = 0
        /\ bytes' = bytes + Sizeof[t] - 0
    BY <1>2 DEF Allocate, Request, Reallocate, mutator, list
  <2>2. t \in ObjType /\ "local" \in Owners /\ Sizeof[t] \in Nat
    BY CollectorAssumption, OwnersApart, SizeofTypes
  <2>3. Asked' = Sizeof[t] /\ t # "table"
    BY <2>1, <2>2 DEF Asked, ObjType
  <2> QED BY <1>0, <2>1, <2>2, <2>3, NewBlockAInv
<1>3. ASSUME NEW x \in Owners, GrowTable(x) PROVE AInv'
  <2> DEFINE n == GROW_CAPACITY(count[x])
  <2>1. /\ pc = "run" /\ pc' \in {"roots", "link"} /\ local = "none" /\ x \in MayGrow
        /\ UNCHANGED <<blocks, type, heap, roots, nextGC>>
        /\ want' = "table" /\ owner' = x /\ arg' = n
        /\ bytes' = bytes + Sizeof["Entry"] * n - 0
    BY <1>3 DEF GrowTable, Request, Reallocate, mutator, list
  <2>2. n \in Nat
    BY <1>0, CollectorAssumption DEF CountTypes, GROW_CAPACITY
  <2>3. Sizeof["Entry"] * n \in Nat
    BY <2>2, SizeofTypes, Products
  <2>4. Asked' = Sizeof["Entry"] * n /\ want' \notin ObjType
    BY <2>1 DEF Asked, ObjType
  <2>5. x \in Tables \/ (x \in AllRoots /\ type[x] \in {"class", "instance"})
    BY <2>1 DEF MayGrow, Tables
  <2> HIDE DEF n
  <2> QED BY <1>0, <2>1, <2>2, <2>3, <2>4, <2>5, NewBlockAInv
<1> QED BY <1>1, <1>2, <1>3

\* What freeObject computes from the type and the counts of an object.
Due(t, c, k, p) ==
  IF p \in Blocks(t)
  THEN Sizeof[Element(t, p)] * (CASE p = "struct"                    -> 1
                                  [] p = "constants"                 -> k
                                  [] p = "array" /\ t = "string"     -> c + 1
                                  [] OTHER                           -> c)
  ELSE 0

\* FreedBytes is this, before and after a step.
LEMMA FreedIsDue ==
  \A o, p : /\ FreedBytes(o, p) = Due(type[o], count[o], constants[o], p)
            /\ FreedBytes(o, p)' = Due(type'[o], count'[o], constants'[o], p)
BY DEF FreedBytes, Due, Number

\* The blocks of each type of object.
LEMMA DueOfEach ==
  ASSUME NEW c \in Nat, NEW k \in Nat
  PROVE  /\ \A t \in ObjType : Due(t, c, k, "struct") = Sizeof[t]
         /\ Due("function", c, k, "array") = Sizeof["uint8_t"] * c
         /\ Due("function", c, k, "lines") = Sizeof["int"] * c
         /\ Due("function", c, k, "constants") = Sizeof["Value"] * k
         /\ \A t \in {"class", "instance"} : Due(t, c, k, "array") = Sizeof["Entry"] * c
         /\ Due("string", c, k, "array") = LocalBytes("chars", c)
         /\ Due("closure", c, k, "array") = LocalBytes("upvalues", c)
         /\ \A t \in ObjType \ {"function"} : \A p \in {"lines", "constants"} : Due(t, c, k, p) = 0
         /\ \A t \in {"bound", "native", "upvalue"} : Due(t, c, k, "array") = 0
<1>1. ASSUME NEW t \in ObjType PROVE Due(t, c, k, "struct") = Sizeof[t]
  <2>1. Sizeof[t] \in Nat /\ Sizeof[t] * 1 = Sizeof[t]
    BY SizeofTypes, Products
  <2> QED BY <2>1 DEF Due, Blocks, Element, Parts
<1>2. /\ Due("function", c, k, "array") = Sizeof["uint8_t"] * c
      /\ Due("function", c, k, "lines") = Sizeof["int"] * c
      /\ Due("function", c, k, "constants") = Sizeof["Value"] * k
  BY DEF Due, Blocks, Element, Parts
<1>3. \A t \in {"class", "instance"} : Due(t, c, k, "array") = Sizeof["Entry"] * c
  BY DEF Due, Blocks, Element
<1>4. /\ Due("string", c, k, "array") = LocalBytes("chars", c)
      /\ Due("closure", c, k, "array") = LocalBytes("upvalues", c)
  BY DEF Due, Blocks, Element, LocalBytes
<1>5. /\ \A t \in ObjType \ {"function"} : \A p \in {"lines", "constants"} : Due(t, c, k, p) = 0
      /\ \A t \in {"bound", "native", "upvalue"} : Due(t, c, k, "array") = 0
  BY DEF Due, Blocks, ObjType
<1> QED BY <1>1, <1>2, <1>3, <1>4, <1>5

\* An object whose counts are zero has no array.
LEMMA DueOfNew ==
  /\ \A t \in {"class", "instance", "function"} : Due(t, 0, 0, "array") = 0
  /\ Due("function", 0, 0, "lines") = 0 /\ Due("function", 0, 0, "constants") = 0
<1>1. /\ \A t \in {"class", "instance"} : Due(t, 0, 0, "array") = Sizeof["Entry"] * 0
      /\ Due("function", 0, 0, "array") = Sizeof["uint8_t"] * 0
      /\ Due("function", 0, 0, "lines") = Sizeof["int"] * 0
      /\ Due("function", 0, 0, "constants") = Sizeof["Value"] * 0
  BY DueOfEach
<1> QED BY <1>1, SizeofTypes, Products

\* Steps that change the counts and blocks of one owner.
LEMMA SizeStep ==
  ASSUME IInv, AInv, UNCHANGED <<heap, type>>, NEW x \in Owners,
         \A y \in Owners \ {x} : /\ count'[y] = count[y]
                                 /\ \A p \in Parts : size'[y][p] = size[y][p],
         \A y \in Objects \ {x} : constants'[y] = constants[y],
         \A y \in Objects \ {x} : \A p \in Parts : ~Growing(y, p) /\ ~Growing(y, p)',
         x \in Objects => x \in heap /\ \A p \in Parts : size'[x][p] = Held(x, p)',
         x \in Tables => \A p \in Parts :
           size'[x][p] = IF p = "array" THEN Sizeof["Entry"] * count'[x] ELSE 0
  PROVE  SizeInv'
<1>1. heap \subseteq Objects /\ Objects \subseteq Owners /\ Tables \subseteq Owners
  BY DEF IInv, PointerTypes, Owners
<1>2. ASSUME NEW o \in heap, NEW p \in Parts PROVE size'[o][p] = Held(o, p)'
  <2>1. CASE o = x
    BY <1>1, <2>1
  <2>2. CASE o # x
    <3>1. Held(o, p)' = FreedBytes(o, p)' /\ Held(o, p) = FreedBytes(o, p)
      BY <1>1, <2>2 DEF Held
    <3>2. FreedBytes(o, p)' = FreedBytes(o, p)
      BY <1>1, <2>2, FreedIsDue
    <3> QED BY <1>1, <2>2, <3>1, <3>2 DEF AInv, SizeInv
  <2> QED BY <2>1, <2>2
<1>3. \A o \in Objects \ heap :
        count'[o] = 0 /\ constants'[o] = 0 /\ \A p \in Parts : size'[o][p] = 0
  BY <1>1 DEF AInv, SizeInv
<1>4. \A y \in Tables : \A p \in Parts :
        size'[y][p] = IF p = "array" THEN Sizeof["Entry"] * count'[y] ELSE 0
  BY <1>1 DEF AInv, SizeInv
<1> QED BY <1>2, <1>3, <1>4 DEF SizeInv

\* writeChunk begins: the capacity changes before the arrays do.
LEMMA GrowCodeAInv ==
  ASSUME IInv, AInv, NEW o \in Objects, GrowCode(o)
  PROVE  AInv'
<1> DEFINE c == count[o]
           n == GROW_CAPACITY(count[o])
           S == Sizeof["uint8_t"]
<1>0. /\ pc = "run" /\ pc' \in {"roots", "link"} /\ local = "none" /\ o \in roots["compiler"]
      /\ count' = [count EXCEPT ![o] = n]
      /\ want' = "code" /\ owner' = o /\ arg' = c
      /\ bytes' = bytes + S * n - S * c
      /\ UNCHANGED <<nextGC, constants, local, size, type, roots, heap>>
  BY DEF GrowCode, Idle, Request, Reallocate, mutator, list
<1>1. /\ want = "none" /\ bytes = Cardinality(Memory) /\ Cardinality(Memory) \in Nat
      /\ type[o] = "function" /\ o \in heap
      /\ \A p \in Parts : size[o][p] = FreedBytes(o, p)
      /\ \A x \in roots["compiler"] : type[x] = "function"
  BY <1>0, NoCall
<1>2. CountTypes /\ c \in Nat /\ n \in Nat /\ c <= n /\ constants[o] \in Nat /\ o \in Owners
  BY CollectorAssumption, OwnersApart DEF AInv, CountTypes, GROW_CAPACITY
<1>3. /\ count' \in [Owners -> Nat] /\ count'[o] = n
      /\ \A y \in Owners \ {o} : count'[y] = count[y]
  BY <1>0, <1>2 DEF CountTypes
<1> HIDE DEF c, n
<1>4. CountTypes'
  BY <1>0, <1>2, <1>3 DEF CountTypes
<1>5. LocalInv'
  BY <1>0, <1>3, OwnersApart DEF AInv, LocalInv
<1>6. CallInv'
  BY <1>0, <1>1, <1>2, <1>3 DEF CallInv, ObjType
<1>7. SizeInv'
  <2>1. \A y \in Objects \ {o} : \A p \in Parts : ~Growing(y, p) /\ ~Growing(y, p)'
    BY <1>0, <1>1 DEF Growing
  <2>2. /\ Held(o, "struct")' = FreedBytes(o, "struct")'
        /\ Held(o, "constants")' = FreedBytes(o, "constants")'
        /\ Held(o, "array")' = S * c /\ Held(o, "lines")' = Sizeof["int"] * c
    BY <1>0 DEF Held, Growing, Element
  <2>3. \A p \in Parts : size'[o][p] = Held(o, p)'
    BY <1>0, <1>1, <1>2, <1>3, <2>2, FreedIsDue, DueOfEach DEF Parts, c, ObjType
  <2> QED BY <1>0, <1>1, <1>2, <1>3, <2>1, <2>3, SizeStep, OwnersApart DEF Tables
<1>8. IsFiniteSet(Memory') /\ BytesExact'
  <2>1. Memory' = Memory
    BY <1>0 DEF Memory
  <2>2. Asked' = S * (n - c)
    BY <1>0, <1>3 DEF Asked, ObjType
  <2>3. S * (n - c) = S * n - S * c /\ S * n \in Nat /\ S * c \in Nat
    BY <1>2, SizeofTypes, Products
  <2> QED BY <1>0, <1>1, <2>1, <2>2, <2>3 DEF AInv, BytesExact
<1> QED BY <1>4, <1>5, <1>6, <1>7, <1>8 DEF AInv

\* writeValueArray begins.
LEMMA GrowConstantsAInv ==
  ASSUME IInv, AInv, NEW o \in Objects, GrowConstants(o)
  PROVE  AInv'
<1> DEFINE c == constants[o]
           n == GROW_CAPACITY(constants[o])
           S == Sizeof["Value"]
<1>0. /\ pc = "run" /\ pc' \in {"roots", "link"} /\ local = "none" /\ o \in roots["compiler"]
      /\ constants' = [constants EXCEPT ![o] = n]
      /\ want' = "constants" /\ owner' = o /\ arg' = c
      /\ bytes' = bytes + S * n - S * c
      /\ UNCHANGED <<nextGC, count, local, size, type, roots, heap>>
  BY DEF GrowConstants, Idle, Request, Reallocate, mutator, list
<1>1. /\ want = "none" /\ bytes = Cardinality(Memory) /\ Cardinality(Memory) \in Nat
      /\ type[o] = "function" /\ o \in heap
      /\ \A p \in Parts : size[o][p] = FreedBytes(o, p)
      /\ \A x \in roots["compiler"] : type[x] = "function"
  BY <1>0, NoCall
<1>2. CountTypes /\ c \in Nat /\ n \in Nat /\ c <= n /\ count[o] \in Nat /\ o \in Owners
  BY CollectorAssumption, OwnersApart DEF AInv, CountTypes, GROW_CAPACITY
<1>3. /\ constants' \in [Objects -> Nat] /\ constants'[o] = n
      /\ \A y \in Objects \ {o} : constants'[y] = constants[y]
  BY <1>0, <1>2 DEF CountTypes
<1> HIDE DEF c, n
<1>4. CountTypes'
  BY <1>0, <1>2, <1>3 DEF CountTypes
<1>5. LocalInv'
  BY <1>0 DEF AInv, LocalInv
<1>6. CallInv'
  BY <1>0, <1>1, <1>2, <1>3 DEF CallInv, ObjType
<1>7. SizeInv'
  <2>1. \A y \in Objects \ {o} : \A p \in Parts : ~Growing(y, p) /\ ~Growing(y, p)'
    BY <1>0, <1>1 DEF Growing
  <2>2. /\ \A p \in Parts \ {"constants"} : Held(o, p)' = FreedBytes(o, p)'
        /\ Held(o, "constants")' = S * c
    BY <1>0 DEF Held, Growing, Element
  <2>3. \A p \in Parts : size'[o][p] = Held(o, p)'
    BY <1>0, <1>1, <1>2, <1>3, <2>2, FreedIsDue, DueOfEach DEF Parts, c, ObjType
  <2> QED BY <1>0, <1>1, <1>2, <1>3, <2>1, <2>3, SizeStep, OwnersApart DEF Tables
<1>8. IsFiniteSet(Memory') /\ BytesExact'
  <2>1. Memory' = Memory
    BY <1>0 DEF Memory
  <2>2. Asked' = S * (n - c)
    BY <1>0, <1>3 DEF Asked, ObjType
  <2>3. S * (n - c) = S * n - S * c /\ S * n \in Nat /\ S * c \in Nat
    BY <1>2, SizeofTypes, Products
  <2> QED BY <1>0, <1>1, <2>1, <2>2, <2>3 DEF AInv, BytesExact
<1> QED BY <1>4, <1>5, <1>6, <1>7, <1>8 DEF AInv

-----------------------------------------------------------------------------
(* The account: the blocks appear *)

\* The array of a C local, and its end in takeString.
LEMMA LocalAInv ==
  ASSUME IInv, AInv, LinkLocal \/ FreeChars
  PROVE  AInv'
<1>0. /\ CountTypes /\ IsFiniteSet(Memory) /\ Cardinality(Memory) \in Nat
      /\ "local" \in Owners /\ "array" \in Parts /\ "local" \notin Objects
  BY BytesNat, OwnersApart DEF AInv, IInv, Parts
<1>1. ASSUME NEW n \in Nat, NEW b \in Nat, NEW l \in {"none", "chars", "upvalues"},
             size' = [size EXCEPT !["local"]["array"] = b],
             count' = [count EXCEPT !["local"] = n], local' = l,
             IF l = "none" THEN n = 0 /\ b = 0 ELSE b = LocalBytes(l, n),
             want' = "none", owner' \in Owners, arg' \in Nat, pc' = "run",
             pc \in {"run", "link"}, want \in {"none", "chars", "upvalues"},
             UNCHANGED <<nextGC, constants, type, roots, heap>>,
             bytes' = Cardinality(Memory) - size["local"]["array"] + b
      PROVE  AInv'
  <2>1. /\ size' \in Sizes /\ size'["local"]["array"] = b
        /\ \A y \in Owners, q \in Parts :
             y # "local" \/ q # "array" => size'[y][q] = size[y][q]
        /\ IsFiniteSet(Memory')
        /\ Cardinality(Memory') = Cardinality(Memory) - size["local"]["array"] + b
    BY <1>0, <1>1, MemoryStep
  <2>2. /\ count' \in [Owners -> Nat] /\ count'["local"] = n
        /\ \A y \in Owners \ {"local"} : count'[y] = count[y]
    BY <1>0, <1>1 DEF CountTypes
  <2>3. CountTypes'
    BY <1>0, <1>1, <2>1, <2>2 DEF CountTypes
  <2>4. LocalInv'
    BY <1>0, <1>1, <2>1, <2>2 DEF AInv, LocalInv
  <2>5. CallInv'
    BY <1>1 DEF AInv, CallInv, ObjType
  <2>6. SizeInv'
    <3>1. \A y \in Objects \ {"local"} : \A p \in Parts : ~Growing(y, p) /\ ~Growing(y, p)'
      BY <1>1 DEF Growing
    <3> QED BY <1>0, <1>1, <2>1, <2>2, <3>1, SizeStep DEF Tables
  <2>7. Asked' = 0
    BY <1>1 DEF Asked, ObjType
  <2>8. BytesExact'
    <3>1. size["local"]["array"] \in Nat
      BY <1>0 DEF CountTypes, Sizes
    <3> QED BY <1>0, <1>1, <2>1, <2>7, <3>1 DEF BytesExact
  <2> QED BY <2>1, <2>3, <2>4, <2>5, <2>6, <2>8 DEF AInv
<1>2. CASE LinkLocal
  <2>1. /\ pc = "link" /\ want \in {"chars", "upvalues"}
        /\ size' = [size EXCEPT !["local"]["array"] = LocalBytes(want, arg)]
        /\ count' = [count EXCEPT !["local"] = arg] /\ local' = want
        /\ pc' = "run" /\ want' = "none" /\ owner' = "local" /\ arg' = 0
        /\ UNCHANGED <<bytes, nextGC, constants, type, roots, heap>>
    BY <1>2 DEF LinkLocal, Return, Request, mutator, list
  <2>2. arg \in Nat /\ LocalBytes(want, arg) \in Nat
    BY <1>0, SizeofTypes DEF CountTypes
  <2>3. size["local"]["array"] = 0
    BY <2>1 DEF AInv, CallInv, LocalInv, ObjType
  <2>4. bytes = Cardinality(Memory) + LocalBytes(want, arg)
    BY <2>1 DEF AInv, BytesExact, Asked, ObjType
  <2>5. bytes' = Cardinality(Memory) - size["local"]["array"] + LocalBytes(want, arg)
    BY <1>0, <2>1, <2>2, <2>3, <2>4
  <2> QED BY <1>0, <1>1, <2>1, <2>2, <2>5
<1>3. CASE FreeChars
  <2>1. /\ pc = "run" /\ pc' = "run" /\ local = "chars"
        /\ bytes' = bytes - LocalBytes("chars", count["local"])
        /\ size' = [size EXCEPT !["local"]["array"] = 0]
        /\ count' = [count EXCEPT !["local"] = 0] /\ local' = "none"
        /\ UNCHANGED <<want, owner, arg, nextGC, constants, type, roots, heap>>
    BY <1>3 DEF FreeChars, request, mutator, list
  <2>2. want = "none" /\ bytes = Cardinality(Memory)
    BY <2>1, NoCall
  <2>3. count["local"] \in Nat /\ size["local"]["array"] = LocalBytes("chars", count["local"])
    BY <1>0, <2>1 DEF AInv, LocalInv, CountTypes
  <2>4. LocalBytes("chars", count["local"]) \in Nat
    BY <2>3, SizeofTypes
  <2>5. bytes' = Cardinality(Memory) - size["local"]["array"] + 0
    BY <1>0, <2>1, <2>2, <2>3, <2>4
  <2>6. owner' \in Owners /\ arg' \in Nat
    BY <1>0, <2>1 DEF CountTypes
  <2> QED BY <1>0, <1>1, <2>1, <2>2, <2>5, <2>6
<1> QED BY <1>2, <1>3

\* The array of an owner has its new size; the account is settled, or charged for
\* the next array.
LEMMA GrownAInv ==
  ASSUME IInv, AInv, pc = "link", NEW x, owner = x, NEW p \in {"array", "lines", "constants"}, NEW b \in Nat,
         want \in {"table", "code", "lines", "constants"},
         size' = [size EXCEPT ![x][p] = b],
         UNCHANGED <<nextGC, constants, local, type, roots, heap>>,
         count' \in [Owners -> Nat], \A y \in Owners \ {x} : count'[y] = count[y],
         pc' \in {"run", "roots", "link"}, owner' \in Owners, arg' \in Nat,
         \/ want' = "none"
         \/ want' = "lines" /\ want = "code" /\ owner' = x /\ arg' = arg /\ count' = count,
         IF x \in Tables
         THEN p = "array" /\ want = "table" /\ b = Sizeof["Entry"] * count'[x]
         ELSE /\ \A q \in Parts \ {p} : Held(x, q)' = Held(x, q)
              /\ Held(x, p)' = b,
         bytes' = Cardinality(Memory) - size[x][p] + b + Asked'
  PROVE  AInv'
<1>0. /\ CountTypes /\ IsFiniteSet(Memory) /\ Cardinality(Memory) \in Nat
      /\ x \in Owners /\ p \in Parts /\ size[x][p] \in Nat
  BY BytesNat DEF AInv, IInv, Parts, CountTypes, Sizes
<1>1. /\ size' \in Sizes /\ size'[x][p] = b
      /\ \A y \in Owners, q \in Parts : y # x \/ q # p => size'[y][q] = size[y][q]
      /\ IsFiniteSet(Memory')
      /\ Cardinality(Memory') = Cardinality(Memory) - size[x][p] + b
  BY <1>0, MemoryStep
<1>2. x # "local" /\ (x \notin Tables => x \in Objects /\ x \in heap)
  <2>1. AllRoots \subseteq heap /\ heap \subseteq Objects /\ roots["compiler"] \subseteq AllRoots
    BY Members DEF IInv, HeapInv, RootedIn, PointerTypes, RootKinds
  <2>2. x \in Tables \/ x \in AllRoots
    BY <2>1 DEF AInv, CallInv
  <2> QED BY <2>1, <2>2, OwnersApart DEF Tables
<1>3. CountTypes'
  BY <1>0, <1>1 DEF CountTypes
<1>4. LocalInv'
  BY <1>0, <1>1, <1>2, OwnersApart DEF AInv, LocalInv
<1>5. CallInv'
  BY DEF AInv, CallInv, ObjType
<1>6. SizeInv'
  <2>1. \A y \in Objects \ {x} : \A q \in Parts : ~Growing(y, q) /\ ~Growing(y, q)'
    BY DEF Growing
  <2>2. x \in Objects => \A q \in Parts : size'[x][q] = Held(x, q)'
    BY <1>0, <1>1, <1>2, OwnersApart DEF AInv, SizeInv, Tables
  <2>3. x \in Tables => \A q \in Parts :
          size'[x][q] = IF q = "array" THEN Sizeof["Entry"] * count'[x] ELSE 0
    BY <1>0, <1>1 DEF AInv, SizeInv
  <2>4. x \in Objects => x \in heap
    BY <1>2, OwnersApart DEF Tables
  <2>5. \A y \in Owners \ {x} : /\ count'[y] = count[y]
                                    /\ \A q \in Parts : size'[y][q] = size[y][q]
    BY <1>1
  <2> QED BY <1>0, <2>1, <2>2, <2>3, <2>4, <2>5, SizeStep
<1>7. BytesExact'
  BY <1>0, <1>1 DEF BytesExact
<1> QED BY <1>1, <1>3, <1>4, <1>5, <1>6, <1>7 DEF AInv

\* The ends of adjustCapacity, writeChunk and writeValueArray.
LEMMA LinkGrownAInv ==
  ASSUME IInv, AInv, LinkTable \/ LinkCode \/ LinkLines \/ LinkConstants
  PROVE  AInv'
<1>1. PICK x : x = owner
  OBVIOUS
<1>2. PICK a : a = arg
  OBVIOUS
<1>0. /\ CountTypes /\ Cardinality(Memory) \in Nat /\ x \in Owners /\ a \in Nat
      /\ count[x] \in Nat /\ "local" \in Owners
      /\ bytes = Cardinality(Memory) + Asked
  BY <1>1, <1>2, BytesNat, OwnersApart DEF AInv, IInv, CountTypes, BytesExact
<1>3. want \in {"code", "lines", "constants"} =>
        /\ x \in Objects /\ x \notin Tables /\ x \in heap /\ type[x] = "function"
        /\ constants[x] \in Nat
        /\ \A p \in Parts : size[x][p] = Held(x, p)
  <2>1. SUFFICES ASSUME want \in {"code", "lines", "constants"}
                 PROVE  /\ x \in Objects /\ x \notin Tables /\ x \in heap /\ type[x] = "function"
                        /\ constants[x] \in Nat
                        /\ \A p \in Parts : size[x][p] = Held(x, p)
    OBVIOUS
  <2>2. x \in roots["compiler"] /\ type[x] = "function"
    BY <1>1, <2>1 DEF AInv, CallInv
  <2>3. pc = "link"
    BY <2>1 DEF LinkTable, LinkCode, LinkLines, LinkConstants
  <2>4. x \in heap /\ x \in Objects
    BY <2>2, <2>3, Members DEF IInv, HeapInv, RootedIn, PointerTypes, RootKinds
  <2> QED BY <1>0, <2>2, <2>4, OwnersApart DEF AInv, SizeInv, CountTypes, Tables
<1>4. CASE LinkTable
  <2> DEFINE E == Sizeof["Entry"]
  <2>1. /\ pc = "link" /\ want = "table" /\ pc' = "run" /\ want' = "none"
        /\ owner' = "local" /\ arg' = 0
        /\ bytes' = bytes - E * count[x]
        /\ size' = [size EXCEPT ![x]["array"] = E * a]
        /\ count' = [count EXCEPT ![x] = a]
        /\ UNCHANGED <<nextGC, constants, local, type, roots, heap>>
    BY <1>1, <1>2, <1>4 DEF LinkTable, Return, Request, mutator, list
  <2>2. E * a \in Nat /\ E * count[x] \in Nat
    BY <1>0, SizeofTypes, Products
  <2>3. /\ count' \in [Owners -> Nat] /\ count'[x] = a
        /\ \A y \in Owners \ {x} : count'[y] = count[y]
    BY <1>0, <2>1 DEF CountTypes
  <2>4. \/ x \in Tables
        \/ /\ x \notin Tables /\ x \in heap /\ x \in Objects
           /\ type[x] \in {"class", "instance"} /\ constants[x] \in Nat
    BY <1>0, <1>1, <2>1 DEF AInv, CallInv, IInv, HeapInv, RootedIn, PointerTypes, CountTypes
  <2>5. \A p : Held(x, p) = FreedBytes(x, p) /\ Held(x, p)' = FreedBytes(x, p)'
    BY <2>1 DEF Held, Growing
  <2>6. x \notin Tables =>
          /\ \A q \in Parts \ {"array"} : Held(x, q)' = Held(x, q)
          /\ Held(x, "array")' = E * a /\ Held(x, "array") = E * count[x]
    BY <1>0, <2>1, <2>3, <2>4, <2>5, FreedIsDue, DueOfEach DEF Parts, ObjType
  <2>7. size[x]["array"] = E * count[x]
    BY <2>4, <2>6 DEF AInv, SizeInv, Parts
  <2>8. Asked = E * a /\ Asked' = 0
    BY <1>2, <2>1 DEF Asked, ObjType
  <2>9. bytes' = Cardinality(Memory) - size[x]["array"] + E * a + Asked'
    BY <1>0, <2>1, <2>2, <2>7, <2>8
  <2> HIDE DEF E
  <2>10. x \in Tables => E * a = Sizeof["Entry"] * count'[x]
    BY <2>3 DEF E
  <2> QED BY <1>0, <1>1, <2>1, <2>2, <2>3, <2>6, <2>9, <2>10, GrownAInv
<1>5. CASE LinkCode
  <2> DEFINE S == Sizeof["uint8_t"]
             I == Sizeof["int"]
  <2>1. /\ pc = "link" /\ want = "code" /\ want' = "lines" /\ owner' = x /\ arg' = a
        /\ pc' \in {"link", "roots"}
        /\ size' = [size EXCEPT ![x]["array"] = S * count[x]]
        /\ bytes' = bytes + I * count[x] - I * a
        /\ UNCHANGED <<nextGC, count, constants, local, type, roots, heap>>
    BY <1>1, <1>2, <1>5 DEF LinkCode, Request, Reallocate, mutator, list
  <2>2. /\ S * a \in Nat /\ S * count[x] \in Nat /\ I * a \in Nat /\ I * count[x] \in Nat
        /\ S * (count[x] - a) = S * count[x] - S * a
        /\ I * (count[x] - a) = I * count[x] - I * a
    BY <1>0, SizeofTypes, Products
  <2>3. /\ \A q \in {"struct", "constants"} :
             Held(x, q) = FreedBytes(x, q) /\ Held(x, q)' = FreedBytes(x, q)'
        /\ Held(x, "array") = S * a /\ Held(x, "array")' = FreedBytes(x, "array")'
        /\ Held(x, "lines") = I * a /\ Held(x, "lines")' = I * a
    BY <1>1, <1>2, <2>1 DEF Held, Growing, Element
  <2>4. /\ \A q \in Parts \ {"array"} : Held(x, q)' = Held(x, q)
        /\ Held(x, "array")' = S * count[x]
    BY <1>0, <1>3, <2>1, <2>3, FreedIsDue, DueOfEach DEF Parts
  <2>5. size[x]["array"] = S * a
    BY <1>3, <2>1, <2>3 DEF Parts
  <2>6. Asked = S * (count[x] - a) /\ Asked' = I * (count[x] - a)
    BY <1>1, <1>2, <2>1 DEF Asked, ObjType
  <2>7. bytes' = Cardinality(Memory) - size[x]["array"] + S * count[x] + Asked'
    BY <1>0, <2>1, <2>2, <2>5, <2>6
  <2>8. count' \in [Owners -> Nat] /\ \A y \in Owners \ {x} : count'[y] = count[y]
    BY <1>0, <2>1 DEF CountTypes
  <2> HIDE DEF S, I
  <2> QED BY <1>0, <1>1, <1>2, <1>3, <2>1, <2>2, <2>4, <2>7, <2>8, GrownAInv
<1>6. CASE LinkLines
  <2> DEFINE I == Sizeof["int"]
  <2>1. /\ pc = "link" /\ want = "lines" /\ want' = "none" /\ owner' = "local" /\ arg' = 0
        /\ pc' = "run"
        /\ size' = [size EXCEPT ![x]["lines"] = I * count[x]]
        /\ UNCHANGED <<bytes, nextGC, count, constants, local, type, roots, heap>>
    BY <1>1, <1>2, <1>6 DEF LinkLines, Return, Request, mutator, list
  <2>2. /\ I * a \in Nat /\ I * count[x] \in Nat
        /\ I * (count[x] - a) = I * count[x] - I * a
    BY <1>0, SizeofTypes, Products
  <2>3. /\ \A q \in Parts \ {"lines"} :
             Held(x, q) = FreedBytes(x, q) /\ Held(x, q)' = FreedBytes(x, q)'
        /\ Held(x, "lines") = I * a /\ Held(x, "lines")' = FreedBytes(x, "lines")'
    BY <1>1, <1>2, <2>1 DEF Held, Growing, Element
  <2>4. /\ \A q \in Parts \ {"lines"} : Held(x, q)' = Held(x, q)
        /\ Held(x, "lines")' = I * count[x]
    BY <1>0, <1>3, <2>1, <2>3, FreedIsDue, DueOfEach DEF Parts
  <2>5. size[x]["lines"] = I * a
    BY <1>3, <2>1, <2>3 DEF Parts
  <2>6. Asked = I * (count[x] - a) /\ Asked' = 0
    BY <1>1, <1>2, <2>1 DEF Asked, ObjType
  <2>7. bytes' = Cardinality(Memory) - size[x]["lines"] + I * count[x] + Asked'
    BY <1>0, <2>1, <2>2, <2>5, <2>6
  <2>8. count' \in [Owners -> Nat] /\ \A y \in Owners \ {x} : count'[y] = count[y]
    BY <1>0, <2>1 DEF CountTypes
  <2> HIDE DEF I
  <2> QED BY <1>0, <1>1, <1>3, <2>1, <2>2, <2>4, <2>7, <2>8, GrownAInv
<1>7. CASE LinkConstants
  <2> DEFINE V == Sizeof["Value"]
  <2>1. /\ pc = "link" /\ want = "constants" /\ want' = "none" /\ owner' = "local" /\ arg' = 0
        /\ pc' = "run"
        /\ size' = [size EXCEPT ![x]["constants"] = V * constants[x]]
        /\ UNCHANGED <<bytes, nextGC, count, constants, local, type, roots, heap>>
    BY <1>1, <1>2, <1>7 DEF LinkConstants, Return, Request, mutator, list
  <2>2. /\ V * a \in Nat /\ V * constants[x] \in Nat
        /\ V * (constants[x] - a) = V * constants[x] - V * a
    <3>1. V \in Nat /\ constants[x] \in Nat
      BY <1>3, <2>1, SizeofTypes
    <3> HIDE DEF V
    <3> QED BY <1>0, <3>1, Products
  <2>3. /\ \A q \in Parts \ {"constants"} :
             Held(x, q) = FreedBytes(x, q) /\ Held(x, q)' = FreedBytes(x, q)'
        /\ Held(x, "constants") = V * a /\ Held(x, "constants")' = FreedBytes(x, "constants")'
    BY <1>1, <1>2, <2>1 DEF Held, Growing, Element
  <2>4. /\ \A q \in Parts \ {"constants"} : Held(x, q)' = Held(x, q)
        /\ Held(x, "constants")' = V * constants[x]
    BY <1>0, <1>3, <2>1, <2>3, FreedIsDue, DueOfEach DEF Parts
  <2>5. size[x]["constants"] = V * a
    BY <1>3, <2>1, <2>3 DEF Parts
  <2>6. Asked = V * (constants[x] - a) /\ Asked' = 0
    BY <1>1, <1>2, <2>1 DEF Asked, ObjType
  <2>7. bytes' = Cardinality(Memory) - size[x]["constants"] + V * constants[x] + Asked'
    BY <1>0, <2>1, <2>2, <2>5, <2>6
  <2>8. count' \in [Owners -> Nat] /\ \A y \in Owners \ {x} : count'[y] = count[y]
    BY <1>0, <2>1 DEF CountTypes
  <2> HIDE DEF V
  <2> QED BY <1>0, <1>1, <1>3, <2>1, <2>2, <2>4, <2>7, <2>8, GrownAInv
<1> QED BY <1>4, <1>5, <1>6, <1>7

\* allocateObject: the struct appears, and the array of the C local is now its.
LEMMA LinkAInv ==
  ASSUME IInv, AInv, NEW o \in Objects, Link(o)
  PROVE  AInv'
<1> DEFINE L == size["local"]["array"]
           n == count["local"]
<1>0. /\ pc = "link" /\ want \in ObjType /\ o \notin heap /\ heap' = heap \cup {o}
      /\ type' = [type EXCEPT ![o] = want]
      /\ roots' = [roots EXCEPT ![FirstRoot(want)] = @ \cup {o}]
      /\ size' = [size EXCEPT ![o]["struct"] = Sizeof[want], ![o]["array"] = L,
                              !["local"]["array"] = 0]
      /\ count' = [count EXCEPT ![o] = n, !["local"] = 0]
      /\ local' = "none" /\ pc' = "run" /\ want' = "none" /\ owner' = "local" /\ arg' = 0
      /\ UNCHANGED <<bytes, nextGC, constants>>
  BY DEF Link, Return, Request
<1>1. /\ PointerTypes /\ CountTypes /\ IsFiniteSet(Memory) /\ Cardinality(Memory) \in Nat
      /\ Asked = Sizeof[want] /\ Sizeof[want] \in Nat /\ bytes = Cardinality(Memory) + Asked
      /\ o \in Owners /\ o # "local" /\ "local" \in Owners /\ L \in Nat /\ n \in Nat
      /\ \A x \in Tables : x # o /\ x # "local" /\ x \in Owners
      /\ "struct" \in Parts /\ "array" \in Parts
  BY <1>0, BytesNat, SizeofTypes, OwnersApart
  DEF AInv, IInv, BytesExact, Asked, ObjType, Parts, CountTypes, Sizes, Tables
<1>2. count[o] = 0 /\ constants[o] = 0 /\ \A p \in Parts : size[o][p] = 0
  BY <1>0 DEF AInv, SizeInv
<1>3. /\ size' \in Sizes /\ size'[o]["struct"] = Sizeof[want] /\ size'[o]["array"] = L
      /\ \A p \in Parts : p \notin {"struct", "array"} => size'[o][p] = 0
      /\ size'["local"]["array"] = 0
      /\ \A p \in Parts : p # "array" => size'["local"][p] = size["local"][p]
      /\ \A y \in Owners : y # o /\ y # "local" => size'[y] = size[y]
  BY <1>0, <1>1, <1>2 DEF CountTypes, Sizes
<1>4. /\ count' \in [Owners -> Nat] /\ count'[o] = n /\ count'["local"] = 0
      /\ \A y \in Owners : y # o /\ y # "local" => count'[y] = count[y]
  BY <1>0, <1>1 DEF CountTypes
<1>5. IsFiniteSet(Memory') /\ Cardinality(Memory') = Cardinality(Memory) + Sizeof[want]
  <2> DEFINE t1 == [size EXCEPT ![o]["struct"] = Sizeof[want]]
             t2 == [t1 EXCEPT ![o]["array"] = L]
  <2>0. size \in Sizes /\ IsFiniteSet(Bytes(size)) /\ Memory = Bytes(size)
        /\ Memory' = Bytes(size')
    BY <1>1 DEF CountTypes, Memory, Bytes, Block
  <2>1. /\ t1 \in Sizes /\ t1[o]["struct"] = Sizeof[want] /\ size[o]["struct"] = 0
        /\ \A y \in Owners, q \in Parts : y # o \/ q # "struct" => t1[y][q] = size[y][q]
    BY <1>1, <1>2, <2>0 DEF Sizes
  <2> HIDE DEF t1
  <2>2. /\ t2 \in Sizes /\ t2[o]["array"] = L /\ t1[o]["array"] = 0
        /\ \A y \in Owners, q \in Parts : y # o \/ q # "array" => t2[y][q] = t1[y][q]
    BY <1>1, <1>2, <2>1 DEF Sizes
  <2> HIDE DEF t2
  <2>3. /\ t2["local"]["array"] = L
        /\ \A y \in Owners, q \in Parts : y # "local" \/ q # "array" => size'[y][q] = t2[y][q]
    BY <1>1, <1>2, <1>3, <2>1, <2>2
  <2>4. /\ IsFiniteSet(Bytes(t1))
        /\ Cardinality(Bytes(t1))
             = Cardinality(Bytes(size)) - size[o]["struct"] + t1[o]["struct"]
    BY <1>1, <2>0, <2>1, OneBlock
  <2>5. /\ IsFiniteSet(Bytes(t2))
        /\ Cardinality(Bytes(t2)) = Cardinality(Bytes(t1)) - t1[o]["array"] + t2[o]["array"]
    BY <1>1, <2>1, <2>2, <2>4, OneBlock
  <2>6. /\ IsFiniteSet(Bytes(size'))
        /\ Cardinality(Bytes(size'))
             = Cardinality(Bytes(t2)) - t2["local"]["array"] + size'["local"]["array"]
    BY <1>1, <1>3, <2>2, <2>3, <2>5, OneBlock
  <2> QED BY <1>1, <1>3, <2>0, <2>1, <2>2, <2>3, <2>4, <2>5, <2>6
<1>6. CountTypes' /\ LocalInv'
  BY <1>0, <1>1, <1>3, <1>4 DEF AInv, CountTypes, LocalInv
<1>7. CallInv'
  <2>1. roots["compiler"] \subseteq heap
    BY <1>0, Members DEF IInv, HeapInv, RootedIn, RootKinds
  <2>2. ASSUME NEW x \in roots'["compiler"] PROVE type'[x] = "function"
    <3>1. x = o => want = "function"
      BY <1>0, <1>1, <2>1 DEF FirstRoot, PointerTypes, RootKinds
    <3>2. x = o \/ x \in roots["compiler"]
      BY <1>0, <1>1 DEF PointerTypes, RootKinds
    <3>3. x \in Objects
      BY <3>2, <1>1 DEF PointerTypes, RootKinds
    <3> QED BY <1>0, <1>1, <3>1, <3>2, <3>3 DEF AInv, CallInv, PointerTypes
  <2> QED BY <1>0, <2>2 DEF CallInv, ObjType
<1>8. SizeInv'
  <2>0. heap' = heap \cup {o} /\ o \notin heap /\ want \in ObjType /\ constants' = constants
    BY <1>0
  <2>1. \A x, p : Held(x, p)' = FreedBytes(x, p)' /\ Held(x, p) = FreedBytes(x, p)
    BY <1>0 DEF Held, Growing, ObjType
  <2>2. heap \subseteq Objects /\ Objects \subseteq Owners
    BY <1>1 DEF PointerTypes, Owners
  <2>3. /\ type'[o] = want
        /\ \A x \in Objects : x # o => type'[x] = type[x] /\ count'[x] = count[x]
                                       /\ \A p \in Parts : size'[x][p] = size[x][p]
    <3>1. /\ type'[o] = want /\ \A x \in Objects : x # o => type'[x] = type[x]
      BY <1>0, <1>1 DEF PointerTypes
    <3> QED BY <1>3, <1>4, <2>2, <3>1, OwnersApart
  <2>4. ASSUME NEW p \in Parts PROVE size'[o][p] = Held(o, p)'
    <3>1. Held(o, p)' = Due(want, n, 0, p)
      BY <1>0, <1>2, <1>4, <2>1, <2>3, FreedIsDue
    <3>2. local = LocalOf(want)
      BY <1>0 DEF AInv, CallInv
    <3>3. want \notin {"string", "closure"} => n = 0 /\ L = 0
      BY <3>2 DEF LocalOf, AInv, LocalInv
    <3>4. want = "string" => L = LocalBytes("chars", n)
      BY <3>2 DEF LocalOf, AInv, LocalInv
    <3>5. want = "closure" => L = LocalBytes("upvalues", n)
      BY <3>2 DEF LocalOf, AInv, LocalInv
    <3>6. Due(want, n, 0, "array") = L
      <4>1. CASE want \in {"string", "closure"}
        BY <1>1, <3>4, <3>5, <4>1, DueOfEach
      <4>2. CASE want \in {"class", "instance", "function"}
        BY <3>3, <4>2, DueOfNew
      <4>3. CASE want \in {"bound", "native", "upvalue"}
        BY <1>1, <3>3, <4>3, DueOfEach
      <4> QED BY <2>0, <4>1, <4>2, <4>3 DEF ObjType
    <3>7. Due(want, n, 0, "struct") = Sizeof[want]
      <4>1. n \in Nat
        BY <1>1
      <4> HIDE DEF n
      <4> QED BY <2>0, <4>1, DueOfEach
    <3>8. Due(want, n, 0, "lines") = 0 /\ Due(want, n, 0, "constants") = 0
      <4>1. CASE want = "function"
        BY <3>3, <4>1, DueOfNew
      <4>2. CASE want # "function"
        BY <1>1, <2>0, <4>2, DueOfEach
      <4> QED BY <4>1, <4>2
    <3> QED BY <1>3, <3>1, <3>6, <3>7, <3>8 DEF Parts
  <2>5. ASSUME NEW x \in heap, NEW p \in Parts PROVE size'[x][p] = Held(x, p)'
    <3>1. x \in Objects /\ x # o
      BY <2>0, <2>2
    <3>2. Held(x, p)' = Held(x, p)
      BY <2>0, <2>1, <2>3, <3>1, FreedIsDue
    <3> QED BY <2>3, <3>1, <3>2 DEF AInv, SizeInv
  <2>6. \A x \in Objects \ heap' :
          count'[x] = 0 /\ constants'[x] = 0 /\ \A p \in Parts : size'[x][p] = 0
    BY <2>0, <2>3 DEF AInv, SizeInv
  <2>7. \A y \in Tables : \A p \in Parts :
          size'[y][p] = IF p = "array" THEN Sizeof["Entry"] * count'[y] ELSE 0
    BY <1>1, <1>3, <1>4 DEF AInv, SizeInv
  <2> QED BY <1>0, <2>4, <2>5, <2>6, <2>7 DEF SizeInv
<1>9. BytesExact'
  <2>1. Asked' = 0
    BY <1>0 DEF Asked, ObjType
  <2> QED BY <1>0, <1>1, <1>5, <2>1 DEF BytesExact
<1> QED BY <1>5, <1>6, <1>7, <1>8, <1>9 DEF AInv

-----------------------------------------------------------------------------
(* The account: freeObject *)

\* An object that the call in progress does not hold is freed: the sizes that its
\* type and counts give are those of its blocks.
LEMMA FreeObjectAInv ==
  ASSUME IInv, AInv, NEW d \in heap, FreeObject(d), pc' = pc,
         UNCHANGED <<request, nextGC, local, roots>>,
         IF pc = "free" THEN want = "none" ELSE d \notin AllRoots
  PROVE  AInv'
<1>0. /\ heap' = heap \ {d}
      /\ bytes' = bytes - (FreedBytes(d, "struct") + FreedBytes(d, "array")
                           + FreedBytes(d, "lines") + FreedBytes(d, "constants"))
      /\ size' = [size EXCEPT ![d] =
                    [p \in Parts |-> IF p \in Blocks(type[d]) THEN 0 ELSE size[d][p]]]
      /\ count' = [count EXCEPT ![d] = 0] /\ constants' = [constants EXCEPT ![d] = 0]
      /\ type' = [type EXCEPT ![d] = "string"]
      /\ UNCHANGED <<want, owner, arg, nextGC, local, roots>>
  BY DEF FreeObject, request
<1>1. /\ PointerTypes /\ CountTypes /\ IsFiniteSet(Memory) /\ Cardinality(Memory) \in Nat
      /\ Asked \in Nat /\ bytes = Cardinality(Memory) + Asked
      /\ d \in Objects /\ d \in Owners /\ d # "local" /\ "local" \in Owners
      /\ \A x \in Tables : x # d /\ x \in Owners
      /\ roots["compiler"] \subseteq AllRoots
  BY BytesNat, OwnersApart, Members DEF AInv, IInv, BytesExact, PointerTypes, Tables, RootKinds
<1>2. \A p \in Parts : size[d][p] = FreedBytes(d, p) /\ size[d][p] \in Nat
  <2>1. \A p \in Parts : ~Growing(d, p)
    BY <1>1 DEF Growing, AInv, CallInv
  <2> QED BY <1>1, <2>1 DEF AInv, SizeInv, Held, CountTypes, Sizes
<1>3. \A p \in Parts : p \notin Blocks(type[d]) => size[d][p] = 0
  BY <1>2 DEF FreedBytes
<1>4. /\ size' \in Sizes
      /\ \A y \in Owners, q \in Parts : size'[y][q] = IF y = d THEN 0 ELSE size[y][q]
  BY <1>0, <1>1, <1>3 DEF CountTypes, Sizes
<1>5. /\ count' \in [Owners -> Nat] /\ count'[d] = 0
      /\ constants' \in [Objects -> Nat] /\ constants'[d] = 0
      /\ \A y \in Owners : y # d => count'[y] = count[y]
      /\ \A y \in Objects : y # d => constants'[y] = constants[y] /\ type'[y] = type[y]
  BY <1>0, <1>1 DEF CountTypes, PointerTypes
<1>6. /\ IsFiniteSet(Memory')
      /\ Cardinality(Memory') = Cardinality(Memory)
           - (size[d]["struct"] + size[d]["array"] + size[d]["lines"] + size[d]["constants"])
  <2>1. Memory = Bytes(size) /\ Memory' = Bytes(size') /\ size \in Sizes
    BY <1>1 DEF Memory, Bytes, Block, CountTypes
  <2> QED BY <1>1, <1>4, <2>1, FourBlocks
<1>7. CountTypes' /\ LocalInv'
  BY <1>0, <1>1, <1>4, <1>5 DEF AInv, CountTypes, LocalInv
<1>8. want \in {"table", "code", "lines", "constants"} => owner # d
  BY <1>1 DEF AInv, CallInv
<1>9. CallInv'
  <2>1. \A o \in AllRoots : pc # "free" => o # d
    OBVIOUS
  <2>2. AllRoots' = AllRoots /\ AllRoots \subseteq Objects
    BY <1>0, <1>1, PointersTyped DEF AllRoots
  <2>3. want = "table" =>
          owner \in Tables \/ (owner \in AllRoots /\ type'[owner] \in {"class", "instance"})
    BY <1>5, <1>8, <2>2 DEF AInv, CallInv
  <2>4. want \in {"code", "lines", "constants"} =>
          /\ type'[owner] = "function" /\ count'[owner] = count[owner]
          /\ constants'[owner] = constants[owner]
    BY <1>1, <1>5, <1>8, <2>2 DEF AInv, CallInv, CountTypes
  <2>5. pc \notin {"free", "done"} => \A o \in roots["compiler"] : type'[o] = "function"
    BY <1>1, <1>5, <2>1, <2>2 DEF AInv, CallInv
  <2> QED BY <1>0, <2>2, <2>3, <2>4, <2>5 DEF AInv, CallInv
<1>10. SizeInv'
  <2>1. heap \subseteq Objects /\ Objects \subseteq Owners
    BY <1>1 DEF PointerTypes, Owners
  <2>2. ASSUME NEW x \in heap', NEW p \in Parts PROVE size'[x][p] = Held(x, p)'
    <3>1. x \in heap /\ x # d /\ x \in Objects /\ x \in Owners
      BY <1>0, <2>1
    <3>2. FreedBytes(x, p)' = FreedBytes(x, p)
      BY <1>5, <3>1, FreedIsDue
    <3>3. Held(x, p)' = Held(x, p)
      BY <1>0, <3>2 DEF Held, Growing
    <3> QED BY <1>4, <3>1, <3>3 DEF AInv, SizeInv
  <2>3. ASSUME NEW x \in Objects \ heap'
        PROVE  count'[x] = 0 /\ constants'[x] = 0 /\ \A p \in Parts : size'[x][p] = 0
    BY <1>0, <1>1, <1>4, <1>5, <2>1 DEF AInv, SizeInv
  <2>4. \A y \in Tables : \A p \in Parts :
          size'[y][p] = IF p = "array" THEN Sizeof["Entry"] * count'[y] ELSE 0
    BY <1>1, <1>4, <1>5 DEF AInv, SizeInv
  <2> QED BY <2>2, <2>3, <2>4 DEF SizeInv
<1>11. BytesExact'
  <2>1. Asked' = Asked
    <3>1. want \in {"code", "lines"} => count'[owner] = count[owner]
      BY <1>1, <1>5, <1>8 DEF CountTypes
    <3>2. want = "constants" => constants'[owner] = constants[owner]
      BY <1>1, <1>5, <1>8, PointersTyped DEF AInv, CallInv
    <3> QED BY <1>0, <3>1, <3>2 DEF Asked, ObjType
  <2>2. /\ size[d]["struct"] = FreedBytes(d, "struct") /\ size[d]["array"] = FreedBytes(d, "array")
        /\ size[d]["lines"] = FreedBytes(d, "lines")
        /\ size[d]["constants"] = FreedBytes(d, "constants")
        /\ size[d]["struct"] \in Nat /\ size[d]["array"] \in Nat
        /\ size[d]["lines"] \in Nat /\ size[d]["constants"] \in Nat
    BY <1>2 DEF Parts
  <2> QED BY <1>0, <1>1, <1>6, <2>1, <2>2 DEF BytesExact
<1> QED BY <1>6, <1>7, <1>9, <1>10, <1>11 DEF AInv

\* The survivors of a sweep include the object the call in progress works on.
LEMMA FreeAInv ==
  ASSUME IInv, AInv, SweepFree \/ FreeObjectsStep
  PROVE  AInv'
<1>1. PICK d : d = object
  OBVIOUS
<1>2. CASE SweepFree
  <2>1. /\ pc = "sweep" /\ pc' = pc /\ d \in Objects /\ d \notin marked /\ FreeObject(d)
        /\ UNCHANGED <<request, nextGC, local, roots>>
    BY <1>1, <1>2 DEF SweepFree
  <2>2. d \in heap /\ d \notin AllRoots
    BY <1>1, <2>1, CollectorAssumption
    DEF IInv, SweepInv, MarkInv, RootedIn, Survivors
  <2> QED BY <2>1, <2>2, FreeObjectAInv
<1>3. CASE FreeObjectsStep
  <2>1. /\ pc = "free" /\ pc' = pc /\ d # Null /\ FreeObject(d)
        /\ UNCHANGED <<request, nextGC, local, roots>>
    BY <1>1, <1>3 DEF FreeObjectsStep
  <2>2. d \in heap /\ want = "none"
    BY <1>1, <2>1 DEF IInv, ListInv, List, StringInv
  <2> QED BY <2>1, <2>2, FreeObjectAInv
<1> QED BY <1>2, <1>3

\* freeVM frees the array of vm.strings.
LEMMA FreeVMAInv ==
  ASSUME IInv, AInv, FreeVM
  PROVE  AInv'
<1> DEFINE E == Sizeof["Entry"] * count["strings"]
<1>0. /\ pc = "run" /\ pc' = "free" /\ local = "none"
      /\ bytes' = bytes - E
      /\ size' = [size EXCEPT !["strings"]["array"] = 0]
      /\ count' = [count EXCEPT !["strings"] = 0]
      /\ UNCHANGED <<want, owner, arg, nextGC, type, constants, local, heap>>
  BY DEF FreeVM, Idle, request, list
<1>1. /\ CountTypes /\ IsFiniteSet(Memory) /\ Cardinality(Memory) \in Nat
      /\ want = "none" /\ bytes = Cardinality(Memory)
      /\ "strings" \in Owners /\ "strings" # "local" /\ "strings" \notin Objects
      /\ "array" \in Parts /\ "local" \in Owners /\ count["strings"] \in Nat
  BY <1>0, NoCall, OwnersApart DEF AInv, Parts, CountTypes
<1>2. /\ size' \in Sizes /\ size'["strings"]["array"] = 0
      /\ \A y \in Owners, q \in Parts : y # "strings" \/ q # "array" => size'[y][q] = size[y][q]
      /\ IsFiniteSet(Memory')
      /\ Cardinality(Memory') = Cardinality(Memory) - size["strings"]["array"] + 0
  BY <1>0, <1>1, MemoryStep
<1>3. /\ count' \in [Owners -> Nat] /\ count'["strings"] = 0
      /\ \A y \in Owners \ {"strings"} : count'[y] = count[y]
  BY <1>0, <1>1 DEF CountTypes
<1>4. size["strings"]["array"] = E /\ E \in Nat
  BY <1>1, SizeofTypes, Products DEF AInv, SizeInv, Tables
<1> HIDE DEF E
<1>5. CountTypes' /\ LocalInv'
  BY <1>0, <1>1, <1>2, <1>3 DEF AInv, CountTypes, LocalInv
<1>6. CallInv'
  BY <1>0, <1>1 DEF CallInv, ObjType
<1>7. SizeInv'
  <2>1. \A y \in Objects \ {"strings"} : \A p \in Parts : ~Growing(y, p) /\ ~Growing(y, p)'
    BY <1>0, <1>1 DEF Growing
  <2>2. Sizeof["Entry"] * 0 = 0
    BY SizeofTypes, Products
  <2>3. \A p \in Parts :
          size'["strings"][p] = IF p = "array" THEN Sizeof["Entry"] * count'["strings"] ELSE 0
    BY <1>1, <1>2, <1>3, <2>2 DEF AInv, SizeInv, Tables
  <2>4. \A y \in Owners \ {"strings"} : /\ count'[y] = count[y]
                                        /\ \A q \in Parts : size'[y][q] = size[y][q]
    BY <1>2, <1>3
  <2> QED BY <1>0, <1>1, <2>1, <2>3, <2>4, SizeStep
<1>8. BytesExact'
  <2>1. Asked' = 0
    BY <1>0, <1>1 DEF Asked, ObjType
  <2> QED BY <1>0, <1>1, <1>2, <1>4, <2>1 DEF BytesExact
<1> QED BY <1>2, <1>5, <1>6, <1>7, <1>8 DEF AInv

\* Nothing is allocated at first.
LEMMA InitAInv == Init => AInv
<1> SUFFICES ASSUME Init PROVE AInv
  OBVIOUS
<1>1. CountTypes
  BY CollectorAssumption, OwnersApart DEF Init, CountTypes, NoBlocks, Sizes
<1>2. \A x \in Owners : \A p \in Parts : size[x][p] = 0
  BY DEF Init, NoBlocks
<1>3. LocalInv
  BY <1>2, OwnersApart DEF Init, LocalInv, Parts
<1>4. CallInv
  BY DEF Init, CallInv, ObjType, RootKinds
<1>5. SizeInv
  <2>1. Sizeof["Entry"] * 0 = 0
    BY SizeofTypes, Products
  <2> QED BY <1>2, <2>1 DEF Init, SizeInv, Owners
<1>6. Memory = {}
  <2>1. \A x \in Owners : \A p \in Parts : 1..size[x][p] = {}
    BY <1>2
  <2> QED BY <2>1 DEF Memory
<1>7. Asked = 0
  BY DEF Init, Asked, ObjType
<1> QED BY <1>1, <1>3, <1>4, <1>5, <1>6, <1>7, FS_EmptySet DEF AInv, BytesExact, Init

\* Every step keeps the account.
LEMMA NextAInv == IInv /\ AInv /\ [Next]_vars => AInv'
<1> SUFFICES ASSUME IInv, AInv, [Next]_vars PROVE AInv'
  OBVIOUS
<1>0. /\ bytes \in Nat /\ nextGC \in Nat
      /\ pc = "run" => want = "none"
      /\ pc \notin {"free", "done"} => \A o \in roots["compiler"] : type[o] = "function"
  BY BytesNat DEF IInv, AInv, CountTypes, StringInv, CallInv
<1>1. CASE \/ \E o, p \in Objects : \E f \in Fields(type[o]) : Store(o, f, p)
           \/ \E u, p \in Objects : Assign(u, p)
           \/ \E u \in Objects, p \in Objects \cup {Null} : CloseUpvalue(u, p)
           \/ \E k \in Kinds, p \in Objects : Root(k, p)
           \/ \E k \in RootKinds, p \in Objects : Drop(k, p)
           \/ ResetStack
  <2>1. pc = "run" /\ UNCHANGED <<request, blocks, bytes, type, heap, nextGC>>
    BY <1>1 DEF Store, Assign, CloseUpvalue, Root, Drop, ResetStack, Idle, list
  <2>2. roots \in [RootKinds -> SUBSET Objects] /\ "compiler" \in RootKinds
    BY DEF IInv, PointerTypes, RootKinds
  <2>3. \A o \in roots'["compiler"] : type[o] = "function"
    <3>1. CASE \E k \in Kinds, p \in Objects : Root(k, p)
      <4>1. PICK k \in Kinds, p \in Objects :
              type[p] \in Holds(k) /\ roots' = [roots EXCEPT ![k] = @ \cup {p}]
        BY <3>1 DEF Root
      <4>2. k = "compiler" => type[p] = "function"
        BY <4>1 DEF Holds
      <4> QED BY <1>0, <2>1, <2>2, <4>1, <4>2
    <3>2. CASE ~\E k \in Kinds, p \in Objects : Root(k, p)
      <4>1. roots'["compiler"] \subseteq roots["compiler"]
        BY <1>1, <2>2, <3>2 DEF Store, Assign, CloseUpvalue, Drop, ResetStack
      <4> QED BY <1>0, <2>1, <4>1
    <3> QED BY <3>1, <3>2
  <2> QED BY <1>0, <2>1, <2>3, PointerStep
<1>2. CASE \/ MarkRoots \/ (\E o \in Objects : Blacken(o)) \/ RemoveWhite \/ SweepKeep
           \/ SweepEnd \/ OutOfMemory \/ FreeObjectsEnd \/ Intern
  <2>1. /\ UNCHANGED <<request, blocks, bytes, type, heap, roots>>
        /\ pc' \notin {"free", "done"} => pc \notin {"free", "done"}
        /\ nextGC' \in {nextGC, 2 * bytes}
    BY <1>2 DEF MarkRoots, Blacken, RemoveWhite, SweepKeep, SweepEnd, OutOfMemory,
       FreeObjectsEnd, Intern, mutator, list
  <2>2. nextGC' \in Nat
    BY <1>0, <2>1
  <2>3. pc' \notin {"free", "done"} => \A o \in roots'["compiler"] : type[o] = "function"
    BY <1>0, <2>1
  <2> QED BY <2>1, <2>2, <2>3, PointerStep
<1>3. CASE UNCHANGED vars
  <2>1. UNCHANGED <<pc, request, blocks, bytes, type, heap, roots, nextGC>>
    BY <1>3 DEF vars, mutator, list
  <2> QED BY <1>0, <2>1, PointerStep
<1>4. CASE Program
  BY <1>1, <1>4, AllocateAInv, GrowCodeAInv, GrowConstantsAInv, FreeVMAInv DEF Program
<1>5. CASE Internal
  BY <1>2, <1>5, LocalAInv, LinkAInv, LinkGrownAInv, FreeAInv DEF Internal
<1> QED BY <1>3, <1>4, <1>5 DEF Next

\* When freeVM has begun there is no C local with an array, nor vm.strings.
FreedInv ==
  pc \in {"free", "done"} /\ want = "none" => local = "none" /\ count["strings"] = 0

\* freeVM is not left.
LEMMA NextFreedInv == IInv /\ AInv /\ FreedInv /\ [Next]_vars => FreedInv'
<1> SUFFICES ASSUME IInv, AInv, FreedInv, [Next]_vars, pc' \in {"free", "done"}, want' = "none"
             PROVE  local' = "none" /\ count'["strings"] = 0
  BY DEF FreedInv
<1>0. "strings" \in Owners /\ "strings" \notin Objects /\ count \in [Owners -> Nat]
  BY OwnersApart DEF AInv, CountTypes
<1>1. CASE UNCHANGED vars
  BY <1>1 DEF vars, request, blocks, FreedInv
<1>2. CASE FreeVM
  BY <1>0, <1>2 DEF FreeVM, Idle
<1>3. CASE FreeObjectsStep
  <2>1. /\ pc = "free" /\ UNCHANGED <<want, local>> /\ object \in Objects
        /\ count' = [count EXCEPT ![object] = 0]
    BY <1>3 DEF FreeObjectsStep, FreeObject, request, IInv, PointerTypes
  <2> QED BY <1>0, <2>1 DEF FreedInv
<1>4. CASE FreeObjectsEnd
  BY <1>4 DEF FreeObjectsEnd, request, blocks, FreedInv
<1>5. CASE OutOfMemory
  BY <1>5 DEF OutOfMemory, request, IInv, StringInv
<1>6. CASE Program /\ ~FreeVM
  BY <1>6 DEF Program, Store, Assign, Root, Drop, CloseUpvalue, ResetStack, AllocateLocal,
     Allocate, GrowTable, GrowCode, GrowConstants, Reallocate, Idle
<1>7. CASE Internal /\ ~FreeObjectsStep /\ ~FreeObjectsEnd /\ ~OutOfMemory
  BY <1>7 DEF Internal, LinkLocal, FreeChars, Link, LinkTable, LinkCode, LinkLines,
     LinkConstants, Intern, MarkRoots, Blacken, RemoveWhite, SweepKeep, SweepFree, SweepEnd,
     Return, Reallocate
<1> QED BY <1>1, <1>2, <1>3, <1>4, <1>5, <1>6, <1>7 DEF Next

-----------------------------------------------------------------------------
(* The properties follow *)

\* The inductive invariants hold of every state of the collector.
LEMMA CollectorInvariant == Spec => []IInv
BY InitIInv, NextIInv, PTL DEF Spec

\* So does the account, beside them.
LEMMA AccountInvariant == Spec => [](IInv /\ AInv /\ FreedInv)
<1>1. Init => FreedInv
  BY DEF Init, FreedInv
<1> QED BY <1>1, InitIInv, NextIInv, InitAInv, NextAInv, NextFreedInv, PTL DEF Spec

\* Every variable keeps its type; bytesAllocated never wraps below zero.
THEOREM CollectorTypeCorrect == Spec => []TypeOK
<1>1. IInv /\ AInv => TypeOK
  <2>1. SUFFICES ASSUME IInv, AInv PROVE TypeOK
    OBVIOUS
  <2>2. PointerTypes /\ bytes \in Nat
    BY <2>1, BytesNat DEF IInv
  <2>3. BlockTypes
    BY <2>1, <2>2 DEF AInv, CountTypes, Sizes, BlockTypes
  <2> QED BY <2>2, <2>3 DEF TypeOK
<1> QED BY <1>1, AccountInvariant, PTL

\* No collection, at whatever allocation it strikes, frees an object the program
\* can still reach, and the intern table never keeps a freed string.
THEOREM CollectorNoDangling == Spec => []NoDangling
<1>1. IInv => NoDangling
  <2>1. SUFFICES ASSUME IInv, pc \notin {"free", "done"}
                 PROVE  Reachable \subseteq heap /\ strings \subseteq heap
    BY DEF NoDangling
  <2>2. PointerTypes /\ heap \subseteq Objects
    BY <2>1 DEF IInv, PointerTypes
  <2>3. CASE pc = "sweep"
    <3>1. Survivors \subseteq heap /\ RootedIn(Survivors) /\ strings \subseteq Survivors
      BY <2>1, <2>3 DEF IInv, MarkInv, StringInv
    <3>2. Reachable \subseteq Survivors
      BY <2>2, <3>1, ReachableLeast DEF RootedIn
    <3> QED BY <3>1, <3>2
  <2>4. CASE pc # "sweep"
    <3>1. RootedIn(heap)
      BY <2>1, <2>4 DEF IInv, HeapInv
    <3>2. strings \subseteq heap
      BY <2>1, <2>2, <2>4 DEF IInv, StringInv, PointerTypes
    <3> QED BY <2>2, <3>1, <3>2, ReachableLeast DEF RootedIn
  <2> QED BY <2>3, <2>4
<1> QED BY <1>1, CollectorInvariant, PTL

\* Between two collections nothing is marked.
THEOREM CollectorMarksClear == Spec => []MarksClear
<1>1. IInv => MarksClear
  BY DEF IInv, MarkInv, MarksClear
<1> QED BY <1>1, CollectorInvariant, PTL

\* Every string is interned but the one allocateString is about to intern.
THEOREM CollectorStringsExact == Spec => []StringsExact
<1>1. IInv => StringsExact
  BY DEF IInv, StringInv, StringsExact
<1> QED BY <1>1, CollectorInvariant, PTL

\* bytesAllocated is the number of bytes allocated, at every moment: no block is
\* freed or grown with another size than the one it has.
THEOREM CollectorBytesExact == Spec => []BytesExact
<1>1. IInv /\ AInv => BytesExact
  BY DEF AInv
<1> QED BY <1>1, AccountInvariant, PTL

\* freeVM leaves no object and no block behind but the array of vm.globals.
THEOREM CollectorAllFreed == Spec => []AllFreed
<1>1. IInv /\ AInv /\ FreedInv => AllFreed
  <2>1. SUFFICES ASSUME IInv, AInv, FreedInv, pc = "done", want = "none"
                 PROVE  heap = {} /\ \A x \in Owners : size[x] # NoBlocks => x = "globals"
    BY DEF AllFreed
  <2>2. heap = {}
    BY <2>1 DEF IInv, ListInv
  <2>3. ASSUME NEW x \in Owners, x # "globals" PROVE size[x] = NoBlocks
    <3>1. size[x] \in [Parts -> Nat]
      BY <2>1 DEF AInv, CountTypes, Sizes
    <3>2. x \in Objects => \A p \in Parts : size[x][p] = 0
      BY <2>1, <2>2 DEF AInv, SizeInv
    <3>3. x = "local" => \A p \in Parts : size[x][p] = 0
      BY <2>1 DEF AInv, LocalInv, FreedInv
    <3>4. x = "strings" => \A p \in Parts : size[x][p] = 0
      <4>1. Sizeof["Entry"] * 0 = 0
        BY SizeofTypes, Products
      <4> QED BY <2>1, <4>1 DEF AInv, SizeInv, FreedInv, Tables
    <3>5. \A p \in Parts : size[x][p] = 0
      BY <2>3, <3>2, <3>3, <3>4 DEF Owners, Tables
    <3> QED BY <3>1, <3>5 DEF NoBlocks
  <2> QED BY <2>2, <2>3
<1> QED BY <1>1, AccountInvariant, PTL

\* vm.objects is a chain of all the objects of the heap, with an end: no two
\* objects share a successor and none leads to the head, so by counting one of
\* them has no successor.
THEOREM CollectorListExact == Spec => []ListExact
<1>1. IInv => ListExact
  <2>1. SUFFICES ASSUME IInv, pc \in {"run", "link", "roots", "trace"}
                 PROVE  Chain = heap /\ (heap # {} => \E o \in heap : next[o] = Null)
    BY DEF ListExact
  <2>2. /\ List(head) /\ Null \notin heap /\ heap \subseteq Objects
        /\ IsFiniteSet(heap) /\ Cardinality(heap) \in Nat
    BY <2>1, CollectorAssumption, HeapFinite DEF IInv, ListInv, PointerTypes
  <2>3. Chain \subseteq heap
    BY <2>2 DEF Chain, List
  <2>4. ASSUME NEW S \in SUBSET Objects, head \in S \cup {Null},
               \A x \in S : next[x] \in S \cup {Null}
        PROVE  heap \subseteq S
    <3>1. heap \ S \in SUBSET heap
      OBVIOUS
    <3>2. ASSUME heap \ S # {} PROVE FALSE
      <4>1. PICK o \in heap \ S : o = head \/ \E p \in heap \ (heap \ S) : next[p] = o
        BY <2>2, <3>1, <3>2 DEF List
      <4> QED BY <2>2, <2>4, <4>1
    <3> QED BY <3>2
  <2>5. heap \subseteq Chain
    BY <2>2, <2>4 DEF Chain
  <2>6. ASSUME heap # {}, \A o \in heap : next[o] # Null PROVE FALSE
    <3> DEFINE f == [o \in heap |-> next[o]]
    <3>1. heap \in SUBSET heap
      OBVIOUS
    <3>2. head \in heap
      BY <2>2, <2>6, <3>1 DEF List
    <3>3. f \in [heap -> heap \ {head}] /\ \A x, y \in heap : f[x] = f[y] => x = y
      BY <2>2, <2>6 DEF List
    <3>4. f \in Injection(heap, heap \ {head})
      BY <3>3 DEF Injection, IsInjective
    <3>5. Cardinality(heap \ {head}) = Cardinality(heap) - 1 /\ IsFiniteSet(heap \ {head})
      BY <2>2, <3>2, FS_RemoveElement
    <3>6. Cardinality(heap) <= Cardinality(heap \ {head})
      BY <3>4, <3>5, FS_Injection
    <3> QED BY <2>2, <3>5, <3>6
  <2> QED BY <2>3, <2>5, <2>6
<1> QED BY <1>1, CollectorInvariant, PTL

\* A collection ends with a heap of exactly the reachable objects.
THEOREM CollectorIsExact == Spec => CollectionIsExact
<1>1. IInv /\ [Next]_vars => [pc = "sweep" /\ pc' = "link" => heap = Reachable]_vars
  <2>1. SUFFICES ASSUME IInv, [Next]_vars, pc = "sweep", pc' = "link"
                 PROVE  object = Null
    BY SweepExact
  <2>2. Next
    BY <2>1 DEF vars
  <2>3. ~Program
    BY <2>1 DEF Program, Store, Assign, Root, Drop, CloseUpvalue, ResetStack, AllocateLocal,
       Allocate, GrowTable, GrowCode, GrowConstants, FreeVM, Idle
  <2>4. Internal
    BY <2>2, <2>3 DEF Next
  <2>5. SweepEnd
    BY <2>1, <2>4 DEF Internal, LinkLocal, FreeChars, Link, OutOfMemory, LinkTable, LinkCode,
       LinkLines, LinkConstants, Intern, MarkRoots, Blacken, RemoveWhite, SweepKeep,
       SweepFree, FreeObjectsStep, FreeObjectsEnd
  <2> QED BY <2>5 DEF SweepEnd
<1> QED BY <1>1, CollectorInvariant, PTL DEF Spec, CollectionIsExact
=============================================================================
