----------------------------- MODULE Collector ------------------------------
(***************************************************************************)
(* The garbage collector of clox (memory.c): mark, trace, drop the         *)
(* unmarked strings of the intern table, sweep the list vm.objects; and    *)
(* the account of the bytes allocated that starts it.                      *)
(*                                                                         *)
(* The program that runs between two collections is the most general one:  *)
(* it allocates, stores pointers into objects it can name, moves them      *)
(* between roots and drops them.  An object is the set of its pointer      *)
(* fields and the blocks it owns; numbers, characters and code are left    *)
(* out.  Collections start only inside reallocate, and the program stands  *)
(* still while they run.                                                   *)
(***************************************************************************)
EXTENDS Integers, FiniteSets

CONSTANTS
  Objects,    \* the addresses malloc can return
  Null,       \* the C NULL
  Types,      \* the object types in use, a subset of ObjType
  Kinds,      \* the kinds of roots the program uses, a subset of RootKinds
  Stress,     \* DEBUG_STRESS_GC: collect at every allocation
  FirstGC,    \* the initial vm.nextGC
  Sizeof,     \* the sizes of the C types
  MinArray,   \* the first capacity of an array that grows, 8 in the code
  MaxBytes,   \* a bound on the bytes the program asks for
  Lengths     \* the lengths of strings and the numbers of upvalues in use

ObjType == {"bound", "native", "instance", "class",
            "function", "closure", "string", "upvalue"}

RootKinds == {"stack", "frames", "open", "globals", "compiler", "init"}

\* What arrays are made of.
ElementTypes == {"char", "ObjUpvalue*", "Entry", "uint8_t", "int", "Value"}

\* The arrays that belong to no object: those of vm.strings and vm.globals, and
\* the one a C local points to.
Tables == {"strings", "globals"}
Owners == Objects \cup Tables \cup {"local"}

ASSUME CollectorAssumption ==
  /\ IsFiniteSet(Objects) /\ Null \notin Objects
  /\ Objects \cap {"strings", "globals", "local"} = {}
  /\ Types \subseteq ObjType /\ Kinds \subseteq RootKinds
  /\ Stress \in BOOLEAN
  /\ FirstGC \in Nat
  /\ Sizeof \in [ObjType \cup ElementTypes -> Nat \ {0}]
  /\ MinArray \in Nat \ {0} /\ MaxBytes \in Nat /\ Lengths \subseteq Nat

VARIABLES
  pc,        \* "run" the program; the phases of collectGarbage; "link" the
             \* end of reallocate; "free" and "done" of freeVM
  want,      \* what the call of reallocate in progress is for, or "none"
  owner,     \* whose array it grows
  arg,       \* the count the caller holds: the new capacity of a table, the
             \* old one of a chunk or value array, the length of a local array
  heap,      \* the objects that have been allocated and not freed
  type,      \* obj->type
  ref,       \* ref[o][f]: the objects that field f of o points to
  location,  \* whether upvalue->location is in the stack or is &upvalue->closed
  roots,     \* what the VM and the compiler point to, by kind of root
  strings,   \* the keys of vm.strings
  fresh,     \* the string allocateString has pushed but not interned yet
  count,     \* string->length, closure->upvalueCount, table.capacity or
             \* chunk.capacity; for "local" the length the C local has
  constants, \* chunk.constants.capacity
  local,     \* what the array of the C local is: "chars", "upvalues", "none"
  size,      \* history: size[x][p], the bytes of block p of x as malloc knows
             \* them, 0 if there is none
  marked,    \* obj->isMarked
  gray,      \* vm.grayStack
  head,      \* vm.objects
  next,      \* obj->next
  previous,  \* the two cursors of sweep
  object,
  bytes,     \* vm.bytesAllocated
  nextGC,    \* vm.nextGC
  swept      \* history: the objects this sweep has kept

request   == <<want, owner, arg>>
mutator   == <<type, ref, location, roots, fresh>>
blocks    == <<count, constants, local, size>>
collector == <<marked, gray, previous, object, swept>>
list      == <<heap, head, next>>
vars == <<pc, strings, bytes, nextGC, request, mutator, blocks, collector, list>>

-----------------------------------------------------------------------------
(* Objects and what they point to (object.h) *)

\* The pointer fields of each struct, but for an upvalue's location.
Fields(t) ==
  CASE t = "bound"    -> {"receiver", "method"}
    [] t = "instance" -> {"klass", "fields"}
    [] t = "class"    -> {"name", "methods"}
    [] t = "closure"  -> {"function", "upvalues"}
    [] t = "function" -> {"name", "constants"}
    [] t = "upvalue"  -> {"closed"}
    [] OTHER          -> {}

AllFields == UNION {Fields(t) : t \in ObjType}

\* Tables and arrays hold any number of pointers, the other fields one.
IsTable(f) == f \in {"fields", "methods", "upvalues", "constants"}

\* The types a Value can have; a function is a Value only as a constant or
\* while the compiler and interpret have it on the stack.
ValueTypes == ObjType \ {"upvalue"}

\* The types of the objects a field or a root points to.
Holds(f) ==
  CASE f \in {"method", "frames"}       -> {"closure"}
    [] f = "klass"                      -> {"class"}
    [] f \in {"name", "init"}           -> {"string"}
    [] f \in {"function", "compiler"}   -> {"function"}
    [] f \in {"upvalues", "open"}       -> {"upvalue"}
    [] OTHER                            -> ValueTypes

\* Where a new object is first pointed to from: captureUpvalue links an upvalue
\* into the open list, initCompiler keeps its function, the others are pushed.
FirstRoot(t) ==
  CASE t = "upvalue"  -> "open"
    [] t = "function" -> "compiler"
    [] OTHER          -> "stack"

NoRefs == [f \in AllFields |-> {}]

AllRoots == UNION {roots[k] : k \in RootKinds}
Targets(o, F) == UNION {ref[o][f] : f \in F}

\* What the location of an upvalue leads to, besides its own closed: for an open
\* upvalue a slot of the stack in use.  An upvalue that resetStack has taken off
\* the open list leads to a slot nobody keeps: what the program reads there is
\* not in this model.
Slot(o) == IF o \in roots["open"] THEN roots["stack"] ELSE {}

\* What the program gets to from o.
Leads(o) == Targets(o, Fields(type[o])) \cup Slot(o)

\* What the program can name: its roots and what they lead to.
Named == AllRoots \cup UNION {Leads(o) : o \in AllRoots}

-----------------------------------------------------------------------------
(* The blocks an object owns *)

Parts == {"struct", "array", "lines", "constants"}
NoBlocks == [p \in Parts |-> 0]

\* The blocks freeObject releases.
Blocks(t) ==
  CASE t \in {"string", "closure", "class", "instance"} -> {"struct", "array"}
    [] t = "function"                                   -> Parts
    [] OTHER                                            -> {"struct"}

\* What a block is an array of.
Element(t, p) ==
  CASE p = "struct"                       -> t
    [] p = "lines"                        -> "int"
    [] p = "constants"                    -> "Value"
    [] p = "array" /\ t = "string"        -> "char"
    [] p = "array" /\ t = "closure"       -> "ObjUpvalue*"
    [] p = "array" /\ t = "function"      -> "uint8_t"
    [] OTHER                              -> "Entry"

\* Mutated form: the zero at the end of a string is forgotten.
NumberNoZero(o, p) ==
  CASE p = "struct"    -> 1
    [] p = "constants" -> constants[o]
    [] OTHER           -> count[o]

\* How many elements freeObject says a block has.
Number(o, p) ==
  CASE p = "struct"                          -> 1
    [] p = "constants"                       -> constants[o]
    [] p = "array" /\ type[o] = "string"     -> count[o] + 1
    [] OTHER                                 -> count[o]

FreedBytes(o, p) ==
  IF p \in Blocks(type[o]) THEN Sizeof[Element(type[o], p)] * Number(o, p) ELSE 0

\* The array that is made before the object that will own it.
LocalBytes(l, n) ==
  IF l = "chars" THEN Sizeof["char"] * (n + 1) ELSE Sizeof["ObjUpvalue*"] * n
LocalOf(t) ==
  CASE t = "string"  -> "chars"
    [] t = "closure" -> "upvalues"
    [] OTHER         -> "none"

GROW_CAPACITY(n) == IF n < MinArray THEN MinArray ELSE 2 * n

\* How many pointers a table has room for: two in each entry.
Room(o, f) ==
  CASE f \in {"fields", "methods"} -> 2 * count[o]
    [] f = "upvalues"              -> count[o]
    [] f = "constants"             -> constants[o]
    [] OTHER                       -> 1

-----------------------------------------------------------------------------
Init ==
  /\ pc = "run" /\ want = "none" /\ owner = "local" /\ arg = 0
  /\ heap = {} /\ strings = {} /\ fresh = Null
  /\ type = [o \in Objects |-> "string"]
  /\ ref = [o \in Objects |-> NoRefs]
  /\ location = [o \in Objects |-> "stack"]
  /\ roots = [k \in RootKinds |-> {}]
  /\ count = [x \in Owners |-> 0] /\ constants = [o \in Objects |-> 0]
  /\ local = "none" /\ size = [x \in Owners |-> NoBlocks]
  /\ marked = {} /\ gray = {}
  /\ head = Null /\ next = [o \in Objects |-> Null]
  /\ previous = Null /\ object = Null
  /\ bytes = 0 /\ nextGC = FirstGC
  /\ swept = {}

-----------------------------------------------------------------------------
(* The program between two collections *)

\* The program is not inside copyString, takeString or newClosure.
Idle == pc = "run" /\ fresh = Null /\ local = "none"

\* A pointer is stored into a field, replacing the old one unless it is a table.
Store(o, f, p) ==
  /\ Idle
  /\ o \in AllRoots /\ p \in Named
  /\ f \in Fields(type[o]) \ {"closed"} /\ type[p] \in Holds(f)
  /\ IsTable(f) => Cardinality(ref[o][f] \cup {p}) <= Room(o, f)
  /\ ref' = [ref EXCEPT ![o][f] = IF IsTable(f) THEN @ \cup {p} ELSE {p}]
  /\ UNCHANGED <<pc, strings, bytes, nextGC, request, type, location, roots, fresh,
                 blocks, collector, list>>

\* OP_SET_UPVALUE of a closed upvalue; that of an open one writes to the stack.
Assign(u, p) ==
  /\ Idle
  /\ u \in Named /\ type[u] = "upvalue" /\ location[u] = "closed"
  /\ p \in roots["stack"]
  /\ ref' = [ref EXCEPT ![u]["closed"] = {p}]
  /\ UNCHANGED <<pc, strings, bytes, nextGC, request, type, location, roots, fresh,
                 blocks, collector, list>>

\* A pointer is copied to a root: a push, a call, a global.
Root(k, p) ==
  /\ Idle
  /\ p \in Named \ roots[k] /\ type[p] \in Holds(k)
  /\ k # "open"
  /\ k = "globals" => Cardinality(roots[k] \cup {p}) <= 2 * count["globals"]
  /\ roots' = [roots EXCEPT ![k] = @ \cup {p}]
  /\ UNCHANGED <<pc, strings, bytes, nextGC, request, type, ref, location, fresh,
                 blocks, collector, list>>

\* A root is dropped: a pop, a return, endCompiler.
Drop(k, p) ==
  /\ Idle
  /\ p \in roots[k] /\ k # "open"
  /\ roots' = [roots EXCEPT ![k] = @ \ {p}]
  /\ UNCHANGED <<pc, strings, bytes, nextGC, request, type, ref, location, fresh,
                 blocks, collector, list>>

\* closeUpvalues: the value of the slot is copied into the upvalue, which leaves
\* the open list; p is Null for a value that is no object.
CloseUpvalue(u, p) ==
  /\ Idle
  /\ u \in roots["open"] /\ p \in roots["stack"] \cup {Null}
  /\ ref' = [ref EXCEPT ![u]["closed"] = {p} \ {Null}]
  /\ location' = [location EXCEPT ![u] = "closed"]
  /\ roots' = [roots EXCEPT !["open"] = @ \ {u}]
  /\ UNCHANGED <<pc, strings, bytes, nextGC, request, type, fresh, blocks, collector, list>>

\* runtimeError resets the stack: the frames go, and the open upvalues are
\* forgotten without being closed.  The next line of the REPL goes on from here.
ResetStack ==
  /\ Idle /\ roots["compiler"] = {}
  /\ roots' = [roots EXCEPT !["stack"] = {}, !["frames"] = {}, !["open"] = {}]
  /\ UNCHANGED <<pc, strings, bytes, nextGC, request, type, ref, location, fresh,
                 blocks, collector, list>>

-----------------------------------------------------------------------------
(* reallocate: the account is updated first, and the collector runs before   *)
(* the block exists                                                          *)

Reallocate(oldSize, newSize) ==
  /\ bytes' = bytes + newSize - oldSize
  /\ bytes' <= MaxBytes
  /\ pc' = IF newSize > oldSize /\ (Stress \/ bytes' > nextGC) THEN "roots" ELSE "link"

\* What the caller goes on with when the block is there.
Request(w, x, n) == want' = w /\ owner' = x /\ arg' = n
Return == pc' = "run" /\ Request("none", "local", 0)

\* ALLOCATE in copyString and concatenate (characters) and in newClosure.
AllocateLocal(l, n) ==
  /\ Idle /\ \E t \in Types : LocalOf(t) = l
  /\ Request(l, "local", n)
  /\ Reallocate(0, LocalBytes(l, n))
  /\ UNCHANGED <<strings, nextGC, mutator, blocks, collector, list>>

LinkLocal ==
  /\ pc = "link" /\ want \in {"chars", "upvalues"}
  /\ size' = [size EXCEPT !["local"]["array"] = LocalBytes(want, arg)]
  /\ count' = [count EXCEPT !["local"] = arg]
  /\ local' = want
  /\ Return
  /\ UNCHANGED <<strings, bytes, nextGC, constants, mutator, collector, list>>

\* takeString: the string exists, the characters are not needed.
FreeChars ==
  /\ pc = "run" /\ local = "chars" /\ strings # {}
  /\ bytes' = bytes - LocalBytes("chars", count["local"])
  /\ size' = [size EXCEPT !["local"]["array"] = 0]
  /\ count' = [count EXCEPT !["local"] = 0]
  /\ local' = "none"
  /\ UNCHANGED <<pc, strings, nextGC, request, mutator, constants, collector, list>>

\* ALLOCATE_OBJ; there are only so many addresses.
Allocate(t) ==
  /\ pc = "run" /\ fresh = Null /\ local = LocalOf(t)
  /\ heap # Objects
  /\ Request(t, "local", 0)
  /\ Reallocate(0, Sizeof[t])
  /\ UNCHANGED <<strings, nextGC, mutator, blocks, collector, list>>

\* allocateObject: unmarked, at the head of vm.objects; the array that was made
\* for it is now its own.
Link(o) ==
  /\ pc = "link" /\ want \in ObjType
  /\ o \notin heap
  /\ heap' = heap \cup {o}
  /\ type' = [type EXCEPT ![o] = want]
  /\ next' = [next EXCEPT ![o] = head]
  /\ head' = o
  /\ roots' = [roots EXCEPT ![FirstRoot(want)] = @ \cup {o}]
  /\ fresh' = IF want = "string" THEN o ELSE Null
  /\ size' = [size EXCEPT ![o]["struct"] = Sizeof[want],
                          ![o]["array"] = size["local"]["array"],
                          !["local"]["array"] = 0]
  /\ count' = [count EXCEPT ![o] = count["local"], !["local"] = 0]
  /\ local' = "none"
  /\ Return
  /\ UNCHANGED <<strings, bytes, nextGC, ref, location, constants, collector>>

\* realloc has failed: exit(1).
OutOfMemory ==
  /\ pc = "link"
  /\ pc' = "done"
  /\ UNCHANGED <<strings, bytes, nextGC, request, mutator, blocks, collector, list>>

\* The tables that a tableSet may find too full: vm.strings while allocateString
\* has its string on the stack, else vm.globals and those of objects in use.
MayGrow ==
  IF fresh # Null THEN {"strings"}
  ELSE {"globals"} \cup {o \in AllRoots : type[o] \in {"class", "instance"}}

\* adjustCapacity: the new array is allocated while the old one is there.
GrowTable(x) ==
  /\ pc = "run" /\ local = "none" /\ x \in MayGrow
  /\ Request("table", x, GROW_CAPACITY(count[x]))
  /\ Reallocate(0, Sizeof["Entry"] * GROW_CAPACITY(count[x]))
  /\ UNCHANGED <<strings, nextGC, mutator, blocks, collector, list>>

\* Mutated form: the table gets its new capacity before the old array is freed.
LinkTableSwapped ==
  /\ pc = "link" /\ want = "table"
  /\ bytes' = bytes - Sizeof["Entry"] * arg
  /\ size' = [size EXCEPT ![owner]["array"] = Sizeof["Entry"] * arg]
  /\ count' = [count EXCEPT ![owner] = arg]
  /\ Return
  /\ UNCHANGED <<strings, nextGC, constants, local, mutator, collector, list>>

\* Its end: the old array is freed by the capacity the table still has.
LinkTable ==
  /\ pc = "link" /\ want = "table"
  /\ bytes' = bytes - Sizeof["Entry"] * count[owner]
  /\ size' = [size EXCEPT ![owner]["array"] = Sizeof["Entry"] * arg]
  /\ count' = [count EXCEPT ![owner] = arg]
  /\ Return
  /\ UNCHANGED <<strings, nextGC, constants, local, mutator, collector, list>>

\* writeChunk: chunk->capacity is the new one already while code grows ...
GrowCode(o) ==
  /\ Idle /\ o \in roots["compiler"]
  /\ count' = [count EXCEPT ![o] = GROW_CAPACITY(count[o])]
  /\ Request("code", o, count[o])
  /\ Reallocate(Sizeof["uint8_t"] * count[o], Sizeof["uint8_t"] * GROW_CAPACITY(count[o]))
  /\ UNCHANGED <<strings, nextGC, constants, local, size, mutator, collector, list>>

\* ... and lines grows next, perhaps with a second collection.
LinkCode ==
  /\ pc = "link" /\ want = "code"
  /\ size' = [size EXCEPT ![owner]["array"] = Sizeof["uint8_t"] * count[owner]]
  /\ Request("lines", owner, arg)
  /\ Reallocate(Sizeof["int"] * arg, Sizeof["int"] * count[owner])
  /\ UNCHANGED <<strings, nextGC, count, constants, local, mutator, collector, list>>

LinkLines ==
  /\ pc = "link" /\ want = "lines"
  /\ size' = [size EXCEPT ![owner]["lines"] = Sizeof["int"] * count[owner]]
  /\ Return
  /\ UNCHANGED <<strings, bytes, nextGC, count, constants, local, mutator, collector, list>>

\* writeValueArray.
GrowConstants(o) ==
  /\ Idle /\ o \in roots["compiler"]
  /\ constants' = [constants EXCEPT ![o] = GROW_CAPACITY(constants[o])]
  /\ Request("constants", o, constants[o])
  /\ Reallocate(Sizeof["Value"] * constants[o], Sizeof["Value"] * GROW_CAPACITY(constants[o]))
  /\ UNCHANGED <<strings, nextGC, count, local, size, mutator, collector, list>>

LinkConstants ==
  /\ pc = "link" /\ want = "constants"
  /\ size' = [size EXCEPT ![owner]["constants"] = Sizeof["Value"] * constants[owner]]
  /\ Return
  /\ UNCHANGED <<strings, bytes, nextGC, count, constants, local, mutator, collector, list>>

\* The tableSet of allocateString; while it grows the table, fresh is on the
\* stack and not yet in the table.
Intern ==
  /\ pc = "run" /\ fresh # Null
  /\ Cardinality(strings) < count["strings"]
  /\ strings' = strings \cup {fresh}
  /\ fresh' = Null
  /\ UNCHANGED <<pc, bytes, nextGC, request, type, ref, location, roots, blocks,
                 collector, list>>

-----------------------------------------------------------------------------
(* collectGarbage *)

\* Mutated form: an object that is marked already is pushed again.
NewGrayAgain(S) == S

\* markObject returns early for a marked object.
NewGray(S) == S \ marked

MarkAll(S) ==
  /\ marked' = marked \cup S
  /\ gray' = gray \cup NewGray(S)

\* Mutated form: the open upvalues are taken to be reached from their closures.
MarkedKindsNoOpen == RootKinds \ {"open"}

\* The loops of markRoots and markCompilerRoots.
MarkedKinds == RootKinds

MarkRoots ==
  /\ pc = "roots"
  /\ MarkAll(UNION {roots[k] : k \in MarkedKinds})
  /\ pc' = "trace"
  /\ UNCHANGED <<strings, bytes, nextGC, request, mutator, blocks, previous, object, swept, list>>

\* Mutated form: a bound method does not mark its method.
TracedNoMethod(t) ==
  CASE t = "bound"    -> {"receiver"}
    [] t = "instance" -> {"klass", "fields"}
    [] t = "class"    -> {"name", "methods"}
    [] t = "closure"  -> {"function"}
    [] t = "function" -> {"name", "constants"}
    [] OTHER          -> {}

\* The fields blackenObject marks.
Traced(t) ==
  CASE t = "bound"    -> {"receiver", "method"}
    [] t = "instance" -> {"klass", "fields"}
    [] t = "class"    -> {"name", "methods"}
    [] t = "closure"  -> {"function", "upvalues"}
    [] t = "function" -> {"name", "constants"}
    [] t = "upvalue"  -> {"closed"}
    [] OTHER          -> {}

\* One turn of traceReferences: pop an object, mark what it points to.
Blacken(o) ==
  /\ pc = "trace" /\ o \in gray
  /\ LET T == Targets(o, Traced(type[o])) IN
       /\ marked' = marked \cup T
       /\ gray' = (gray \ {o}) \cup NewGray(T)
  /\ UNCHANGED <<pc, strings, bytes, nextGC, request, mutator, blocks, previous, object, swept, list>>

\* Mutated form: the strings about to be freed stay in the table.
StringsLeftAll == strings

StringsLeft == strings \cap marked

\* tableRemoveWhite, then the start of sweep.
RemoveWhite ==
  /\ pc = "trace" /\ gray = {}
  /\ strings' = StringsLeft
  /\ previous' = Null /\ object' = head /\ swept' = {}
  /\ pc' = "sweep"
  /\ UNCHANGED <<bytes, nextGC, request, mutator, blocks, marked, gray, list>>

\* Mutated form: the mark survives the collection.
SweepKeepMarked ==
  /\ pc = "sweep" /\ object \in marked
  /\ swept' = swept \cup {object}
  /\ previous' = object /\ object' = next[object]
  /\ UNCHANGED <<pc, strings, bytes, nextGC, request, mutator, blocks, marked, gray, list>>

SweepKeep ==
  /\ pc = "sweep" /\ object \in marked
  /\ marked' = marked \ {object}
  /\ swept' = swept \cup {object}
  /\ previous' = object /\ object' = next[object]
  /\ UNCHANGED <<pc, strings, bytes, nextGC, request, mutator, blocks, gray, list>>

\* freeObject: the blocks the object owns go back by the size that its type and
\* its own counts give them.
FreeObject(o) ==
  /\ heap' = heap \ {o}
  /\ bytes' = bytes - (FreedBytes(o, "struct") + FreedBytes(o, "array")
                       + FreedBytes(o, "lines") + FreedBytes(o, "constants"))
  /\ size' = [size EXCEPT ![o] =
                [p \in Parts |-> IF p \in Blocks(type[o]) THEN 0 ELSE size[o][p]]]
  /\ count' = [count EXCEPT ![o] = 0] /\ constants' = [constants EXCEPT ![o] = 0]
  /\ type' = [type EXCEPT ![o] = "string"]
  /\ ref' = [ref EXCEPT ![o] = NoRefs]
  /\ location' = [location EXCEPT ![o] = "stack"]

\* Mutated form: the head of the list is not moved.
UnlinkInside(o) ==
  /\ IF previous = Null THEN UNCHANGED next
     ELSE next' = [next EXCEPT ![previous] = next[o], ![o] = Null]
  /\ UNCHANGED head

Unlink(o) ==
  IF previous = Null
  THEN /\ head' = next[o]
       /\ next' = [next EXCEPT ![o] = Null]
  ELSE /\ next' = [next EXCEPT ![previous] = next[o], ![o] = Null]
       /\ UNCHANGED head

SweepFree ==
  /\ pc = "sweep" /\ object \in Objects \ marked
  /\ object' = next[object]
  /\ Unlink(object)
  /\ FreeObject(object)
  /\ UNCHANGED <<pc, strings, nextGC, request, roots, fresh, local,
                 marked, gray, previous, swept>>

SweepEnd ==
  /\ pc = "sweep" /\ object = Null
  /\ nextGC' = 2 * bytes
  /\ previous' = Null /\ swept' = {}
  /\ pc' = "link"
  /\ UNCHANGED <<strings, bytes, request, mutator, blocks, marked, gray, object, list>>

-----------------------------------------------------------------------------
(* freeVM *)

\* freeTable(&vm.strings), then the loop over all objects; nothing frees the array
\* of vm.globals.
FreeVM ==
  /\ Idle
  /\ strings' = {}
  /\ bytes' = bytes - Sizeof["Entry"] * count["strings"]
  /\ size' = [size EXCEPT !["strings"]["array"] = 0]
  /\ count' = [count EXCEPT !["strings"] = 0]
  /\ roots' = [roots EXCEPT !["init"] = {}]
  /\ object' = head
  /\ pc' = "free"
  /\ UNCHANGED <<nextGC, request, type, ref, location, fresh, constants, local,
                 marked, gray, previous, swept, list>>

\* Mutated form: the loop stops at the last object instead of behind it.
FreeObjectsEndEarly ==
  /\ pc = "free" /\ (object # Null => next[object] = Null)
  /\ pc' = "done"
  /\ UNCHANGED <<strings, bytes, nextGC, request, mutator, blocks, collector, list>>

\* One turn of freeObjects; next is read before the object is released.
FreeObjectsStep ==
  /\ pc = "free" /\ object # Null
  /\ object' = next[object]
  /\ FreeObject(object)
  /\ UNCHANGED <<pc, strings, nextGC, request, roots, fresh, local,
                 marked, gray, previous, swept, head, next>>

FreeObjectsEnd ==
  /\ pc = "free" /\ object = Null
  /\ pc' = "done"
  /\ UNCHANGED <<strings, bytes, nextGC, request, mutator, blocks, collector, list>>

-----------------------------------------------------------------------------
Program ==
  \/ \E o, p \in Objects : \E f \in Fields(type[o]) : Store(o, f, p)
  \/ \E u, p \in Objects : Assign(u, p)
  \/ \E k \in Kinds, p \in Objects : Root(k, p)
  \/ \E k \in RootKinds, p \in Objects : Drop(k, p)
  \/ \E u \in Objects, p \in Objects \cup {Null} : CloseUpvalue(u, p)
  \/ ResetStack
  \/ \E l \in {"chars", "upvalues"}, n \in Lengths : AllocateLocal(l, n)
  \/ \E t \in Types : Allocate(t)
  \/ \E x \in Owners : GrowTable(x)
  \/ \E o \in Objects : GrowCode(o) \/ GrowConstants(o)
  \/ FreeVM

Internal ==
  \/ LinkLocal \/ FreeChars \/ (\E o \in Objects : Link(o)) \/ OutOfMemory
  \/ LinkTable \/ LinkCode \/ LinkLines \/ LinkConstants \/ Intern
  \/ MarkRoots \/ (\E o \in Objects : Blacken(o)) \/ RemoveWhite
  \/ SweepKeep \/ SweepFree \/ SweepEnd
  \/ FreeObjectsStep \/ FreeObjectsEnd

Next == Program \/ Internal

Spec == Init /\ [][Next]_vars

\* A call that has begun goes on: the C program is sequential.
FairSpec == Spec /\ WF_vars(Internal)

-----------------------------------------------------------------------------
(* Properties *)

\* Type invariant.  bytesAllocated is unsigned: it must never go below zero.
PointerTypes ==
  /\ pc \in {"run", "roots", "trace", "sweep", "link", "free", "done"}
  /\ want \in ObjType \cup {"none", "chars", "upvalues", "table", "code", "lines", "constants"}
  /\ heap \subseteq Objects /\ strings \subseteq Objects
  /\ fresh \in Objects \cup {Null}
  /\ type \in [Objects -> ObjType]
  /\ ref \in [Objects -> [AllFields -> SUBSET Objects]]
  /\ location \in [Objects -> {"stack", "closed"}]
  /\ roots \in [RootKinds -> SUBSET Objects]
  /\ gray \subseteq marked /\ marked \subseteq Objects /\ swept \subseteq Objects
  /\ head \in Objects \cup {Null} /\ next \in [Objects -> Objects \cup {Null}]
  /\ previous \in Objects \cup {Null} /\ object \in Objects \cup {Null}

BlockTypes ==
  /\ owner \in Owners /\ arg \in Nat
  /\ count \in [Owners -> Nat] /\ constants \in [Objects -> Nat]
  /\ local \in {"none", "chars", "upvalues"}
  /\ size \in [Owners -> [Parts -> Nat]]
  /\ bytes \in Nat /\ nextGC \in Nat

TypeOK == PointerTypes /\ BlockTypes

\* The objects the program can still get to: the least set that contains the
\* roots and everything its members point to.
Closed(S) == \A o \in S : Leads(o) \subseteq S
Reachable == {o \in Objects :
                \A S \in SUBSET Objects : AllRoots \subseteq S /\ Closed(S) => o \in S}

\* No pointer the program can follow leads to freed memory, at any time until
\* freeVM, in a script or in the lines of the REPL, errors included; nor does the
\* weak intern table keep a freed string.  The one pointer this leaves out is the
\* location of an upvalue that resetStack has forgotten.
NoDangling ==
  /\ pc \notin {"free", "done"} => Reachable \subseteq heap
  /\ pc \notin {"free", "done"} => strings \subseteq heap

\* A collection frees all garbage, cycles included, and nothing else.
CollectionIsExact ==
  [][pc = "sweep" /\ pc' = "link" => heap = Reachable]_vars

\* Between collections nothing is marked: a stale mark would make the next
\* markObject return early and leave what the object points to unmarked.
MarksClear == pc \in {"run", "link", "roots"} => marked = {} /\ gray = {}

\* vm.objects links all allocated objects and only them, so that none is missed
\* by a sweep and none is freed twice.
Chain == {o \in Objects :
            \A S \in SUBSET Objects :
              head \in S \cup {Null} /\ (\A x \in S : next[x] \in S \cup {Null}) => o \in S}
ListExact ==
  pc \in {"run", "link", "roots", "trace"} =>
    /\ Chain = heap
    /\ heap # {} => \E o \in heap : next[o] = Null

\* Every string object is interned, but for the one allocateString is about to
\* intern: string equality is pointer equality.
StringsExact ==
  pc \in {"run", "link", "roots"} =>
    strings = {o \in heap : type[o] = "string"} \ {fresh}

\* The bytes malloc has given out through reallocate.
Memory == UNION {{<<x, p, i>> : i \in 1..size[x][p]} : x \in Owners, p \in Parts}

\* What the call of reallocate in progress has added to the account.
Asked ==
  CASE want \in ObjType               -> Sizeof[want]
    [] want \in {"chars", "upvalues"} -> LocalBytes(want, arg)
    [] want = "table"                 -> Sizeof["Entry"] * arg
    [] want = "code"                  -> Sizeof["uint8_t"] * (count[owner] - arg)
    [] want = "lines"                 -> Sizeof["int"] * (count[owner] - arg)
    [] want = "constants"             -> Sizeof["Value"] * (constants[owner] - arg)
    [] OTHER                          -> 0

\* vm.bytesAllocated is the number of bytes allocated, at every moment: each block
\* is freed with the size it was allocated or last grown to, although nothing
\* records that size and it is computed again from the type and the counts of
\* the object, which change while arrays grow and collections run in between.
BytesExact == bytes = Cardinality(Memory) + Asked

\* freeVM leaves no object and no block of one behind; only the array of
\* vm.globals stays, which nobody frees.
AllFreed ==
  pc = "done" /\ want = "none" =>
    heap = {} /\ \A x \in Owners : size[x] # NoBlocks => x = "globals"

\* traceReferences and sweep end, whatever the shape of the object graph.
CollectionEnds == pc = "roots" ~> pc = "link"
=============================================================================
