------------------------------- MODULE Table --------------------------------
(***************************************************************************)
(* The hash table of clox (table.c): open addressing, linear probing,      *)
(* tombstones, and a capacity that doubles when the load would pass 3/4.   *)
(*                                                                         *)
(* Every loop of the C code that allocates or that the collector can       *)
(* interrupt is a loop of steps here: tableSet that has to grow first      *)
(* allocates (the collector may run inside ALLOCATE and delete keys of     *)
(* this very table: tableRemoveWhite on vm.strings), then copies entry by  *)
(* entry, then inserts.                                                    *)
(***************************************************************************)
EXTENDS Integers, FiniteSets

CONSTANTS
  Keys,         \* ObjString pointers; interned: one pointer per content
  Values,       \* Lox values
  NoKey,        \* the C NULL in Entry.key
  Nil,          \* NIL_VAL
  True,         \* BOOL_VAL(true), the value of a tombstone
  Absent,       \* the absent value of the abstract map
  Hash,         \* key->hash, for each key
  MinCapacity,  \* the first non-zero capacity; 8 in the code
  MaxCapacity   \* bound of the model: no growth beyond it

ASSUME TableAssumption ==
  /\ NoKey \notin Keys
  /\ Nil \in Values
  /\ True # Nil
  /\ Absent \notin Values \cup {True}
  /\ Hash \in [Keys -> Nat]
  /\ MinCapacity \in Nat /\ MinCapacity >= 4
  /\ MaxCapacity \in Nat

VARIABLES
  pc,          \* where the running call is; "idle" between calls
  capacity,    \* table->capacity
  count,       \* table->count: live entries and tombstones
  entries,     \* table->entries
  pend,        \* key and value of the tableSet under way
  newEntries,  \* the array adjustCapacity fills
  idx,         \* loop counter of adjustCapacity and of tableRemoveWhite
  white,       \* the unmarked keys while tableRemoveWhite runs
  back,        \* where tableRemoveWhite was called from
  result       \* return value of the last completed call

vars == <<pc, capacity, count, entries, pend, newEntries, idx, white, back, result>>

-----------------------------------------------------------------------------
(* Entries *)

EmptyEntry == [key |-> NoKey, value |-> Nil]
Tombstone  == [key |-> NoKey, value |-> True]
Entry == [key : Keys \cup {NoKey}, value : Values \cup {True}]

IsEmpty(e)     == e.key = NoKey /\ e.value = Nil
IsTombstone(e) == e.key = NoKey /\ e.value # Nil

\* An array of n entries, and the one adjustCapacity starts from.
ArrayOf(n) == [0..(n - 1) -> Entry]
EmptyArray(n) == [i \in 0..(n - 1) |-> EmptyEntry]
NoPend == [key |-> NoKey, value |-> Nil]

-----------------------------------------------------------------------------
(* Probing.  The code masks with capacity - 1; capacities are powers of    *)
(* two (CapacityIsPowerOfTwo), so the mask is the remainder.               *)

Home(k, cap) == Hash[k] % cap
Probe(h, d, cap) == IF h + d < cap THEN h + d ELSE h + d - cap

\* The probe distances at which the loop of findEntry leaves the loop.
Stops(ent, cap, k) ==
  {d \in 0..(cap - 1) :
     LET e == ent[Probe(Home(k, cap), d, cap)] IN IsEmpty(e) \/ e.key = k}

Least(S) == CHOOSE x \in S : \A y \in S : x <= y

StopAt(ent, cap, k) == Least(Stops(ent, cap, k))

\* The tombstones findEntry passes before it stops.
Passed(ent, cap, k) ==
  {d \in 0..(StopAt(ent, cap, k) - 1) :
     IsTombstone(ent[Probe(Home(k, cap), d, cap)])}

\* Mutated form: a tombstone ends the probe sequence.
FindEntryStopsAtTombstone(ent, cap, k) ==
  LET D == {d \in 0..(cap - 1) : LET e == ent[Probe(Home(k, cap), d, cap)]
                                 IN e.key = NoKey \/ e.key = k}
  IN Probe(Home(k, cap), Least(D), cap)

\* The entry of the key if it is there; otherwise the first tombstone on the
\* way if there was one, so that it is reused; otherwise the empty entry.
FindEntry(ent, cap, k) ==
  LET stop == StopAt(ent, cap, k)
      tomb == Passed(ent, cap, k)
      At(d) == Probe(Home(k, cap), d, cap)
  IN IF ent[At(stop)].key = k \/ tomb = {} THEN At(stop) ELSE At(Least(tomb))

\* Mutated form: the table is allowed to fill up.
NeedsGrowWhenFull(n, cap) == n + 1 > cap

NeedsGrow(n, cap) == 4 * (n + 1) > 3 * cap

\* Mutated form: linear growth.
GrowByMin(cap) == cap + 3

Grow(cap) == IF cap < MinCapacity THEN MinCapacity ELSE 2 * cap

-----------------------------------------------------------------------------
(* tableSet *)

Init ==
  /\ pc = "idle"
  /\ capacity = 0
  /\ count = 0
  /\ entries = EmptyArray(0)
  /\ pend = NoPend
  /\ newEntries = EmptyArray(0)
  /\ idx = 0
  /\ white = {}
  /\ back = "idle"
  /\ result = [op |-> "none"]

SetBegin(k, v) ==
  /\ pc = "idle"
  /\ NeedsGrow(count, capacity) => Grow(capacity) <= MaxCapacity
  /\ pend' = [key |-> k, value |-> v]
  /\ pc' = IF NeedsGrow(count, capacity) THEN "alloc" ELSE "insert"
  /\ UNCHANGED <<capacity, count, entries, newEntries, idx, white, back, result>>

\* adjustCapacity: the new array is allocated, cleared, and the count restarts.
RehashBegin ==
  /\ pc = "alloc"
  /\ newEntries' = EmptyArray(Grow(capacity))
  /\ count' = 0
  /\ idx' = 0
  /\ pc' = "rehash"
  /\ UNCHANGED <<capacity, entries, pend, white, back, result>>

\* Mutated form: tombstones are copied and counted like entries.
RehashStepTombstones ==
  /\ pc = "rehash" /\ idx < capacity
  /\ IF IsEmpty(entries[idx])
     THEN UNCHANGED <<newEntries, count>>
     ELSE /\ newEntries' = [newEntries EXCEPT ![idx] = entries[idx]]
          /\ count' = count + 1
  /\ idx' = idx + 1
  /\ UNCHANGED <<pc, capacity, entries, pend, white, back, result>>

RehashStep ==
  /\ pc = "rehash" /\ idx < capacity
  /\ LET e == entries[idx] IN
       IF e.key = NoKey
       THEN UNCHANGED <<newEntries, count>>
       ELSE /\ newEntries' =
                 [newEntries EXCEPT ![FindEntry(newEntries, Grow(capacity), e.key)] = e]
            /\ count' = count + 1
  /\ idx' = idx + 1
  /\ UNCHANGED <<pc, capacity, entries, pend, white, back, result>>

\* Mutated form: the new array is installed with the old capacity.
RehashEndKeepsCapacity ==
  /\ pc = "rehash" /\ idx = capacity
  /\ entries' = newEntries
  /\ newEntries' = EmptyArray(0)
  /\ idx' = 0
  /\ pc' = "insert"
  /\ UNCHANGED <<capacity, count, pend, white, back, result>>

RehashEnd ==
  /\ pc = "rehash" /\ idx = capacity
  /\ entries' = newEntries
  /\ capacity' = Grow(capacity)
  /\ newEntries' = EmptyArray(0)
  /\ idx' = 0
  /\ pc' = "insert"
  /\ UNCHANGED <<count, pend, white, back, result>>

\* Mutated form: a reused tombstone is counted a second time.
CountAfterInsertAlways(e) == count + 1

\* A tombstone is already counted.
CountAfterInsert(e) == IF IsEmpty(e) THEN count + 1 ELSE count

Insert ==
  /\ pc = "insert"
  /\ LET i == FindEntry(entries, capacity, pend.key) IN
       /\ entries' = [entries EXCEPT ![i] = pend]
       /\ count' = CountAfterInsert(entries[i])
       /\ result' = [op |-> "set", key |-> pend.key, ok |-> entries[i].key = NoKey]
  /\ pend' = NoPend
  /\ pc' = "idle"
  /\ UNCHANGED <<capacity, newEntries, idx, white, back>>

-----------------------------------------------------------------------------
(* tableGet, tableDelete, tableFindString *)

\* The entry a lookup ends at, NoKey's entry if the table was never filled.
Lookup(k) ==
  IF count = 0 THEN EmptyEntry ELSE entries[FindEntry(entries, capacity, k)]

Get(k) ==
  /\ pc = "idle"
  /\ result' = [op |-> "get", key |-> k, ok |-> Lookup(k).key # NoKey,
                value |-> IF Lookup(k).key # NoKey THEN Lookup(k).value ELSE Nil]
  /\ UNCHANGED <<pc, capacity, count, entries, pend, newEntries, idx, white, back>>

\* Mutated form: the entry is emptied instead of being turned into a tombstone.
AfterDeleteEmptied(k) ==
  IF Lookup(k).key = NoKey THEN entries
  ELSE [entries EXCEPT ![FindEntry(entries, capacity, k)] = EmptyEntry]

AfterDelete(k) ==
  IF Lookup(k).key = NoKey THEN entries
  ELSE [entries EXCEPT ![FindEntry(entries, capacity, k)] = Tombstone]

Delete(k) ==
  /\ pc = "idle"
  /\ entries' = AfterDelete(k)
  /\ result' = [op |-> "delete", key |-> k, ok |-> Lookup(k).key # NoKey]
  /\ UNCHANGED <<pc, capacity, count, pend, newEntries, idx, white, back>>

\* tableFindString compares contents instead of pointers; it skips tombstones
\* and stops at an empty entry or at the string with this content.
FindString(k) ==
  /\ pc = "idle"
  /\ result' = [op |-> "find", key |-> k,
                ok |-> /\ count # 0
                       /\ entries[Probe(Home(k, capacity),
                                        StopAt(entries, capacity, k), capacity)].key = k]
  /\ UNCHANGED <<pc, capacity, count, entries, pend, newEntries, idx, white, back>>

-----------------------------------------------------------------------------
(* tableRemoveWhite, run by the collector: between two calls, or inside    *)
(* the allocation of a growing tableSet.  The key being set is on the VM   *)
(* stack (allocateString pushes it), so it is never white.                 *)

RemoveWhiteBegin(W) ==
  /\ pc \in {"idle", "alloc"}
  /\ W \subseteq {entries[i].key : i \in DOMAIN entries} \ {NoKey, pend.key}
  /\ white' = W
  /\ back' = pc
  /\ idx' = 0
  /\ pc' = "white"
  /\ UNCHANGED <<capacity, count, entries, pend, newEntries, result>>

\* Mutated form: the loop begins at the second entry.
RemoveWhiteStepFromOne ==
  /\ pc = "white" /\ idx < capacity
  /\ entries' = IF idx > 0 /\ entries[idx].key \in white
                THEN AfterDelete(entries[idx].key) ELSE entries
  /\ idx' = idx + 1
  /\ UNCHANGED <<pc, capacity, count, pend, newEntries, white, back, result>>

RemoveWhiteStep ==
  /\ pc = "white" /\ idx < capacity
  /\ entries' = IF entries[idx].key \in white
                THEN AfterDelete(entries[idx].key) ELSE entries
  /\ idx' = idx + 1
  /\ UNCHANGED <<pc, capacity, count, pend, newEntries, white, back, result>>

RemoveWhiteEnd ==
  /\ pc = "white" /\ idx = capacity
  /\ pc' = back
  /\ white' = {} /\ idx' = 0 /\ back' = "idle"
  /\ UNCHANGED <<capacity, count, entries, pend, newEntries, result>>

\* freeTable: the array is released and the table is as good as new.
Free ==
  /\ pc = "idle"
  /\ capacity' = 0 /\ count' = 0 /\ entries' = EmptyArray(0)
  /\ UNCHANGED <<pc, pend, newEntries, idx, white, back, result>>

-----------------------------------------------------------------------------
Next ==
  \/ \E k \in Keys, v \in Values : SetBegin(k, v)
  \/ \E k \in Keys : Get(k)
  \/ \E k \in Keys : Delete(k)
  \/ \E k \in Keys : FindString(k)
  \/ \E W \in SUBSET Keys : RemoveWhiteBegin(W)
  \/ RehashBegin \/ RehashStep \/ RehashEnd \/ Insert
  \/ RemoveWhiteStep \/ RemoveWhiteEnd \/ Free

Spec == Init /\ [][Next]_vars

-----------------------------------------------------------------------------
(* Properties *)

\* Type invariant: the arrays have the length of their capacity, the call under
\* way has its arguments, the loop counter stays in its array.
TypeOK ==
  /\ pc \in {"idle", "alloc", "rehash", "insert", "white"}
  /\ back \in {"idle", "alloc"}
  /\ capacity \in Nat /\ count \in Nat
  /\ entries \in ArrayOf(capacity)
  /\ pend \in [key : Keys \cup {NoKey}, value : Values]
  /\ (pend.key \in Keys) <=>
       (pc \in {"alloc", "rehash", "insert"} \/ (pc = "white" /\ back = "alloc"))
  /\ newEntries \in ArrayOf(IF pc = "rehash" THEN Grow(capacity) ELSE 0)
  /\ idx \in 0..capacity
  /\ pc \notin {"rehash", "white"} => idx = 0
  /\ white \subseteq Keys

\* The slots that stop being free for a probe: live entries and tombstones.
Used(ent) == {i \in DOMAIN ent : ~IsEmpty(ent[i])}
Live(ent) == {i \in DOMAIN ent : ent[i].key # NoKey}

\* The for (;;) of findEntry and of tableFindString has no other exit than an
\* empty entry or the key: from every home slot, one of them is met.  This is
\* needed of the table itself and of the array adjustCapacity is filling.
ProbeEnds ==
  /\ capacity > 0 => \A k \in Keys : Stops(entries, capacity, k) # {}
  /\ pc = "rehash" => \A k \in Keys : Stops(newEntries, Grow(capacity), k) # {}

\* findEntry leads from every key in an array to the slot that holds it: a key
\* is stored once, and no deletion ever cuts its probe sequence.
Findable(ent, cap) == \A i \in Live(ent) : FindEntry(ent, cap, ent[i].key) = i

KeysFindable ==
  /\ Findable(entries, capacity)
  /\ pc = "rehash" => Findable(newEntries, Grow(capacity))

\* table->count is the number of slots that are not empty, tombstones included;
\* while adjustCapacity copies, it counts the copied entries.
CountExact ==
  count = Cardinality(Used(IF pc = "rehash" THEN newEntries ELSE entries))

\* TABLE_MAX_LOAD: live entries and tombstones fill at most 3/4 of the table.
LoadBounded == pc # "rehash" => 4 * count <= 3 * capacity

\* hash & (capacity - 1) is a remainder only for powers of two, and the probe
\* covers the table only then.
CapacityIsPowerOfTwo == capacity = 0 \/ \E n \in 0..capacity : capacity = 2 ^ n

\* The map the array stands for.
MapOf(ent) == [k \in Keys |->
  IF \E i \in DOMAIN ent : ent[i].key = k
  THEN ent[CHOOSE i \in DOMAIN ent : ent[i].key = k].value
  ELSE Absent]

Contents == MapOf(entries)

\* Table implements Dict: every completed tableSet, tableGet, tableDelete and
\* tableFindString answers as a map would, growing changes nothing, and the
\* collector only forgets white keys.
D == INSTANCE Dict WITH dict <- Contents
ImplementsDict == D!Spec

\* Only what is white is forgotten: a step of tableRemoveWhite drops no other
\* key, and when it has finished no white key is left in the table.
RemoveWhiteIsExact ==
  [][ /\ pc = "white" => \A k \in Keys \ white : Contents'[k] = Contents[k]
      /\ pc = "white" /\ pc' # "white" => \A k \in white : Contents[k] = Absent ]_vars
=============================================================================
