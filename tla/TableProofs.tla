---------------------------- MODULE TableProofs -----------------------------
(***************************************************************************)
(* Proofs about the hash table, for every set of keys, every hash function *)
(* and every capacity bound.                                               *)
(***************************************************************************)
EXTENDS Table, FiniteSetTheorems, WellFoundedInduction, TLAPS

-----------------------------------------------------------------------------
(* Probing *)

\* A non-empty set of naturals has a least element, which Least returns: the
\* first slot at which the loop of findEntry stops.
LEMMA LeastIsLeast ==
  ASSUME NEW S \in SUBSET Nat, S # {}
  PROVE  Least(S) \in S /\ \A y \in S : Least(S) <= y
<1>1. \E x \in S : \A y \in S : ~(<<y, x>> \in OpToRel(<, Nat))
  BY NatLessThanWellFounded, WFMin
<1>2. PICK x \in S : \A y \in S : ~(<<y, x>> \in OpToRel(<, Nat))
  BY <1>1
<1>3. \A y \in S : ~(y < x)
  <2>1. SUFFICES ASSUME NEW y \in S, y < x PROVE FALSE
    OBVIOUS
  <2>2. <<y, x>> \in Nat \X Nat /\ <<y, x>>[1] < <<y, x>>[2]
    BY <2>1
  <2>3. <<y, x>> \in OpToRel(<, Nat)
    BY <2>2 DEF OpToRel
  <2> QED BY <1>2, <2>3
<1>4. \E z \in S : \A y \in S : z <= y
  BY <1>3
<1> QED BY <1>4 DEF Least

\* The home slot of a key lies in the table.
LEMMA HomeInTable ==
  ASSUME NEW k \in Keys, NEW cap \in Nat, cap > 0
  PROVE  Home(k, cap) \in 0..(cap - 1)
BY TableAssumption DEF Home

\* A probe stays in the table, and two distances reach two slots.
LEMMA ProbeInTable ==
  ASSUME NEW cap \in Nat, NEW h \in 0..(cap - 1), NEW d \in 0..(cap - 1)
  PROVE  /\ Probe(h, d, cap) \in 0..(cap - 1)
         /\ \A e \in 0..(cap - 1) : Probe(h, e, cap) = Probe(h, d, cap) => e = d
BY DEF Probe

\* The probe sequence visits every slot: no free slot is missed.
LEMMA ProbeOnto ==
  ASSUME NEW cap \in Nat, NEW h \in 0..(cap - 1), NEW i \in 0..(cap - 1)
  PROVE  \E d \in 0..(cap - 1) : Probe(h, d, cap) = i
<1>1. CASE h <= i
  <2>1. i - h \in 0..(cap - 1) /\ Probe(h, i - h, cap) = i
    BY <1>1 DEF Probe
  <2> QED BY <2>1
<1>2. CASE i < h
  <2>1. i + cap - h \in 0..(cap - 1) /\ Probe(h, i + cap - h, cap) = i
    BY <1>2 DEF Probe
  <2> QED BY <2>1
<1> QED BY <1>1, <1>2

-----------------------------------------------------------------------------
(* Well-formed arrays *)

\* The slot a key reaches at distance d.
At(k, d, cap) == Probe(Home(k, cap), d, cap)

\* A key is stored once.
Unique(ent) ==
  \A i, j \in DOMAIN ent :
    ent[i].key # NoKey /\ ent[i].key = ent[j].key => i = j

\* No empty slot between the home slot of a key and the slot that holds it.
NoGap(ent, cap) ==
  \A i \in DOMAIN ent : ent[i].key # NoKey =>
    \A d \in 0..(cap - 1) : At(ent[i].key, d, cap) = i =>
      \A e \in 0..(d - 1) : ~IsEmpty(ent[At(ent[i].key, e, cap)])

WellFormed(ent, cap) ==
  /\ ent \in ArrayOf(cap)
  /\ Unique(ent)
  /\ NoGap(ent, cap)

HasEmpty(ent) == \E i \in DOMAIN ent : IsEmpty(ent[i])

\* One empty slot is enough to stop every probe.
LEMMA EmptyStops ==
  ASSUME NEW cap \in Nat, cap > 0, NEW k \in Keys, NEW ent \in ArrayOf(cap),
         HasEmpty(ent)
  PROVE  Stops(ent, cap, k) # {}
<1> USE DEF ArrayOf
<1>1. PICK i \in 0..(cap - 1) : IsEmpty(ent[i])
  BY DEF HasEmpty
<1>2. PICK d \in 0..(cap - 1) : Probe(Home(k, cap), d, cap) = i
  BY HomeInTable, ProbeOnto
<1> QED BY <1>1, <1>2 DEF Stops

\* Where the loop stops: at an empty slot or at the key, and nowhere before.
LEMMA StopAtStops ==
  ASSUME NEW cap \in Nat, cap > 0, NEW k \in Keys, NEW ent \in ArrayOf(cap),
         Stops(ent, cap, k) # {}
  PROVE  /\ StopAt(ent, cap, k) \in 0..(cap - 1)
         /\ \/ IsEmpty(ent[At(k, StopAt(ent, cap, k), cap)])
            \/ ent[At(k, StopAt(ent, cap, k), cap)].key = k
         /\ \A d \in 0..(StopAt(ent, cap, k) - 1) :
              /\ ~IsEmpty(ent[At(k, d, cap)])
              /\ ent[At(k, d, cap)].key # k
<1> USE DEF ArrayOf
<1> DEFINE S == Stops(ent, cap, k)
<1>1. S \in SUBSET Nat
  BY DEF Stops
<1>2. Least(S) \in S /\ \A y \in S : Least(S) <= y
  BY <1>1, LeastIsLeast
<1>3. \A d \in 0..(cap - 1) :
        d \in S <=> IsEmpty(ent[At(k, d, cap)]) \/ ent[At(k, d, cap)].key = k
  BY DEF Stops, At
<1>4. S \subseteq 0..(cap - 1)
  BY DEF Stops
<1>5. StopAt(ent, cap, k) = Least(S)
  BY DEF StopAt
<1> HIDE DEF S
<1>6. PICK m \in S : m = StopAt(ent, cap, k) /\ \A y \in S : m <= y
  BY <1>2, <1>5
<1>7. m \in 0..(cap - 1)
  BY <1>4
<1>8. \A d \in 0..(m - 1) : d \in 0..(cap - 1) /\ d \notin S
  BY <1>6, <1>7
<1> QED BY <1>3, <1>6, <1>7, <1>8

\* findEntry finds a key that is in the array.
LEMMA FindPresent ==
  ASSUME NEW cap \in Nat, NEW ent, WellFormed(ent, cap),
         NEW i \in 0..(cap - 1), ent[i].key \in Keys
  PROVE  FindEntry(ent, cap, ent[i].key) = i
<1> USE DEF ArrayOf
<1> DEFINE k == ent[i].key
           s == StopAt(ent, cap, k)
<1>0. cap > 0 /\ ent \in ArrayOf(cap) /\ k # NoKey
  BY TableAssumption DEF WellFormed
<1>1. PICK d \in 0..(cap - 1) : At(k, d, cap) = i
  BY <1>0, HomeInTable, ProbeOnto DEF At
<1>2. d \in Stops(ent, cap, k)
  BY <1>1 DEF Stops, At
<1>3. /\ s \in 0..(cap - 1)
      /\ IsEmpty(ent[At(k, s, cap)]) \/ ent[At(k, s, cap)].key = k
      /\ \A e \in 0..(s - 1) : ent[At(k, e, cap)].key # k
  BY <1>0, <1>2, StopAtStops
<1>4. s <= d
  BY <1>1, <1>3
<1>5. ent[At(k, s, cap)].key = k
  <2>1. SUFFICES ASSUME IsEmpty(ent[At(k, s, cap)]) PROVE FALSE
    BY <1>3
  <2>2. s # d
    BY <2>1, <1>1, <1>0 DEF IsEmpty
  <2>3. s \in 0..(d - 1)
    BY <1>3, <1>4, <2>2
  <2>4. \A e \in 0..(d - 1) : ~IsEmpty(ent[At(k, e, cap)])
    BY <1>0, <1>1 DEF WellFormed, NoGap
  <2> QED BY <2>1, <2>3, <2>4
<1>6. At(k, s, cap) \in 0..(cap - 1)
  BY <1>0, <1>3, HomeInTable, ProbeInTable DEF At
<1>7. At(k, s, cap) = i
  BY <1>0, <1>5, <1>6 DEF WellFormed, Unique
<1>8. FindEntry(ent, cap, k) = At(k, s, cap)
  BY <1>5 DEF FindEntry, At
<1> QED BY <1>7, <1>8

\* For a key that is not in the array, findEntry returns a slot without a key
\* (a tombstone if it passed one), and every slot before it is in use.
LEMMA FindAbsent ==
  ASSUME NEW cap \in Nat, cap > 0, NEW ent \in ArrayOf(cap), NEW k \in Keys,
         HasEmpty(ent), \A i \in 0..(cap - 1) : ent[i].key # k
  PROVE  \E d \in 0..(cap - 1) :
           /\ FindEntry(ent, cap, k) = At(k, d, cap)
           /\ At(k, d, cap) \in 0..(cap - 1)
           /\ ent[At(k, d, cap)].key = NoKey
           /\ \A e \in 0..(d - 1) : ~IsEmpty(ent[At(k, e, cap)])
<1> USE DEF ArrayOf
<1> DEFINE s == StopAt(ent, cap, k)
           P == Passed(ent, cap, k)
<1>1. /\ s \in 0..(cap - 1)
      /\ IsEmpty(ent[At(k, s, cap)]) \/ ent[At(k, s, cap)].key = k
      /\ \A e \in 0..(s - 1) : ~IsEmpty(ent[At(k, e, cap)])
  BY EmptyStops, StopAtStops
<1>2. \A d \in 0..(cap - 1) : At(k, d, cap) \in 0..(cap - 1)
  BY HomeInTable, ProbeInTable DEF At
<1>3. IsEmpty(ent[At(k, s, cap)])
  BY <1>1, <1>2
<1>4. ent[At(k, s, cap)].key # k /\ ent[At(k, s, cap)].key = NoKey
  BY <1>3, <1>1, <1>2 DEF IsEmpty
<1>5. CASE P = {}
  <2>1. FindEntry(ent, cap, k) = At(k, s, cap)
    BY <1>5 DEF FindEntry, At
  <2> QED BY <2>1, <1>1, <1>2, <1>4
<1>6. CASE P # {}
  <2>1. P \in SUBSET Nat /\ P \subseteq 0..(s - 1)
    BY <1>1 DEF Passed
  <2>2. Least(P) \in P
    BY <1>6, <2>1, LeastIsLeast
  <2>3. FindEntry(ent, cap, k) = At(k, Least(P), cap)
    BY <1>4, <1>6 DEF FindEntry, At
  <2>4. ent[At(k, Least(P), cap)].key = NoKey
    BY <2>2 DEF Passed, IsTombstone, At
  <2> HIDE DEF P, s
  <2>5. PICK p \in P : p = Least(P)
    BY <2>2
  <2>6. p \in 0..(s - 1) /\ s \in 0..(cap - 1)
    BY <1>1, <2>1
  <2>7. p \in 0..(cap - 1) /\ \A e \in 0..(p - 1) : e \in 0..(s - 1)
    BY <2>6
  <2> QED BY <1>1, <1>2, <2>3, <2>4, <2>5, <2>7
<1> QED BY <1>5, <1>6

\* Storing a pair at the slot findEntry gives keeps the array well formed; the
\* slot was free for an absent key and was the key's own otherwise.
LEMMA StoreWellFormed ==
  ASSUME NEW cap \in Nat, cap > 0, NEW ent, WellFormed(ent, cap), HasEmpty(ent),
         NEW x \in Entry, x.key \in Keys
  PROVE  LET j == FindEntry(ent, cap, x.key) IN
           /\ j \in 0..(cap - 1)
           /\ ent[j].key \in {NoKey, x.key}
           /\ (\E i \in 0..(cap - 1) : ent[i].key = x.key) => ent[j].key = x.key
           /\ WellFormed([ent EXCEPT ![j] = x], cap)
<1> USE DEF ArrayOf
<1> DEFINE k == x.key
           j == FindEntry(ent, cap, k)
           new == [ent EXCEPT ![j] = x]
<1>0. ent \in ArrayOf(cap) /\ k # NoKey
  BY TableAssumption DEF WellFormed
<1>1. PICK d \in 0..(cap - 1) :
        /\ j = At(k, d, cap) /\ j \in 0..(cap - 1)
        /\ ent[j].key \in {NoKey, k}
        /\ \A e \in 0..(d - 1) : ~IsEmpty(ent[At(k, e, cap)])
        /\ (\E i \in 0..(cap - 1) : ent[i].key = k) => ent[j].key = k
  <2>1. CASE \E i \in 0..(cap - 1) : ent[i].key = k
    <3>1. PICK i \in 0..(cap - 1) : ent[i].key = k
      BY <2>1
    <3>2. j = i
      BY <3>1, FindPresent
    <3>3. PICK d \in 0..(cap - 1) : At(k, d, cap) = i
      BY HomeInTable, ProbeOnto DEF At
    <3>4. \A e \in 0..(d - 1) : ~IsEmpty(ent[At(k, e, cap)])
      BY <1>0, <3>1, <3>3 DEF WellFormed, NoGap
    <3> QED BY <3>1, <3>2, <3>3, <3>4
  <2>2. CASE ~\E i \in 0..(cap - 1) : ent[i].key = k
    <3>1. \E e \in 0..(cap - 1) :
           /\ FindEntry(ent, cap, k) = At(k, e, cap)
           /\ At(k, e, cap) \in 0..(cap - 1)
           /\ ent[At(k, e, cap)].key = NoKey
           /\ \A f \in 0..(e - 1) : ~IsEmpty(ent[At(k, f, cap)])
      BY <1>0, <2>2, FindAbsent
    <3> QED BY <2>2, <3>1
  <2> QED BY <2>1, <2>2
<1> HIDE DEF j
<1>2. new \in ArrayOf(cap)
  BY <1>0, <1>1
<1>3. \A i \in 0..(cap - 1) : new[i] = IF i = j THEN x ELSE ent[i]
  BY <1>0, <1>1
<1>4. DOMAIN new = 0..(cap - 1) /\ DOMAIN ent = 0..(cap - 1)
  BY <1>0, <1>2
<1> HIDE DEF new
<1>5. Unique(new)
  BY <1>0, <1>1, <1>3, <1>4 DEF Unique, WellFormed
<1>6. \A i \in 0..(cap - 1) : ~IsEmpty(ent[i]) => ~IsEmpty(new[i])
  BY <1>0, <1>3 DEF IsEmpty
<1>7. NoGap(new, cap)
  <2>1. SUFFICES ASSUME NEW i \in 0..(cap - 1), new[i].key # NoKey,
                        NEW dd \in 0..(cap - 1), At(new[i].key, dd, cap) = i,
                        NEW e \in 0..(dd - 1)
                 PROVE  ~IsEmpty(new[At(new[i].key, e, cap)])
    BY <1>4 DEF NoGap
  <2>2. new[i].key \in Keys
    BY <1>0, <1>2, <2>1 DEF Entry
  <2>3. e \in 0..(cap - 1) /\ At(new[i].key, e, cap) \in 0..(cap - 1)
    BY <2>2, HomeInTable, ProbeInTable DEF At
  <2>4. CASE i = j
    <3>1. new[i].key = k
      BY <1>3, <2>4
    <3>2. dd = d
      BY <1>1, <2>1, <2>4, <3>1, HomeInTable, ProbeInTable DEF At
    <3> QED BY <1>1, <1>6, <2>3, <3>1, <3>2
  <2>5. CASE i # j
    <3>1. new[i] = ent[i]
      BY <1>3, <2>5
    <3>2. ~IsEmpty(ent[At(ent[i].key, e, cap)])
      BY <1>4, <2>1, <3>1 DEF WellFormed, NoGap
    <3> QED BY <1>6, <2>3, <3>1, <3>2
  <2> QED BY <2>4, <2>5
<1> QED BY <1>1, <1>2, <1>5, <1>7 DEF WellFormed, j, new

\* Turning an entry into a tombstone keeps the array well formed and changes
\* nothing about which slots are in use.
LEMMA BuryWellFormed ==
  ASSUME NEW cap \in Nat, NEW ent, WellFormed(ent, cap),
         NEW j \in 0..(cap - 1), ent[j].key # NoKey
  PROVE  /\ WellFormed([ent EXCEPT ![j] = Tombstone], cap)
         /\ Used([ent EXCEPT ![j] = Tombstone]) = Used(ent)
<1> USE DEF ArrayOf
<1> DEFINE new == [ent EXCEPT ![j] = Tombstone]
<1>0. ent \in ArrayOf(cap)
  BY DEF WellFormed
<1>1. Tombstone \in Entry /\ Tombstone.key = NoKey /\ ~IsEmpty(Tombstone)
  BY TableAssumption DEF Tombstone, Entry, IsEmpty
<1>2. new \in ArrayOf(cap)
  BY <1>0, <1>1
<1>3. \A i \in 0..(cap - 1) : new[i] = IF i = j THEN Tombstone ELSE ent[i]
  BY <1>0
<1>4. DOMAIN new = 0..(cap - 1) /\ DOMAIN ent = 0..(cap - 1)
  BY <1>0, <1>2
<1> HIDE DEF new
<1>5. Unique(new)
  BY <1>1, <1>3, <1>4 DEF Unique, WellFormed
<1>6. \A i \in 0..(cap - 1) : IsEmpty(ent[i]) <=> IsEmpty(new[i])
  BY <1>1, <1>3 DEF IsEmpty
<1>7. Used(new) = Used(ent)
  BY <1>4, <1>6 DEF Used
<1>8. NoGap(new, cap)
  <2>1. SUFFICES ASSUME NEW i \in 0..(cap - 1), new[i].key # NoKey,
                        NEW d \in 0..(cap - 1), At(new[i].key, d, cap) = i,
                        NEW e \in 0..(d - 1)
                 PROVE  ~IsEmpty(new[At(new[i].key, e, cap)])
    BY <1>4 DEF NoGap
  <2>2. new[i] = ent[i] /\ ent[i].key \in Keys
    BY <1>0, <1>1, <1>3, <2>1 DEF Entry
  <2>3. cap > 0 /\ e \in 0..(cap - 1)
    OBVIOUS
  <2>4. At(ent[i].key, e, cap) \in 0..(cap - 1)
    BY <2>2, <2>3, HomeInTable, ProbeInTable DEF At
  <2>5. ~IsEmpty(ent[At(ent[i].key, e, cap)])
    BY <1>4, <2>1, <2>2 DEF WellFormed, NoGap
  <2> QED BY <1>6, <2>2, <2>4, <2>5
<1> QED BY <1>2, <1>5, <1>7, <1>8 DEF WellFormed, new

\* The number of used slots after a store: one more exactly if the slot was empty.
LEMMA UsedAfterStore ==
  ASSUME NEW cap \in Nat, NEW ent \in ArrayOf(cap), NEW j \in 0..(cap - 1),
         NEW x \in Entry, x.key \in Keys
  PROVE  LET after == Cardinality(Used([ent EXCEPT ![j] = x])) IN
           /\ IsEmpty(ent[j]) => after = Cardinality(Used(ent)) + 1
           /\ ~IsEmpty(ent[j]) => after = Cardinality(Used(ent))
<1> USE DEF ArrayOf
<1>1. Used([ent EXCEPT ![j] = x]) = Used(ent) \cup {j}
  BY TableAssumption DEF Used, IsEmpty
<1>2. IsFiniteSet(Used(ent))
  <2>1. IsFiniteSet(0..(cap - 1)) /\ Used(ent) \in SUBSET (0..(cap - 1))
    BY FS_Interval DEF Used
  <2> QED BY <2>1, FS_Subset
<1>3. j \in Used(ent) <=> ~IsEmpty(ent[j])
  BY DEF Used
<1> QED BY <1>1, <1>2, <1>3, FS_AddElement

\* If fewer slots are used than there are, one is empty.
LEMMA RoomLeft ==
  ASSUME NEW cap \in Nat, NEW ent \in ArrayOf(cap),
         Cardinality(Used(ent)) < cap
  PROVE  HasEmpty(ent)
<1> USE DEF ArrayOf
<1>1. IsFiniteSet(0..(cap - 1)) /\ Cardinality(0..(cap - 1)) = cap
  <2>1. Cardinality(0..(cap - 1)) = IF 0 > cap - 1 THEN 0 ELSE cap - 1 - 0 + 1
    BY FS_Interval
  <2> QED BY <2>1, FS_Interval
<1>2. Used(ent) # 0..(cap - 1)
  <2>1. SUFFICES ASSUME Used(ent) = 0..(cap - 1) PROVE FALSE
    OBVIOUS
  <2>2. Cardinality(Used(ent)) = cap
    BY <1>1, <2>1
  <2> QED BY <2>2
<1> QED BY <1>2 DEF Used, HasEmpty

-----------------------------------------------------------------------------
(* The inductive invariant *)

\* The table itself.  Keys can be found, whatever the collector buries; the
\* smallest capacity is MinCapacity, which is what leaves room after growing.
Structure ==
  /\ WellFormed(entries, capacity)
  /\ capacity = 0 \/ capacity >= MinCapacity

\* The count and the load, with room for the pair about to be inserted.
Load ==
  /\ pc # "rehash" =>
       /\ count = Cardinality(Used(entries))
       /\ 4 * count <= 3 * capacity
  /\ pc = "insert" => 4 * (count + 1) <= 3 * capacity

\* The array adjustCapacity fills holds exactly the first idx entries, no
\* tombstones, and the count says how many.
Rehash ==
  pc = "rehash" =>
    /\ WellFormed(newEntries, Grow(capacity))
    /\ count = Cardinality(Used(newEntries))
    /\ count <= idx
    /\ capacity > 0 => HasEmpty(entries)
    /\ \A j \in DOMAIN newEntries :
         IF newEntries[j].key = NoKey
         THEN IsEmpty(newEntries[j])
         ELSE \E i \in 0..(idx - 1) : entries[i] = newEntries[j]
    /\ \A i \in 0..(idx - 1) : entries[i].key # NoKey =>
         \E j \in DOMAIN newEntries : newEntries[j] = entries[i]

IInv == TypeOK /\ Structure /\ Load /\ Rehash

\* Growing always yields a larger table, with room for what it takes over.
LEMMA GrowGrows ==
  ASSUME NEW cap \in Nat, cap = 0 \/ cap >= MinCapacity
  PROVE  /\ Grow(cap) \in Nat /\ Grow(cap) >= MinCapacity /\ Grow(cap) > cap
         /\ 4 * (cap + 1) <= 3 * Grow(cap)
BY TableAssumption DEF Grow

\* While no rehash is under way, a table that holds anything has an empty slot.
LEMMA TableHasRoom ==
  ASSUME IInv, pc # "rehash", capacity > 0
  PROVE  HasEmpty(entries)
<1>1. Cardinality(Used(entries)) < capacity
  BY DEF IInv, Load, TypeOK
<1> QED BY <1>1, RoomLeft DEF IInv, TypeOK

\* What a lookup returns: the entry of the key, or one without a key.
LEMMA LookupCorrect ==
  ASSUME IInv, pc # "rehash", NEW k \in Keys
  PROVE  /\ \A i \in 0..(capacity - 1) : entries[i].key = k =>
              /\ Lookup(k) = entries[i]
              /\ FindEntry(entries, capacity, k) = i
         /\ (\A i \in 0..(capacity - 1) : entries[i].key # k) => Lookup(k).key = NoKey
<1>0. /\ capacity \in Nat /\ entries \in ArrayOf(capacity)
      /\ WellFormed(entries, capacity) /\ k # NoKey
      /\ count = Cardinality(Used(entries)) /\ 4 * count <= 3 * capacity
      /\ count \in Nat
  BY TableAssumption DEF IInv, TypeOK, Structure, Load
<1> USE DEF ArrayOf
<1>1. ASSUME NEW i \in 0..(capacity - 1), entries[i].key = k
      PROVE  Lookup(k) = entries[i] /\ FindEntry(entries, capacity, k) = i
  <2>1. FindEntry(entries, capacity, k) = i
    BY <1>0, <1>1, FindPresent
  <2>2. i \in Used(entries)
    BY <1>0, <1>1 DEF Used, IsEmpty
  <2>3. count # 0
    <3>1. IsFiniteSet(0..(capacity - 1)) /\ Used(entries) \in SUBSET (0..(capacity - 1))
      BY <1>0, FS_Interval DEF Used
    <3>2. IsFiniteSet(Used(entries))
      BY <3>1, FS_Subset
    <3> QED BY <1>0, <2>2, <3>2, FS_EmptySet
  <2> QED BY <2>1, <2>3 DEF Lookup
<1>2. ASSUME \A i \in 0..(capacity - 1) : entries[i].key # k
      PROVE  Lookup(k).key = NoKey
  <2>1. CASE count = 0
    BY <2>1 DEF Lookup, EmptyEntry
  <2>2. CASE count # 0
    <3>1. capacity > 0
      BY <1>0, <2>2
    <3>2. HasEmpty(entries)
      BY <3>1, TableHasRoom
    <3>3. entries[FindEntry(entries, capacity, k)].key = NoKey
      BY <1>0, <1>2, <3>1, <3>2, FindAbsent
    <3> QED BY <2>2, <3>3 DEF Lookup
  <2> QED BY <2>1, <2>2
<1> QED BY <1>1, <1>2

\* Deleting leaves the array well formed and the used slots as they were.
LEMMA DeleteKeeps ==
  ASSUME IInv, pc # "rehash", NEW k \in Keys
  PROVE  /\ WellFormed(AfterDelete(k), capacity)
         /\ Used(AfterDelete(k)) = Used(entries)
         /\ \A i \in 0..(capacity - 1) :
              AfterDelete(k)[i] = IF entries[i].key = k THEN Tombstone ELSE entries[i]
<1>0. /\ capacity \in Nat /\ entries \in ArrayOf(capacity)
      /\ WellFormed(entries, capacity) /\ k # NoKey
  BY TableAssumption DEF IInv, TypeOK, Structure
<1> USE DEF ArrayOf
<1>1. CASE \E i \in 0..(capacity - 1) : entries[i].key = k
  <2>1. PICK i \in 0..(capacity - 1) : entries[i].key = k
    BY <1>1
  <2>2. Lookup(k) = entries[i] /\ FindEntry(entries, capacity, k) = i
    BY <2>1, LookupCorrect
  <2>3. AfterDelete(k) = [entries EXCEPT ![i] = Tombstone]
    BY <1>0, <2>1, <2>2 DEF AfterDelete
  <2>4. \A j \in 0..(capacity - 1) : entries[j].key = k => j = i
    BY <1>0, <2>1 DEF WellFormed, Unique
  <2>5. /\ WellFormed([entries EXCEPT ![i] = Tombstone], capacity)
        /\ Used([entries EXCEPT ![i] = Tombstone]) = Used(entries)
    BY <1>0, <2>1, BuryWellFormed
  <2>6. \A j \in 0..(capacity - 1) :
          [entries EXCEPT ![i] = Tombstone][j] =
            IF entries[j].key = k THEN Tombstone ELSE entries[j]
    BY <1>0, <2>1, <2>4
  <2> QED BY <2>3, <2>5, <2>6
<1>2. CASE ~\E i \in 0..(capacity - 1) : entries[i].key = k
  <2>1. AfterDelete(k) = entries
    BY <1>2, LookupCorrect DEF AfterDelete
  <2> QED BY <1>0, <1>2, <2>1
<1> QED BY <1>1, <1>2

-----------------------------------------------------------------------------
(* The invariant holds *)

\* The array adjustCapacity starts from: well formed and unused.
LEMMA EmptyArrayIsEmpty ==
  ASSUME NEW n \in Nat
  PROVE  /\ EmptyArray(n) \in ArrayOf(n)
         /\ WellFormed(EmptyArray(n), n)
         /\ Used(EmptyArray(n)) = {}
         /\ Cardinality(Used(EmptyArray(n))) = 0
         /\ \A i \in DOMAIN EmptyArray(n) : IsEmpty(EmptyArray(n)[i])
<1>1. EmptyEntry \in Entry /\ IsEmpty(EmptyEntry) /\ EmptyEntry.key = NoKey
  BY TableAssumption DEF EmptyEntry, Entry, IsEmpty
<1>2. EmptyArray(n) \in ArrayOf(n)
  BY <1>1 DEF EmptyArray, ArrayOf
<1>3. \A i \in DOMAIN EmptyArray(n) : EmptyArray(n)[i] = EmptyEntry
  BY DEF EmptyArray
<1>4. Used(EmptyArray(n)) = {}
  BY <1>1, <1>3 DEF Used
<1>5. WellFormed(EmptyArray(n), n)
  BY <1>1, <1>2, <1>3 DEF WellFormed, Unique, NoGap
<1> QED BY <1>1, <1>2, <1>3, <1>4, <1>5, FS_EmptySet

\* The table starts without an array, and the invariant with it.
LEMMA InitIInv == Init => IInv
<1> SUFFICES ASSUME Init PROVE IInv
  OBVIOUS
<1>1. /\ pc = "idle" /\ back = "idle" /\ capacity = 0 /\ count = 0 /\ idx = 0 /\ white = {}
      /\ entries = EmptyArray(0) /\ newEntries = EmptyArray(0) /\ pend = NoPend
  BY DEF Init
<1>2. /\ EmptyArray(0) \in ArrayOf(0) /\ WellFormed(EmptyArray(0), 0)
      /\ Cardinality(Used(EmptyArray(0))) = 0
  BY EmptyArrayIsEmpty
<1>3. TypeOK
  BY <1>1, <1>2, TableAssumption DEF TypeOK, NoPend
<1> QED BY <1>1, <1>2, <1>3 DEF IInv, Structure, Load, Rehash

\* One step of the copy loop: the key is not in the new array yet, so an empty
\* slot takes it, and the new array holds one more of the old entries.
LEMMA RehashStepIInv == IInv /\ RehashStep => IInv'
<1> SUFFICES ASSUME IInv, RehashStep PROVE IInv'
  OBVIOUS
<1> DEFINE e == entries[idx]
           g == Grow(capacity)
           j == FindEntry(newEntries, g, e.key)
<1> USE DEF ArrayOf
<1>0. /\ pc = "rehash" /\ pc' = "rehash" /\ idx \in 0..(capacity - 1) /\ idx' = idx + 1
      /\ UNCHANGED <<capacity, entries, pend, white, back>>
      /\ capacity \in Nat /\ count \in Nat /\ e \in Entry
      /\ entries \in ArrayOf(capacity)
      /\ newEntries \in ArrayOf(g)
  BY DEF IInv, TypeOK, RehashStep
<1>1. g \in Nat /\ g > capacity
  BY <1>0, GrowGrows DEF IInv, Structure
<1>2. /\ WellFormed(newEntries, g)
      /\ count = Cardinality(Used(newEntries)) /\ count <= idx
      /\ \A n \in 0..(g - 1) :
           IF newEntries[n].key = NoKey THEN IsEmpty(newEntries[n])
           ELSE \E i \in 0..(idx - 1) : entries[i] = newEntries[n]
      /\ \A i \in 0..(idx - 1) : entries[i].key # NoKey =>
           \E n \in 0..(g - 1) : newEntries[n] = entries[i]
  BY <1>0 DEF IInv, Rehash
<1>3. Structure' /\ Load' /\ (capacity' > 0 => HasEmpty(entries'))
  BY <1>0 DEF IInv, Structure, Load, Rehash, HasEmpty
<1> HIDE DEF g
<1>4. CASE e.key = NoKey
  <2>1. newEntries' = newEntries /\ count' = count
    BY <1>4 DEF RehashStep
  <2>2. Rehash'
    BY <1>0, <1>2, <1>3, <1>4, <2>1 DEF Rehash, g
  <2>3. TypeOK'
    BY <1>0, <2>1 DEF IInv, TypeOK
  <2> QED BY <1>3, <2>2, <2>3 DEF IInv
<1>5. CASE e.key # NoKey
  <2>1. newEntries' = [newEntries EXCEPT ![j] = e] /\ count' = count + 1
    BY <1>5 DEF RehashStep, g
  <2>2. e.key \in Keys
    BY <1>0, <1>5 DEF Entry
  <2>3. \A n \in 0..(g - 1) : newEntries[n].key # e.key
    <3>1. SUFFICES ASSUME NEW n \in 0..(g - 1), newEntries[n].key = e.key PROVE FALSE
      OBVIOUS
    <3>2. PICK i \in 0..(idx - 1) : entries[i] = newEntries[n]
      BY <1>2, <1>5, <3>1
    <3>3. i \in 0..(capacity - 1) /\ i # idx
      BY <1>0
    <3>4. Unique(entries)
      BY DEF IInv, Structure, WellFormed
    <3> QED BY <1>0, <1>5, <3>1, <3>2, <3>3, <3>4 DEF Unique
  <2>4. HasEmpty(newEntries)
    BY <1>0, <1>1, <1>2, RoomLeft
  <2> HIDE DEF e
  <2>5. j \in 0..(g - 1) /\ newEntries[j].key = NoKey
    <3>1. g > 0
      BY <1>0, <1>1
    <3>2. PICK d \in 0..(g - 1) :
            /\ FindEntry(newEntries, g, e.key) = At(e.key, d, g)
            /\ At(e.key, d, g) \in 0..(g - 1)
            /\ newEntries[At(e.key, d, g)].key = NoKey
      BY <1>0, <1>1, <2>2, <2>3, <2>4, <3>1, FindAbsent
    <3> QED BY <3>2
  <2>6. WellFormed(newEntries', g)
    <3>1. g > 0
      BY <1>0, <1>1
    <3>2. WellFormed([newEntries EXCEPT ![FindEntry(newEntries, g, e.key)] = e], g)
      BY <1>0, <1>1, <1>2, <2>2, <2>4, <3>1, StoreWellFormed
    <3> QED BY <2>1, <3>2
  <2>7. IsEmpty(newEntries[j])
    BY <1>2, <2>5
  <2>8. count' = Cardinality(Used(newEntries'))
    BY <1>0, <1>1, <1>2, <2>1, <2>2, <2>5, <2>7, UsedAfterStore
  <2> HIDE DEF j
  <2>9. \A n \in 0..(g - 1) : newEntries'[n] = IF n = j THEN e ELSE newEntries[n]
    BY <1>0, <2>1
  <2>10. \A n \in 0..(g - 1) :
           IF newEntries'[n].key = NoKey THEN IsEmpty(newEntries'[n])
           ELSE \E i \in 0..idx : entries[i] = newEntries'[n]
    <3>1. \A i \in 0..(idx - 1) : i \in 0..idx
      BY <1>0
    <3>2. idx \in 0..idx /\ entries[idx] = e
      BY <1>0 DEF e
    <3> QED BY <1>2, <1>5, <2>9, <3>1, <3>2
  <2>11. \A i \in 0..idx : entries[i].key # NoKey =>
           \E n \in 0..(g - 1) : newEntries'[n] = entries[i]
    <3>1. SUFFICES ASSUME NEW i \in 0..idx, entries[i].key # NoKey
                   PROVE  \E n \in 0..(g - 1) : newEntries'[n] = entries[i]
      OBVIOUS
    <3>2. CASE i = idx
      BY <2>5, <2>9, <3>2 DEF e
    <3>3. CASE i # idx
      <4>1. i \in 0..(idx - 1)
        BY <1>0, <3>3
      <4>2. PICK n \in 0..(g - 1) : newEntries[n] = entries[i]
        BY <1>2, <3>1, <4>1
      <4>3. n # j
        BY <2>5, <3>1, <4>2
      <4> QED BY <2>9, <4>2, <4>3
    <3> QED BY <3>2, <3>3
  <2>12. newEntries' \in ArrayOf(g)
    BY <2>6 DEF WellFormed
  <2>13. idx' - 1 = idx /\ count' <= idx' /\ idx' \in 0..capacity /\ count' \in Nat
    BY <1>0, <1>2, <2>1
  <2>14. g = Grow(capacity')
    BY <1>0 DEF g
  <2>15. Rehash'
    <3>1. DOMAIN newEntries' = 0..(g - 1)
      BY <2>12
    <3> QED BY <1>0, <1>3, <2>6, <2>8, <2>10, <2>11, <2>13, <2>14, <3>1 DEF Rehash
  <2>16. TypeOK'
    BY <1>0, <2>12, <2>13, <2>14 DEF IInv, TypeOK
  <2> QED BY <1>3, <2>15, <2>16 DEF IInv
<1> QED BY <1>4, <1>5

\* The insertion at the end of tableSet: the load test has left an empty slot.
LEMMA InsertIInv == IInv /\ Insert => IInv'
<1> SUFFICES ASSUME IInv, Insert PROVE IInv'
  OBVIOUS
<1> DEFINE i == FindEntry(entries, capacity, pend.key)
<1>0. /\ pc = "insert" /\ pc' = "idle" /\ pend' = NoPend
      /\ entries' = [entries EXCEPT ![i] = pend] /\ count' = CountAfterInsert(entries[i])
      /\ UNCHANGED <<capacity, newEntries, idx, white, back>>
      /\ capacity \in Nat /\ count \in Nat /\ pend \in Entry /\ pend.key \in Keys
      /\ entries \in ArrayOf(capacity)
      /\ WellFormed(entries, capacity)
      /\ count = Cardinality(Used(entries)) /\ 4 * (count + 1) <= 3 * capacity
  BY DEF IInv, TypeOK, Structure, Load, Insert, Entry
<1>1. capacity > 0 /\ HasEmpty(entries)
  BY <1>0, TableHasRoom
<1>2. /\ i \in 0..(capacity - 1)
      /\ WellFormed([entries EXCEPT ![i] = pend], capacity)
  BY <1>0, <1>1, StoreWellFormed
<1> HIDE DEF i
<1>3. count' = Cardinality(Used(entries'))
  <2>1. CASE IsEmpty(entries[i])
    BY <1>0, <1>2, <2>1, UsedAfterStore DEF CountAfterInsert
  <2>2. CASE ~IsEmpty(entries[i])
    BY <1>0, <1>2, <2>2, UsedAfterStore DEF CountAfterInsert
  <2> QED BY <2>1, <2>2
<1>4. count' \in Nat /\ count' <= count + 1
  BY <1>0 DEF CountAfterInsert
<1>5. Structure' /\ Load' /\ Rehash'
  BY <1>0, <1>2, <1>3, <1>4 DEF IInv, Structure, Load, Rehash
<1>6. entries' \in ArrayOf(capacity)
  BY <1>0, <1>2 DEF WellFormed
<1>7. TypeOK'
  BY <1>0, <1>4, <1>6, TableAssumption DEF IInv, TypeOK, NoPend
<1> QED BY <1>5, <1>7 DEF IInv

\* Replacing the array by the larger one.
LEMMA RehashEndIInv == IInv /\ RehashEnd => IInv'
<1> SUFFICES ASSUME IInv, RehashEnd PROVE IInv'
  OBVIOUS
<1>0. /\ pc = "rehash" /\ pc' = "insert" /\ idx = capacity /\ idx' = 0
      /\ entries' = newEntries /\ capacity' = Grow(capacity) /\ newEntries' = EmptyArray(0)
      /\ UNCHANGED <<count, pend, white, back>>
      /\ capacity \in Nat /\ count \in Nat
  BY DEF IInv, TypeOK, RehashEnd
<1>1. /\ WellFormed(newEntries, Grow(capacity))
      /\ count = Cardinality(Used(newEntries)) /\ count <= capacity
  BY <1>0 DEF IInv, Rehash
<1>2. /\ Grow(capacity) \in Nat /\ Grow(capacity) >= MinCapacity
      /\ 4 * (capacity + 1) <= 3 * Grow(capacity)
  BY <1>0, GrowGrows DEF IInv, Structure
<1>3. 4 * (count + 1) <= 3 * Grow(capacity) /\ 4 * count <= 3 * Grow(capacity)
  BY <1>0, <1>1, <1>2
<1>4. Structure' /\ Load' /\ Rehash'
  BY <1>0, <1>1, <1>2, <1>3 DEF Structure, Load, Rehash
<1>5. TypeOK'
  <2>1. entries' \in ArrayOf(capacity')
    BY <1>0, <1>1 DEF WellFormed
  <2>2. EmptyArray(0) \in ArrayOf(0)
    BY EmptyArrayIsEmpty
  <2> QED BY <1>0, <1>2, <2>1, <2>2 DEF IInv, TypeOK
<1> QED BY <1>4, <1>5 DEF IInv

\* Allocating the new array: all its slots are empty.
LEMMA RehashBeginIInv == IInv /\ RehashBegin => IInv'
<1> SUFFICES ASSUME IInv, RehashBegin PROVE IInv'
  OBVIOUS
<1> DEFINE g == Grow(capacity)
<1>0. /\ pc = "alloc" /\ pc' = "rehash" /\ count' = 0 /\ idx' = 0
      /\ newEntries' = EmptyArray(g)
      /\ UNCHANGED <<capacity, entries, pend, white, back>>
      /\ capacity \in Nat
  BY DEF IInv, TypeOK, RehashBegin
<1>1. g \in Nat
  BY <1>0, GrowGrows DEF IInv, Structure
<1> HIDE DEF g
<1>2. /\ newEntries' \in ArrayOf(g) /\ WellFormed(newEntries', g)
      /\ count' = Cardinality(Used(newEntries'))
      /\ \A i \in DOMAIN newEntries' : IsEmpty(newEntries'[i])
  BY <1>0, <1>1, EmptyArrayIsEmpty
<1>3. Rehash'
  <2>1. \A i \in 0..(idx' - 1) : FALSE
    BY <1>0
  <2>2. g = Grow(capacity')
    BY <1>0 DEF g
  <2>3. capacity' > 0 => HasEmpty(entries')
    BY <1>0, TableHasRoom DEF HasEmpty
  <2> QED BY <1>0, <1>2, <2>1, <2>2, <2>3 DEF Rehash, IsEmpty
<1>4. Structure' /\ Load'
  BY <1>0 DEF IInv, Structure, Load
<1>5. TypeOK'
  BY <1>0, <1>2 DEF IInv, TypeOK, g
<1> QED BY <1>3, <1>4, <1>5 DEF IInv

\* tableDelete, from a caller or from tableRemoveWhite.
LEMMA BuryIInv ==
  ASSUME IInv, pc # "rehash", pc' # "rehash", pc' # "insert",
         NEW k \in Keys, entries' = AfterDelete(k),
         UNCHANGED <<capacity, count>>
  PROVE  Structure' /\ Load' /\ Rehash' /\ entries' \in ArrayOf(capacity')
<1>1. /\ WellFormed(AfterDelete(k), capacity)
      /\ Used(AfterDelete(k)) = Used(entries)
  BY DeleteKeeps
<1> QED BY <1>1 DEF IInv, Structure, Load, Rehash, WellFormed

\* Every step preserves the invariant.
LEMMA NextIInv == IInv /\ [Next]_vars => IInv'
<1> SUFFICES ASSUME IInv, [Next]_vars PROVE IInv'
  OBVIOUS
<1>1. ASSUME NEW k \in Keys, NEW v \in Values, SetBegin(k, v) PROVE IInv'
  <2>1. TypeOK'
    BY <1>1, TableAssumption DEF IInv, TypeOK, SetBegin
  <2>2. Structure' /\ Rehash'
    BY <1>1 DEF IInv, Structure, Rehash, SetBegin
  <2>3. Load'
    BY <1>1 DEF IInv, TypeOK, Load, SetBegin, NeedsGrow
  <2> QED BY <2>1, <2>2, <2>3 DEF IInv
<1>2. ASSUME NEW k \in Keys, Get(k) PROVE IInv'
  BY <1>2 DEF Get, IInv, TypeOK, Structure, Load, Rehash
<1>3. ASSUME NEW k \in Keys, Delete(k) PROVE IInv'
  <2>1. Structure' /\ Load' /\ Rehash' /\ entries' \in ArrayOf(capacity')
    BY <1>3, BuryIInv DEF Delete
  <2>2. TypeOK'
    BY <1>3, <2>1 DEF Delete, IInv, TypeOK
  <2> QED BY <2>1, <2>2 DEF IInv
<1>4. ASSUME NEW k \in Keys, FindString(k) PROVE IInv'
  BY <1>4 DEF FindString, IInv, TypeOK, Structure, Load, Rehash
<1>5. ASSUME NEW W \in SUBSET Keys, RemoveWhiteBegin(W) PROVE IInv'
  <2>1. Structure' /\ Load' /\ Rehash'
    BY <1>5 DEF RemoveWhiteBegin, IInv, Structure, Load, Rehash
  <2>2. TypeOK'
    BY <1>5 DEF RemoveWhiteBegin, IInv, TypeOK
  <2> QED BY <2>1, <2>2 DEF IInv
<1>6. CASE RehashBegin
  BY <1>6, RehashBeginIInv
<1>7. CASE RehashStep
  BY <1>7, RehashStepIInv
<1>8. CASE RehashEnd
  BY <1>8, RehashEndIInv
<1>9. CASE Insert
  BY <1>9, InsertIInv
<1>10. CASE RemoveWhiteStep
  <2>0. /\ pc = "white" /\ idx \in 0..(capacity - 1) /\ idx' = idx + 1
        /\ UNCHANGED <<pc, capacity, count, pend, newEntries, white, back>>
        /\ capacity \in Nat /\ white \subseteq Keys
    BY <1>10 DEF RemoveWhiteStep, IInv, TypeOK
  <2>1. Structure' /\ Load' /\ Rehash' /\ entries' \in ArrayOf(capacity')
    <3>1. CASE entries[idx].key \in white
      BY <1>10, <2>0, <3>1, BuryIInv DEF RemoveWhiteStep
    <3>2. CASE entries[idx].key \notin white
      BY <1>10, <2>0, <3>2 DEF RemoveWhiteStep, IInv, TypeOK, Structure, Load, Rehash
    <3> QED BY <3>1, <3>2
  <2>2. TypeOK'
    BY <2>0, <2>1 DEF IInv, TypeOK
  <2> QED BY <2>1, <2>2 DEF IInv
<1>11. CASE RemoveWhiteEnd
  <2>1. Structure' /\ Load' /\ Rehash'
    BY <1>11 DEF RemoveWhiteEnd, IInv, TypeOK, Structure, Load, Rehash
  <2>2. TypeOK'
    BY <1>11 DEF RemoveWhiteEnd, IInv, TypeOK
  <2> QED BY <2>1, <2>2 DEF IInv
<1>12. CASE Free
  <2>1. capacity' = 0 /\ count' = 0 /\ entries' = EmptyArray(0) /\ pc' = "idle"
    BY <1>12 DEF Free
  <2>2. /\ EmptyArray(0) \in ArrayOf(0) /\ WellFormed(EmptyArray(0), 0)
        /\ Cardinality(Used(EmptyArray(0))) = 0
    BY EmptyArrayIsEmpty
  <2>3. Structure' /\ Load' /\ Rehash'
    BY <2>1, <2>2 DEF Structure, Load, Rehash
  <2>4. TypeOK'
    BY <1>12, <2>1, <2>2 DEF Free, IInv, TypeOK
  <2> QED BY <2>3, <2>4 DEF IInv
<1>13. CASE UNCHANGED vars
  BY <1>13 DEF vars, IInv, TypeOK, Structure, Load, Rehash
<1> QED BY <1>1, <1>2, <1>3, <1>4, <1>5, <1>6, <1>7, <1>8, <1>9, <1>10, <1>11, <1>12, <1>13
        DEF Next

-----------------------------------------------------------------------------
(* Theorems *)

\* The inductive invariant holds of the table.
LEMMA TableInvariant == Spec => []IInv
<1>1. Init => IInv
  BY InitIInv
<1>2. IInv /\ [Next]_vars => IInv'
  BY NextIInv
<1> QED BY <1>1, <1>2, PTL DEF Spec

\* Type correctness: in particular no probe, copy or deletion ever leaves its array.
THEOREM TableTypeCorrect == Spec => []TypeOK
<1>1. IInv => TypeOK
  BY DEF IInv
<1> QED BY <1>1, TableInvariant, PTL

\* Every probe of findEntry and tableFindString ends, in the table and in the
\* array that adjustCapacity fills, because one slot is always empty.
LEMMA IInvProbeEnds == IInv => ProbeEnds
<1> SUFFICES ASSUME IInv PROVE ProbeEnds
  OBVIOUS
<1>0. capacity \in Nat /\ entries \in ArrayOf(capacity) /\ count \in Nat
  BY DEF IInv, TypeOK
<1>1. ASSUME pc = "rehash" PROVE capacity < Grow(capacity) /\ HasEmpty(newEntries)
                                /\ newEntries \in ArrayOf(Grow(capacity))
                                /\ Grow(capacity) \in Nat
  <2>1. Grow(capacity) \in Nat /\ capacity < Grow(capacity)
    BY <1>0, GrowGrows DEF IInv, Structure
  <2>2. Cardinality(Used(newEntries)) < Grow(capacity) /\ newEntries \in ArrayOf(Grow(capacity))
    BY <1>0, <1>1, <2>1 DEF IInv, Rehash, TypeOK
  <2> QED BY <2>1, <2>2, RoomLeft
<1>2. ASSUME capacity > 0, NEW k \in Keys PROVE Stops(entries, capacity, k) # {}
  <2>1. CASE pc # "rehash"
    BY <1>0, <1>2, <2>1, TableHasRoom, EmptyStops
  <2>2. CASE pc = "rehash"
    <3>1. HasEmpty(entries)
      BY <1>2, <2>2 DEF IInv, Rehash
    <3> QED BY <1>0, <1>2, <3>1, EmptyStops
  <2> QED BY <2>1, <2>2
<1>3. ASSUME pc = "rehash", NEW k \in Keys PROVE Stops(newEntries, Grow(capacity), k) # {}
  <2>1. Grow(capacity) > 0
    BY <1>0, <1>1, <1>3
  <2> QED BY <1>1, <1>3, <2>1, EmptyStops
<1> QED BY <1>2, <1>3 DEF ProbeEnds

\* ProbeEnds for every table: no lookup of table.c loops forever.
THEOREM TableProbeEnds == Spec => []ProbeEnds
BY IInvProbeEnds, TableInvariant, PTL

\* findEntry leads from every stored key to its slot, whatever was deleted.
THEOREM TableKeysFindable == Spec => []KeysFindable
<1>1. ASSUME IInv PROVE KeysFindable
  <2>1. ASSUME NEW cap \in Nat, NEW ent, WellFormed(ent, cap) PROVE Findable(ent, cap)
    <3>1. ASSUME NEW i \in Live(ent) PROVE FindEntry(ent, cap, ent[i].key) = i
      <4>1. i \in 0..(cap - 1) /\ ent[i].key \in Keys
        BY <2>1, <3>1 DEF WellFormed, ArrayOf, Live, Entry
      <4> QED BY <2>1, <4>1, FindPresent
    <3> QED BY <3>1 DEF Findable
  <2>2. capacity \in Nat /\ Grow(capacity) \in Nat
    BY <1>1, TableAssumption DEF IInv, TypeOK, Grow
  <2> QED BY <1>1, <2>1, <2>2 DEF IInv, Structure, Rehash, KeysFindable
<1> QED BY <1>1, TableInvariant, PTL

\* The count of the table is exact at all times.
THEOREM TableCountExact == Spec => []CountExact
<1>1. IInv => CountExact
  BY DEF IInv, Load, Rehash, CountExact
<1> QED BY <1>1, TableInvariant, PTL

\* The load factor of tableSet is kept whatever the sequence of calls.
THEOREM TableLoadBounded == Spec => []LoadBounded
<1>1. IInv => LoadBounded
  BY DEF IInv, Load, LoadBounded
<1> QED BY <1>1, TableInvariant, PTL

-----------------------------------------------------------------------------
(* The table implements the map *)

\* What the map of a well-formed array holds.
LEMMA MapOfArray ==
  ASSUME NEW cap \in Nat, NEW ent, WellFormed(ent, cap), NEW k \in Keys
  PROVE  /\ \A i \in 0..(cap - 1) : ent[i].key = k =>
              MapOf(ent)[k] = ent[i].value /\ MapOf(ent)[k] # Absent
         /\ (\A i \in 0..(cap - 1) : ent[i].key # k) => MapOf(ent)[k] = Absent
<1>1. ent \in ArrayOf(cap) /\ DOMAIN ent = 0..(cap - 1) /\ k # NoKey
  BY TableAssumption DEF WellFormed, ArrayOf
<1>2. ASSUME NEW i \in 0..(cap - 1), ent[i].key = k
      PROVE  MapOf(ent)[k] = ent[i].value /\ MapOf(ent)[k] # Absent
  <2>1. (CHOOSE j \in DOMAIN ent : ent[j].key = k) = i
    BY <1>1, <1>2 DEF WellFormed, Unique
  <2>2. MapOf(ent)[k] = ent[i].value
    BY <1>1, <1>2, <2>1 DEF MapOf
  <2>3. ent[i].value \in Values \cup {True}
    BY <1>1 DEF ArrayOf, Entry
  <2> QED BY <2>2, <2>3, TableAssumption
<1>3. ASSUME \A i \in 0..(cap - 1) : ent[i].key # k
      PROVE  MapOf(ent)[k] = Absent
  BY <1>1, <1>3 DEF MapOf
<1> QED BY <1>2, <1>3

\* tableFindString finds a key exactly when it is there.
LEMMA FindStringCorrect ==
  ASSUME IInv, pc = "idle", NEW k \in Keys
  PROVE  (/\ count # 0
          /\ entries[Probe(Home(k, capacity), StopAt(entries, capacity, k), capacity)].key = k)
         <=> \E i \in 0..(capacity - 1) : entries[i].key = k
<1> DEFINE s == StopAt(entries, capacity, k)
<1>0. /\ capacity \in Nat /\ count \in Nat /\ entries \in ArrayOf(capacity)
      /\ WellFormed(entries, capacity) /\ k # NoKey /\ 4 * count <= 3 * capacity
  BY TableAssumption DEF IInv, TypeOK, Structure, Load
<1>1. ASSUME count # 0, entries[At(k, s, capacity)].key = k
      PROVE  \E i \in 0..(capacity - 1) : entries[i].key = k
  <2>1. capacity > 0
    BY <1>0, <1>1
  <2>2. s \in 0..(capacity - 1)
    BY <1>0, <2>1, TableHasRoom, EmptyStops, StopAtStops
  <2>3. At(k, s, capacity) \in 0..(capacity - 1)
    BY <1>0, <2>1, <2>2, HomeInTable, ProbeInTable DEF At
  <2> QED BY <1>1, <2>3
<1>2. ASSUME NEW i \in 0..(capacity - 1), entries[i].key = k
      PROVE  count # 0 /\ entries[At(k, s, capacity)].key = k
  <2>0. capacity > 0
    BY <1>0
  <2>1. Lookup(k).key = k /\ FindEntry(entries, capacity, k) = i
    BY <1>2, LookupCorrect
  <2>2. count # 0
    BY <1>0, <2>1 DEF Lookup, EmptyEntry
  <2>3. /\ s \in 0..(capacity - 1)
        /\ IsEmpty(entries[At(k, s, capacity)]) \/ entries[At(k, s, capacity)].key = k
        /\ \A d \in 0..(s - 1) : entries[At(k, d, capacity)].key # k
    BY <1>0, <2>0, TableHasRoom, EmptyStops, StopAtStops
  <2>4. PICK d \in 0..(capacity - 1) : At(k, d, capacity) = i
    BY <1>0, <2>0, HomeInTable, ProbeOnto DEF At
  <2>5. s <= d
    BY <1>2, <2>3, <2>4
  <2>6. ~IsEmpty(entries[At(k, s, capacity)])
    <3>1. CASE s = d
      BY <1>0, <1>2, <2>4, <3>1 DEF IsEmpty
    <3>2. CASE s # d
      <4>1. s \in 0..(d - 1)
        BY <2>3, <2>5, <3>2
      <4>2. DOMAIN entries = 0..(capacity - 1)
        BY <1>0 DEF ArrayOf
      <4> QED BY <1>0, <1>2, <2>4, <4>1, <4>2 DEF WellFormed, NoGap
    <3> QED BY <3>1, <3>2
  <2> QED BY <2>2, <2>3, <2>6
<1> QED BY <1>1, <1>2 DEF At

\* A deletion removes one key from the map and no other.
LEMMA DeleteMap ==
  ASSUME IInv, pc # "rehash", NEW k \in Keys
  PROVE  MapOf(AfterDelete(k)) = [Contents EXCEPT ![k] = Absent]
<1>1. /\ WellFormed(AfterDelete(k), capacity)
      /\ \A i \in 0..(capacity - 1) :
           AfterDelete(k)[i] = IF entries[i].key = k THEN Tombstone ELSE entries[i]
  BY DeleteKeeps
<1>2. capacity \in Nat /\ WellFormed(entries, capacity) /\ k # NoKey
  BY TableAssumption DEF IInv, TypeOK, Structure
<1>3. Tombstone.key = NoKey /\ NoKey \notin Keys
  BY TableAssumption DEF Tombstone
<1>4. ASSUME NEW q \in Keys
      PROVE  MapOf(AfterDelete(k))[q] = IF q = k THEN Absent ELSE MapOf(entries)[q]
  <2>1. CASE q = k
    <3>1. \A i \in 0..(capacity - 1) : AfterDelete(k)[i].key # q
      BY <1>1, <1>2, <1>3, <2>1
    <3> QED BY <1>1, <1>2, <2>1, <3>1, MapOfArray
  <2>2. CASE q # k /\ \E i \in 0..(capacity - 1) : entries[i].key = q
    <3>1. PICK i \in 0..(capacity - 1) : entries[i].key = q
      BY <2>2
    <3>2. AfterDelete(k)[i] = entries[i]
      BY <1>1, <2>2, <3>1
    <3>3. MapOf(AfterDelete(k))[q] = entries[i].value
      BY <1>1, <1>2, <3>1, <3>2, MapOfArray
    <3>4. MapOf(entries)[q] = entries[i].value
      BY <1>2, <3>1, MapOfArray
    <3> QED BY <2>2, <3>3, <3>4
  <2>3. CASE q # k /\ \A i \in 0..(capacity - 1) : entries[i].key # q
    <3>1. \A i \in 0..(capacity - 1) : AfterDelete(k)[i].key # q
      BY <1>1, <1>3, <2>3
    <3>2. MapOf(AfterDelete(k))[q] = Absent
      BY <1>1, <1>2, <3>1, MapOfArray
    <3>3. MapOf(entries)[q] = Absent
      BY <1>2, <2>3, MapOfArray
    <3> QED BY <2>3, <3>2, <3>3
  <2> QED BY <2>1, <2>2, <2>3
<1> QED BY <1>4 DEF MapOf, Contents

\* The insertion binds the key and changes nothing else.
LEMMA InsertMap ==
  ASSUME IInv, Insert
  PROVE  /\ Contents' = [Contents EXCEPT ![pend.key] = pend.value]
         /\ result'.ok <=> Contents[pend.key] = Absent
<1> DEFINE k == pend.key
           i == FindEntry(entries, capacity, k)
           new == [entries EXCEPT ![i] = pend]
<1>0. /\ pc = "insert" /\ capacity \in Nat /\ capacity > 0
      /\ WellFormed(entries, capacity) /\ k \in Keys /\ k # NoKey /\ pend \in Entry
      /\ entries' = new /\ entries \in ArrayOf(capacity)
      /\ result'.ok = (entries[i].key = NoKey)
  BY TableAssumption DEF IInv, TypeOK, Structure, Load, Insert, Entry
<1>1. HasEmpty(entries)
  BY <1>0, TableHasRoom
<1>2. /\ i \in 0..(capacity - 1) /\ entries[i].key \in {NoKey, k}
      /\ (\E j \in 0..(capacity - 1) : entries[j].key = k) => entries[i].key = k
      /\ WellFormed(new, capacity)
  BY <1>0, <1>1, StoreWellFormed
<1>3. \A j \in 0..(capacity - 1) : new[j] = IF j = i THEN pend ELSE entries[j]
  BY <1>0, <1>2 DEF ArrayOf
<1> HIDE DEF i, new
<1>4. ASSUME NEW q \in Keys
      PROVE  MapOf(new)[q] = IF q = k THEN pend.value ELSE MapOf(entries)[q]
  <2>1. CASE q = k
    <3>1. MapOf(new)[k] = new[i].value
      BY <1>0, <1>2, <1>3, MapOfArray
    <3> QED BY <1>2, <1>3, <2>1, <3>1
  <2>2. CASE q # k /\ \E j \in 0..(capacity - 1) : entries[j].key = q
    <3>1. PICK j \in 0..(capacity - 1) : entries[j].key = q
      BY <2>2
    <3>2. j # i
      BY <1>2, <2>2, <3>1, TableAssumption
    <3>3. new[j] = entries[j]
      BY <1>3, <3>2
    <3>4. MapOf(new)[q] = entries[j].value
      BY <1>0, <1>2, <3>1, <3>3, MapOfArray
    <3>5. MapOf(entries)[q] = entries[j].value
      BY <1>0, <3>1, MapOfArray
    <3> QED BY <2>2, <3>4, <3>5
  <2>3. CASE q # k /\ \A j \in 0..(capacity - 1) : entries[j].key # q
    <3>1. \A j \in 0..(capacity - 1) : new[j].key # q
      BY <1>3, <2>3
    <3>2. MapOf(new)[q] = Absent
      BY <1>0, <1>2, <3>1, MapOfArray
    <3>3. MapOf(entries)[q] = Absent
      BY <1>0, <2>3, MapOfArray
    <3> QED BY <2>3, <3>2, <3>3
  <2> QED BY <2>1, <2>2, <2>3
<1>5. Contents' = [Contents EXCEPT ![k] = pend.value]
  <2>1. Contents' = MapOf(new)
    BY <1>0 DEF Contents
  <2>2. MapOf(new) = [MapOf(entries) EXCEPT ![k] = pend.value]
    <3>1. \A ent : MapOf(ent) = [q \in Keys |-> MapOf(ent)[q]]
      BY DEF MapOf
    <3> HIDE DEF k
    <3> QED BY <1>4, <3>1
  <2> QED BY <2>1, <2>2 DEF Contents
<1>6. (entries[i].key = NoKey) <=> Contents[k] = Absent
  BY <1>0, <1>2, MapOfArray DEF Contents
<1> QED BY <1>0, <1>5, <1>6

\* The new array stands for the same map as the old one: growing is invisible.
LEMMA RehashMap ==
  ASSUME IInv, RehashEnd
  PROVE  Contents' = Contents
<1>0. /\ pc = "rehash" /\ idx = capacity /\ entries' = newEntries /\ capacity \in Nat
      /\ WellFormed(entries, capacity) /\ WellFormed(newEntries, Grow(capacity))
      /\ Grow(capacity) \in Nat
  BY TableAssumption DEF IInv, TypeOK, Structure, Rehash, RehashEnd, Grow
<1>1. /\ \A j \in 0..(Grow(capacity) - 1) : newEntries[j].key # NoKey =>
           \E i \in 0..(capacity - 1) : entries[i] = newEntries[j]
      /\ \A i \in 0..(capacity - 1) : entries[i].key # NoKey =>
           \E j \in 0..(Grow(capacity) - 1) : newEntries[j] = entries[i]
  <2>1. DOMAIN newEntries = 0..(Grow(capacity) - 1)
    BY <1>0 DEF WellFormed, ArrayOf
  <2> QED BY <1>0, <2>1 DEF IInv, Rehash
<1>2. ASSUME NEW q \in Keys PROVE MapOf(newEntries)[q] = MapOf(entries)[q]
  <2>0. q # NoKey
    BY TableAssumption
  <2>1. CASE \E i \in 0..(capacity - 1) : entries[i].key = q
    <3>1. PICK i \in 0..(capacity - 1) : entries[i].key = q
      BY <2>1
    <3>2. PICK j \in 0..(Grow(capacity) - 1) : newEntries[j] = entries[i]
      BY <1>1, <2>0, <3>1
    <3>3. MapOf(newEntries)[q] = newEntries[j].value
      BY <1>0, <3>1, <3>2, MapOfArray
    <3>4. MapOf(entries)[q] = entries[i].value
      BY <1>0, <3>1, MapOfArray
    <3> QED BY <3>2, <3>3, <3>4
  <2>2. CASE \A i \in 0..(capacity - 1) : entries[i].key # q
    <3>1. \A j \in 0..(Grow(capacity) - 1) : newEntries[j].key # q
      BY <1>1, <2>0, <2>2
    <3> QED BY <1>0, <2>2, <3>1, MapOfArray
  <2> QED BY <2>1, <2>2
<1> QED BY <1>0, <1>2 DEF MapOf, Contents

\* Every step of the table is a step of the map, or leaves it alone.
LEMMA StepImplementsDict == IInv /\ [Next]_vars => [D!Next]_(D!dvars)
<1> SUFFICES ASSUME IInv, [Next]_vars PROVE [D!Next]_(D!dvars)
  OBVIOUS
<1>0. /\ capacity \in Nat /\ WellFormed(entries, capacity)
      /\ \A k \in Keys : k # NoKey
  BY TableAssumption DEF IInv, TypeOK, Structure
<1>1. ASSUME entries' = entries, result' = result PROVE UNCHANGED D!dvars
  BY <1>1 DEF D!dvars, Contents
<1>2. ASSUME NEW k \in Keys
      PROVE  D!Has(k) <=> \E i \in 0..(capacity - 1) : entries[i].key = k
  BY <1>0, MapOfArray DEF D!Has, Contents
<1>3. ASSUME NEW k \in Keys, pc # "rehash"
      PROVE  /\ (Lookup(k).key # NoKey) <=> D!Has(k)
             /\ D!Has(k) => Lookup(k).value = Contents[k]
  <2>1. ASSUME D!Has(k) PROVE Lookup(k).key # NoKey /\ Lookup(k).value = Contents[k]
    <3>1. PICK i \in 0..(capacity - 1) : entries[i].key = k
      BY <1>2, <2>1
    <3> QED BY <1>0, <1>3, <3>1, LookupCorrect, MapOfArray DEF Contents
  <2>2. ASSUME ~D!Has(k) PROVE Lookup(k).key = NoKey
    BY <1>2, <1>3, <2>2, LookupCorrect
  <2> QED BY <2>1, <2>2
<1>4. ASSUME NEW k \in Keys, Get(k) PROVE D!Get(k)
  <2>1. entries' = entries /\ pc = "idle"
    BY <1>4 DEF Get
  <2>2. Contents' = Contents
    BY <2>1 DEF Contents
  <2>3. (Lookup(k).key # NoKey) <=> D!Has(k)
    BY <1>3, <2>1
  <2>4. D!Has(k) => Lookup(k).value = Contents[k]
    BY <1>3, <2>1
  <2>5. (Lookup(k).key # NoKey) = D!Has(k)
    BY <2>3 DEF D!Has
  <2>6. result' = [op |-> "get", key |-> k, ok |-> D!Has(k),
                   value |-> IF D!Has(k) THEN Contents[k] ELSE Nil]
    <3>1. CASE D!Has(k)
      BY <1>4, <2>4, <2>5, <3>1 DEF Get
    <3>2. CASE ~D!Has(k)
      BY <1>4, <2>5, <3>2 DEF Get
    <3> QED BY <3>1, <3>2
  <2> QED BY <2>2, <2>6 DEF D!Get
<1>5. ASSUME NEW k \in Keys, Delete(k) PROVE D!Delete(k)
  <2>1. entries' = AfterDelete(k) /\ pc = "idle"
    BY <1>5 DEF Delete
  <2>2. Contents' = [Contents EXCEPT ![k] = Absent]
    BY <2>1, DeleteMap DEF Contents
  <2>3. (Lookup(k).key # NoKey) <=> D!Has(k)
    BY <1>3, <2>1
  <2>4. (Lookup(k).key # NoKey) = D!Has(k)
    BY <2>3 DEF D!Has
  <2>5. result' = [op |-> "delete", key |-> k, ok |-> D!Has(k)]
    BY <1>5, <2>4 DEF Delete
  <2> QED BY <2>2, <2>5 DEF D!Delete
<1>6. ASSUME NEW k \in Keys, FindString(k) PROVE D!FindString(k)
  <2>1. entries' = entries /\ pc = "idle"
    BY <1>6 DEF FindString
  <2>2. Contents' = Contents
    BY <2>1 DEF Contents
  <2>3. (/\ count # 0
         /\ entries[Probe(Home(k, capacity), StopAt(entries, capacity, k), capacity)].key = k)
        <=> D!Has(k)
    BY <1>2, <2>1, FindStringCorrect
  <2>4. (/\ count # 0
         /\ entries[Probe(Home(k, capacity), StopAt(entries, capacity, k), capacity)].key = k)
        = D!Has(k)
    BY <2>3 DEF D!Has
  <2>5. result' = [op |-> "find", key |-> k, ok |-> D!Has(k)]
    BY <1>6, <2>4 DEF FindString
  <2> QED BY <2>2, <2>5 DEF D!FindString
<1>7. ASSUME Insert PROVE D!Set(pend.key, pend.value) /\ pend.key \in Keys /\ pend.value \in Values
  <2>1. /\ Contents' = [Contents EXCEPT ![pend.key] = pend.value]
        /\ result'.ok <=> Contents[pend.key] = Absent
    BY <1>7, InsertMap
  <2>2. result' = [op |-> "set", key |-> pend.key,
                   ok |-> entries[FindEntry(entries, capacity, pend.key)].key = NoKey]
    BY <1>7 DEF Insert
  <2>3. pend.key \in Keys /\ pend.value \in Values
    BY <1>7 DEF Insert, IInv, TypeOK
  <2> QED BY <2>1, <2>2, <2>3 DEF D!Set, D!Has
<1>8. ASSUME RemoveWhiteStep PROVE UNCHANGED D!dvars \/ \E k \in Keys : D!Forget(k)
  <2>1. pc = "white" /\ result' = result /\ white \subseteq Keys
    BY <1>8 DEF RemoveWhiteStep, IInv, TypeOK
  <2>2. CASE entries[idx].key \in white
    <3>1. entries' = AfterDelete(entries[idx].key) /\ entries[idx].key \in Keys
      BY <1>8, <2>1, <2>2 DEF RemoveWhiteStep
    <3>2. Contents' = [Contents EXCEPT ![entries[idx].key] = Absent]
      BY <2>1, <3>1, DeleteMap DEF Contents
    <3> QED BY <2>1, <3>1, <3>2 DEF D!Forget
  <2>3. CASE entries[idx].key \notin white
    BY <1>1, <1>8, <2>1, <2>3 DEF RemoveWhiteStep
  <2> QED BY <2>2, <2>3
<1>9. ASSUME Free PROVE D!Clear
  <2>1. entries' = EmptyArray(0) /\ result' = result
    BY <1>9 DEF Free
  <2>2. MapOf(EmptyArray(0)) = [k \in Keys |-> Absent]
    BY <1>0, EmptyArrayIsEmpty DEF MapOf, IsEmpty
  <2> QED BY <2>1, <2>2 DEF D!Clear, Contents
<1>10. ASSUME RehashEnd PROVE UNCHANGED D!dvars
  BY <1>10, RehashMap DEF RehashEnd, D!dvars
<1>11. ASSUME NEW k \in Keys, NEW v \in Values, SetBegin(k, v) PROVE UNCHANGED D!dvars
  BY <1>1, <1>11 DEF SetBegin
<1>12. ASSUME NEW W \in SUBSET Keys, RemoveWhiteBegin(W) PROVE UNCHANGED D!dvars
  BY <1>1, <1>12 DEF RemoveWhiteBegin
<1>13. ASSUME RehashBegin \/ RehashStep \/ RemoveWhiteEnd \/ UNCHANGED vars
       PROVE  UNCHANGED D!dvars
  BY <1>1, <1>13 DEF RehashBegin, RehashStep, RemoveWhiteEnd, vars
<1> QED BY <1>4, <1>5, <1>6, <1>7, <1>8, <1>9, <1>10, <1>11, <1>12, <1>13 DEF Next, D!Next

\* Refinement: for every hash function and every sequence of calls, whatever
\* the collector removes, the table behaves as a map.
THEOREM TableImplementsDict == Spec => ImplementsDict
<1>1. Init => D!Init
  <2>1. ASSUME Init PROVE Contents = [k \in Keys |-> Absent]
    <3>1. entries = EmptyArray(0) /\ \A k \in Keys : k # NoKey
      BY <2>1, TableAssumption DEF Init
    <3> QED BY <3>1, EmptyArrayIsEmpty DEF Contents, MapOf, IsEmpty
  <2> QED BY <2>1 DEF Init, D!Init
<1>2. IInv /\ [Next]_vars => [D!Next]_(D!dvars)
  BY StepImplementsDict
<1> QED BY <1>1, <1>2, TableInvariant, PTL DEF Spec, ImplementsDict, D!Spec

-----------------------------------------------------------------------------
(* tableRemoveWhite is exact *)

\* While tableRemoveWhite runs, the entries it has passed hold no white key.
Swept == pc = "white" => \A i \in 0..(idx - 1) : entries[i].key \notin white

\* A deletion brings no key back, so that what was swept stays swept.
LEMMA NextSwept == IInv /\ Swept /\ [Next]_vars => Swept'
<1> SUFFICES ASSUME IInv, Swept, [Next]_vars, pc' = "white"
             PROVE  \A i \in 0..(idx' - 1) : entries'[i].key \notin white'
  BY DEF Swept
<1>0. /\ capacity \in Nat /\ idx \in 0..capacity /\ white \subseteq Keys /\ NoKey \notin Keys
      /\ back \in {"idle", "alloc"} /\ Tombstone.key = NoKey
  BY TableAssumption DEF IInv, TypeOK, Tombstone
<1>1. ASSUME NEW W \in SUBSET Keys, RemoveWhiteBegin(W)
      PROVE  \A i \in 0..(idx' - 1) : entries'[i].key \notin white'
  BY <1>1 DEF RemoveWhiteBegin
<1>2. CASE RemoveWhiteStep
  <2>0. /\ pc = "white" /\ idx \in 0..(capacity - 1) /\ idx' = idx + 1 /\ white' = white
        /\ \A i \in 0..(idx - 1) : entries[i].key \notin white
    BY <1>0, <1>2 DEF RemoveWhiteStep, Swept
  <2>1. CASE entries[idx].key \in white
    <3>1. entries' = AfterDelete(entries[idx].key) /\ entries[idx].key \in Keys
      BY <1>0, <1>2, <2>1 DEF RemoveWhiteStep
    <3>2. \A i \in 0..(capacity - 1) :
            entries'[i] = IF entries[i].key = entries[idx].key THEN Tombstone ELSE entries[i]
      BY <2>0, <3>1, DeleteKeeps
    <3> QED BY <1>0, <2>0, <3>2
  <2>2. CASE entries[idx].key \notin white
    BY <1>0, <1>2, <2>0, <2>2 DEF RemoveWhiteStep
  <2> QED BY <2>1, <2>2
<1>3. CASE UNCHANGED vars
  BY <1>3 DEF vars, Swept
<1>4. ASSUME NEW k \in Keys, NEW v \in Values, SetBegin(k, v) PROVE FALSE
  BY <1>4 DEF SetBegin
<1>5. ASSUME NEW k \in Keys, Get(k) \/ Delete(k) \/ FindString(k) PROVE FALSE
  BY <1>5 DEF Get, Delete, FindString
<1>6. ASSUME RehashBegin \/ RehashStep \/ RehashEnd \/ Insert \/ RemoveWhiteEnd \/ Free
      PROVE  FALSE
  BY <1>0, <1>6 DEF RehashBegin, RehashStep, RehashEnd, Insert, RemoveWhiteEnd, Free
<1> QED BY <1>1, <1>2, <1>3, <1>4, <1>5, <1>6 DEF Next

\* Every step of tableRemoveWhite forgets white keys only, and the last one
\* finds none left.
LEMMA RemoveWhiteStepIsExact ==
  ASSUME IInv, Swept, [Next]_vars, pc = "white"
  PROVE  /\ \A k \in Keys \ white : Contents'[k] = Contents[k]
         /\ pc' # "white" => \A k \in white : Contents[k] = Absent
<1>0. /\ capacity \in Nat /\ WellFormed(entries, capacity) /\ white \subseteq Keys
  BY DEF IInv, TypeOK, Structure
<1>1. CASE RemoveWhiteStep
  <2>1. CASE entries[idx].key \in white
    <3>1. entries' = AfterDelete(entries[idx].key) /\ entries[idx].key \in Keys /\ pc' = "white"
      BY <1>0, <1>1, <2>1 DEF RemoveWhiteStep
    <3>2. Contents' = [Contents EXCEPT ![entries[idx].key] = Absent]
      BY <3>1, DeleteMap DEF Contents
    <3>3. DOMAIN Contents = Keys
      BY DEF Contents, MapOf
    <3> QED BY <2>1, <3>1, <3>2, <3>3
  <2>2. CASE entries[idx].key \notin white
    BY <1>1, <2>2 DEF RemoveWhiteStep, Contents
  <2> QED BY <2>1, <2>2
<1>2. CASE RemoveWhiteEnd
  <2>1. entries' = entries /\ \A i \in 0..(capacity - 1) : entries[i].key \notin white
    BY <1>2 DEF RemoveWhiteEnd, Swept
  <2>2. ASSUME NEW k \in white PROVE Contents[k] = Absent
    BY <1>0, <2>1, MapOfArray DEF Contents
  <2> QED BY <2>1, <2>2 DEF Contents
<1>3. CASE UNCHANGED vars
  BY <1>3 DEF vars, Contents
<1>4. ASSUME NEW k \in Keys, NEW v \in Values, SetBegin(k, v) PROVE FALSE
  BY <1>4 DEF SetBegin
<1>5. ASSUME NEW k \in Keys, Get(k) \/ Delete(k) \/ FindString(k) PROVE FALSE
  BY <1>5 DEF Get, Delete, FindString
<1>6. ASSUME NEW W \in SUBSET Keys, RemoveWhiteBegin(W) PROVE FALSE
  BY <1>6 DEF RemoveWhiteBegin
<1>7. ASSUME RehashBegin \/ RehashStep \/ RehashEnd \/ Insert \/ Free PROVE FALSE
  BY <1>7 DEF RehashBegin, RehashStep, RehashEnd, Insert, Free
<1> QED BY <1>1, <1>2, <1>3, <1>4, <1>5, <1>6, <1>7 DEF Next

\* Weak references: tableRemoveWhite deletes every white string and no other
\* key, also when it was called from the allocation of a growing tableSet.
THEOREM TableRemoveWhiteIsExact == Spec => RemoveWhiteIsExact
<1>1. Init => Swept
  BY DEF Init, Swept
<1>2. IInv /\ Swept /\ [Next]_vars => Swept'
  BY NextSwept
<1>3. Spec => []Swept
  BY <1>1, <1>2, TableInvariant, PTL DEF Spec
<1>4. IInv /\ Swept /\ [Next]_vars =>
        [ /\ pc = "white" => \A k \in Keys \ white : Contents'[k] = Contents[k]
          /\ pc = "white" /\ pc' # "white" => \A k \in white : Contents[k] = Absent ]_vars
  BY RemoveWhiteStepIsExact
<1> QED BY <1>3, <1>4, TableInvariant, PTL DEF Spec, RemoveWhiteIsExact
=============================================================================
