--------------------------- MODULE RcuCslabProofs ---------------------------
(***************************************************************************)
(* The slab, and the generations over it, are correct for every capacity,  *)
(* every set of items, every number of handles and of generations.         *)
(*                                                                         *)
(* First the writer side alone (Cslab): CslabInv is inductive, and the     *)
(* invariants of the slab follow from it.  Its lemmas speak of the         *)
(* operations, not of the client in CslabNext, and serve RcuCslab too.     *)
(*                                                                         *)
(* Then the generations (RcuCslab): RcuInv is inductive, and from it       *)
(* follow the validity of references, the order in which generations end,  *)
(* and that RcuCslab implements GracePeriod; LastInv adds that nothing is  *)
(* destroyed twice or left behind.                                         *)
(***************************************************************************)
EXTENDS RcuCslab, FiniteSetTheorems, TLAPS

----------------------------------------------------------------------------
(***************************************************************************)
(*                            The writer side                              *)
(***************************************************************************)

(***************************************************************************)
(* The least number of a nonempty set of naturals.  Every argument by      *)
(* induction is made with it: the least counterexample cannot exist.       *)
(***************************************************************************)
Less == {ss \in Nat \X Nat : ss[1] < ss[2]}

LEMMA LeastNumber ==
  ASSUME NEW T \in SUBSET Nat, NEW x \in T
  PROVE  \E m \in T : \A n \in T : m <= n
<1>1. Less = OpToRel(<, Nat)
  BY Zenon DEF Less, OpToRel
<1>2. IsWellFoundedOn(Less, Nat)
  BY <1>1, NatLessThanWellFounded, Zenon
<1>3. PICK m \in T : \A y \in T : <<y, m>> \notin Less
  BY <1>2, WFMin
<1>4. \A y \in T : ~(y < m)
  BY <1>3 DEF Less
<1> QED
  BY <1>4

CslabInv == CslabTypeOK /\ FreelistExact /\ CountersExact /\ FlagsSound

\* There are finitely many slots, so their subsets can be counted.
LEMMA SlotsFinite ==
  \A S \in SUBSET Slots : IsFiniteSet(S)
<1>1. 0 \in Int /\ Capacity - 1 \in Int
  BY CapacityAssumption
<1>2. IsFiniteSet(Slots)
  BY <1>1, FS_Interval DEF Slots
<1> QED
  BY <1>2, FS_Subset

\* Adding or removing one slot changes a count of slots by one.
LEMMA CountSlots ==
  ASSUME NEW S \in SUBSET Slots, NEW i \in Slots
  PROVE  /\ Cardinality(S) \in Nat
         /\ i \notin S => Cardinality(S \cup {i}) = Cardinality(S) + 1
         /\ i \in S => /\ Cardinality(S) > 0
                       /\ Cardinality(S \ {i}) = Cardinality(S) - 1
<1>1. IsFiniteSet(S)
  BY SlotsFinite
<1>2. Cardinality(S) \in Nat
  BY <1>1, FS_CardinalityType
<1>3. i \notin S => Cardinality(S \cup {i}) = Cardinality(S) + 1
  BY <1>1, FS_AddElement
<1>4. i \in S => Cardinality(S \ {i}) = Cardinality(S) - 1
  BY <1>1, FS_RemoveElement
<1>5. i \in S => Cardinality(S) > 0
  BY <1>1, <1>2, FS_EmptySet
<1> QED
  BY <1>2, <1>3, <1>4, <1>5

\* An entry is tagged as one of its two fields, and the field has its type.
LEMMA EntryFacts ==
  /\ \A n \in Int : FreeEntry(n) \in Entry /\ FreeEntry(n).tag # "item"
                    /\ FreeEntry(n).next_free = n
  /\ \A v \in Items : ItemEntry(v) \in Entry /\ ItemEntry(v).tag = "item"
                      /\ ItemEntry(v).item = v
  /\ \A e \in Entry : e.tag # "item" => e.next_free \in Int
  /\ \A e \in Entry : e.tag = "item" => e.item \in Items /\ e = ItemEntry(e.item)
BY DEF FreeEntry, ItemEntry, Entry

----------------------------------------------------------------------------
\* insert() takes the head of a correct free list and leaves the rest of it.
LEMMA InsertKeeps ==
  ASSUME CslabInv, NEW v \in Items, insert(v)
  PROVE  CslabInv'
<1> DEFINE f == first_free
<1> USE CapacityAssumption DEF Slots
<1>1. PICK rank \in [FreeSlots -> Slots] : IsRank(rank)
  BY DEF CslabInv, FreelistExact
<1>2. f \in FreeSlots /\ rank[f] = Capacity - allocated - 1
      /\ \A i \in FreeSlots : rank[i] <= rank[f]
  BY <1>1 DEF IsRank, insert
<1>3. f \in Slots /\ ~HasItem(f) /\ f \notin bitmap
  BY <1>2 DEF FreeSlots, CslabInv, FlagsSound
<1>4. /\ table' = [table EXCEPT ![f] = ItemEntry(v)]
      /\ table' \in [Slots -> Entry]
  BY <1>3, EntryFacts DEF insert, CslabInv, CslabTypeOK
<1>5. /\ \A i \in Slots : HasItem(i)' <=> (HasItem(i) \/ i = f)
      /\ \A i \in Slots : i # f => table'[i] = table[i]
  BY <1>3, <1>4, EntryFacts DEF HasItem, CslabInv, CslabTypeOK
<1>6. FreeSlots' = FreeSlots \ {f} /\ ItemSlots' = ItemSlots \cup {f}
  BY <1>3, <1>5 DEF FreeSlots, ItemSlots
<1>7. \A i \in FreeSlots : table[i].next_free \in Int
  BY EntryFacts DEF FreeSlots, HasItem, CslabInv, CslabTypeOK
<1>8. \A i \in FreeSlots' : NextFree(i)' = NextFree(i)
  BY <1>5, <1>6 DEF NextFree, FreeSlots
<1>9. first_free' = NextFree(f)
  BY DEF insert
<1>10. CslabTypeOK'
  <2>1. first_free' \in 0 .. Capacity
    BY <1>1, <1>2, <1>9 DEF IsRank, FreeSlots
  <2>2. frontier' \in 0 .. Capacity
    BY <1>3 DEF insert, BumpFrontier, CslabInv, CslabTypeOK
  <2> QED
    BY <2>1, <2>2, <1>3, <1>4 DEF insert, CslabInv, CslabTypeOK
<1>11. CountersExact'
  <2>1. f \notin ItemSlots /\ ItemSlots \in SUBSET Slots /\ bitmap \in SUBSET Slots
    BY <1>3 DEF ItemSlots, CslabInv, CslabTypeOK
  <2> QED
    BY <2>1, <1>3, <1>6, CountSlots DEF CountersExact, CslabInv, insert
<1>12. FlagsSound'
  <2>1. \A i \in bitmap : i \in Slots
    BY DEF CslabInv, CslabTypeOK
  <2>2. frontier \in Int
    BY DEF CslabInv, CslabTypeOK
  <2>3. f < frontier' /\ frontier' >= frontier
    BY <1>3, <2>2 DEF insert, BumpFrontier
  <2>4. frontier' \in Int
    BY <1>10 DEF CslabTypeOK
  <2> QED
    BY <2>1, <2>2, <2>3, <2>4, <1>5, <1>3 DEF FlagsSound, CslabInv, insert
<1>13. FreelistExact'
  <2>1. PICK r \in [FreeSlots' -> Slots] : \A i \in FreeSlots' : r[i] = rank[i]
    <3>1. [i \in FreeSlots' |-> rank[i]] \in [FreeSlots' -> Slots]
      BY <1>6
    <3> QED
      BY <3>1
  <2>2. \A i, j \in FreeSlots' : r[i] = r[j] => i = j
    BY <2>1, <1>1, <1>6 DEF IsRank
  <2>3. \A i \in FreeSlots' :
          \/ r[i] = 0 /\ NextFree(i)' = Capacity
          \/ /\ r[i] > 0
             /\ NextFree(i)' \in FreeSlots'
             /\ r[NextFree(i)'] = r[i] - 1
    <3> SUFFICES ASSUME NEW i \in FreeSlots'
                 PROVE  \/ rank[i] = 0 /\ NextFree(i) = Capacity
                        \/ /\ rank[i] > 0
                           /\ NextFree(i) \in FreeSlots \ {f}
                           /\ rank[NextFree(i)] = rank[i] - 1
      BY <1>6, <1>8, <2>1
    <3>1. i \in FreeSlots /\ rank[i] \in Int /\ rank[f] \in Int
      BY <1>6, <1>2
    <3> QED
      BY <3>1, <1>1, <1>2 DEF IsRank
  <2>4. \/ FreeSlots' = {} /\ first_free' = Capacity /\ allocated' = Capacity
        \/ /\ first_free' \in FreeSlots'
           /\ r[first_free'] = Capacity - allocated' - 1
           /\ \A i \in FreeSlots' : r[i] <= r[first_free']
    <3>1. allocated \in Int /\ allocated' = allocated + 1
      BY DEF CslabInv, CslabTypeOK, insert
    <3>2. \A i \in FreeSlots : rank[i] \in 0 .. Capacity - 1
      OBVIOUS
    <3>3. CASE rank[f] = 0
      <4>1. FreeSlots = {f}
        BY <3>2, <3>3, <1>1, <1>2 DEF IsRank
      <4>2. NextFree(f) = Capacity
        BY <3>3, <1>1, <1>2 DEF IsRank
      <4> QED
        BY <4>1, <4>2, <3>1, <3>3, <1>2, <1>6, <1>9
    <3>4. CASE rank[f] > 0
      <4>1. NextFree(f) \in FreeSlots /\ rank[NextFree(f)] = rank[f] - 1
        BY <3>4, <1>1, <1>2 DEF IsRank
      <4>2. NextFree(f) # f
        BY <4>1, <3>2, <1>2
      <4>3. first_free' \in FreeSlots' /\ r[first_free'] = rank[f] - 1
        BY <4>1, <4>2, <2>1, <1>6, <1>9
      <4>4. \A i \in FreeSlots' : r[i] # rank[f] /\ r[i] <= rank[f] /\ r[i] \in Int
        BY <2>1, <1>1, <1>2, <1>6, <3>2 DEF IsRank
      <4> QED
        BY <4>3, <4>4, <3>1, <3>2, <1>2
    <3>5. rank[f] \in 0 .. Capacity - 1
      BY <3>2, <1>2
    <3> QED
      BY <3>3, <3>4, <3>5
  <2>5. IsRank(r)'
    BY <2>2, <2>3, <2>4 DEF IsRank
  <2> QED
    BY <2>5 DEF FreelistExact
<1> QED
  BY <1>10, <1>11, <1>12, <1>13 DEF CslabInv

\* mark_removed() touches neither the entries nor the free list.
LEMMA MarkKeeps ==
  ASSUME CslabInv, NEW i \in Slots, mark_removed(i)
  PROVE  CslabInv'
<1>1. bitmap \in SUBSET Slots /\ i \in bitmap
  BY DEF CslabInv, CslabTypeOK, mark_removed
<1>2. /\ in_use' = Cardinality(bitmap')
      /\ in_use' \in Nat
  BY <1>1, CountSlots DEF mark_removed, CslabInv, CountersExact
<1>3. /\ UNCHANGED <<FreeSlots, ItemSlots, first_free, allocated, table>>
      /\ \A j \in Slots : HasItem(j)' = HasItem(j)
  BY DEF mark_removed, FreeSlots, ItemSlots, HasItem
<1>4. CslabTypeOK'
  BY <1>1, <1>2 DEF mark_removed, CslabInv, CslabTypeOK
<1>5. FreelistExact'
  BY <1>3 DEF CslabInv, FreelistExact, IsRank, NextFree
<1>6. CountersExact' /\ FlagsSound'
  BY <1>1, <1>2, <1>3 DEF mark_removed, CslabInv, CountersExact, FlagsSound
<1> QED
  BY <1>4, <1>5, <1>6 DEF CslabInv

\* finalize_remove() pushes its slot in front of a correct free list, given
\* that the slot held an item: the caller's side of the safety section.
LEMMA FinalizeKeeps ==
  ASSUME CslabInv, NEW i \in MarkedSlots, finalize_remove(i)
  PROVE  CslabInv'
<1> USE CapacityAssumption DEF Slots
<1>1. PICK rank \in [FreeSlots -> Slots] : IsRank(rank)
  BY DEF CslabInv, FreelistExact
<1>2. i \in Slots /\ i \in ItemSlots /\ HasItem(i) /\ i \notin bitmap
  BY DEF MarkedSlots, ItemSlots
<1>3. first_free \in 0 .. Capacity /\ allocated \in Nat
  BY DEF CslabInv, CslabTypeOK
<1>4. LinkTo(i) \in Int
  BY <1>2, <1>3 DEF LinkTo
<1>5. /\ table' = [table EXCEPT ![i] = FreeEntry(LinkTo(i))]
      /\ table' \in [Slots -> Entry]
  BY <1>2, <1>4, EntryFacts DEF finalize_remove, CslabInv, CslabTypeOK
<1>6. /\ \A j \in Slots : HasItem(j)' <=> (HasItem(j) /\ j # i)
      /\ \A j \in Slots : j # i => table'[j] = table[j]
  BY <1>2, <1>4, <1>5, EntryFacts DEF HasItem, CslabInv, CslabTypeOK
<1>7. FreeSlots' = FreeSlots \cup {i} /\ ItemSlots' = ItemSlots \ {i} /\ i \notin FreeSlots
  BY <1>2, <1>6 DEF FreeSlots, ItemSlots
<1>8. \A j \in FreeSlots : NextFree(j)' = NextFree(j)
  BY <1>6, <1>7 DEF NextFree, FreeSlots
<1>9. NextFree(i)' = first_free
  <2>1. table'[i].next_free = LinkTo(i)
    BY <1>2, <1>4, <1>5, EntryFacts DEF CslabInv, CslabTypeOK
  <2> QED
    BY <2>1, <1>2, <1>3 DEF NextFree, LinkTo
<1>10. first_free' = i /\ allocated' = allocated - 1
  BY DEF finalize_remove, Freed
<1>11. ItemSlots \in SUBSET Slots /\ bitmap \in SUBSET Slots
  BY DEF ItemSlots, CslabInv, CslabTypeOK
<1>12. allocated > 0 /\ CountersExact'
  BY <1>2, <1>7, <1>10, <1>11, CountSlots
     DEF CountersExact, CslabInv, finalize_remove
<1>13. CslabTypeOK'
  BY <1>2, <1>3, <1>5, <1>10, <1>12 DEF finalize_remove, CslabInv, CslabTypeOK
<1>14. FlagsSound'
  BY <1>2, <1>6, <1>11 DEF FlagsSound, CslabInv, finalize_remove
<1>15. allocated <= Capacity
  BY <1>1, <1>3 DEF IsRank
<1>16. FreelistExact'
  <2> DEFINE top == Capacity - allocated
  <2>1. top \in Slots
    BY <1>3, <1>12, <1>15
  <2>2. PICK r \in [FreeSlots' -> Slots] :
          /\ r[i] = top
          /\ \A j \in FreeSlots : r[j] = rank[j] /\ j # i
    <3> DEFINE r == [j \in FreeSlots' |-> IF j = i THEN top ELSE rank[j]]
    <3>1. r \in [FreeSlots' -> Slots]
      BY <2>1, <1>7
    <3> QED
      BY <3>1, <1>7
  <2>3. \A j \in FreeSlots : rank[j] < top
    BY <1>1, <1>3 DEF IsRank
  <2>4. \A j, k \in FreeSlots' : r[j] = r[k] => j = k
    BY <2>2, <2>3, <1>1, <1>7 DEF IsRank
  <2>5. \A j \in FreeSlots' :
          \/ r[j] = 0 /\ NextFree(j)' = Capacity
          \/ /\ r[j] > 0
             /\ NextFree(j)' \in FreeSlots'
             /\ r[NextFree(j)'] = r[j] - 1
    <3>1. CASE FreeSlots = {}
      BY <3>1, <2>2, <1>1, <1>7, <1>9 DEF IsRank
    <3>2. CASE FreeSlots # {}
      <4>1. first_free \in FreeSlots /\ rank[first_free] = top - 1
        BY <3>2, <1>1, <1>3 DEF IsRank
      <4>2. rank[first_free] \in 0 .. Capacity - 1
        BY <4>1
      <4>3. r[i] > 0 /\ NextFree(i)' \in FreeSlots' /\ r[NextFree(i)'] = r[i] - 1
        BY <4>1, <4>2, <2>1, <2>2, <1>7, <1>9
      <4>4. ASSUME NEW j \in FreeSlots
            PROVE  \/ r[j] = 0 /\ NextFree(j)' = Capacity
                   \/ /\ r[j] > 0
                      /\ NextFree(j)' \in FreeSlots'
                      /\ r[NextFree(j)'] = r[j] - 1
        BY <4>4, <2>2, <1>1, <1>7, <1>8 DEF IsRank
      <4> QED
        BY <4>3, <4>4, <1>7
    <3> QED
      BY <3>1, <3>2
  <2>6. /\ first_free' \in FreeSlots'
        /\ r[first_free'] = Capacity - allocated' - 1
        /\ \A j \in FreeSlots' : r[j] <= r[first_free']
    BY <2>1, <2>2, <2>3, <1>3, <1>7, <1>10
  <2>7. IsRank(r)'
    BY <2>4, <2>5, <2>6 DEF IsRank
  <2> QED
    BY <2>7 DEF FreelistExact
<1> QED
  BY <1>12, <1>13, <1>14, <1>16 DEF CslabInv

\* CslabInv speaks of the slab alone, not of the destructors that have run.
LEMMA DropsKeep ==
  ASSUME CslabInv, alive' \in BOOLEAN, dropped' \in [Items -> Nat],
         UNCHANGED <<first_free, in_use, allocated, frontier, bitmap, table>>
  PROVE  CslabInv'
<1>1. UNCHANGED <<FreeSlots, ItemSlots>> /\ \A j \in Slots : HasItem(j)' = HasItem(j)
  BY DEF FreeSlots, ItemSlots, HasItem
<1>2. CslabTypeOK'
  BY DEF CslabInv, CslabTypeOK
<1>3. FreelistExact'
  BY <1>1 DEF CslabInv, FreelistExact, IsRank, NextFree
<1>4. CountersExact' /\ FlagsSound'
  BY <1>1 DEF CslabInv, CslabTypeOK, CountersExact, FlagsSound
<1> QED
  BY <1>2, <1>3, <1>4 DEF CslabInv

----------------------------------------------------------------------------
\* A zeroed table is one free list through all the slots in order.
LEMMA InitEstablishes == CslabInit => CslabInv
<1> SUFFICES ASSUME CslabInit PROVE CslabInv
  OBVIOUS
<1> USE CapacityAssumption DEF Slots
<1>1. \A i \in Slots : table[i] = FreeEntry(0) /\ ~HasItem(i) /\ NextFree(i) = i + 1
  BY EntryFacts DEF CslabInit, HasItem, NextFree
<1>2. FreeSlots = Slots /\ ItemSlots = {}
  BY <1>1 DEF FreeSlots, ItemSlots
<1>3. CslabTypeOK
  BY EntryFacts DEF CslabInit, CslabTypeOK
<1>4. CountersExact /\ FlagsSound
  BY <1>2, FS_EmptySet DEF CslabInit, CountersExact, FlagsSound
<1>5. FreelistExact
  <2> DEFINE rank == [i \in Slots |-> Capacity - 1 - i]
  <2>1. rank \in [FreeSlots -> Slots]
    BY <1>2
  <2>2. first_free \in FreeSlots /\ first_free = 0 /\ allocated = 0
    BY <1>2 DEF CslabInit
  <2>3. ASSUME NEW i \in FreeSlots
        PROVE  \/ rank[i] = 0 /\ NextFree(i) = Capacity
               \/ /\ rank[i] > 0
                  /\ NextFree(i) \in FreeSlots
                  /\ rank[NextFree(i)] = rank[i] - 1
    <3>1. CASE i = Capacity - 1
      BY <3>1, <1>1, <1>2
    <3>2. CASE i < Capacity - 1
      BY <3>2, <1>1, <1>2
    <3> QED
      BY <3>1, <3>2, <1>2
  <2>4. \A i, j \in FreeSlots : rank[i] = rank[j] => i = j
    BY <1>2
  <2>5. rank[first_free] = Capacity - allocated - 1
        /\ \A i \in FreeSlots : rank[i] <= rank[first_free]
    BY <2>2, <1>2
  <2>6. IsRank(rank)
    BY <2>2, <2>3, <2>4, <2>5 DEF IsRank
  <2> QED
    BY <2>1, <2>6 DEF FreelistExact
<1> QED
  BY <1>3, <1>4, <1>5 DEF CslabInv

\* What storage drop destroys of one item, when no item is in two slots.
UniqueItems == \A i, j \in ItemSlots : table[i] = table[j] => i = j

DropInv ==
  /\ DropExact
  /\ UniqueItems

\* The destructor runs once per present item: the slots of one item are at
\* most one.
LEMMA DropCount ==
  ASSUME CslabInv, UniqueItems, NEW v \in Items
  PROVE  LET S == {i \in Scanned : table[i] = ItemEntry(v)}
         IN  /\ Cardinality(S) \in {0, 1}
             /\ \A i \in ItemSlots : table[i] = ItemEntry(v) =>
                  Cardinality(S) = IF i \in bitmap THEN 1 ELSE 0
<1> DEFINE S == {i \in Scanned : table[i] = ItemEntry(v)}
<1>1. \A i \in S : i \in ItemSlots /\ i \in bitmap
  BY DEF Scanned, CslabInv, CslabTypeOK, FlagsSound, ItemSlots
<1>2. \A i, j \in S : i = j
  BY <1>1 DEF UniqueItems
<1>3. CASE S = {}
  <2>1. Cardinality(S) = 0
    BY <1>3, FS_EmptySet
  <2>2. \A i \in ItemSlots : table[i] = ItemEntry(v) => i \notin bitmap
    BY <1>3 DEF Scanned, CslabInv, FlagsSound
  <2> QED
    BY <2>1, <2>2
<1>4. ASSUME NEW k \in S
      PROVE  /\ Cardinality(S) \in {0, 1}
             /\ \A i \in ItemSlots : table[i] = ItemEntry(v) =>
                  Cardinality(S) = IF i \in bitmap THEN 1 ELSE 0
  <2>1. S = {k}
    BY <1>2, <1>4
  <2>2. Cardinality(S) = 1
    BY <2>1, FS_Singleton
  <2>3. \A i \in ItemSlots : table[i] = ItemEntry(v) => i = k
    BY <1>1, <1>4 DEF UniqueItems
  <2> QED
    BY <2>2, <2>3, <1>1, <1>4
<1> QED
  BY <1>3, <1>4

\* One step of the client keeps both invariants.
LEMMA NextKeeps ==
  ASSUME CslabInv, DropInv, [CslabNext]_cslabVars
  PROVE  CslabInv' /\ DropInv'
<1> USE DEF CslabInv, CslabTypeOK
<1>1. ASSUME NEW v \in Items, Insert(v)
      PROVE  CslabInv' /\ DropInv'
  <2> DEFINE f == first_free
  <2>1. CslabInv' /\ alive /\ Movable(v) /\ insert(v)
    BY <1>1, InsertKeeps DEF Insert
  <2>2. f \in Slots
    BY <2>1, CapacityAssumption DEF insert, Slots
  <2>3. /\ table'[f] = ItemEntry(v)
        /\ \A i \in Slots : i # f => table'[i] = table[i]
        /\ UNCHANGED <<alive, dropped>>
    BY <2>1, <2>2 DEF insert
  <2>4. \A i \in ItemSlots' : i \in Slots /\ (i = f \/ i \in ItemSlots)
    BY <2>3 DEF ItemSlots, HasItem
  <2>5. dropped[v] = 0 /\ \A i \in Slots : table[i] # ItemEntry(v)
    BY <2>1 DEF Movable
  <2>6. UniqueItems'
    BY <2>3, <2>4, <2>5 DEF UniqueItems, DropInv
  <2>7. DropExact'
    BY <2>1, <2>3, <2>4, <2>5, EntryFacts DEF DropExact, DropInv
  <2> QED
    BY <2>1, <2>6, <2>7 DEF DropInv
<1>2. ASSUME NEW v \in Items, InsertFull(v)
      PROVE  CslabInv' /\ DropInv'
  <2>1. /\ alive /\ dropped[v] = 0
        /\ dropped' = [dropped EXCEPT ![v] = 1]
        /\ \A i \in Slots : table[i] # ItemEntry(v)
        /\ UNCHANGED <<first_free, in_use, allocated, frontier, bitmap, table, alive>>
    BY <1>2 DEF InsertFull, insert_full, Movable
  <2>2. CslabInv'
    BY <2>1, DropsKeep
  <2>3. \A i \in ItemSlots : i \in Slots /\ table[i].item # v
    BY <2>1, EntryFacts DEF ItemSlots, HasItem
  <2>4. ItemSlots' = ItemSlots
    BY <2>1 DEF ItemSlots, HasItem
  <2>5. \A i \in ItemSlots : table[i].item \in Items
    BY EntryFacts DEF ItemSlots, HasItem
  <2> QED
    BY <2>1, <2>2, <2>3, <2>4, <2>5 DEF DropInv, DropExact, UniqueItems
<1>3. ASSUME NEW i \in Slots, MarkRemoved(i)
      PROVE  CslabInv' /\ DropInv'
  <2>1. CslabInv' /\ alive /\ UNCHANGED <<table, alive, dropped, ItemSlots>>
    BY <1>3, MarkKeeps DEF MarkRemoved, mark_removed, ItemSlots, HasItem
  <2> QED
    BY <2>1 DEF DropInv, DropExact, UniqueItems
<1>4. ASSUME NEW i \in Slots, FinalizeRemove(i)
      PROVE  CslabInv' /\ DropInv'
  <2>1. /\ CslabInv' /\ alive /\ finalize_remove(i)
        /\ UNCHANGED <<alive, dropped>>
    BY <1>4, FinalizeKeeps DEF FinalizeRemove, finalize_remove
  <2>2. \A j \in ItemSlots' : j \in ItemSlots /\ table'[j] = table[j]
    BY <2>1, EntryFacts DEF finalize_remove, ItemSlots, HasItem, FreeEntry
  <2> QED
    BY <2>1, <2>2 DEF DropInv, DropExact, UniqueItems
<1>5. ASSUME drop_storage
      PROVE  CslabInv' /\ DropInv'
  <2> DEFINE C(v) == Cardinality({i \in Scanned : table[i] = ItemEntry(v)})
  <2>1. \A v \in Items : C(v) \in {0, 1}
    BY DropCount DEF DropInv
  <2>2. \A v \in Items : dropped'[v] = dropped[v] + C(v)
    BY <1>5 DEF drop_storage
  <2>3. dropped' \in [Items -> Nat]
    <3>1. \A v \in Items : dropped[v] + C(v) \in Nat
      BY <2>1
    <3> QED
      BY <3>1, <1>5 DEF drop_storage
  <2>4. CslabInv' /\ UNCHANGED <<bitmap, table, ItemSlots>> /\ alive /\ ~alive'
    BY <1>5, <2>3, DropsKeep DEF drop_storage, ItemSlots, HasItem
  <2>5. ASSUME NEW v \in Items PROVE dropped'[v] <= 1
    <3>1. CASE C(v) = 0
      BY <3>1, <2>2 DEF DropInv, DropExact
    <3>2. CASE C(v) = 1
      <4>1. PICK i \in Scanned : table[i] = ItemEntry(v)
        BY <3>2, FS_EmptySet
      <4>2. i \in ItemSlots /\ table[i].item = v
        BY <4>1, EntryFacts DEF Scanned, FlagsSound, ItemSlots
      <4>3. dropped[v] = 0
        BY <4>2, <2>4 DEF DropInv, DropExact
      <4> QED
        BY <4>3, <3>2, <2>2
    <3> QED
      BY <3>1, <3>2, <2>1
  <2>6. ASSUME NEW i \in ItemSlots
        PROVE  dropped'[table[i].item] = IF i \in bitmap THEN 1 ELSE 0
    <3>1. table[i].item \in Items /\ table[i] = ItemEntry(table[i].item)
      BY EntryFacts DEF ItemSlots, HasItem
    <3>2. C(table[i].item) = IF i \in bitmap THEN 1 ELSE 0
      BY <3>1, DropCount DEF DropInv
    <3>3. dropped[table[i].item] = 0
      BY <2>4 DEF DropInv, DropExact
    <3> QED
      BY <3>1, <3>2, <3>3, <2>2
  <2> QED
    BY <2>4, <2>5, <2>6 DEF DropInv, DropExact, UniqueItems
<1>6. CASE UNCHANGED cslabVars
  <2>1. UNCHANGED <<first_free, in_use, allocated, frontier, bitmap, table, alive,
                    dropped, ItemSlots>>
    BY <1>6 DEF cslabVars, ItemSlots, HasItem
  <2>2. CslabInv'
    BY <2>1, DropsKeep
  <2> QED
    BY <2>1, <2>2 DEF DropInv, DropExact, UniqueItems
<1> QED
  BY <1>1, <1>2, <1>3, <1>4, <1>5, <1>6 DEF CslabNext

----------------------------------------------------------------------------
\* The inductive invariant holds in every reachable state of the slab.
LEMMA CslabInductive == CslabSpec => [](CslabInv /\ DropInv)
<1>1. CslabInit => CslabInv /\ DropInv
  <2> SUFFICES ASSUME CslabInit PROVE DropInv
    BY InitEstablishes
  <2>1. ItemSlots = {}
    BY EntryFacts DEF CslabInit, ItemSlots, HasItem
  <2> QED
    BY <2>1 DEF CslabInit, DropInv, DropExact, UniqueItems
<1>2. CslabInv /\ DropInv /\ [CslabNext]_cslabVars => (CslabInv /\ DropInv)'
  BY NextKeeps
<1> QED
  BY <1>1, <1>2, PTL DEF CslabSpec

(***************************************************************************)
(* The invariants of the slab, for every capacity: the links always form   *)
(* one list through exactly the empty slots, so Cslab::insert never reads  *)
(* an item as a link and is refused only by a full slab; both counters are *)
(* exact; and a set flag is backed by an item below the frontier.          *)
(***************************************************************************)
THEOREM CslabCorrect ==
  CslabSpec => [](CslabTypeOK /\ FreelistExact /\ CountersExact /\ FlagsSound)
<1>1. CslabInv => CslabTypeOK /\ FreelistExact /\ CountersExact /\ FlagsSound
  BY DEF CslabInv
<1> QED
  BY <1>1, CslabInductive, PTL

\* Dropping the storage runs the destructor of every present item once, and
\* no destructor ever runs twice, whatever was removed before.
THEOREM DropCorrect == CslabSpec => []DropExact
<1>1. DropInv => DropExact
  BY DEF DropInv
<1> QED
  BY <1>1, CslabInductive, PTL

----------------------------------------------------------------------------
(***************************************************************************)
(*                            The generations                              *)
(***************************************************************************)

(***************************************************************************)
(* The chain of generations: whoever holds a generation holds a live one;  *)
(* one that has not ended keeps its successor; generations are created     *)
(* without gaps, none after the writer's own; and they end in order.       *)
(***************************************************************************)
HoldersLive  == \A g \in Gens : Held(g) => gstate[g] = "live"
ChainLinked  == \A g \in Gens : /\ gstate[g] \in Ending \cup {"live"}
                                /\ g + 1 \in Gens
                                /\ gstate[g + 1] # "unborn"
                                => next_gen[g] = g + 1
BornInOrder  == \A g, q \in Gens : gstate[g] # "unborn" /\ q < g => gstate[q] # "unborn"
CurIsNewest  == cur_gen # NoGen => \A g \in Gens : g > cur_gen => gstate[g] = "unborn"

GenInv == HoldersLive /\ ChainLinked /\ BornInOrder /\ CurIsNewest /\ CreationOrder

(***************************************************************************)
(* The readers: a removal a handle may not have seen waits in a generation *)
(* no older than the handle's, because handles and usable proxies of the   *)
(* newest generations never coexist in the wrong order.                    *)
(***************************************************************************)
IdleHandles == \A h \in Handles : handle[h] = NoGen => unseen[h] = {} /\ refs[h] = {}
UnseenWait  == \A h \in Live : \A i \in unseen[h] :
                 \/ \E g \in Gens : g >= handle[h] /\ i \in Pending(g)
                 \/ \E m \in marking : m.idx = i /\ m.gen >= handle[h]
RefsKept    == \A h \in Live : \A r \in refs[h] :
                 /\ table[r[1]] = ItemEntry(r[2])
                 /\ r[1] \in bitmap \cup unseen[h]
ProxiesNew  == \A p \in proxies, h \in Live : p.usable => handle[h] <= p.gen
WriterLives == it.on \/ mutex \in {"entry", "reject"} => cur_gen # NoGen
StorageLast == ~alive => /\ cur_gen = NoGen
                         /\ Live = {}
                         /\ \A g \in Gens : gstate[g] \in {"unborn", "gone"}

ReaderInv == IdleHandles /\ UnseenWait /\ RefsKept /\ ProxiesNew /\ WriterLives /\ StorageLast

(***************************************************************************)
(* The writer: an iterator knows how many items it has left, the proxies   *)
(* it has yielded are behind it, and the mutex does its work.              *)
(***************************************************************************)
IterInv  == it.on => /\ it.remaining = Cardinality(Ahead)
                     /\ mutex # "entry"
                     /\ \A p \in proxies : p.usable => p.idx \notin Ahead
MutexInv == \A g \in Gens : gstate[g] = "finalizing" => mutex = "finalize"

WriterInv == IterInv /\ ProxiesPresent /\ MutexInv /\ EntryReserved

RcuInv == RcuTypeOK /\ CslabInv /\ RemovalsTracked /\ GenInv /\ ReaderInv /\ WriterInv

----------------------------------------------------------------------------
(* The chain of generations. *)

\* Giving up references, or taking new ones to live generations, keeps the
\* chain: only a generation whose predecessor is gone can lose its last one.
LEMMA SettleKeeps ==
  ASSUME RcuTypeOK, GenInv,
         next_gen' = next_gen,
         cur_gen' \in {cur_gen, NoGen},
         \A g \in Gens : Held(g)' => gstate[g] = "live",
         gstate' = gstate \/ Settle(gstate)
  PROVE  GenInv'
<1> USE MaxGenAssumption DEF Gens, NoGen
<1>1. \A g \in Gens :
        \/ gstate'[g] = gstate[g]
        \/ gstate[g] = "live" /\ gstate'[g] = "dropping" /\ ~Held(g)'
  BY DEF Settle
<1>2. gstate \in [Gens -> Ending \cup {"unborn", "live", "gone"}] /\ cur_gen \in Gens \cup {NoGen}
  BY DEF RcuTypeOK
<1>3. HoldersLive'
  BY <1>1 DEF HoldersLive
<1>4. ChainLinked' /\ BornInOrder' /\ CurIsNewest'
  <2>1. \A g \in Gens : /\ gstate'[g] \in Ending \cup {"live"} => gstate[g] \in Ending \cup {"live"}
                        /\ gstate'[g] = "unborn" <=> gstate[g] = "unborn"
    BY <1>1 DEF Ending
  <2> QED
    BY <2>1, <1>2 DEF GenInv, ChainLinked, BornInOrder, CurIsNewest
<1>5. CreationOrder'
  <2> SUFFICES ASSUME NEW g \in Gens, NEW q \in Gens, q < g,
                      gstate'[g] \in Ending \cup {"gone"}
               PROVE  gstate'[q] = "gone"
    BY DEF CreationOrder
  <2>1. SUFFICES gstate[q] = "gone"
    BY <1>1
  <2>2. CASE gstate[g] \in Ending \cup {"gone"}
    BY <2>2 DEF GenInv, CreationOrder
  <2>3. CASE gstate[g] = "live" /\ ~Held(g)'
    <3>1. g - 1 \in Gens /\ q <= g - 1 /\ (g - 1) + 1 = g
      OBVIOUS
    <3>2. next_gen[g - 1] # g
      BY <2>3, <3>1 DEF Held
    <3>3. gstate[g - 1] \notin Ending \cup {"live"}
      BY <2>3, <3>1, <3>2 DEF GenInv, ChainLinked
    <3>4. gstate[g - 1] # "unborn"
      BY <2>3, <3>1 DEF GenInv, BornInOrder
    <3>5. gstate[g - 1] = "gone"
      BY <3>1, <3>3, <3>4, <1>2
    <3> QED
      BY <3>1, <3>5 DEF GenInv, CreationOrder
  <2> QED
    BY <2>2, <2>3, <1>1, <1>2 DEF Ending
<1> QED
  BY <1>3, <1>4, <1>5 DEF GenInv

\* advance_generation() adds a link to the end of the chain.
LEMMA AdvanceKeeps ==
  ASSUME RcuTypeOK, GenInv, cur_gen \in Gens,
         advance_generation,
         UNCHANGED marking, 
         \A h \in Handles : handle'[h] \in {handle[h], cur_gen + 1},
         \A p \in proxies' : \E q \in proxies : q.gen = p.gen,
         Settle([gstate EXCEPT ![cur_gen + 1] = "live"])
  PROVE  GenInv'
<1> USE MaxGenAssumption DEF Gens, NoGen
<1> DEFINE n == cur_gen + 1
<1>1. n \in Gens /\ n # cur_gen /\ cur_gen' = n /\ next_gen' = [next_gen EXCEPT ![cur_gen] = n]
  BY DEF advance_generation
<1>2. gstate \in [Gens -> Ending \cup {"unborn", "live", "gone"}] /\ next_gen \in [Gens -> Gens \cup {NoGen}]
  BY DEF RcuTypeOK
<1>3. \A q \in Gens : next_gen'[q] = IF q = cur_gen THEN n ELSE next_gen[q]
  BY <1>1, <1>2
<1>4. \A g \in Gens : Held(g)' => g = n \/ Held(g)
  BY <1>1, <1>3 DEF Held
<1>5. \A g \in Gens : g = n => Held(g)'
  BY <1>1 DEF Held
<1>6. gstate[n] = "unborn" /\ gstate[cur_gen] = "live"
  BY <1>1 DEF GenInv, CurIsNewest, HoldersLive, Held
<1>7. /\ gstate'[n] = "live"
      /\ \A g \in Gens : g # n =>
           \/ gstate'[g] = gstate[g]
           \/ gstate[g] = "live" /\ gstate'[g] = "dropping" /\ ~Held(g)'
  BY <1>1, <1>2, <1>5 DEF Settle
<1>8. \A g \in Gens : g # n =>
        /\ gstate'[g] \in Ending \cup {"live"} => gstate[g] \in Ending \cup {"live"}
        /\ gstate'[g] = "unborn" <=> gstate[g] = "unborn"
  BY <1>7 DEF Ending
<1>9. HoldersLive'
  <2> SUFFICES ASSUME NEW g \in Gens, Held(g)' PROVE gstate'[g] = "live"
    BY DEF HoldersLive
  <2> QED
    BY <1>4, <1>7 DEF GenInv, HoldersLive
<1>10. ChainLinked'
  <2> SUFFICES ASSUME NEW g \in Gens, gstate'[g] \in Ending \cup {"live"}, g + 1 \in Gens,
                      gstate'[g + 1] # "unborn"
               PROVE  next_gen'[g] = g + 1
    BY DEF ChainLinked
  <2>1. CASE g = cur_gen
    BY <2>1, <1>3
  <2>2. CASE g # cur_gen
    <3>1. g + 1 # n
      BY <2>2
    <3>2. gstate[g + 1] # "unborn"
      BY <3>1, <1>8
    <3>3. g < cur_gen
      BY <2>2, <3>2 DEF GenInv, CurIsNewest
    <3> QED
      BY <2>2, <3>2, <3>3, <1>3, <1>8 DEF GenInv, ChainLinked
  <2> QED
    BY <2>1, <2>2
<1>11. BornInOrder'
  <2> SUFFICES ASSUME NEW g \in Gens, NEW q \in Gens, gstate'[g] # "unborn", q < g
               PROVE  gstate'[q] # "unborn"
    BY DEF BornInOrder
  <2>1. gstate[cur_gen] # "unborn"
    BY <1>6
  <2>2. \A k \in Gens : k <= cur_gen => gstate[k] # "unborn"
    BY <2>1 DEF GenInv, BornInOrder
  <2>3. g <= n
    BY <1>8 DEF GenInv, CurIsNewest
  <2> QED
    BY <2>2, <2>3, <1>7, <1>8
<1>12. CurIsNewest'
  BY <1>1, <1>8 DEF GenInv, CurIsNewest
<1>13. CreationOrder'
  <2> SUFFICES ASSUME NEW g \in Gens, NEW q \in Gens, q < g,
                      gstate'[g] \in Ending \cup {"gone"}
               PROVE  gstate'[q] = "gone"
    BY DEF CreationOrder
  <2>1. g # n
    BY <1>7 DEF Ending
  <2>2. g <= cur_gen
    BY <2>1, <1>1, <1>8 DEF GenInv, CurIsNewest, Ending
  <2>3. SUFFICES gstate[q] = "gone"
    BY <2>2, <1>1, <1>7
  <2>4. CASE gstate[g] \in Ending \cup {"gone"}
    BY <2>4 DEF GenInv, CreationOrder
  <2>5. CASE gstate[g] = "live" /\ ~Held(g)'
    <3>1. g - 1 \in Gens /\ q <= g - 1 /\ (g - 1) + 1 = g /\ g - 1 # cur_gen
      BY <2>2
    <3>2. next_gen[g - 1] # g
      BY <2>5, <3>1, <1>3 DEF Held
    <3>3. gstate[g - 1] \notin Ending \cup {"live"}
      BY <2>5, <3>1, <3>2 DEF GenInv, ChainLinked
    <3>4. gstate[g - 1] # "unborn"
      BY <2>5, <3>1 DEF GenInv, BornInOrder
    <3>5. gstate[g - 1] = "gone"
      BY <3>1, <3>3, <3>4, <1>2
    <3> QED
      BY <3>1, <3>5 DEF GenInv, CreationOrder
  <2> QED
    BY <2>1, <2>4, <2>5, <1>2, <1>7 DEF Ending
<1> QED
  BY <1>9, <1>10, <1>11, <1>12, <1>13 DEF GenInv

\* The end of a generation removes the first link of the chain.
LEMMA EndKeeps ==
  ASSUME RcuTypeOK, GenInv, NEW e \in Gens, gen_end(e)
  PROVE  GenInv'
<1> USE MaxGenAssumption DEF Gens, NoGen
<1>1. /\ gstate[e] = "items"
      /\ next_gen' = [next_gen EXCEPT ![e] = NoGen]
      /\ UNCHANGED <<cur_gen, marking, proxies, handle>>
      /\ Settle([gstate EXCEPT ![e] = "gone"])
  BY DEF gen_end, readerVars
<1>2. /\ gstate \in [Gens -> Ending \cup {"unborn", "live", "gone"}]
      /\ next_gen \in [Gens -> Gens \cup {NoGen}] /\ cur_gen \in Gens \cup {NoGen}
  BY DEF RcuTypeOK
<1>3. \A q \in Gens : next_gen'[q] = IF q = e THEN NoGen ELSE next_gen[q]
  BY <1>1, <1>2
<1>4. \A g \in Gens : Held(g)' => Held(g)
  BY <1>1, <1>3 DEF Held
<1>5. /\ gstate'[e] = "gone"
      /\ \A g \in Gens : g # e =>
           \/ gstate'[g] = gstate[g]
           \/ gstate[g] = "live" /\ gstate'[g] = "dropping" /\ ~Held(g)'
  BY <1>1, <1>2 DEF Settle
<1>6. \A g \in Gens : /\ gstate'[g] \in Ending \cup {"live"} => gstate[g] \in Ending \cup {"live"} /\ g # e
                      /\ gstate'[g] = "unborn" <=> gstate[g] = "unborn"
  BY <1>1, <1>5 DEF Ending
<1>7. HoldersLive'
  <2> SUFFICES ASSUME NEW g \in Gens, Held(g)' PROVE gstate'[g] = "live"
    BY DEF HoldersLive
  <2>1. gstate[g] = "live"
    BY <1>4 DEF GenInv, HoldersLive
  <2> QED
    BY <2>1, <1>1, <1>5
<1>8. ChainLinked'
  BY <1>3, <1>6 DEF GenInv, ChainLinked
<1>9. BornInOrder' /\ CurIsNewest'
  BY <1>1, <1>2, <1>6 DEF GenInv, BornInOrder, CurIsNewest
<1>10. CreationOrder'
  <2> SUFFICES ASSUME NEW g \in Gens, NEW q \in Gens, q < g,
                      gstate'[g] \in Ending \cup {"gone"}
               PROVE  gstate'[q] = "gone"
    BY DEF CreationOrder
  <2>1. SUFFICES gstate[q] = "gone" \/ q = e
    BY <1>5
  <2>2. CASE gstate[g] \in Ending \cup {"gone"}
    BY <2>2 DEF GenInv, CreationOrder
  <2>3. CASE gstate[g] = "live" /\ ~Held(g)'
    <3>1. g - 1 \in Gens /\ q <= g - 1 /\ (g - 1) + 1 = g
      OBVIOUS
    <3>2. CASE g - 1 = e
      BY <3>1, <3>2, <1>1 DEF GenInv, CreationOrder, Ending
    <3>3. CASE g - 1 # e
      <4>1. next_gen[g - 1] # g
        BY <2>3, <3>1, <3>3, <1>3 DEF Held
      <4>2. gstate[g - 1] \notin Ending \cup {"live"}
        BY <2>3, <3>1, <4>1 DEF GenInv, ChainLinked
      <4>3. gstate[g - 1] # "unborn"
        BY <2>3, <3>1 DEF GenInv, BornInOrder
      <4>4. gstate[g - 1] = "gone"
        BY <3>1, <4>2, <4>3, <1>2
      <4> QED
        BY <3>1, <4>4 DEF GenInv, CreationOrder
    <3> QED
      BY <3>2, <3>3
  <2>4. CASE g = e
    BY <2>4, <1>1 DEF GenInv, CreationOrder, Ending
  <2> QED
    BY <2>2, <2>3, <2>4, <1>2, <1>5 DEF Ending
<1> QED
  BY <1>7, <1>8, <1>9, <1>10 DEF GenInv

\* A call on the slab leaves the proxies what they are, but useless.
LEMMA UseSlabFacts ==
  ASSUME RcuTypeOK, UseSlab
  PROVE  /\ cur_gen \in Gens /\ marking = {} /\ ~it.on
         /\ \A p \in proxies' : p \in Proxy /\ ~p.usable /\ \E q \in proxies : q.gen = p.gen
<1>1. cur_gen \in Gens /\ marking = {} /\ ~it.on
  BY DEF UseSlab, WriterReady, RcuTypeOK
<1>2. ASSUME NEW p \in proxies'
      PROVE  p \in Proxy /\ ~p.usable /\ \E q \in proxies : q.gen = p.gen
  <2>1. PICK q \in proxies : p = [q EXCEPT !.usable = FALSE]
    BY <1>2 DEF UseSlab
  <2>2. q \in Proxy
    BY <2>1 DEF RcuTypeOK
  <2> QED
    BY <2>1, <2>2 DEF Proxy
<1> QED
  BY <1>1, <1>2

\* A step of any kind keeps the chain.
LEMMA GenStep ==
  ASSUME RcuInv, [RcuNext]_rcuVars
  PROVE  GenInv'
<1> USE MaxGenAssumption DEF Gens, NoGen
<1>1. RcuTypeOK /\ GenInv /\ (it.on => cur_gen # NoGen)
  BY DEF RcuInv, ReaderInv, WriterLives
<1>2. cur_gen \in Gens \cup {NoGen} /\ handle \in [Handles -> Gens \cup {NoGen}]
  BY <1>1 DEF RcuTypeOK
<1>3. \A g \in Gens : Held(g) => gstate[g] = "live"
  BY <1>1 DEF GenInv, HoldersLive
<1> DEFINE ProxiesFrom == \A p \in proxies' : \E q \in proxies : q.gen = p.gen
<1>4. UseSlab => ProxiesFrom /\ cur_gen \in Gens
  BY <1>1, UseSlabFacts
\* What changes no reference: only which proxies can be used.
<1>5. ASSUME UNCHANGED <<cur_gen, gstate, next_gen, handle, marking>>, ProxiesFrom
      PROVE  GenInv'
  <2>1. \A g \in Gens : Held(g)' => Held(g)
    BY <1>5 DEF Held
  <2> QED
    BY <2>1, <1>1, <1>3, <1>5, SettleKeeps
<1>6. ASSUME NEW v \in Items, rcu_insert(v) \/ rcu_insert_full(v) \/ entry_insert(v)
      PROVE  GenInv'
  BY <1>4, <1>5, <1>6 DEF rcu_insert, rcu_insert_full, entry_insert, genVars, readerVars
<1>7. CASE vacant_key \/ vacant_entry \/ entry_drop \/ rcu_insert_return \/ iter_mut
  BY <1>4, <1>5, <1>7
     DEF vacant_key, vacant_entry, entry_drop, rcu_insert_return, iter_mut, genVars, readerVars
<1>8. ASSUME NEW i \in Slots, rcu_mark_removed(i)
      PROVE  GenInv'
  <2>1. /\ UNCHANGED <<cur_gen, gstate, next_gen, handle>> /\ ProxiesFrom
        /\ cur_gen \in Gens
        /\ marking' = marking \cup {[idx |-> i, gen |-> cur_gen]}
    BY <1>4, <1>8 DEF rcu_mark_removed, MarkIn, genVars
  <2>2. \A g \in Gens : Held(g)' => Held(g)
    BY <2>1 DEF Held
  <2> QED
    BY <2>1, <2>2, <1>1, <1>3, SettleKeeps
<1>9. ASSUME NEW i \in Slots, iter_next(i) \/ iter_next_back(i)
      PROVE  GenInv'
  <2>1. /\ UNCHANGED <<cur_gen, gstate, next_gen, handle, marking>>
        /\ proxies' = proxies \cup {[idx |-> i, gen |-> cur_gen, usable |-> TRUE]}
    BY <1>9 DEF iter_next, iter_next_back, Yield, genVars, readerVars
  <2>2. \A g \in Gens : Held(g)' => Held(g)
    BY <2>1 DEF Held
  <2> QED
    BY <2>1, <2>2, <1>1, <1>3, SettleKeeps
<1>10. ASSUME NEW h \in Handles, schedule_finalization(h)
       PROVE  GenInv'
  BY <1>1, <1>2, <1>4, <1>10, AdvanceKeeps
     DEF schedule_finalization, NewReader, advance_generation
<1>11. ASSUME NEW h \in Handles, reader(h)
       PROVE  GenInv'
  <2>1. /\ UNCHANGED <<cur_gen, gstate, next_gen, marking>> /\ ProxiesFrom
        /\ handle' = [handle EXCEPT ![h] = cur_gen]
    BY <1>4, <1>11 DEF reader, NewReader, genVars
  <2>2. \A g \in Gens : Held(g)' => Held(g)
    BY <2>1, <1>2 DEF Held
  <2> QED
    BY <2>1, <2>2, <1>1, <1>3, SettleKeeps
<1>12. CASE slab_drop
  <2>1. /\ UNCHANGED <<next_gen, handle, marking>> /\ ProxiesFrom
        /\ cur_gen' = NoGen /\ Settle(gstate)
    BY <1>4, <1>12 DEF slab_drop, readerVars
  <2>2. \A g \in Gens : Held(g)' => Held(g)
    BY <2>1 DEF Held
  <2> QED
    BY <2>1, <2>2, <1>1, <1>3, SettleKeeps
<1>13. CASE iter_drop
  <2>1. cur_gen \in Gens
    BY <1>1, <1>2, <1>13 DEF iter_drop
  <2> QED
    BY <2>1, <1>1, <1>2, <1>13, AdvanceKeeps DEF iter_drop, advance_generation, readerVars
<1>14. ASSUME NEW p \in proxies, proxy_remove(p)
       PROVE  GenInv'
  <2>1. /\ UNCHANGED <<cur_gen, gstate, next_gen, handle>>
        /\ proxies' = proxies \ {p}
        /\ marking' = marking \cup {[idx |-> p.idx, gen |-> p.gen]}
    BY <1>14 DEF proxy_remove, MarkIn, genVars
  <2>2. \A g \in Gens : Held(g)' => Held(g)
    BY <2>1 DEF Held
  <2> QED
    BY <2>1, <2>2, <1>1, <1>3, SettleKeeps
<1>15. ASSUME NEW p \in proxies, proxy_drop(p)
       PROVE  GenInv'
  <2>1. /\ UNCHANGED <<cur_gen, next_gen, handle, marking>>
        /\ proxies' = proxies \ {p} /\ Settle(gstate)
    BY <1>15 DEF proxy_drop, readerVars
  <2>2. \A g \in Gens : Held(g)' => Held(g)
    BY <2>1 DEF Held
  <2> QED
    BY <2>1, <2>2, <1>1, <1>3, SettleKeeps
<1>16. ASSUME NEW m \in marking, push_pending(m)
       PROVE  GenInv'
  <2>1. /\ UNCHANGED <<cur_gen, next_gen, handle, proxies>>
        /\ marking' = marking \ {m} /\ Settle(gstate)
    BY <1>16 DEF push_pending, readerVars
  <2>2. \A g \in Gens : Held(g)' => Held(g)
    BY <2>1 DEF Held
  <2> QED
    BY <2>1, <2>2, <1>1, <1>3, SettleKeeps
<1>17. ASSUME NEW h \in Handles, drop_handle(h)
       PROVE  GenInv'
  <2>1. /\ UNCHANGED <<cur_gen, next_gen, marking, proxies>>
        /\ handle' = [handle EXCEPT ![h] = NoGen] /\ Settle(gstate)
    BY <1>17 DEF drop_handle
  <2>2. \A g \in Gens : Held(g)' => Held(g)
    BY <2>1, <1>2 DEF Held
  <2> QED
    BY <2>1, <2>2, <1>1, <1>3, SettleKeeps
<1>18. ASSUME NEW h \in Handles, NEW k \in Handles, clone(h, k)
       PROVE  GenInv'
  <2>1. /\ UNCHANGED <<cur_gen, gstate, next_gen, marking, proxies>>
        /\ handle' = [handle EXCEPT ![k] = handle[h]]
    BY <1>18 DEF clone, genVars
  <2>2. \A g \in Gens : Held(g)' => Held(g)
    BY <2>1, <1>2 DEF Held
  <2> QED
    BY <2>1, <2>2, <1>1, <1>3, SettleKeeps
<1>19. ASSUME NEW h \in Handles, NEW i \in Slots, get(h, i)
       PROVE  GenInv'
  BY <1>5, <1>19 DEF get, genVars
<1>20. ASSUME NEW g \in Gens, gen_lock(g) \/ gen_unlock(g)
       PROVE  GenInv'
  <2>1. /\ UNCHANGED <<cur_gen, next_gen, handle, marking, proxies>>
        /\ gstate[g] \in Ending /\ \E s \in Ending : gstate' = [gstate EXCEPT ![g] = s]
    BY <1>20 DEF gen_lock, gen_unlock, Ending, readerVars
  <2>2. \A q \in Gens : Held(q)' => Held(q)
    BY <2>1 DEF Held
  <2>3. gstate \in [Gens -> Ending \cup {"unborn", "live", "gone"}]
    BY <1>1 DEF RcuTypeOK
  <2>4. \A q \in Gens : \/ gstate'[q] = gstate[q]
                        \/ gstate[q] \in Ending /\ gstate'[q] \in Ending
    BY <2>1, <2>3
  <2>5. HoldersLive'
    BY <2>2, <2>4, <1>3 DEF HoldersLive, Ending
  <2>6. \A q \in Gens : /\ gstate'[q] = "unborn" <=> gstate[q] = "unborn"
                        /\ gstate'[q] = "gone" <=> gstate[q] = "gone"
                        /\ gstate'[q] \in Ending <=> gstate[q] \in Ending
                        /\ gstate'[q] = "live" <=> gstate[q] = "live"
    BY <2>4 DEF Ending
  <2>7. ChainLinked' /\ BornInOrder' /\ CurIsNewest' /\ CreationOrder'
    BY <2>1, <2>6, <1>1, <1>2 DEF GenInv, ChainLinked, BornInOrder, CurIsNewest, CreationOrder
  <2> QED
    BY <2>5, <2>7 DEF GenInv
<1>21. ASSUME NEW g \in Gens, gen_finalize(g)
       PROVE  GenInv'
  BY <1>5, <1>21 DEF gen_finalize, genVars, readerVars
<1>22. ASSUME NEW g \in Gens, gen_end(g)
       PROVE  GenInv'
  BY <1>1, <1>22, EndKeeps
<1>23. CASE storage_drop \/ Finished \/ UNCHANGED rcuVars
  BY <1>5, <1>23 DEF storage_drop, Finished, rcuVars, genVars, readerVars
<1> QED
  BY <1>6, <1>7, <1>8, <1>9, <1>10, <1>11, <1>12, <1>13, <1>14, <1>15, <1>16, <1>17,
     <1>18, <1>19, <1>20, <1>21, <1>22, <1>23
  DEF RcuNext, Writer, Proxies, Readers, Destructor

----------------------------------------------------------------------------
(* The slab under its generations. *)

\* What the list of pending removals looks like after each of its uses.
LEMMA SeqFacts ==
  ASSUME NEW S, NEW s \in Seq(S)
  PROVE  /\ Len(s) \in Nat
         /\ \A n \in 1 .. Len(s) : s[n] \in S
         /\ \A e \in S : /\ Append(s, e) \in Seq(S)
                        /\ Len(Append(s, e)) = Len(s) + 1
                        /\ Append(s, e)[Len(s) + 1] = e
                        /\ \A n \in 1 .. Len(s) : Append(s, e)[n] = s[n]
         /\ s # <<>> => /\ Tail(s) \in Seq(S)
                       /\ Len(s) > 0
                       /\ Head(s) = s[1] /\ Head(s) \in S
                       /\ Len(Tail(s)) = Len(s) - 1
                       /\ \A n \in 1 .. Len(s) - 1 : Tail(s)[n] = s[n + 1]
OBVIOUS

\* The item a destructor finalizes next is one that is marked.
LEMMA NextIsMarked ==
  ASSUME RcuTypeOK, RemovalsTracked, NEW g \in Gens, pending[g] # <<>>
  PROVE  Head(pending[g]) \in MarkedSlots
<1>1. pending[g] \in Seq(Slots)
  BY DEF RcuTypeOK
<1>2. Head(pending[g]) = pending[g][1] /\ 1 \in 1 .. Len(pending[g])
  BY <1>1, SeqFacts
<1>3. Head(pending[g]) \in Pending(g) /\ Head(pending[g]) \in Slots
  BY <1>1, <1>2, SeqFacts DEF Pending
<1> QED
  BY <1>3 DEF RemovalsTracked

\* A step of any kind keeps the slab correct.
LEMMA SlabStep ==
  ASSUME RcuTypeOK, CslabInv, RemovalsTracked, [RcuNext]_rcuVars
  PROVE  CslabInv'
<1> USE DEF CslabTypeOK
<1>0. CslabTypeOK
  BY DEF CslabInv
<1>1. ASSUME UNCHANGED cslabVars PROVE CslabInv'
  BY <1>0, <1>1, DropsKeep DEF cslabVars
<1>2. ASSUME NEW v \in Items, rcu_insert(v) \/ rcu_insert_full(v) \/ entry_insert(v)
      PROVE  CslabInv'
  <2>1. CASE insert(v)
    BY <2>1, InsertKeeps
  <2>2. CASE insert_full(v)
    BY <2>2, <1>0, DropsKeep DEF insert_full
  <2> QED
    BY <2>1, <2>2, <1>2 DEF rcu_insert, rcu_insert_full, entry_insert
<1>3. ASSUME NEW i \in Slots, rcu_mark_removed(i)
      PROVE  CslabInv'
  BY <1>3, MarkKeeps DEF rcu_mark_removed, MarkIn
<1>4. ASSUME NEW p \in proxies, proxy_remove(p)
      PROVE  CslabInv'
  <2>1. p.idx \in Slots
    BY DEF RcuTypeOK, Proxy
  <2> QED
    BY <2>1, <1>4, MarkKeeps DEF proxy_remove, MarkIn
<1>5. ASSUME NEW g \in Gens, gen_finalize(g)
      PROVE  CslabInv'
  BY <1>5, NextIsMarked, FinalizeKeeps DEF gen_finalize
<1>6. ASSUME NEW g \in Gens, gen_end(g)
      PROVE  CslabInv'
  <2>1. dropped' \in [Items -> Nat]
    BY <1>0, <1>6 DEF gen_end
  <2> QED
    BY <2>1, <1>0, <1>6, DropsKeep DEF gen_end
<1>7. CASE storage_drop
  <2>1. \A v \in Items : Cardinality({i \in Scanned : table[i] = ItemEntry(v)}) \in Nat
    <3>1. \A v \in Items : {i \in Scanned : table[i] = ItemEntry(v)} \in SUBSET Slots
      BY <1>0 DEF Scanned
    <3> QED
      BY <3>1, SlotsFinite, FS_CardinalityType
  <2>2. dropped' \in [Items -> Nat]
    BY <2>1, <1>0, <1>7 DEF storage_drop, drop_storage
  <2> QED
    BY <2>2, <1>7, DropsKeep DEF storage_drop, drop_storage
<1>8. CASE vacant_key \/ vacant_entry \/ entry_drop \/ rcu_insert_return \/ iter_mut
           \/ iter_drop \/ slab_drop \/ Finished \/ UNCHANGED rcuVars
  BY <1>1, <1>8 DEF vacant_key, vacant_entry, entry_drop, rcu_insert_return, iter_mut,
     iter_drop, slab_drop, Finished, rcuVars, advance_generation
<1>9. ASSUME NEW i \in Slots, iter_next(i) \/ iter_next_back(i)
      PROVE  CslabInv'
  BY <1>1, <1>9 DEF iter_next, iter_next_back, Yield
<1>10. ASSUME NEW h \in Handles, schedule_finalization(h) \/ reader(h) \/ drop_handle(h)
       PROVE  CslabInv'
  BY <1>1, <1>10 DEF schedule_finalization, reader, drop_handle, advance_generation
<1>11. ASSUME NEW p \in proxies, proxy_drop(p)
       PROVE  CslabInv'
  BY <1>1, <1>11 DEF proxy_drop
<1>12. ASSUME NEW m \in marking, push_pending(m)
       PROVE  CslabInv'
  BY <1>1, <1>12 DEF push_pending
<1>13. ASSUME NEW h \in Handles, NEW k \in Handles, clone(h, k)
       PROVE  CslabInv'
  BY <1>1, <1>13 DEF clone
<1>14. ASSUME NEW h \in Handles, NEW i \in Slots, get(h, i)
       PROVE  CslabInv'
  BY <1>1, <1>14 DEF get
<1>15. ASSUME NEW g \in Gens, gen_lock(g) \/ gen_unlock(g)
       PROVE  CslabInv'
  BY <1>1, <1>15 DEF gen_lock, gen_unlock
<1> QED
  BY <1>2, <1>3, <1>4, <1>5, <1>6, <1>7, <1>8, <1>9, <1>10, <1>11, <1>12, <1>13, <1>14, <1>15
  DEF RcuNext, Writer, Proxies, Readers, Destructor

----------------------------------------------------------------------------
(* Removals. *)

\* insert() fills a slot that was neither present nor marked.
LEMMA InsertMarked ==
  ASSUME RcuTypeOK, CslabInv, NEW v \in Items, insert(v)
  PROVE  MarkedSlots' = MarkedSlots /\ first_free \in Slots /\ ~HasItem(first_free)
<1>1. first_free \in FreeSlots
  BY CapacityAssumption DEF insert, CslabInv, FreelistExact, IsRank
<1>2. first_free \in Slots /\ ~HasItem(first_free)
  BY <1>1 DEF FreeSlots
<1>3. \A i \in Slots : i # first_free => table'[i] = table[i]
  BY <1>2 DEF insert, CslabInv, CslabTypeOK
<1>4. bitmap' = bitmap \cup {first_free}
  BY DEF insert
<1> QED
  BY <1>2, <1>3, <1>4 DEF MarkedSlots, ItemSlots, HasItem

\* mark_removed() marks a slot that was not marked before.
LEMMA MarkMarked ==
  ASSUME CslabInv, NEW i \in Slots, mark_removed(i)
  PROVE  /\ MarkedSlots' = MarkedSlots \cup {i} /\ i \notin MarkedSlots
         /\ HasItem(i) /\ UNCHANGED table
<1>1. HasItem(i) /\ i \in bitmap
  BY DEF mark_removed, CslabInv, FlagsSound
<1>2. \A j \in Slots : HasItem(j)' = HasItem(j)
  BY DEF mark_removed, HasItem
<1> QED
  BY <1>1, <1>2 DEF MarkedSlots, ItemSlots, mark_removed

\* finalize_remove() unmarks its slot and no other.
LEMMA FinalizeMarked ==
  ASSUME CslabInv, NEW i \in MarkedSlots, finalize_remove(i)
  PROVE  MarkedSlots' = MarkedSlots \ {i} /\ \A j \in Slots : j # i => table'[j] = table[j]
<1>1. i \in Slots /\ i \notin bitmap /\ table \in [Slots -> Entry]
  BY DEF MarkedSlots, ItemSlots, CslabInv, CslabTypeOK
<1>2. \A j \in Slots : j # i => table'[j] = table[j]
  BY <1>1 DEF finalize_remove
<1>3. ~HasItem(i)'
  BY <1>1 DEF finalize_remove, HasItem, FreeEntry
<1>4. \A j \in Slots : HasItem(j)' <=> HasItem(j) /\ j # i
  BY <1>2, <1>3 DEF HasItem
<1> QED
  BY <1>1, <1>2, <1>4 DEF MarkedSlots, ItemSlots, finalize_remove

\* A step of any kind leaves every removal recorded once.
LEMMA TrackStep ==
  ASSUME RcuTypeOK, CslabInv, RemovalsTracked, [RcuNext]_rcuVars
  PROVE  RemovalsTracked'
<1>1. ASSUME UNCHANGED <<MarkedSlots, pending, marking>> PROVE RemovalsTracked'
  <2>1. \A g \in Gens : Pending(g)' = Pending(g)
    BY <1>1 DEF Pending
  <2> QED
    BY <2>1, <1>1 DEF RemovalsTracked
<1>2. ASSUME UNCHANGED <<cslabVars, pending, marking>> PROVE RemovalsTracked'
  BY <1>1, <1>2 DEF cslabVars, MarkedSlots, ItemSlots, HasItem
<1>3. ASSUME NEW v \in Items, rcu_insert(v) \/ rcu_insert_full(v) \/ entry_insert(v)
      PROVE  RemovalsTracked'
  <2>1. CASE insert(v)
    BY <2>1, <1>1, <1>3, InsertMarked DEF rcu_insert, rcu_insert_full, entry_insert
  <2>2. CASE insert_full(v)
    BY <2>2, <1>1, <1>3 DEF rcu_insert, rcu_insert_full, entry_insert, insert_full,
       MarkedSlots, ItemSlots, HasItem
  <2> QED
    BY <2>1, <2>2, <1>3 DEF rcu_insert, rcu_insert_full, entry_insert
<1>4. ASSUME NEW i \in Slots, NEW g \in Gens, MarkIn(i, g)
      PROVE  RemovalsTracked'
  <2> DEFINE m == [idx |-> i, gen |-> g]
  <2>1. MarkedSlots' = MarkedSlots \cup {i} /\ i \notin MarkedSlots
    BY <1>4, MarkMarked DEF MarkIn
  <2>2. marking' = marking \cup {m} /\ pending' = pending
    BY <1>4 DEF MarkIn
  <2>3. \A q \in Gens : Pending(q)' = Pending(q) /\ i \notin Pending(q)
    <3>1. \A q \in Gens : Pending(q)' = Pending(q)
      BY <2>2 DEF Pending
    <3> QED
      BY <3>1, <2>1 DEF RemovalsTracked
  <2>4. \A n \in marking : n.idx # i
    BY <2>1 DEF RemovalsTracked
  <2>5. \A j \in Slots : (\E n \in marking' : n.idx = j) <=> j = i \/ \E n \in marking : n.idx = j
    <3>1. m \in marking' /\ m.idx = i /\ \A n \in marking' : n = m \/ n \in marking
      BY <2>2
    <3>2. \A n \in marking : n \in marking'
      BY <2>2
    <3> QED
      BY <3>1, <3>2, Zenon
  <2>6. \A j \in Slots : j \in MarkedSlots' <=> \/ \E q \in Gens : j \in Pending(q)'
                                              \/ \E n \in marking' : n.idx = j
    BY <2>1, <2>3, <2>5 DEF RemovalsTracked
  <2>7. \A a, b \in marking' : a.idx = b.idx => a = b
    BY <2>2, <2>4 DEF RemovalsTracked
  <2>8. \A a \in marking', q \in Gens : a.idx \notin Pending(q)'
    BY <2>2, <2>3 DEF RemovalsTracked
  <2> QED
    BY <2>2, <2>6, <2>7, <2>8 DEF RemovalsTracked
<1>5. ASSUME NEW i \in Slots, rcu_mark_removed(i)
      PROVE  RemovalsTracked'
  BY <1>4, <1>5, UseSlabFacts DEF rcu_mark_removed
<1>6. ASSUME NEW p \in proxies, proxy_remove(p)
      PROVE  RemovalsTracked'
  <2>1. p.idx \in Slots /\ p.gen \in Gens
    BY DEF RcuTypeOK, Proxy
  <2> QED
    BY <2>1, <1>4, <1>6 DEF proxy_remove
<1>7. ASSUME NEW m \in marking, push_pending(m)
      PROVE  RemovalsTracked'
  <2> DEFINE k == Len(pending[m.gen]) + 1
  <2>1. m.idx \in Slots /\ m.gen \in Gens
    BY DEF RcuTypeOK
  <2>2. /\ pending \in [Gens -> Seq(Slots)]
        /\ pending' = [pending EXCEPT ![m.gen] = Append(pending[m.gen], m.idx)]
        /\ marking' = marking \ {m}
    BY <1>7 DEF push_pending, RcuTypeOK
  <2>3. /\ pending'[m.gen] = Append(pending[m.gen], m.idx)
        /\ Len(pending[m.gen]) \in Nat /\ Len(pending'[m.gen]) = k
        /\ pending'[m.gen][k] = m.idx
        /\ \A n \in 1 .. Len(pending[m.gen]) : pending'[m.gen][n] = pending[m.gen][n]
    BY <2>1, <2>2, SeqFacts
  <2>4. \A g \in Gens : g # m.gen => pending'[g] = pending[g]
    BY <2>2
  <2>5. /\ Pending(m.gen)' = Pending(m.gen) \cup {m.idx}
        /\ \A g \in Gens : g # m.gen => Pending(g)' = Pending(g)
    BY <2>1, <2>3, <2>4 DEF Pending
  <2>6. \A g \in Gens : m.idx \notin Pending(g)
    BY DEF RemovalsTracked
  <2>7. MarkedSlots' = MarkedSlots
    BY <1>7 DEF push_pending, cslabVars, MarkedSlots, ItemSlots, HasItem
  <2>8. \A j \in Slots : j \in MarkedSlots' <=> \/ \E q \in Gens : j \in Pending(q)'
                                              \/ \E n \in marking' : n.idx = j
    <3> SUFFICES ASSUME NEW j \in Slots
                 PROVE  j \in MarkedSlots <=> \/ \E q \in Gens : j \in Pending(q)'
                                             \/ \E n \in marking' : n.idx = j
      BY <2>7
    <3>1. (\E q \in Gens : j \in Pending(q)') <=> j = m.idx \/ \E q \in Gens : j \in Pending(q)
      BY <2>1, <2>5
    <3>2. (\E n \in marking : n.idx = j) <=> j = m.idx \/ \E n \in marking' : n.idx = j
      BY <2>2
    <3>3. j \in MarkedSlots <=> \/ \E q \in Gens : j \in Pending(q)
                               \/ \E n \in marking : n.idx = j
      BY DEF RemovalsTracked
    <3> QED
      BY <3>1, <3>2, <3>3
  <2>9. ASSUME NEW g \in Gens, NEW q \in Gens,
               NEW a \in 1 .. Len(pending'[g]), NEW b \in 1 .. Len(pending'[q]),
               pending'[g][a] = pending'[q][b]
        PROVE  g = q /\ a = b
    <3>1. \A x \in Gens : \A n \in 1 .. Len(pending'[x]) :
            \/ x = m.gen /\ n = k /\ pending'[x][n] = m.idx
            \/ n \in 1 .. Len(pending[x]) /\ pending'[x][n] = pending[x][n]
               /\ pending[x][n] \in Pending(x)
      <4>1. ASSUME NEW x \in Gens, NEW n \in 1 .. Len(pending'[x])
            PROVE  \/ x = m.gen /\ n = k /\ pending'[x][n] = m.idx
                   \/ n \in 1 .. Len(pending[x]) /\ pending'[x][n] = pending[x][n]
        <5>1. CASE x = m.gen
          BY <5>1, <2>3
        <5>2. CASE x # m.gen
          BY <5>2, <2>4
        <5> QED
          BY <5>1, <5>2
      <4>2. \A x \in Gens : \A n \in 1 .. Len(pending[x]) : pending[x][n] \in Pending(x)
        BY DEF Pending
      <4> QED
        BY <4>1, <4>2
    <3>2. \/ g = m.gen /\ a = k /\ pending'[g][a] = m.idx
          \/ a \in 1 .. Len(pending[g]) /\ pending'[g][a] = pending[g][a]
             /\ pending[g][a] \in Pending(g)
      BY <3>1
    <3>3. \/ q = m.gen /\ b = k /\ pending'[q][b] = m.idx
          \/ b \in 1 .. Len(pending[q]) /\ pending'[q][b] = pending[q][b]
             /\ pending[q][b] \in Pending(q)
      BY <3>1
    <3> QED
      BY <3>2, <3>3, <2>6, <2>9 DEF RemovalsTracked
  <2>10. \A a, b \in marking' : a.idx = b.idx => a = b
    BY <2>2 DEF RemovalsTracked
  <2>11. \A a \in marking', q \in Gens : a.idx \notin Pending(q)'
    BY <2>2, <2>5 DEF RemovalsTracked
  <2> QED
    BY <2>8, <2>9, <2>10, <2>11 DEF RemovalsTracked
<1>8. ASSUME NEW e \in Gens, gen_finalize(e)
      PROVE  RemovalsTracked'
  <2> DEFINE i == Head(pending[e])
  <2>1. /\ pending \in [Gens -> Seq(Slots)] /\ pending[e] # <<>>
        /\ pending' = [pending EXCEPT ![e] = Tail(pending[e])]
        /\ marking' = marking /\ finalize_remove(i)
    BY <1>8 DEF gen_finalize, RcuTypeOK
  <2>2. /\ pending'[e] = Tail(pending[e])
        /\ Len(pending[e]) \in Nat /\ Len(pending[e]) > 0
        /\ Len(pending'[e]) = Len(pending[e]) - 1
        /\ i = pending[e][1]
        /\ \A n \in 1 .. Len(pending[e]) - 1 : pending'[e][n] = pending[e][n + 1]
    BY <2>1, SeqFacts
  <2>3. \A g \in Gens : g # e => pending'[g] = pending[g]
    BY <2>1
  <2>4. i \in MarkedSlots /\ i \in Pending(e)
    <3>1. i \in Pending(e)
      BY <2>2 DEF Pending
    <3> QED
      BY <3>1, <2>1, NextIsMarked
  <2>5. MarkedSlots' = MarkedSlots \ {i}
    BY <2>1, <2>4, FinalizeMarked
  <2>6. \A n \in 2 .. Len(pending[e]) : pending[e][n] # i
    BY <2>2 DEF RemovalsTracked
  <2>7. \A g \in Gens : g # e => Pending(g)' = Pending(g) /\ i \notin Pending(g)
    BY <2>2, <2>3 DEF Pending, RemovalsTracked
  <2>8. Pending(e)' = Pending(e) \ {i}
    <3>1. ASSUME NEW x \in Pending(e)' PROVE x \in Pending(e) \ {i}
      <4>1. PICK n \in 1 .. Len(pending[e]) - 1 : x = pending[e][n + 1]
        BY <3>1, <2>2 DEF Pending
      <4> QED
        BY <4>1, <2>2, <2>6 DEF Pending
    <3>2. ASSUME NEW x \in Pending(e) \ {i} PROVE x \in Pending(e)'
      <4>1. PICK n \in 1 .. Len(pending[e]) : x = pending[e][n]
        BY <3>2 DEF Pending
      <4>2. n - 1 \in 1 .. Len(pending[e]) - 1 /\ (n - 1) + 1 = n
        BY <4>1, <3>2, <2>2
      <4>3. pending'[e][n - 1] = x
        BY <4>1, <4>2, <2>2
      <4> QED
        BY <4>2, <4>3, <2>2 DEF Pending
    <3> QED
      BY <3>1, <3>2
  <2>9. \A m \in marking : m.idx # i
    BY <2>4 DEF RemovalsTracked
  <2>10. \A j \in Slots : j \in MarkedSlots' <=> \/ \E q \in Gens : j \in Pending(q)'
                                               \/ \E n \in marking' : n.idx = j
    <3> SUFFICES ASSUME NEW j \in Slots
                 PROVE  j \in MarkedSlots' <=> \/ \E q \in Gens : j \in Pending(q)'
                                              \/ \E n \in marking' : n.idx = j
      OBVIOUS
    <3>1. (\E q \in Gens : j \in Pending(q)') <=> j # i /\ \E q \in Gens : j \in Pending(q)
      BY <2>7, <2>8
    <3>2. (\E n \in marking' : n.idx = j) <=> j # i /\ \E n \in marking : n.idx = j
      BY <2>1, <2>9
    <3>3. j \in MarkedSlots <=> \/ \E q \in Gens : j \in Pending(q)
                               \/ \E n \in marking : n.idx = j
      BY DEF RemovalsTracked
    <3> QED
      BY <3>1, <3>2, <3>3, <2>5
  <2>11. ASSUME NEW g \in Gens, NEW q \in Gens,
                NEW a \in 1 .. Len(pending'[g]), NEW b \in 1 .. Len(pending'[q]),
                pending'[g][a] = pending'[q][b]
         PROVE  g = q /\ a = b
    <3> DEFINE up(x) == IF x = e THEN 1 ELSE 0
    <3>1. \A x \in Gens : \A n \in 1 .. Len(pending'[x]) :
            /\ n + up(x) \in 1 .. Len(pending[x])
            /\ pending'[x][n] = pending[x][n + up(x)]
      <4> SUFFICES ASSUME NEW x \in Gens, NEW n \in 1 .. Len(pending'[x])
                   PROVE  /\ n + up(x) \in 1 .. Len(pending[x])
                          /\ pending'[x][n] = pending[x][n + up(x)]
        OBVIOUS
      <4>1. CASE x = e
        BY <4>1, <2>2
      <4>2. CASE x # e
        BY <4>2, <2>3
      <4> QED
        BY <4>1, <4>2
    <3>2. /\ a + up(g) \in 1 .. Len(pending[g]) /\ b + up(q) \in 1 .. Len(pending[q])
          /\ pending[g][a + up(g)] = pending[q][b + up(q)]
      BY <3>1, <2>11
    <3>3. g = q /\ a + up(g) = b + up(q)
      BY <3>2 DEF RemovalsTracked
    <3> QED
      BY <3>3
  <2>12. ASSUME NEW m \in marking', NEW q \in Gens PROVE m.idx \notin Pending(q)'
    <3>1. m.idx \notin Pending(q)
      BY <2>1, <2>12 DEF RemovalsTracked
    <3>2. Pending(q)' \subseteq Pending(q)
      BY <2>7, <2>8
    <3> QED
      BY <3>1, <3>2
  <2> QED
    BY <2>1, <2>10, <2>11, <2>12 DEF RemovalsTracked
<1>9. ASSUME NEW g \in Gens, gen_end(g) \/ gen_lock(g) \/ gen_unlock(g)
      PROVE  RemovalsTracked'
  BY <1>1, <1>9 DEF gen_end, gen_lock, gen_unlock, cslabVars, MarkedSlots, ItemSlots, HasItem
<1>10. CASE storage_drop
  BY <1>1, <1>10 DEF storage_drop, drop_storage, MarkedSlots, ItemSlots, HasItem
<1>11. CASE vacant_key \/ vacant_entry \/ entry_drop \/ rcu_insert_return \/ iter_mut
            \/ iter_drop \/ slab_drop \/ Finished \/ UNCHANGED rcuVars
  BY <1>2, <1>11 DEF vacant_key, vacant_entry, entry_drop, rcu_insert_return, iter_mut,
     iter_drop, slab_drop, Finished, rcuVars, advance_generation
<1>12. ASSUME NEW i \in Slots, iter_next(i) \/ iter_next_back(i)
       PROVE  RemovalsTracked'
  BY <1>2, <1>12 DEF iter_next, iter_next_back, Yield
<1>13. ASSUME NEW h \in Handles, schedule_finalization(h) \/ reader(h) \/ drop_handle(h)
       PROVE  RemovalsTracked'
  BY <1>2, <1>13 DEF schedule_finalization, reader, drop_handle, advance_generation
<1>14. ASSUME NEW p \in proxies, proxy_drop(p)
       PROVE  RemovalsTracked'
  BY <1>2, <1>14 DEF proxy_drop
<1>15. ASSUME NEW h \in Handles, NEW k \in Handles, clone(h, k)
       PROVE  RemovalsTracked'
  BY <1>2, <1>15 DEF clone
<1>16. ASSUME NEW h \in Handles, NEW i \in Slots, get(h, i)
       PROVE  RemovalsTracked'
  BY <1>2, <1>16 DEF get
<1> QED
  BY <1>3, <1>5, <1>6, <1>7, <1>8, <1>9, <1>10, <1>11, <1>12, <1>13, <1>14, <1>15, <1>16
  DEF RcuNext, Writer, Proxies, Readers, Destructor

----------------------------------------------------------------------------
(* Types. *)

GState == Ending \cup {"unborn", "live", "gone"}

\* Settling keeps the generations' states, and RunInline picks one of them.
LEMMA SettleType ==
  /\ \A gs \in [Gens -> GState] : Settle(gs) => gstate' \in [Gens -> GState]
  /\ RunInline => inline' \in Gens \cup {NoGen}
BY DEF Settle, GState, Ending, RunInline

\* What next() and next_back() leave of an iterator.
LEMMA IterFacts ==
  ASSUME RcuTypeOK, IterInv, NEW i \in Slots, iter_next(i) \/ iter_next_back(i)
  PROVE  /\ it.on /\ it'.on
         /\ Ahead' = Ahead \ {i} /\ i \in Ahead
         /\ it'.head \in 0 .. Capacity /\ it'.tail \in 0 .. Capacity
         /\ it'.remaining \in Nat
         /\ it'.remaining = Cardinality(Ahead')
         /\ it' \in [on : BOOLEAN, head : 0 .. Capacity, tail : 0 .. Capacity, remaining : Nat]
<1> USE CapacityAssumption
<1>1. /\ it \in [on : BOOLEAN, head : 0 .. Capacity, tail : 0 .. Capacity, remaining : Nat]
      /\ bitmap \in SUBSET Slots
  BY DEF RcuTypeOK, CslabTypeOK
<1>2. /\ it.on /\ i \in Ahead /\ bitmap' = bitmap
      /\ it.remaining = Cardinality(Ahead)
  BY DEF iter_next, iter_next_back, Yield, IterInv, cslabVars
<1>3. \/ /\ \A j \in Ahead : i <= j
         /\ it' = [it EXCEPT !.head = i + 1, !.remaining = @ - 1]
      \/ /\ \A j \in Ahead : i >= j
         /\ it' = [it EXCEPT !.tail = i, !.remaining = @ - 1]
  BY DEF iter_next, iter_next_back
<1>4. /\ it'.on /\ it'.remaining = it.remaining - 1
      /\ \/ (\A j \in Ahead : i <= j) /\ it'.head = i + 1 /\ it'.tail = it.tail
         \/ (\A j \in Ahead : i >= j) /\ it'.tail = i /\ it'.head = it.head
  <2>1. it.on /\ it.remaining \in Nat
    BY <1>1, <1>2
  <2>2. CASE (\A j \in Ahead : i <= j) /\ it' = [it EXCEPT !.head = i + 1, !.remaining = @ - 1]
    BY <2>1, <2>2, <1>1
  <2>3. CASE (\A j \in Ahead : i >= j) /\ it' = [it EXCEPT !.tail = i, !.remaining = @ - 1]
    BY <2>1, <2>3, <1>1
  <2> QED
    BY <2>2, <2>3, <1>3
<1>5. Ahead' = Ahead \ {i} /\ it'.head \in 0 .. Capacity /\ it'.tail \in 0 .. Capacity
  <2>1. \A j \in bitmap : j \in 0 .. Capacity - 1 /\ (j \in Ahead <=> it.head <= j /\ j < it.tail)
    BY <1>1 DEF Ahead, Slots
  <2>2. i \in 0 .. Capacity - 1 /\ \A j \in bitmap : j \in Ahead' <=> it'.head <= j /\ j < it'.tail
    BY <1>2 DEF Ahead, Slots
  <2>3. Ahead \subseteq bitmap /\ Ahead' \subseteq bitmap /\ i \in bitmap
    BY <1>2 DEF Ahead
  <2>4. it.head \in 0 .. Capacity /\ it.tail \in 0 .. Capacity
    BY <1>1
  <2>5. CASE (\A j \in Ahead : i <= j) /\ it'.head = i + 1 /\ it'.tail = it.tail
    <3>1. ASSUME NEW j \in bitmap PROVE j \in Ahead' <=> j \in Ahead /\ j # i
      <4>1. /\ j \in 0 .. Capacity - 1
            /\ j \in Ahead <=> it.head <= j /\ j < it.tail
            /\ i \in Ahead <=> it.head <= i /\ i < it.tail
            /\ j \in Ahead' <=> it'.head <= j /\ j < it'.tail
        BY <2>1, <2>2, <2>3
      <4> QED
        BY <4>1, <2>2, <2>4, <2>5, <1>2
    <3>2. Ahead' = Ahead \ {i}
      BY <3>1, <2>3
    <3>3. it'.head \in 0 .. Capacity /\ it'.tail \in 0 .. Capacity
      BY <2>2, <2>4, <2>5
    <3> QED
      BY <3>2, <3>3
  <2>6. CASE (\A j \in Ahead : i >= j) /\ it'.tail = i /\ it'.head = it.head
    <3>1. ASSUME NEW j \in bitmap PROVE j \in Ahead' <=> j \in Ahead /\ j # i
      <4>1. /\ j \in 0 .. Capacity - 1
            /\ j \in Ahead <=> it.head <= j /\ j < it.tail
            /\ i \in Ahead <=> it.head <= i /\ i < it.tail
            /\ j \in Ahead' <=> it'.head <= j /\ j < it'.tail
        BY <2>1, <2>2, <2>3
      <4> QED
        BY <4>1, <2>2, <2>4, <2>6, <1>2
    <3>2. Ahead' = Ahead \ {i}
      BY <3>1, <2>3
    <3>3. it'.head \in 0 .. Capacity /\ it'.tail \in 0 .. Capacity
      BY <2>2, <2>4, <2>6
    <3> QED
      BY <3>2, <3>3
  <2> QED
    BY <2>5, <2>6, <1>4
<1>6. IsFiniteSet(Ahead)
  BY <1>1, SlotsFinite, FS_Subset DEF Ahead
<1>7. Cardinality(Ahead) \in Nat /\ Cardinality(Ahead \ {i}) = Cardinality(Ahead) - 1
  BY <1>2, <1>6, FS_RemoveElement, FS_CardinalityType
<1>8. Cardinality(Ahead \ {i}) \in Nat
  BY <1>6, FS_Subset, FS_CardinalityType
<1>9. it' \in [on : BOOLEAN, head : 0 .. Capacity, tail : 0 .. Capacity, remaining : Nat]
  <2>1. it'.remaining \in Nat
    BY <1>2, <1>4, <1>7, <1>8
  <2>2. it.remaining - 1 \in Nat
    BY <2>1, <1>4
  <2> QED
    BY <2>2, <1>1, <1>3, <1>4, <1>5
<1> QED
  BY <1>2, <1>4, <1>5, <1>7, <1>8, <1>9

\* A step of any kind keeps the types.
LEMMA TypeStep ==
  ASSUME RcuInv, [RcuNext]_rcuVars
  PROVE  RcuTypeOK'
<1>0. /\ NoKey \in 0 .. Capacity /\ 0 \in 0 .. Capacity
      /\ NoIter \in [on : BOOLEAN, head : 0 .. Capacity, tail : 0 .. Capacity, remaining : Nat]
  BY CapacityAssumption DEF NoKey, NoIter
<1>1. RcuTypeOK /\ IterInv /\ CslabTypeOK' /\ (it.on => cur_gen # NoGen)
  BY SlabStep DEF RcuInv, WriterInv, CslabInv, ReaderInv, WriterLives
<1>2. /\ cur_gen \in Gens \cup {NoGen}
      /\ gstate \in [Gens -> GState]
      /\ pending \in [Gens -> Seq(Slots)]
      /\ next_gen \in [Gens -> Gens \cup {NoGen}]
      /\ limbo \in [Gens -> SUBSET Items]
      /\ mutex \in {"free", "entry", "reject", "finalize"}
      /\ inline \in Gens \cup {NoGen}
      /\ marking \in SUBSET [idx : Slots, gen : Gens]
      /\ it \in [on : BOOLEAN, head : 0 .. Capacity, tail : 0 .. Capacity, remaining : Nat]
      /\ proxies \in SUBSET Proxy
      /\ key \in 0 .. Capacity
      /\ handle \in [Handles -> Gens \cup {NoGen}]
      /\ unseen \in [Handles -> SUBSET Slots]
      /\ refs \in [Handles -> SUBSET (Slots \X Items)]
      /\ first_free \in 0 .. Capacity /\ frontier \in 0 .. Capacity /\ in_use \in Nat
  BY <1>1 DEF RcuTypeOK, GState, CslabTypeOK
<1>3. UseSlab => cur_gen \in Gens /\ proxies' \in SUBSET Proxy
  BY <1>1, UseSlabFacts
<1> USE DEF genVars, readerVars, RcuTypeOK, GState
<1>4. \A gs \in [Gens -> GState] : Settle(gs) => gstate' \in [Gens -> GState]
  BY SettleType
<1>5. RunInline => inline' \in Gens \cup {NoGen}
  BY SettleType
<1>6. ASSUME NEW v \in Items, rcu_insert(v) \/ rcu_insert_full(v) \/ entry_insert(v)
      PROVE  RcuTypeOK'
  BY <1>1, <1>2, <1>3, <1>6, <1>0 DEF rcu_insert, rcu_insert_full, entry_insert
<1>7. CASE vacant_key \/ vacant_entry \/ entry_drop \/ rcu_insert_return
  BY <1>0, <1>1, <1>2, <1>3, <1>7 DEF vacant_key, vacant_entry, entry_drop, rcu_insert_return
<1>8. CASE iter_mut
  BY <1>1, <1>2, <1>3, <1>8, <1>0 DEF iter_mut
<1>9. ASSUME NEW i \in Slots, NEW g \in Gens, MarkIn(i, g), proxies' \in SUBSET Proxy
      PROVE  RcuTypeOK'
  BY <1>1, <1>2, <1>9, <1>0 DEF MarkIn
<1>10. ASSUME NEW i \in Slots, rcu_mark_removed(i)
       PROVE  RcuTypeOK'
  BY <1>3, <1>9, <1>10 DEF rcu_mark_removed
<1>11. ASSUME NEW i \in Slots, iter_next(i) \/ iter_next_back(i)
       PROVE  RcuTypeOK'
  <2>1. it' \in [on : BOOLEAN, head : 0 .. Capacity, tail : 0 .. Capacity, remaining : Nat] /\ it.on
    BY <1>1, <1>11, IterFacts
  <2>2. cur_gen \in Gens
    BY <2>1, <1>1, <1>2
  <2>3. proxies' \in SUBSET Proxy
    <3>1. [idx |-> i, gen |-> cur_gen, usable |-> TRUE] \in Proxy
      BY <2>2 DEF Proxy
    <3> QED
      BY <3>1, <1>2, <1>11 DEF iter_next, iter_next_back, Yield
  <2> QED
    BY <2>1, <2>3, <1>1, <1>2, <1>11 DEF iter_next, iter_next_back, Yield
<1>12. ASSUME NEW h \in Handles, reader(h)
       PROVE  RcuTypeOK'
  BY <1>1, <1>2, <1>3, <1>12 DEF reader, NewReader
<1>13. ASSUME NEW h \in Handles, schedule_finalization(h)
       PROVE  RcuTypeOK'
  <2>1. cur_gen + 1 \in Gens /\ cur_gen \in Gens
    BY <1>3, <1>13, MaxGenAssumption DEF schedule_finalization, advance_generation, Gens
  <2>2. [gstate EXCEPT ![cur_gen + 1] = "live"] \in [Gens -> GState]
    BY <1>2
  <2>3. gstate' \in [Gens -> GState] /\ inline' \in Gens \cup {NoGen}
    BY <2>2, <1>4, <1>5, <1>13, <1>0 DEF schedule_finalization
  <2> QED
    BY <2>1, <2>3, <1>1, <1>2, <1>3, <1>13, <1>0 DEF schedule_finalization, advance_generation, NewReader
<1>14. CASE iter_drop
  <2>1. cur_gen + 1 \in Gens /\ cur_gen \in Gens
    BY <1>1, <1>2, <1>14, MaxGenAssumption DEF iter_drop, advance_generation, Gens, NoGen
  <2>2. [gstate EXCEPT ![cur_gen + 1] = "live"] \in [Gens -> GState]
    BY <1>2
  <2>3. gstate' \in [Gens -> GState] /\ inline' \in Gens \cup {NoGen}
    BY <2>2, <1>4, <1>5, <1>14, <1>0 DEF iter_drop
  <2> QED
    BY <2>1, <2>3, <1>1, <1>2, <1>14, <1>0 DEF iter_drop, advance_generation
<1>15. CASE slab_drop
  BY <1>1, <1>2, <1>3, <1>4, <1>5, <1>15, <1>0 DEF slab_drop
<1>16. ASSUME NEW p \in proxies, proxy_remove(p)
       PROVE  RcuTypeOK'
  <2>1. p.idx \in Slots /\ p.gen \in Gens
    BY <1>2 DEF Proxy
  <2> QED
    BY <2>1, <1>2, <1>9, <1>16 DEF proxy_remove
<1>17. ASSUME NEW p \in proxies, proxy_drop(p)
       PROVE  RcuTypeOK'
  BY <1>1, <1>2, <1>4, <1>17 DEF proxy_drop
<1>18. ASSUME NEW m \in marking, push_pending(m)
       PROVE  RcuTypeOK'
  <2>1. m.gen \in Gens /\ m.idx \in Slots
    BY <1>2
  <2>2. Append(pending[m.gen], m.idx) \in Seq(Slots)
    BY <2>1, <1>2, SeqFacts
  <2>3. pending' \in [Gens -> Seq(Slots)]
    BY <2>1, <2>2, <1>2, <1>18 DEF push_pending
  <2>4. gstate' \in [Gens -> GState] /\ inline' \in Gens \cup {NoGen}
    BY <1>2, <1>4, <1>5, <1>18 DEF push_pending
  <2> QED
    BY <2>3, <2>4, <1>1, <1>2, <1>18 DEF push_pending
<1>19. ASSUME NEW h \in Handles, drop_handle(h)
       PROVE  RcuTypeOK'
  BY <1>1, <1>2, <1>4, <1>19 DEF drop_handle
<1>20. ASSUME NEW h \in Handles, NEW k \in Handles, clone(h, k)
       PROVE  RcuTypeOK'
  BY <1>1, <1>2, <1>20 DEF clone
<1>21. ASSUME NEW h \in Handles, NEW i \in Slots, get(h, i)
       PROVE  RcuTypeOK'
  <2>1. table[i].item \in Items
    BY <1>1, <1>21 DEF get, HasItem, CslabTypeOK, Entry
  <2>2. refs' \in [Handles -> SUBSET (Slots \X Items)]
    BY <2>1, <1>2, <1>21 DEF get
  <2> QED
    BY <2>2, <1>1, <1>2, <1>21 DEF get
<1>22. ASSUME NEW g \in Gens, gen_lock(g) \/ gen_unlock(g)
       PROVE  RcuTypeOK'
  BY <1>1, <1>2, <1>22 DEF gen_lock, gen_unlock, Ending
<1>23. ASSUME NEW g \in Gens, gen_finalize(g)
       PROVE  RcuTypeOK'
  <2> DEFINE i == Head(pending[g])
  <2>1. i \in MarkedSlots
    BY <1>1, <1>23, NextIsMarked DEF gen_finalize, RcuInv
  <2>2. table[i].item \in Items
    BY <2>1, <1>1 DEF MarkedSlots, ItemSlots, HasItem, CslabTypeOK, Entry
  <2>3. Tail(pending[g]) \in Seq(Slots)
    BY <1>2, <1>23, SeqFacts DEF gen_finalize
  <2>4. pending' \in [Gens -> Seq(Slots)] /\ limbo' \in [Gens -> SUBSET Items]
    BY <2>2, <2>3, <1>2, <1>23 DEF gen_finalize
  <2> QED
    BY <2>4, <1>1, <1>2, <1>23 DEF gen_finalize
<1>24. ASSUME NEW g \in Gens, gen_end(g)
       PROVE  RcuTypeOK'
  <2>1. [gstate EXCEPT ![g] = "gone"] \in [Gens -> GState]
    BY <1>2
  <2>2. gstate' \in [Gens -> GState] /\ inline' \in Gens \cup {NoGen}
    BY <2>1, <1>2, <1>4, <1>5, <1>24 DEF gen_end
  <2> QED
    BY <2>2, <1>1, <1>2, <1>24 DEF gen_end
<1>25. CASE storage_drop \/ Finished \/ UNCHANGED rcuVars
  BY <1>1, <1>2, <1>25 DEF storage_drop, Finished, rcuVars
<1> QED
  BY <1>6, <1>7, <1>8, <1>10, <1>11, <1>12, <1>13, <1>14, <1>15, <1>16, <1>17, <1>18, <1>19,
     <1>20, <1>21, <1>22, <1>23, <1>24, <1>25
  DEF RcuNext, Writer, Proxies, Readers, Destructor

----------------------------------------------------------------------------
(* Readers. *)

\* Every generation somebody holds is at most the writer's.
LEMMA HeldBelowCur ==
  ASSUME RcuTypeOK, GenInv, cur_gen # NoGen, NEW g \in Gens, gstate[g] # "unborn"
  PROVE  g <= cur_gen
BY MaxGenAssumption DEF RcuTypeOK, GenInv, CurIsNewest, Gens, NoGen

\* A live handle's generation is live.
LEMMA HandleLive ==
  ASSUME RcuTypeOK, GenInv, NEW h \in Live
  PROVE  h \in Handles /\ handle[h] \in Gens /\ gstate[handle[h]] = "live"
<1>1. h \in Handles /\ handle[h] \in Gens
  BY DEF Live, RcuTypeOK
<1>2. Held(handle[h])
  BY <1>1 DEF Held
<1> QED
  BY <1>1, <1>2 DEF GenInv, HoldersLive

\* What a destructor finalizes, every handle left has seen removed: a handle
\* that has not is of a generation no newer, which would have to be gone.
LEMMA FinalizedSeen ==
  ASSUME RcuTypeOK, GenInv, RemovalsTracked, UnseenWait,
         NEW g \in Gens, gstate[g] = "finalizing", pending[g] # <<>>, NEW h \in Live
  PROVE  Head(pending[g]) \notin unseen[h]
<1> DEFINE i == Head(pending[g])
<1> SUFFICES ASSUME i \in unseen[h] PROVE FALSE
  OBVIOUS
<1>1. i = pending[g][1] /\ 1 \in 1 .. Len(pending[g])
  BY SeqFacts DEF RcuTypeOK
<1>2. i \in Pending(g)
  BY <1>1 DEF Pending
<1>3. PICK q \in Gens : q >= handle[h] /\ i \in Pending(q)
  BY <1>2 DEF UnseenWait, RemovalsTracked
<1>4. PICK k \in 1 .. Len(pending[q]) : i = pending[q][k]
  BY <1>3 DEF Pending
<1>5. g = q
  BY <1>1, <1>4 DEF RemovalsTracked
<1>6. handle[h] \in Gens /\ gstate[handle[h]] = "live"
  BY HandleLive
<1>7. handle[h] # g
  BY <1>6
<1>8. handle[h] < g
  BY <1>3, <1>5, <1>6, <1>7, MaxGenAssumption DEF Gens
<1>9. gstate[handle[h]] = "gone"
  BY <1>6, <1>8 DEF GenInv, CreationOrder, Ending
<1> QED
  BY <1>6, <1>9

ReadersOwn == IdleHandles /\ UnseenWait /\ RefsKept /\ ProxiesNew

\* A step of any kind keeps what the handles rely on.
LEMMA ReaderStep ==
  ASSUME RcuInv, [RcuNext]_rcuVars
  PROVE  ReadersOwn'
<1> USE DEF ReadersOwn
<1>1. /\ RcuTypeOK /\ GenInv /\ CslabInv /\ RemovalsTracked /\ ReadersOwn
      /\ IterInv /\ (it.on => cur_gen # NoGen)
  BY DEF RcuInv, ReaderInv, WriterLives, WriterInv
<1>2. /\ cur_gen \in Gens \cup {NoGen}
      /\ pending \in [Gens -> Seq(Slots)]
      /\ marking \in SUBSET [idx : Slots, gen : Gens]
      /\ proxies \in SUBSET Proxy
      /\ handle \in [Handles -> Gens \cup {NoGen}]
      /\ unseen \in [Handles -> SUBSET Slots]
      /\ refs \in [Handles -> SUBSET (Slots \X Items)]
      /\ table \in [Slots -> Entry]
      /\ NoGen \notin Gens
  BY <1>1, MaxGenAssumption DEF RcuTypeOK, CslabTypeOK, Gens, NoGen
<1>3. UseSlab => \A p \in proxies' : ~p.usable
  BY <1>1, UseSlabFacts
\* What leaves handles, removals and items alone.
<1>4. ASSUME UNCHANGED <<handle, unseen, refs, pending, marking, table, bitmap>>,
             \A p \in proxies' : p.usable => p \in proxies
      PROVE  ReadersOwn'
  <2>1. Live' = Live /\ \A g \in Gens : Pending(g)' = Pending(g)
    BY <1>4 DEF Live, Pending
  <2>2. IdleHandles' /\ UnseenWait' /\ RefsKept'
    BY <2>1, <1>1, <1>4 DEF IdleHandles, UnseenWait, RefsKept
  <2>3. ProxiesNew'
    BY <2>1, <1>1, <1>4 DEF ProxiesNew
  <2> QED
    BY <2>2, <2>3
\* What fills a slot that held no item.
<1>5. ASSUME NEW v \in Items, insert(v), UNCHANGED <<handle, unseen, refs, pending, marking>>,
             \A p \in proxies' : p.usable => p \in proxies
      PROVE  ReadersOwn'
  <2>1. Live' = Live /\ \A g \in Gens : Pending(g)' = Pending(g)
    BY <1>5 DEF Live, Pending
  <2>2. IdleHandles' /\ UnseenWait' /\ ProxiesNew'
    BY <2>1, <1>1, <1>5 DEF IdleHandles, UnseenWait, ProxiesNew
  <2>3. first_free \in Slots /\ ~HasItem(first_free)
    BY <1>1, <1>5, InsertMarked
  <2>4. ASSUME NEW h \in Live', NEW r \in refs'[h]
        PROVE  table'[r[1]] = ItemEntry(r[2]) /\ r[1] \in bitmap' \cup unseen'[h]
    <3>1. table[r[1]] = ItemEntry(r[2]) /\ r[1] \in bitmap \cup unseen[h]
      BY <2>1, <2>4, <1>1, <1>5 DEF RefsKept
    <3>2. r[1] # first_free
      BY <3>1, <2>3 DEF HasItem, ItemEntry
    <3> QED
      BY <3>1, <3>2, <1>2, <1>5 DEF insert
  <2> QED
    BY <2>2, <2>4 DEF RefsKept
<1>6. ASSUME NEW i \in Slots, NEW g \in Gens, MarkIn(i, g),
             \A h \in Live : handle[h] <= g,
             \A p \in proxies' : p.usable => p \in proxies
      PROVE  ReadersOwn'
  <2>1. /\ UNCHANGED <<handle, refs, pending, table>> /\ bitmap' = bitmap \ {i}
        /\ marking' = marking \cup {[idx |-> i, gen |-> g]}
        /\ unseen' = [h \in Handles |-> IF h \in Live THEN unseen[h] \cup {i} ELSE {}]
    BY <1>6 DEF MarkIn, mark_removed
  <2>2. Live' = Live /\ \A q \in Gens : Pending(q)' = Pending(q)
    BY <2>1 DEF Live, Pending
  <2>3. \A h \in Live : h \in Handles /\ unseen'[h] = unseen[h] \cup {i}
    BY <2>1 DEF Live
  <2>4. IdleHandles'
    BY <2>1, <2>2, <1>1 DEF IdleHandles, Live
  <2>5. ProxiesNew'
    BY <2>2, <2>1, <1>1, <1>6 DEF ProxiesNew
  <2>6. RefsKept'
    BY <2>1, <2>2, <2>3, <1>1 DEF RefsKept
  <2>7. ASSUME NEW h \in Live', NEW j \in unseen'[h]
        PROVE  \/ \E q \in Gens : q >= handle'[h] /\ j \in Pending(q)'
               \/ \E m \in marking' : m.idx = j /\ m.gen >= handle'[h]
    <3>1. CASE j = i
      <4>1. [idx |-> i, gen |-> g] \in marking'
        BY <2>1
      <4>2. g >= handle'[h]
        BY <2>1, <2>2, <1>2, <1>6, HandleLive, <1>1, MaxGenAssumption DEF Gens
      <4> QED
        BY <4>1, <4>2, <3>1
    <3>2. CASE j \in unseen[h]
      <4>1. \/ \E q \in Gens : q >= handle[h] /\ j \in Pending(q)
            \/ \E m \in marking : m.idx = j /\ m.gen >= handle[h]
        BY <3>2, <2>2, <1>1 DEF UnseenWait
      <4> QED
        BY <4>1, <2>1, <2>2
    <3> QED
      BY <3>1, <3>2, <2>2, <2>3
  <2>8. UnseenWait'
    BY <2>7 DEF UnseenWait
  <2> QED
    BY <2>4, <2>5, <2>6, <2>8
<1> USE DEF cslabVars, readerVars
<1>7. ASSUME NEW v \in Items, rcu_insert(v) \/ rcu_insert_full(v) \/ entry_insert(v)
      PROVE  ReadersOwn'
  <2>1. /\ UNCHANGED <<handle, unseen, refs, pending, marking>>
        /\ \A p \in proxies' : p.usable => p \in proxies
    BY <1>3, <1>7 DEF rcu_insert, rcu_insert_full, entry_insert
  <2>2. insert(v) \/ UNCHANGED <<table, bitmap>>
    BY <1>7 DEF rcu_insert, rcu_insert_full, entry_insert, insert_full
  <2> QED
    BY <2>1, <2>2, <1>4, <1>5
<1>8. CASE vacant_key \/ vacant_entry \/ entry_drop \/ rcu_insert_return \/ iter_mut
           \/ iter_drop \/ slab_drop \/ Finished \/ UNCHANGED rcuVars \/ storage_drop
  BY <1>3, <1>4, <1>8 DEF vacant_key, vacant_entry, entry_drop, rcu_insert_return, iter_mut,
     iter_drop, slab_drop, Finished, rcuVars, advance_generation, storage_drop, drop_storage
<1>9. cur_gen # NoGen => \A h \in Live : handle[h] <= cur_gen
  BY <1>1, HandleLive, HeldBelowCur
<1>10. ASSUME NEW i \in Slots, rcu_mark_removed(i)
       PROVE  ReadersOwn'
  <2>1. cur_gen \in Gens /\ \A h \in Live : handle[h] <= cur_gen
    BY <1>2, <1>9, <1>10 DEF rcu_mark_removed, UseSlab, WriterReady
  <2> QED
    BY <2>1, <1>3, <1>6, <1>10 DEF rcu_mark_removed
<1>11. ASSUME NEW p \in proxies, proxy_remove(p)
       PROVE  ReadersOwn'
  <2>1. p.idx \in Slots /\ p.gen \in Gens
    BY <1>2 DEF Proxy
  <2>2. \A h \in Live : handle[h] <= p.gen
    BY <1>1, <1>11 DEF ProxiesNew, proxy_remove
  <2> QED
    BY <2>1, <2>2, <1>6, <1>11 DEF proxy_remove
<1>12. ASSUME NEW i \in Slots, iter_next(i) \/ iter_next_back(i)
       PROVE  ReadersOwn'
  <2>1. /\ UNCHANGED <<handle, unseen, refs, pending, marking, table, bitmap>>
        /\ proxies' = proxies \cup {[idx |-> i, gen |-> cur_gen, usable |-> TRUE]}
        /\ \A h \in Live : handle[h] <= cur_gen
    BY <1>1, <1>9, <1>12 DEF iter_next, iter_next_back, Yield
  <2>2. Live' = Live /\ \A g \in Gens : Pending(g)' = Pending(g)
    BY <2>1 DEF Live, Pending
  <2>3. IdleHandles' /\ UnseenWait' /\ RefsKept'
    BY <2>1, <2>2, <1>1 DEF IdleHandles, UnseenWait, RefsKept
  <2>4. ProxiesNew'
    BY <2>1, <2>2, <1>1 DEF ProxiesNew
  <2> QED
    BY <2>3, <2>4
\* A new handle has seen everything.
<1>13. ASSUME NEW h \in Handles, schedule_finalization(h) \/ reader(h)
       PROVE  ReadersOwn'
  <2>1. /\ UNCHANGED <<unseen, refs, pending, marking, table, bitmap>>
        /\ h \notin Live /\ \A k \in Handles : k # h => handle'[k] = handle[k]
        /\ \A p \in proxies' : ~p.usable
    BY <1>2, <1>3, <1>13 DEF schedule_finalization, reader, NewReader, advance_generation
  <2>2. handle'[h] \in Gens
    <3>1. cur_gen \in Gens
      BY <1>2, <1>13 DEF schedule_finalization, reader, UseSlab, WriterReady
    <3>2. CASE reader(h)
      BY <3>1, <3>2, <1>2 DEF reader, NewReader
    <3>3. CASE schedule_finalization(h)
      BY <3>1, <3>3, <1>2, MaxGenAssumption DEF schedule_finalization, NewReader, advance_generation, Gens
    <3> QED
      BY <3>2, <3>3, <1>13
  <2>3. unseen[h] = {} /\ refs[h] = {}
    BY <2>1, <1>1 DEF IdleHandles, Live
  <2>4. Live' = Live \cup {h} /\ \A g \in Gens : Pending(g)' = Pending(g)
    BY <2>1, <2>2, <1>2 DEF Live, Pending
  <2>5. IdleHandles'
    BY <2>1, <2>2, <1>1, <1>2 DEF IdleHandles
  <2>6. UnseenWait' /\ RefsKept'
    BY <2>1, <2>3, <2>4, <1>1 DEF UnseenWait, RefsKept, Live
  <2>7. ProxiesNew'
    BY <2>1 DEF ProxiesNew
  <2> QED
    BY <2>5, <2>6, <2>7
\* A clone has seen what its original has.
<1>14. ASSUME NEW h \in Handles, NEW k \in Handles, clone(h, k)
       PROVE  ReadersOwn'
  <2>1. /\ UNCHANGED <<refs, pending, marking, table, bitmap, proxies>>
        /\ h \in Live /\ k \notin Live
        /\ handle'[k] = handle[h] /\ unseen'[k] = unseen[h]
        /\ \A n \in Handles : n # k => handle'[n] = handle[n] /\ unseen'[n] = unseen[n]
    BY <1>2, <1>14 DEF clone
  <2>2. refs[k] = {}
    BY <2>1, <1>1 DEF IdleHandles, Live
  <2>3. Live' = Live \cup {k} /\ \A g \in Gens : Pending(g)' = Pending(g)
    BY <2>1 DEF Live, Pending
  <2>4. IdleHandles'
    BY <2>1, <1>1 DEF IdleHandles, Live
  <2>5. UnseenWait' 
    BY <2>1, <2>3, <1>1 DEF UnseenWait, Live
  <2>6. RefsKept'
    BY <2>1, <2>2, <2>3, <1>1 DEF RefsKept, Live
  <2>7. ProxiesNew'
    BY <2>1, <2>3, <1>1 DEF ProxiesNew, Live
  <2> QED
    BY <2>4, <2>5, <2>6, <2>7
<1>15. ASSUME NEW h \in Handles, drop_handle(h)
       PROVE  ReadersOwn'
  <2>1. /\ UNCHANGED <<pending, marking, table, bitmap, proxies>>
        /\ handle'[h] = NoGen /\ unseen'[h] = {} /\ refs'[h] = {}
        /\ \A n \in Handles : n # h => handle'[n] = handle[n] /\ unseen'[n] = unseen[n] /\ refs'[n] = refs[n]
    BY <1>2, <1>15 DEF drop_handle
  <2>2. Live' = Live \ {h} /\ \A g \in Gens : Pending(g)' = Pending(g)
    BY <2>1 DEF Live, Pending
  <2>3. IdleHandles' /\ UnseenWait'
    BY <2>1, <2>2, <1>1 DEF IdleHandles, UnseenWait, Live
  <2>4. RefsKept' /\ ProxiesNew'
    BY <2>1, <2>2, <1>1 DEF RefsKept, ProxiesNew, Live
  <2> QED
    BY <2>3, <2>4
<1>16. ASSUME NEW h \in Handles, NEW i \in Slots, get(h, i)
       PROVE  ReadersOwn'
  <2>1. /\ UNCHANGED <<handle, unseen, pending, marking, table, bitmap, proxies>>
        /\ h \in Live /\ i \in bitmap \cup unseen[h] /\ HasItem(i)
        /\ refs'[h] = refs[h] \cup {<<i, table[i].item>>}
        /\ \A n \in Handles : n # h => refs'[n] = refs[n]
    BY <1>2, <1>16 DEF get
  <2>2. Live' = Live /\ \A g \in Gens : Pending(g)' = Pending(g)
    BY <2>1 DEF Live, Pending
  <2>3. IdleHandles' /\ UnseenWait' /\ ProxiesNew'
    BY <2>1, <2>2, <1>1 DEF IdleHandles, UnseenWait, ProxiesNew, Live
  <2>4. table[i] = ItemEntry(table[i].item)
    BY <2>1, <1>2 DEF HasItem, Entry, ItemEntry
  <2>5. ASSUME NEW k \in Live', NEW r \in refs'[k]
        PROVE  table'[r[1]] = ItemEntry(r[2]) /\ r[1] \in bitmap' \cup unseen'[k]
    <3>1. CASE k = h /\ r = <<i, table[i].item>>
      <4>1. r[1] = i /\ r[2] = table[i].item
        BY <3>1
      <4> QED
        BY <4>1, <3>1, <2>1, <2>4
    <3>2. CASE r \in refs[k]
      BY <3>2, <2>1, <2>2, <1>1 DEF RefsKept
    <3> QED
      BY <3>1, <3>2, <2>1, <2>2, <2>5 DEF Live
  <2> QED
    BY <2>3, <2>5 DEF RefsKept
<1>17. ASSUME NEW p \in proxies, proxy_drop(p)
       PROVE  ReadersOwn'
  BY <1>4, <1>17 DEF proxy_drop
<1>18. ASSUME NEW m \in marking, push_pending(m)
       PROVE  ReadersOwn'
  <2>1. /\ UNCHANGED <<handle, unseen, refs, table, bitmap, proxies>>
        /\ marking' = marking \ {m}
        /\ pending' = [pending EXCEPT ![m.gen] = Append(pending[m.gen], m.idx)]
        /\ m.gen \in Gens /\ m.idx \in Slots
    BY <1>2, <1>18 DEF push_pending
  <2>2. Live' = Live
    BY <2>1 DEF Live
  <2>3. IdleHandles' /\ RefsKept' /\ ProxiesNew'
    BY <2>1, <2>2, <1>1 DEF IdleHandles, RefsKept, ProxiesNew
  <2>4. /\ pending[m.gen] \in Seq(Slots)
        /\ pending'[m.gen] = Append(pending[m.gen], m.idx)
        /\ \A q \in Gens : q # m.gen => pending'[q] = pending[q]
    BY <2>1, <1>2
  <2>5. /\ Len(pending[m.gen]) \in Nat
        /\ Len(pending'[m.gen]) = Len(pending[m.gen]) + 1
        /\ pending'[m.gen][Len(pending[m.gen]) + 1] = m.idx
        /\ \A n \in 1 .. Len(pending[m.gen]) : pending'[m.gen][n] = pending[m.gen][n]
    BY <2>1, <2>4, SeqFacts
  <2>6. m.idx \in Pending(m.gen)'
    BY <2>5 DEF Pending
  <2>7. ASSUME NEW q \in Gens, NEW x \in Pending(q) PROVE x \in Pending(q)'
    <3>1. PICK n \in 1 .. Len(pending[q]) : x = pending[q][n]
      BY <2>7 DEF Pending
    <3>2. n \in 1 .. Len(pending'[q]) /\ pending'[q][n] = x
      <4>1. CASE q = m.gen
        <5>1. n \in 1 .. Len(pending'[m.gen])
          BY <2>5, <3>1, <4>1
        <5> QED
          BY <2>5, <3>1, <4>1, <5>1
      <4>2. CASE q # m.gen
        BY <2>4, <3>1, <4>2
      <4> QED
        BY <4>1, <4>2
    <3> QED
      BY <3>2 DEF Pending
  <2>8. ASSUME NEW h \in Live', NEW j \in unseen'[h]
        PROVE  \/ \E q \in Gens : q >= handle'[h] /\ j \in Pending(q)'
               \/ \E n \in marking' : n.idx = j /\ n.gen >= handle'[h]
    <3>1. CASE \E q \in Gens : q >= handle[h] /\ j \in Pending(q)
      BY <3>1, <2>1, <2>7
    <3>2. CASE \E n \in marking : n.idx = j /\ n.gen >= handle[h]
      <4>1. PICK n \in marking : n.idx = j /\ n.gen >= handle[h]
        BY <3>2
      <4>2. CASE n = m
        BY <4>1, <4>2, <2>1, <2>6
      <4>3. CASE n # m
        BY <4>1, <4>3, <2>1
      <4> QED
        BY <4>2, <4>3
    <3> QED
      BY <3>1, <3>2, <2>1, <2>2, <1>1 DEF UnseenWait
  <2> QED
    BY <2>3, <2>8 DEF UnseenWait
<1>19. ASSUME NEW e \in Gens, gen_finalize(e)
       PROVE  ReadersOwn'
  <2>1. PICK i : i = Head(pending[e])
    OBVIOUS
  <2>2. /\ UNCHANGED <<handle, unseen, refs, marking, proxies, bitmap>>
        /\ gstate[e] = "finalizing" /\ pending[e] # <<>>
        /\ pending' = [pending EXCEPT ![e] = Tail(pending[e])]
        /\ finalize_remove(i)
    BY <2>1, <1>19 DEF gen_finalize, finalize_remove
  <2>3. Live' = Live
    BY <2>2 DEF Live
  <2>4. \A h \in Live : i \notin unseen[h]
    BY <2>1, <2>2, <1>1, FinalizedSeen
  <2>5. i \in MarkedSlots /\ i \in Slots /\ i \notin bitmap
    BY <2>1, <2>2, <1>1, NextIsMarked DEF MarkedSlots, ItemSlots
  <2>6. \A j \in Slots : j # i => table'[j] = table[j]
    BY <2>2, <2>5, <1>1, FinalizeMarked
  <2>7. IdleHandles' /\ ProxiesNew'
    BY <2>2, <2>3, <1>1 DEF IdleHandles, ProxiesNew
  <2>8. RefsKept'
    <3> SUFFICES ASSUME NEW h \in Live', NEW r \in refs'[h]
                 PROVE  table'[r[1]] = ItemEntry(r[2]) /\ r[1] \in bitmap' \cup unseen'[h]
      BY DEF RefsKept
    <3>1. table[r[1]] = ItemEntry(r[2]) /\ r[1] \in bitmap \cup unseen[h]
      BY <2>2, <2>3, <1>1 DEF RefsKept
    <3>2. h \in Handles /\ h \in Live /\ r \in Slots \X Items
      BY <2>2, <2>3, <1>2 DEF Live
    <3>3. r[1] \in Slots /\ r[1] # i
      BY <3>1, <3>2, <2>4, <2>5
    <3> QED
      BY <3>1, <3>3, <2>2, <2>6
  <2>9. \A q \in Gens : Pending(q) \ {i} \subseteq Pending(q)'
    <3> SUFFICES ASSUME NEW q \in Gens, NEW x \in Pending(q), x # i PROVE x \in Pending(q)'
      OBVIOUS
    <3>1. PICK n \in 1 .. Len(pending[q]) : x = pending[q][n]
      BY DEF Pending
    <3>2. CASE q # e
      BY <3>1, <3>2, <2>2, <1>2 DEF Pending
    <3>3. CASE q = e
      <4>1. /\ pending'[e] = Tail(pending[e]) /\ Len(pending[e]) \in Nat
            /\ Len(pending'[e]) = Len(pending[e]) - 1 /\ i = pending[e][1]
            /\ \A k \in 1 .. Len(pending[e]) - 1 : pending'[e][k] = pending[e][k + 1]
        BY <2>1, <2>2, <1>2, SeqFacts
      <4>2. n - 1 \in 1 .. Len(pending[e]) - 1 /\ (n - 1) + 1 = n
        BY <3>1, <3>3, <4>1
      <4>3. pending'[e][n - 1] = x
        BY <3>1, <3>3, <4>1, <4>2
      <4> QED
        BY <3>3, <4>1, <4>2, <4>3 DEF Pending
    <3> QED
      BY <3>2, <3>3
  <2>10. ASSUME NEW h \in Live', NEW j \in unseen'[h]
         PROVE  \/ \E q \in Gens : q >= handle'[h] /\ j \in Pending(q)'
                \/ \E n \in marking' : n.idx = j /\ n.gen >= handle'[h]
    <3>1. j # i
      BY <2>2, <2>3, <2>4
    <3>2. CASE \E q \in Gens : q >= handle[h] /\ j \in Pending(q)
      BY <3>1, <3>2, <2>2, <2>9
    <3>3. CASE \E n \in marking : n.idx = j /\ n.gen >= handle[h]
      BY <3>3, <2>2
    <3> QED
      BY <3>2, <3>3, <2>2, <2>3, <1>1 DEF UnseenWait
  <2> QED
    BY <2>7, <2>8, <2>10 DEF UnseenWait
<1>20. ASSUME NEW g \in Gens, gen_end(g) \/ gen_lock(g) \/ gen_unlock(g)
       PROVE  ReadersOwn'
  BY <1>4, <1>20 DEF gen_end, gen_lock, gen_unlock
<1> QED
  BY <1>7, <1>8, <1>10, <1>11, <1>12, <1>13, <1>14, <1>15, <1>16, <1>17, <1>18, <1>19, <1>20
  DEF RcuNext, Writer, Proxies, Readers, Destructor

\* The writer's calls need the RcuCslab; the storage goes last, when nothing
\* is left that could move.
LEMMA LifetimeStep ==
  ASSUME RcuInv, [RcuNext]_rcuVars
  PROVE  WriterLives' /\ StorageLast'
<1> USE DEF genVars, readerVars
<1>1. /\ RcuTypeOK /\ GenInv /\ WriterLives /\ StorageLast
      /\ cur_gen \in Gens \cup {NoGen}
  BY DEF RcuInv, ReaderInv, RcuTypeOK
<1>2. UseSlab => cur_gen # NoGen /\ ~it.on /\ mutex \notin {"entry", "reject"}
  BY DEF UseSlab, WriterReady
<1>3. cur_gen # NoGen /\ advance_generation => cur_gen' # NoGen
  BY <1>1, MaxGenAssumption DEF advance_generation, Gens, NoGen
<1>4. WriterLives'
  <2>1. ASSUME NEW v \in Items, rcu_insert(v) \/ rcu_insert_full(v) \/ entry_insert(v)
        PROVE  WriterLives'
    BY <2>1, <1>1, <1>2 DEF rcu_insert, rcu_insert_full, entry_insert, WriterLives
  <2>2. CASE vacant_key \/ vacant_entry \/ entry_drop \/ rcu_insert_return \/ iter_mut
             \/ slab_drop \/ Finished \/ UNCHANGED rcuVars \/ storage_drop
    BY <2>2, <1>1, <1>2 DEF vacant_key, vacant_entry, entry_drop, rcu_insert_return, iter_mut,
       slab_drop, Finished, rcuVars, storage_drop, WriterLives
  <2>3. ASSUME NEW i \in Slots, rcu_mark_removed(i) \/ iter_next(i) \/ iter_next_back(i)
        PROVE  WriterLives'
    BY <2>3, <1>1, <1>2 DEF rcu_mark_removed, MarkIn, iter_next, iter_next_back, Yield, WriterLives
  <2>4. CASE iter_drop
    BY <2>4, <1>1, <1>3 DEF iter_drop, WriterLives
  <2>5. ASSUME NEW h \in Handles, schedule_finalization(h) \/ reader(h)
        PROVE  WriterLives'
    BY <2>5, <1>1, <1>2, <1>3 DEF schedule_finalization, reader, WriterLives
  <2>6. CASE Proxies
    BY <2>6, <1>1 DEF Proxies, proxy_remove, proxy_drop, push_pending, MarkIn, WriterLives
  <2>7. CASE Readers
    BY <2>7, <1>1 DEF Readers, drop_handle, clone, get, WriterLives
  <2>8. ASSUME NEW g \in Gens, gen_lock(g) \/ gen_unlock(g) \/ gen_finalize(g) \/ gen_end(g)
        PROVE  WriterLives'
    BY <2>8, <1>1 DEF gen_lock, gen_unlock, gen_finalize, gen_end, WriterLives
  <2> QED
    BY <2>1, <2>2, <2>3, <2>4, <2>5, <2>6, <2>7, <2>8 DEF RcuNext, Writer, Destructor
<1>5. CASE storage_drop
  BY <1>4, <1>5 DEF storage_drop, StorageLast, Live
<1>6. CASE UNCHANGED rcuVars \/ Finished
  BY <1>1, <1>4, <1>6 DEF rcuVars, Finished, StorageLast, Live, cslabVars
<1>7. CASE alive /\ (Writer \/ Proxies \/ Readers \/ \E g \in Gens :
                       gen_lock(g) \/ gen_unlock(g) \/ gen_finalize(g) \/ gen_end(g))
  <2>1. alive' = alive
    <3>1. CASE Writer
      BY <3>1 DEF Writer, rcu_insert, rcu_insert_full, entry_insert, rcu_mark_removed, MarkIn,
         iter_next, iter_next_back, Yield, schedule_finalization, reader, advance_generation,
         vacant_key, vacant_entry, entry_drop, rcu_insert_return, iter_mut, iter_drop, slab_drop,
         insert, insert_full, mark_removed, cslabVars
    <3>2. CASE Proxies
      BY <3>2 DEF Proxies, proxy_remove, proxy_drop, push_pending, MarkIn, mark_removed, cslabVars
    <3>3. CASE Readers
      BY <3>3 DEF Readers, drop_handle, clone, get, cslabVars
    <3>4. CASE \E g \in Gens : gen_lock(g) \/ gen_unlock(g) \/ gen_finalize(g) \/ gen_end(g)
      BY <3>4 DEF gen_lock, gen_unlock, gen_finalize, gen_end, finalize_remove, cslabVars
    <3> QED
      BY <3>1, <3>2, <3>3, <3>4, <1>7
  <2> QED
    BY <2>1, <1>4, <1>7 DEF StorageLast
<1>8. CASE ~alive /\ (Writer \/ Proxies \/ Readers \/ \E g \in Gens :
                        gen_lock(g) \/ gen_unlock(g) \/ gen_finalize(g) \/ gen_end(g))
  <2>1. /\ cur_gen = NoGen /\ ~it.on /\ mutex \notin {"entry", "reject"} /\ Live = {}
        /\ \A g \in Gens : gstate[g] \in {"unborn", "gone"}
    BY <1>1, <1>8 DEF StorageLast, WriterLives
  <2>2. proxies = {} /\ marking = {}
    <3>1. \A g \in Gens : ~Held(g)
      BY <2>1, <1>1 DEF GenInv, HoldersLive
    <3>2. (\A p \in proxies : p.gen \in Gens) /\ \A m \in marking : m.gen \in Gens
      BY <1>1 DEF RcuTypeOK, Proxy
    <3> QED
      BY <3>1, <3>2 DEF Held
  <2>3. ~Writer
    BY <2>1, <1>2 DEF Writer, rcu_insert, rcu_insert_full, entry_insert, rcu_mark_removed,
       iter_next, iter_next_back, Yield, schedule_finalization, reader,
       vacant_key, vacant_entry, entry_drop, rcu_insert_return, iter_mut, iter_drop, slab_drop
  <2>4. ~Proxies
    BY <2>2 DEF Proxies
  <2>5. ~Readers
    BY <2>1 DEF Readers, drop_handle, clone, get
  <2>6. ~\E g \in Gens : gen_lock(g) \/ gen_unlock(g) \/ gen_finalize(g) \/ gen_end(g)
    BY <2>1 DEF gen_lock, gen_unlock, gen_finalize, gen_end
  <2> QED
    BY <2>3, <2>4, <2>5, <2>6, <1>8
<1> QED
  BY <1>4, <1>5, <1>6, <1>7, <1>8 DEF RcuNext, Destructor

----------------------------------------------------------------------------
(* The writer. *)

\* A step of any kind keeps the iterator and its proxies right.
LEMMA IterStep ==
  ASSUME RcuInv, [RcuNext]_rcuVars
  PROVE  IterInv' /\ ProxiesPresent'
<1> USE DEF cslabVars
<1>1. RcuTypeOK /\ CslabInv /\ IterInv /\ ProxiesPresent
  BY DEF RcuInv, WriterInv
<1>2. /\ UseSlab => ~it.on /\ \A p \in proxies' : ~p.usable
      /\ proxies \in SUBSET Proxy /\ bitmap \in SUBSET Slots
  BY <1>1, UseSlabFacts DEF RcuTypeOK, CslabTypeOK
\* A call on the slab leaves no iterator and no usable proxy.
<1>3. ASSUME UseSlab, UNCHANGED it PROVE IterInv' /\ ProxiesPresent'
  BY <1>2, <1>3 DEF IterInv, ProxiesPresent
<1>4. ASSUME UNCHANGED <<it, bitmap, mutex>>, \A p \in proxies' : p.usable => p \in proxies
      PROVE  IterInv' /\ ProxiesPresent'
  <2>1. Ahead' = Ahead
    BY <1>4 DEF Ahead
  <2> QED
    BY <2>1, <1>1, <1>4 DEF IterInv, ProxiesPresent
<1>5. ASSUME NEW v \in Items, rcu_insert(v) \/ rcu_insert_full(v) \/ entry_insert(v)
      PROVE  IterInv' /\ ProxiesPresent'
  <2>1. CASE rcu_insert(v) \/ rcu_insert_full(v)
    BY <2>1, <1>3 DEF rcu_insert, rcu_insert_full
  <2>2. CASE entry_insert(v)
    <3>1. ~it.on /\ it' = it /\ proxies' = proxies /\ bitmap \subseteq bitmap'
      BY <2>2, <1>1 DEF entry_insert, insert, IterInv
    <3> QED
      BY <3>1, <1>1 DEF IterInv, ProxiesPresent
  <2> QED
    BY <2>1, <2>2, <1>5
<1>6. CASE vacant_key \/ vacant_entry \/ slab_drop
  BY <1>3, <1>6 DEF vacant_key, vacant_entry, slab_drop
<1>7. CASE entry_drop \/ rcu_insert_return
  <2>1. /\ UNCHANGED <<it, bitmap, proxies>> /\ mutex' = "free"
    BY <1>7 DEF entry_drop, rcu_insert_return
  <2>2. Ahead' = Ahead
    BY <2>1 DEF Ahead
  <2> QED
    BY <2>1, <2>2, <1>1 DEF IterInv, ProxiesPresent
<1>8. CASE iter_mut
  <2>1. /\ it'.on /\ it'.head = 0 /\ it'.tail = frontier /\ it'.remaining = in_use
        /\ bitmap' = bitmap /\ mutex' = "free" /\ \A p \in proxies' : ~p.usable
    BY <1>2, <1>8 DEF iter_mut
  <2>2. Ahead' = bitmap
    <3>1. \A i \in bitmap : i < frontier /\ 0 <= i
      BY <1>1, <1>2, CapacityAssumption DEF CslabInv, FlagsSound, Slots
    <3> QED
      BY <3>1, <2>1 DEF Ahead
  <2>3. in_use = Cardinality(bitmap)
    BY <1>1 DEF CslabInv, CountersExact
  <2> QED
    BY <2>1, <2>2, <2>3 DEF IterInv, ProxiesPresent
<1>9. ASSUME NEW i \in Slots, rcu_mark_removed(i)
      PROVE  IterInv' /\ ProxiesPresent'
  BY <1>3, <1>9 DEF rcu_mark_removed, MarkIn
<1>10. ASSUME NEW i \in Slots, iter_next(i) \/ iter_next_back(i)
       PROVE  IterInv' /\ ProxiesPresent'
  <2>1. PICK n : n = [idx |-> i, gen |-> cur_gen, usable |-> TRUE]
    OBVIOUS
  <2>2. /\ UNCHANGED <<bitmap, mutex>> /\ proxies' = proxies \cup {n}
        /\ n.idx = i
    BY <2>1, <1>10 DEF iter_next, iter_next_back, Yield
  <2>3. it.on /\ Ahead' = Ahead \ {i} /\ i \in Ahead /\ it'.remaining = Cardinality(Ahead')
    BY <1>1, <1>10, IterFacts
  <2>4. i \in bitmap
    BY <2>3 DEF Ahead
  <2>5. \A p \in proxies : p.usable => p.idx \notin Ahead
    BY <2>3, <1>1 DEF IterInv
  <2>6. IterInv'
    BY <2>2, <2>3, <2>5, <1>1 DEF IterInv
  <2>7. ProxiesPresent'
    BY <2>2, <2>3, <2>4, <2>5, <1>1 DEF ProxiesPresent
  <2> QED
    BY <2>6, <2>7
<1>11. CASE iter_drop
  <2>1. ~it'.on /\ UNCHANGED <<bitmap, proxies>>
    BY <1>11 DEF iter_drop, advance_generation, NoIter
  <2> QED
    BY <2>1, <1>1 DEF IterInv, ProxiesPresent
<1>12. ASSUME NEW h \in Handles, schedule_finalization(h) \/ reader(h)
       PROVE  IterInv' /\ ProxiesPresent'
  BY <1>3, <1>12 DEF schedule_finalization, reader
<1>13. ASSUME NEW p \in proxies, proxy_remove(p)
       PROVE  IterInv' /\ ProxiesPresent'
  <2>1. /\ UNCHANGED <<it, mutex>> /\ bitmap' = bitmap \ {p.idx}
        /\ proxies' = proxies \ {p} /\ p.usable
    BY <1>13 DEF proxy_remove, MarkIn, mark_removed
  <2>2. it.on => Ahead' = Ahead
    BY <2>1, <1>1 DEF IterInv, Ahead
  <2>3. IterInv'
    BY <2>1, <2>2, <1>1 DEF IterInv
  <2>4. ProxiesPresent'
    BY <2>1, <1>1 DEF ProxiesPresent
  <2> QED
    BY <2>3, <2>4
<1>14. ASSUME NEW p \in proxies, proxy_drop(p)
       PROVE  IterInv' /\ ProxiesPresent'
  BY <1>4, <1>14 DEF proxy_drop
<1>15. ASSUME NEW m \in marking, push_pending(m)
       PROVE  IterInv' /\ ProxiesPresent'
  BY <1>4, <1>15 DEF push_pending
<1>16. CASE Readers
  BY <1>4, <1>16 DEF Readers, drop_handle, clone, get
<1>17. ASSUME NEW g \in Gens, gen_lock(g) \/ gen_unlock(g)
       PROVE  IterInv' /\ ProxiesPresent'
  <2>1. UNCHANGED <<it, bitmap, proxies>> /\ mutex' # "entry"
    BY <1>17 DEF gen_lock, gen_unlock
  <2>2. Ahead' = Ahead
    BY <2>1 DEF Ahead
  <2> QED
    BY <2>1, <2>2, <1>1 DEF IterInv, ProxiesPresent
<1>18. ASSUME NEW g \in Gens, gen_finalize(g) \/ gen_end(g)
       PROVE  IterInv' /\ ProxiesPresent'
  BY <1>4, <1>18 DEF gen_finalize, gen_end, finalize_remove
<1>19. CASE storage_drop \/ Finished \/ UNCHANGED rcuVars
  BY <1>4, <1>19 DEF storage_drop, drop_storage, Finished, rcuVars
<1> QED
  BY <1>5, <1>6, <1>7, <1>8, <1>9, <1>10, <1>11, <1>12, <1>13, <1>14, <1>15, <1>16, <1>17,
     <1>18, <1>19
  DEF RcuNext, Writer, Proxies, Destructor

\* A step of any kind keeps the mutex exclusive, and with it the promise of a
\* vacant entry.
LEMMA MutexStep ==
  ASSUME RcuInv, [RcuNext]_rcuVars
  PROVE  MutexInv' /\ EntryReserved'
<1> USE DEF cslabVars, genVars
<1>1. /\ RcuTypeOK /\ GenInv /\ MutexInv /\ EntryReserved
      /\ (it.on => mutex # "entry") /\ (it.on => cur_gen # NoGen)
      /\ gstate \in [Gens -> GState] /\ cur_gen \in Gens \cup {NoGen}
  BY DEF RcuInv, WriterInv, IterInv, ReaderInv, WriterLives, RcuTypeOK, GState
<1>2. UseSlab => mutex # "entry" /\ mutex # "reject"
  BY DEF UseSlab, WriterReady
\* What starts no finalization and leaves the mutex to its holder.
<1>3. ASSUME \A g \in Gens : gstate'[g] = "finalizing" => gstate[g] = "finalizing",
             mutex' = mutex \/ (mutex # "finalize" /\ mutex' # "entry"),
             mutex = "entry" => UNCHANGED <<key, first_free>>
      PROVE  MutexInv' /\ EntryReserved'
  BY <1>1, <1>3 DEF MutexInv, EntryReserved
<1>4. \A gs \in [Gens -> GState] : Settle(gs) =>
        \A g \in Gens : gstate'[g] = "finalizing" => gs[g] = "finalizing"
  BY DEF Settle
<1>5. ASSUME NEW v \in Items, rcu_insert(v) \/ rcu_insert_full(v) \/ entry_insert(v)
      PROVE  MutexInv' /\ EntryReserved'
  <2>1. CASE rcu_insert(v) \/ rcu_insert_full(v)
    BY <2>1, <1>2, <1>3 DEF rcu_insert, rcu_insert_full
  <2>2. CASE entry_insert(v)
    BY <2>2, <1>1 DEF entry_insert, MutexInv, EntryReserved
  <2> QED
    BY <2>1, <2>2, <1>5
<1>6. CASE vacant_entry
  BY <1>1, <1>6 DEF vacant_entry, MutexInv, EntryReserved
<1>7. CASE entry_drop \/ rcu_insert_return
  BY <1>1, <1>7 DEF entry_drop, rcu_insert_return, MutexInv, EntryReserved
<1>8. CASE vacant_key \/ iter_mut
  BY <1>2, <1>3, <1>8 DEF vacant_key, iter_mut
<1>9. CASE slab_drop
  BY <1>1, <1>2, <1>3, <1>4, <1>9 DEF slab_drop
<1>10. ASSUME NEW i \in Slots, rcu_mark_removed(i) \/ iter_next(i) \/ iter_next_back(i)
       PROVE  MutexInv' /\ EntryReserved'
  BY <1>2, <1>3, <1>10 DEF rcu_mark_removed, MarkIn, iter_next, iter_next_back, Yield
\* A new generation is not finalizing.
<1>11. ASSUME cur_gen # NoGen, advance_generation, mutex # "entry",
              Settle([gstate EXCEPT ![cur_gen + 1] = "live"])
       PROVE  MutexInv' /\ EntryReserved'
  <2>1. PICK gs : gs = [gstate EXCEPT ![cur_gen + 1] = "live"]
    OBVIOUS
  <2>2. gs \in [Gens -> GState] /\ \A g \in Gens : gs[g] = "finalizing" => gstate[g] = "finalizing"
    BY <2>1, <1>1 DEF GState
  <2>3. \A g \in Gens : gstate'[g] = "finalizing" => gstate[g] = "finalizing"
    BY <2>1, <2>2, <1>4, <1>11
  <2> QED
    BY <2>3, <1>3, <1>11 DEF advance_generation
<1>12. CASE iter_drop
  BY <1>1, <1>11, <1>12 DEF iter_drop
<1>13. ASSUME NEW h \in Handles, schedule_finalization(h) \/ reader(h)
       PROVE  MutexInv' /\ EntryReserved'
  BY <1>1, <1>2, <1>3, <1>11, <1>13 DEF schedule_finalization, reader, UseSlab, WriterReady
<1>14. ASSUME NEW p \in proxies, proxy_remove(p) \/ proxy_drop(p)
       PROVE  MutexInv' /\ EntryReserved'
  BY <1>1, <1>3, <1>4, <1>14 DEF proxy_remove, proxy_drop, MarkIn
<1>15. ASSUME NEW m \in marking, push_pending(m)
       PROVE  MutexInv' /\ EntryReserved'
  BY <1>1, <1>3, <1>4, <1>15 DEF push_pending
<1>16. CASE Readers
  BY <1>1, <1>3, <1>4, <1>16 DEF Readers, drop_handle, clone, get
<1>17. ASSUME NEW g \in Gens, gen_lock(g)
       PROVE  MutexInv' /\ EntryReserved'
  BY <1>1, <1>17 DEF gen_lock, MutexInv, EntryReserved
<1>18. ASSUME NEW g \in Gens, gen_unlock(g)
       PROVE  MutexInv' /\ EntryReserved'
  <2>1. /\ gstate[g] = "finalizing" /\ mutex' = "free"
        /\ gstate'[g] = "items" /\ \A q \in Gens : q # g => gstate'[q] = gstate[q]
    BY <1>1, <1>18 DEF gen_unlock
  <2>2. \A q \in Gens : gstate[q] = "finalizing" => q = g
    BY <2>1, <1>1, MaxGenAssumption DEF GenInv, CreationOrder, Ending, Gens
  <2> QED
    BY <2>1, <2>2 DEF MutexInv, EntryReserved
<1>19. ASSUME NEW g \in Gens, gen_finalize(g)
       PROVE  MutexInv' /\ EntryReserved'
  BY <1>1, <1>3, <1>19 DEF gen_finalize, MutexInv
<1>20. ASSUME NEW g \in Gens, gen_end(g)
       PROVE  MutexInv' /\ EntryReserved'
  <2>1. PICK gs : gs = [gstate EXCEPT ![g] = "gone"]
    OBVIOUS
  <2>2. gs \in [Gens -> GState] /\ \A q \in Gens : gs[q] = "finalizing" => gstate[q] = "finalizing"
    BY <2>1, <1>1 DEF GState
  <2>3. \A q \in Gens : gstate'[q] = "finalizing" => gstate[q] = "finalizing"
    BY <2>1, <2>2, <1>4, <1>20 DEF gen_end
  <2> QED
    BY <2>3, <1>3, <1>20 DEF gen_end
<1>21. CASE storage_drop \/ Finished \/ UNCHANGED rcuVars
  BY <1>3, <1>21 DEF storage_drop, drop_storage, Finished, rcuVars
<1> QED
  BY <1>5, <1>6, <1>7, <1>8, <1>9, <1>10, <1>12, <1>13, <1>14, <1>15, <1>16, <1>17, <1>18,
     <1>19, <1>20, <1>21
  DEF RcuNext, Writer, Proxies, Destructor

----------------------------------------------------------------------------
(* The theorems. *)

LEMMA RcuInitEstablishes == RcuInit => RcuInv
<1> SUFFICES ASSUME RcuInit PROVE RcuInv
  OBVIOUS
<1> USE MaxGenAssumption, CapacityAssumption DEF RcuInit
<1>1. CslabInv /\ CslabTypeOK
  BY InitEstablishes DEF CslabInv
<1>2. RcuTypeOK
  <2>1. <<>> \in Seq(Slots)
    OBVIOUS
  <2> QED
    BY <1>1, <2>1 DEF RcuTypeOK, Gens, NoGen, NoKey, NoIter, Ending
<1>3. MarkedSlots = {} /\ \A g \in Gens : Pending(g) = {} /\ Len(pending[g]) = 0
  BY EntryFacts DEF CslabInit, MarkedSlots, ItemSlots, HasItem, Pending
<1>4. RemovalsTracked
  BY <1>3 DEF RemovalsTracked
<1>5. \A g \in Gens : Held(g) => g = 0
  BY DEF Held, NoGen, Gens
<1>6. GenInv
  BY <1>5 DEF GenInv, HoldersLive, ChainLinked, BornInOrder, CurIsNewest, CreationOrder, Gens, NoGen, Ending
<1>7. ReaderInv
  BY DEF ReaderInv, IdleHandles, UnseenWait, RefsKept, ProxiesNew, WriterLives, StorageLast,
     Live, NoIter, CslabInit
<1>8. WriterInv
  BY DEF WriterInv, IterInv, ProxiesPresent, MutexInv, EntryReserved, NoIter
<1> QED
  BY <1>1, <1>2, <1>4, <1>6, <1>7, <1>8 DEF RcuInv

\* The inductive invariant holds in every reachable state.
LEMMA RcuInductive == RcuSpec => []RcuInv
<1>1. RcuInv /\ [RcuNext]_rcuVars => RcuInv'
  <2> SUFFICES ASSUME RcuInv, [RcuNext]_rcuVars PROVE RcuInv'
    OBVIOUS
  <2>1. RcuTypeOK' /\ GenInv' /\ ReadersOwn' /\ WriterLives' /\ StorageLast'
    BY TypeStep, GenStep, ReaderStep, LifetimeStep
  <2>2. CslabInv' /\ RemovalsTracked'
    BY SlabStep, TrackStep DEF RcuInv
  <2>3. IterInv' /\ ProxiesPresent' /\ MutexInv' /\ EntryReserved'
    BY IterStep, MutexStep
  <2> QED
    BY <2>1, <2>2, <2>3 DEF RcuInv, ReaderInv, ReadersOwn, WriterInv
<1> QED
  BY RcuInitEstablishes, <1>1, PTL DEF RcuSpec

(***************************************************************************)
(* RcuCslabReader::get: a reference stays valid for as long as its handle  *)
(* exists, whatever is removed, finalized and inserted meanwhile, for      *)
(* every capacity, every number of handles and every number of             *)
(* generations.                                                            *)
(***************************************************************************)
THEOREM ReferencesStayValid == RcuSpec => []RefsValid
<1>1. RcuInv => RefsValid
  <2> SUFFICES ASSUME RcuInv, NEW h \in Live
               PROVE  /\ alive
                      /\ \A r \in refs[h] : table[r[1]] = ItemEntry(r[2])
                      /\ \A i \in unseen[h] : HasItem(i)
    BY DEF RefsValid
  <2>1. alive /\ \A r \in refs[h] : table[r[1]] = ItemEntry(r[2])
    BY DEF RcuInv, ReaderInv, StorageLast, RefsKept
  <2>2. ASSUME NEW i \in unseen[h] PROVE HasItem(i)
    <3>1. i \in Slots
      BY <2>2 DEF RcuInv, RcuTypeOK, Live
    <3>2. i \in MarkedSlots
      BY <2>2, <3>1 DEF RcuInv, ReaderInv, UnseenWait, RemovalsTracked
    <3> QED
      BY <3>2 DEF MarkedSlots, ItemSlots
  <2> QED
    BY <2>1, <2>2
<1> QED
  BY <1>1, RcuInductive, PTL

\* RcuCslabGen::drop runs for the generations in the order of their creation.
THEOREM GenerationsEndInOrder == RcuSpec => []CreationOrder
<1>1. RcuInv => CreationOrder
  BY DEF RcuInv, GenInv
<1> QED
  BY <1>1, RcuInductive, PTL

(***************************************************************************)
(* A handle cannot see what was removed before its generation was created, *)
(* not even through a proxy that has outlived its RcuIterMut.              *)
(***************************************************************************)
THEOREM GenerationsBlind == RcuSpec => []GenerationBlind
<1>1. RcuInv => GenerationBlind
  <2> SUFFICES ASSUME RcuInv, NEW h \in Live, NEW g \in Gens, g < handle[h],
                      NEW i \in unseen[h]
               PROVE  /\ i \notin Pending(g)
                      /\ \A m \in marking : m.gen = g => m.idx # i
    BY DEF GenerationBlind
  <2>1. handle[h] \in Gens /\ RemovalsTracked
    BY HandleLive DEF RcuInv
  <2>2. ASSUME NEW q \in Gens, q >= handle[h], i \in Pending(q)
        PROVE  i \notin Pending(g) /\ \A m \in marking : m.gen = g => m.idx # i
    <3>1. q # g
      BY <2>1, <2>2, MaxGenAssumption DEF Gens
    <3> QED
      BY <3>1, <2>1, <2>2 DEF RemovalsTracked, Pending
  <2>3. ASSUME NEW n \in marking, n.idx = i, n.gen >= handle[h]
        PROVE  i \notin Pending(g) /\ \A m \in marking : m.gen = g => m.idx # i
    <3>1. n.gen # g
      BY <2>1, <2>3, MaxGenAssumption DEF Gens, RcuInv, RcuTypeOK
    <3> QED
      BY <3>1, <2>1, <2>3 DEF RemovalsTracked
  <2> QED
    BY <2>2, <2>3 DEF RcuInv, ReaderInv, UnseenWait
<1> QED
  BY <1>1, RcuInductive, PTL

\* Between RcuCslabGen::mark_removed and the destructors every removal is
\* recorded in one place, although the two locks leave a gap.
THEOREM RemovalsRecordedOnce == RcuSpec => []RemovalsTracked
<1>1. RcuInv => RemovalsTracked
  BY DEF RcuInv
<1> QED
  BY <1>1, RcuInductive, PTL

\* RcuIterMut: `remaining` is at every step the number of items next() has
\* still to yield, so it never underflows, whatever is removed through proxies
\* meanwhile.
THEOREM IterCounts == RcuSpec => []IterExact
<1>1. RcuInv => IterExact
  BY DEF RcuInv, WriterInv, IterInv, IterExact
<1> QED
  BY <1>1, RcuInductive, PTL

\* RcuCslabItemProxy: a proxy that may still be used has a present item, and
\* has it to itself.
THEOREM ProxiesSound == RcuSpec => []ProxiesPresent
<1>1. RcuInv => ProxiesPresent
  BY DEF RcuInv, WriterInv, IterInv
<1> QED
  BY <1>1, RcuInductive, PTL

\* VacantRcuEntry: there is room, and the slot of its key() stays the first of
\* the free list until the entry is filled or dropped; finalizations in other
\* threads do not come between.
THEOREM EntriesReserved == RcuSpec => []EntryReserved
<1>1. RcuInv => EntryReserved
  BY DEF RcuInv, WriterInv, IterInv
<1> QED
  BY <1>1, RcuInductive, PTL

----------------------------------------------------------------------------
(***************************************************************************)
(* Nothing is forgotten: a destructor that has passed its loop has no      *)
(* removal left, one that has ended no item; a link of the chain goes from *)
(* a generation that has not ended to its successor; a generation nobody   *)
(* holds has begun to end; and an item a destructor has taken out is       *)
(* nobody else's.                                                          *)
(***************************************************************************)
EndedEmpty  == \A g \in Gens : /\ gstate[g] \in {"unborn", "items", "gone"} => pending[g] = <<>>
                               /\ gstate[g] \notin {"finalizing", "items"} => limbo[g] = {}
LinksOnward == \A g \in Gens : next_gen[g] # NoGen => /\ next_gen[g] = g + 1
                                                      /\ gstate[g] \in Ending \cup {"live"}
LiveHeld    == \A g \in Gens : gstate[g] = "live" => Held(g)
LimboOwned  == \A g \in Gens : \A v \in limbo[g] :
                 dropped[v] = 0 /\ \A i \in Slots : table[i] # ItemEntry(v)

LastInv == EndedEmpty /\ LinksOnward /\ LiveHeld /\ LimboOwned /\ DropInv

\* EndedEmpty, one step per action of a destructor, one for all the others.
LEMMA EndedStep ==
  ASSUME RcuInv, LastInv, [RcuNext]_rcuVars
  PROVE  EndedEmpty'
<1> USE DEF genVars
<1>1. /\ RcuTypeOK /\ GenInv /\ EndedEmpty
      /\ gstate \in [Gens -> GState] /\ cur_gen \in Gens \cup {NoGen}
      /\ pending \in [Gens -> Seq(Slots)] /\ limbo \in [Gens -> SUBSET Items]
  BY DEF RcuInv, LastInv, RcuTypeOK, GState
<1>2. ASSUME UNCHANGED <<pending, limbo>>,
             \A g \in Gens : \/ gstate'[g] = gstate[g]
                             \/ gstate[g] \in {"live", "unborn"} /\ gstate'[g] \in {"live", "dropping"}
      PROVE  EndedEmpty'
  BY <1>1, <1>2 DEF EndedEmpty
<1>3. Settle(gstate) => \A g \in Gens : \/ gstate'[g] = gstate[g]
                                        \/ gstate[g] = "live" /\ gstate'[g] = "dropping"
  BY <1>1 DEF Settle
<1>4. ASSUME cur_gen # NoGen, advance_generation, Settle([gstate EXCEPT ![cur_gen + 1] = "live"])
      PROVE  EndedEmpty'
  <2>1. cur_gen + 1 \in Gens
    BY <1>1, <1>4, MaxGenAssumption DEF advance_generation, Gens, NoGen
  <2>2. gstate[cur_gen + 1] = "unborn"
    <3>1. cur_gen + 1 > cur_gen
      BY <1>1, <1>4, MaxGenAssumption DEF Gens, NoGen
    <3> QED
      BY <1>1, <1>4, <2>1, <3>1 DEF GenInv, CurIsNewest
  <2>3. gstate'[cur_gen + 1] \in {"live", "dropping"}
    BY <1>1, <1>4, <2>1 DEF Settle
  <2>4. \A g \in Gens : g # cur_gen + 1 => \/ gstate'[g] = gstate[g]
                                           \/ gstate[g] = "live" /\ gstate'[g] = "dropping"
    BY <1>1, <1>4 DEF Settle
  <2> QED
    BY <1>2, <1>4, <2>2, <2>3, <2>4 DEF advance_generation
<1>5. ASSUME NEW v \in Items, rcu_insert(v) \/ rcu_insert_full(v) \/ entry_insert(v)
      PROVE  EndedEmpty'
  BY <1>2, <1>5 DEF rcu_insert, rcu_insert_full, entry_insert
<1>6. ASSUME NEW i \in Slots, rcu_mark_removed(i) \/ iter_next(i) \/ iter_next_back(i)
      PROVE  EndedEmpty'
  BY <1>2, <1>6 DEF rcu_mark_removed, MarkIn, iter_next, iter_next_back, Yield
<1>7. CASE vacant_key \/ vacant_entry \/ entry_drop \/ rcu_insert_return \/ iter_mut
           \/ slab_drop \/ storage_drop \/ Finished \/ UNCHANGED rcuVars
  BY <1>2, <1>3, <1>7 DEF vacant_key, vacant_entry, entry_drop, rcu_insert_return, iter_mut,
     slab_drop, storage_drop, Finished, rcuVars
<1>8. ASSUME NEW h \in Handles, schedule_finalization(h) \/ reader(h) \/ drop_handle(h)
      PROVE  EndedEmpty'
  BY <1>2, <1>3, <1>4, <1>8 DEF schedule_finalization, reader, drop_handle, UseSlab, WriterReady
<1>9. CASE iter_drop
  <2>1. cur_gen # NoGen
    BY <1>9 DEF iter_drop, RcuInv, ReaderInv, WriterLives
  <2> QED
    BY <1>4, <1>9, <2>1 DEF iter_drop
<1>10. ASSUME NEW p \in proxies, proxy_remove(p) \/ proxy_drop(p)
       PROVE  EndedEmpty'
  BY <1>2, <1>3, <1>10 DEF proxy_remove, proxy_drop, MarkIn
<1>11. ASSUME NEW m \in marking, push_pending(m)
       PROVE  EndedEmpty'
  <2>1. m.gen \in Gens /\ gstate[m.gen] = "live"
    BY <1>1 DEF RcuTypeOK, GenInv, HoldersLive, Held
  <2>2. \A g \in Gens : g # m.gen => pending'[g] = pending[g]
    BY <1>1, <1>11, <2>1 DEF push_pending
  <2> QED
    BY <1>1, <1>3, <1>11, <2>1, <2>2 DEF push_pending, EndedEmpty
<1>12. ASSUME NEW h \in Handles, NEW k \in Handles, clone(h, k)
       PROVE  EndedEmpty'
  BY <1>2, <1>12 DEF clone
<1>13. ASSUME NEW h \in Handles, NEW i \in Slots, get(h, i)
       PROVE  EndedEmpty'
  BY <1>2, <1>13 DEF get
<1>14. ASSUME NEW g \in Gens, gen_lock(g) \/ gen_unlock(g)
       PROVE  EndedEmpty'
  BY <1>1, <1>14 DEF gen_lock, gen_unlock, EndedEmpty
<1>15. ASSUME NEW g \in Gens, gen_finalize(g)
       PROVE  EndedEmpty'
  <2>1. /\ gstate[g] = "finalizing" /\ gstate' = gstate
        /\ \A q \in Gens : q # g => pending'[q] = pending[q] /\ limbo'[q] = limbo[q]
    BY <1>1, <1>15 DEF gen_finalize
  <2> QED
    BY <1>1, <2>1 DEF EndedEmpty
<1>16. ASSUME NEW g \in Gens, gen_end(g)
       PROVE  EndedEmpty'
  <2>1. /\ gstate[g] = "items" /\ gstate'[g] = "gone" /\ limbo'[g] = {} /\ pending' = pending
        /\ \A q \in Gens : q # g =>
             /\ limbo'[q] = limbo[q]
             /\ \/ gstate'[q] = gstate[q]
                \/ gstate[q] = "live" /\ gstate'[q] = "dropping"
    BY <1>1, <1>16 DEF gen_end, Settle
  <2> QED
    BY <1>1, <2>1 DEF EndedEmpty
<1> QED
  BY <1>5, <1>6, <1>7, <1>8, <1>9, <1>10, <1>11, <1>12, <1>13, <1>14, <1>15, <1>16
  DEF RcuNext, Writer, Proxies, Readers, Destructor

\* The links of the chain, and that what nobody holds has begun to end.
LEMMA HeldStep ==
  ASSUME RcuInv, LastInv, [RcuNext]_rcuVars
  PROVE  LinksOnward' /\ LiveHeld'
<1> USE DEF genVars, readerVars
<1> DEFINE Goal == LinksOnward' /\ LiveHeld'
<1>1. /\ RcuTypeOK /\ GenInv /\ LinksOnward /\ LiveHeld
      /\ gstate \in [Gens -> GState] /\ next_gen \in [Gens -> Gens \cup {NoGen}]
      /\ handle \in [Handles -> Gens \cup {NoGen}] /\ cur_gen \in Gens \cup {NoGen}
      /\ RcuTypeOK'
  BY TypeStep DEF RcuInv, LastInv, RcuTypeOK, GState
\* Nothing is let go of.
<1>2. ASSUME UNCHANGED <<cur_gen, next_gen>>,
             \A g \in Gens : \/ gstate'[g] = gstate[g]
                             \/ gstate[g] \in Ending /\ gstate'[g] \in Ending,
             \A h \in Handles : handle[h] # NoGen => handle'[h] = handle[h],
             \A p \in proxies : \/ \E q \in proxies' : q.gen = p.gen
                                \/ \E m \in marking' : m.gen = p.gen,
             \A m \in marking : m \in marking'
      PROVE  Goal
  <2>1. LinksOnward'
    BY <1>1, <1>2 DEF LinksOnward
  <2>2. ASSUME NEW g \in Gens, gstate'[g] = "live" PROVE Held(g)'
    <3>1. gstate[g] = "live"
      BY <1>2, <2>2 DEF Ending
    <3>2. Held(g)
      BY <1>1, <3>1 DEF LiveHeld
    <3>3. g # NoGen
      BY MaxGenAssumption DEF Gens, NoGen
    <3> QED
      BY <1>2, <3>2, <3>3 DEF Held
  <2> QED
    BY <2>1, <2>2 DEF LiveHeld
\* Something is, and the destructor begins.
<1>3. ASSUME NEW gs \in [Gens -> GState], Settle(gs),
             \A g \in Gens : next_gen'[g] # NoGen => /\ next_gen'[g] = g + 1
                                                     /\ gs[g] \in Ending \cup {"live"}
      PROVE  Goal
  <2>1. \A g \in Gens : gstate'[g] = IF gs[g] = "live" /\ ~Held(g)' THEN "dropping" ELSE gs[g]
    BY <1>3 DEF Settle
  <2>2. LinksOnward'
    BY <1>3, <2>1 DEF LinksOnward, Ending
  <2>3. LiveHeld'
    BY <2>1 DEF LiveHeld
  <2> QED
    BY <2>2, <2>3
<1>4. ASSUME Settle(gstate), UNCHANGED next_gen PROVE Goal
  BY <1>1, <1>3, <1>4 DEF LinksOnward
<1>5. ASSUME cur_gen # NoGen, advance_generation, Settle([gstate EXCEPT ![cur_gen + 1] = "live"])
      PROVE  Goal
  <2>1. PICK gs : gs = [gstate EXCEPT ![cur_gen + 1] = "live"]
    OBVIOUS
  <2>2. cur_gen \in Gens /\ cur_gen + 1 \in Gens /\ cur_gen # cur_gen + 1
    BY <1>1, <1>5, MaxGenAssumption DEF advance_generation, Gens, NoGen
  <2>3. gs \in [Gens -> GState] /\ gs[cur_gen + 1] = "live" /\ gs[cur_gen] = gstate[cur_gen]
    BY <1>1, <2>1, <2>2 DEF GState
  <2>4. gstate[cur_gen] = "live"
    BY <1>1, <2>2 DEF GenInv, HoldersLive, Held
  <2>5. \A g \in Gens : next_gen'[g] # NoGen => /\ next_gen'[g] = g + 1
                                                /\ gs[g] \in Ending \cup {"live"}
    <3> SUFFICES ASSUME NEW g \in Gens, next_gen'[g] # NoGen
                 PROVE  next_gen'[g] = g + 1 /\ gs[g] \in Ending \cup {"live"}
      OBVIOUS
    <3>1. CASE g = cur_gen
      BY <1>1, <1>5, <2>3, <2>4, <3>1 DEF advance_generation
    <3>2. CASE g # cur_gen
      <4>1. next_gen'[g] = next_gen[g]
        BY <1>1, <1>5, <3>2 DEF advance_generation
      <4>2. next_gen[g] = g + 1 /\ gstate[g] \in Ending \cup {"live"}
        BY <1>1, <3>2, <4>1 DEF LinksOnward
      <4>3. gs[g] = gstate[g] \/ gs[g] = "live"
        BY <1>1, <2>1
      <4> QED
        BY <4>1, <4>2, <4>3
    <3> QED
      BY <3>1, <3>2
  <2> QED
    BY <1>3, <1>5, <2>1, <2>3, <2>5
\* A call on the slab leaves a proxy its generation.
<1>6. UseSlab => \A p \in proxies : \E q \in proxies' : q.gen = p.gen
  <2> SUFFICES ASSUME UseSlab, NEW p \in proxies PROVE \E q \in proxies' : q.gen = p.gen
    OBVIOUS
  <2>1. [p EXCEPT !.usable = FALSE] \in proxies' /\ p \in Proxy
    BY <1>1 DEF UseSlab, RcuTypeOK
  <2>2. [p EXCEPT !.usable = FALSE].gen = p.gen
    BY <2>1 DEF Proxy
  <2> QED
    BY <2>1, <2>2
<1>7. ASSUME NEW v \in Items, rcu_insert(v) \/ rcu_insert_full(v) \/ entry_insert(v)
      PROVE  Goal
  BY <1>2, <1>6, <1>7 DEF rcu_insert, rcu_insert_full, entry_insert
<1>8. ASSUME NEW i \in Slots, rcu_mark_removed(i)
      PROVE  Goal
  BY <1>2, <1>6, <1>8 DEF rcu_mark_removed, MarkIn
<1>9. ASSUME NEW i \in Slots, iter_next(i) \/ iter_next_back(i)
      PROVE  Goal
  BY <1>2, <1>9 DEF iter_next, iter_next_back, Yield
<1>10. CASE vacant_key \/ vacant_entry \/ iter_mut
  BY <1>2, <1>6, <1>10 DEF vacant_key, vacant_entry, iter_mut
<1>11. CASE entry_drop \/ rcu_insert_return \/ storage_drop \/ Finished \/ UNCHANGED rcuVars
  BY <1>2, <1>11 DEF entry_drop, rcu_insert_return, storage_drop, Finished, rcuVars
<1>12. CASE slab_drop
  BY <1>4, <1>12 DEF slab_drop
<1>13. ASSUME NEW h \in Handles, schedule_finalization(h)
       PROVE  Goal
  BY <1>5, <1>13 DEF schedule_finalization, UseSlab, WriterReady
<1>14. ASSUME NEW h \in Handles, reader(h)
       PROVE  Goal
  <2>1. \A k \in Handles : handle[k] # NoGen => handle'[k] = handle[k]
    BY <1>1, <1>14 DEF reader, NewReader, Live
  <2> QED
    BY <1>2, <1>6, <1>14, <2>1 DEF reader
<1>15. CASE iter_drop
  <2>1. cur_gen # NoGen
    BY <1>15 DEF iter_drop, RcuInv, ReaderInv, WriterLives
  <2> QED
    BY <1>5, <1>15, <2>1 DEF iter_drop
<1>16. ASSUME NEW p \in proxies, proxy_remove(p)
       PROVE  Goal
  <2>1. /\ [idx |-> p.idx, gen |-> p.gen] \in marking'
        /\ \A m \in marking : m \in marking'
        /\ \A q \in proxies : q # p => q \in proxies'
    BY <1>16 DEF proxy_remove, MarkIn
  <2>2. \A q \in proxies : \/ \E x \in proxies' : x.gen = q.gen
                           \/ \E m \in marking' : m.gen = q.gen
    BY <2>1
  <2> QED
    BY <1>2, <1>16, <2>1, <2>2 DEF proxy_remove, MarkIn
<1>17. ASSUME NEW p \in proxies, proxy_drop(p)
       PROVE  Goal
  BY <1>4, <1>17 DEF proxy_drop
<1>18. ASSUME NEW m \in marking, push_pending(m)
       PROVE  Goal
  BY <1>4, <1>18 DEF push_pending
<1>19. ASSUME NEW h \in Handles, drop_handle(h)
       PROVE  Goal
  BY <1>4, <1>19 DEF drop_handle
<1>20. ASSUME NEW h \in Handles, NEW k \in Handles, clone(h, k)
       PROVE  Goal
  <2>1. \A x \in Handles : handle[x] # NoGen => handle'[x] = handle[x]
    BY <1>1, <1>20 DEF clone, Live
  <2> QED
    BY <1>2, <1>20, <2>1 DEF clone
<1>21. ASSUME NEW h \in Handles, NEW i \in Slots, get(h, i)
       PROVE  Goal
  BY <1>2, <1>21 DEF get
<1>22. ASSUME NEW g \in Gens, gen_lock(g) \/ gen_unlock(g)
       PROVE  Goal
  <2>1. \A q \in Gens : \/ gstate'[q] = gstate[q]
                        \/ gstate[q] \in Ending /\ gstate'[q] \in Ending
    BY <1>1, <1>22 DEF gen_lock, gen_unlock, Ending
  <2> QED
    BY <1>2, <1>22, <2>1 DEF gen_lock, gen_unlock
<1>23. ASSUME NEW g \in Gens, gen_finalize(g)
       PROVE  Goal
  BY <1>2, <1>23 DEF gen_finalize
<1>24. ASSUME NEW g \in Gens, gen_end(g)
       PROVE  Goal
  <2>1. PICK gs : gs = [gstate EXCEPT ![g] = "gone"]
    OBVIOUS
  <2>2. gs \in [Gens -> GState] /\ \A q \in Gens : q # g => gs[q] = gstate[q]
    BY <1>1, <2>1 DEF GState
  <2>3. next_gen'[g] = NoGen /\ \A q \in Gens : q # g => next_gen'[q] = next_gen[q]
    BY <1>1, <1>24 DEF gen_end
  <2>4. \A q \in Gens : next_gen'[q] # NoGen => /\ next_gen'[q] = q + 1
                                                /\ gs[q] \in Ending \cup {"live"}
    BY <1>1, <2>2, <2>3 DEF LinksOnward
  <2> QED
    BY <1>3, <1>24, <2>1, <2>2, <2>4 DEF gen_end
<1> QED
  BY <1>7, <1>8, <1>9, <1>10, <1>11, <1>12, <1>13, <1>14, <1>15, <1>16, <1>17, <1>18, <1>19,
     <1>20, <1>21, <1>22, <1>23, <1>24
  DEF RcuNext, Writer, Proxies, Readers, Destructor

\* Who owns an item.  Every step is one of the slab's own client, but the end
\* of a generation, which destroys the items its destructor has taken out.
LEMMA OwnedStep ==
  ASSUME RcuInv, LastInv, [RcuNext]_rcuVars
  PROVE  LimboOwned' /\ DropInv'
<1> USE DEF genVars
<1> DEFINE Goal == LimboOwned' /\ DropInv'
<1>1. /\ RcuTypeOK /\ CslabInv /\ LimboOwned /\ DropInv /\ StorageLast /\ WriterLives
      /\ GenInv /\ EndedEmpty /\ limbo \in [Gens -> SUBSET Items]
      /\ table \in [Slots -> Entry] /\ dropped \in [Items -> Nat]
  BY DEF RcuInv, LastInv, ReaderInv, RcuTypeOK, CslabInv, CslabTypeOK
<1>2. (UseSlab => alive) /\ (mutex = "entry" => alive)
  BY <1>1 DEF UseSlab, WriterReady, StorageLast, WriterLives
<1>3. ASSUME UNCHANGED <<table, dropped, limbo>>, [CslabNext]_cslabVars PROVE Goal
  <2>1. DropInv'
    BY <1>1, <1>3, NextKeeps
  <2> QED
    BY <1>1, <1>3, <2>1 DEF LimboOwned
<1>4. ASSUME NEW v \in Items, rcu_insert(v) \/ entry_insert(v)
      PROVE  Goal
  <2>1. alive /\ Owned(v) /\ insert(v) /\ UNCHANGED limbo
    BY <1>2, <1>4 DEF rcu_insert, entry_insert
  <2>2. DropInv'
    BY <1>1, <2>1, NextKeeps DEF Owned, Insert, CslabNext
  <2>3. ASSUME NEW g \in Gens, NEW w \in limbo[g]
        PROVE  dropped'[w] = 0 /\ \A i \in Slots : table'[i] # ItemEntry(w)
    <3>1. w # v /\ w \in Items
      BY <1>1, <2>1, <2>3 DEF Owned
    <3>2. ItemEntry(w) # ItemEntry(v)
      BY <3>1 DEF ItemEntry
    <3>3. \A i \in Slots : table'[i] = table[i] \/ table'[i] = ItemEntry(v)
      BY <1>1, <2>1 DEF insert
    <3> QED
      BY <1>1, <2>1, <2>3, <3>2, <3>3 DEF insert, LimboOwned
  <2> QED
    BY <2>1, <2>2, <2>3 DEF LimboOwned
<1>5. ASSUME NEW v \in Items, rcu_insert_full(v)
      PROVE  Goal
  <2>1. alive /\ Owned(v) /\ insert_full(v) /\ UNCHANGED limbo
    BY <1>2, <1>5 DEF rcu_insert_full
  <2>2. DropInv'
    BY <1>1, <2>1, NextKeeps DEF Owned, InsertFull, CslabNext
  <2>3. \A g \in Gens : \A w \in limbo[g] : w # v /\ w \in Items
    BY <1>1, <2>1 DEF Owned
  <2>4. LimboOwned'
    BY <1>1, <2>1, <2>3 DEF insert_full, LimboOwned
  <2> QED
    BY <2>2, <2>4
<1>6. ASSUME NEW i \in Slots, mark_removed(i), alive, UNCHANGED limbo
      PROVE  Goal
  BY <1>3, <1>6 DEF MarkRemoved, CslabNext, mark_removed
<1>7. ASSUME NEW i \in Slots, rcu_mark_removed(i)
      PROVE  Goal
  BY <1>2, <1>6, <1>7 DEF rcu_mark_removed, MarkIn
<1>8. ASSUME NEW p \in proxies, proxy_remove(p)
      PROVE  Goal
  <2>1. p.idx \in Slots /\ p.gen \in Gens
    BY <1>1 DEF RcuTypeOK, Proxy
  <2>2. gstate[p.gen] = "live"
    BY <1>1, <2>1 DEF GenInv, HoldersLive, Held
  <2>3. alive
    BY <1>1, <2>1, <2>2 DEF StorageLast
  <2> QED
    BY <1>6, <1>8, <2>1, <2>3 DEF proxy_remove, MarkIn
<1>9. ASSUME NEW g \in Gens, gen_finalize(g)
      PROVE  Goal
  <2> DEFINE i == Head(pending[g])
             v == table[i].item
  <2>1. i \in Slots /\ i \in MarkedSlots
    BY <1>9, NextIsMarked DEF gen_finalize, RcuInv, MarkedSlots, ItemSlots
  <2>2. alive
    BY <1>1, <1>9 DEF gen_finalize, StorageLast
  <2>3. v \in Items /\ table[i] = ItemEntry(v) /\ i \in ItemSlots
    <3>1. table[i] \in Entry /\ table[i].tag = "item" /\ i \in ItemSlots
      BY <1>1, <2>1 DEF MarkedSlots, ItemSlots, HasItem
    <3> QED
      BY <3>1, EntryFacts
  <2>4. finalize_remove(i) /\ limbo' = [limbo EXCEPT ![g] = @ \cup {v}]
    BY <1>9 DEF gen_finalize
  <2> HIDE DEF i, v
  <2>5. DropInv'
    BY <1>1, <2>1, <2>2, <2>4, NextKeeps DEF FinalizeRemove, CslabNext
  <2>6. dropped[v] = 0 /\ dropped' = dropped
    <3>1. table[i].item = v
      BY <2>3 DEF ItemEntry
    <3> QED
      BY <1>1, <2>2, <2>3, <2>4, <3>1 DEF DropInv, DropExact, finalize_remove
  <2>7. \A j \in Slots : j # i => table[j] # ItemEntry(v)
    <3> SUFFICES ASSUME NEW j \in Slots, table[j] = ItemEntry(v) PROVE j = i
      OBVIOUS
    <3>1. j \in ItemSlots
      BY DEF ItemSlots, HasItem, ItemEntry
    <3> QED
      BY <1>1, <2>3, <3>1 DEF DropInv, UniqueItems
  <2>8. table'[i] = FreeEntry(LinkTo(i)) /\ \A j \in Slots : j # i => table'[j] = table[j]
    BY <1>1, <2>1, <2>4 DEF finalize_remove
  <2>9. \A w : FreeEntry(LinkTo(i)) # ItemEntry(w)
    BY DEF FreeEntry, ItemEntry
  <2>10. ASSUME NEW q \in Gens, NEW w \in limbo'[q]
         PROVE  dropped'[w] = 0 /\ \A j \in Slots : table'[j] # ItemEntry(w)
    <3>1. w = v \/ w \in limbo[q]
      BY <1>1, <2>4
    <3> QED
      BY <1>1, <2>6, <2>7, <2>8, <2>9, <3>1 DEF LimboOwned
  <2> QED
    BY <2>5, <2>10 DEF LimboOwned
<1>10. ASSUME NEW g \in Gens, gen_end(g)
       PROVE  Goal
  <2>1. /\ UNCHANGED <<table, alive, bitmap>>
        /\ limbo' = [limbo EXCEPT ![g] = {}]
        /\ \A v \in Items : dropped'[v] = IF v \in limbo[g] THEN dropped[v] + 1 ELSE dropped[v]
        /\ gstate[g] = "items"
    BY <1>10 DEF gen_end
  <2>2. \A q \in Gens : q # g => limbo[q] = {}
    <3> SUFFICES ASSUME NEW q \in Gens, q # g, limbo[q] # {} PROVE FALSE
      OBVIOUS
    <3>1. gstate[q] \in Ending
      BY <1>1 DEF EndedEmpty, Ending
    <3>2. q < g \/ g < q
      BY MaxGenAssumption DEF Gens
    <3> QED
      BY <1>1, <2>1, <3>1, <3>2 DEF GenInv, CreationOrder, Ending
  <2>3. \A q \in Gens : limbo'[q] = {}
    BY <1>1, <2>1, <2>2
  <2>4. \A v \in Items : dropped[v] \in Nat /\ (v \in limbo[g] => dropped[v] = 0)
    BY <1>1 DEF LimboOwned
  <2>5. \A v \in Items : dropped'[v] <= 1
    BY <1>1, <2>1, <2>4 DEF DropInv, DropExact
  <2>6. ItemSlots' = ItemSlots
    BY <2>1 DEF ItemSlots, HasItem
  <2>7. \A i \in ItemSlots : table[i].item \in Items /\ table[i].item \notin limbo[g]
    <3> TAKE i \in ItemSlots
    <3>1. i \in Slots /\ table[i].item \in Items /\ table[i] = ItemEntry(table[i].item)
      BY <1>1, EntryFacts DEF ItemSlots, HasItem
    <3> QED
      BY <1>1, <3>1 DEF LimboOwned
  <2>8. DropExact'
    BY <1>1, <2>1, <2>5, <2>6, <2>7 DEF DropInv, DropExact
  <2>9. UniqueItems'
    BY <1>1, <2>1, <2>6 DEF DropInv, UniqueItems
  <2> QED
    BY <2>3, <2>8, <2>9 DEF LimboOwned, DropInv
<1>11. CASE storage_drop
  <2>1. drop_storage /\ UNCHANGED <<table, limbo>> /\ \A g \in Gens : limbo[g] = {}
    BY <1>1, <1>11 DEF storage_drop, drop_storage, EndedEmpty
  <2>2. DropInv'
    BY <1>1, <2>1, NextKeeps DEF CslabNext
  <2> QED
    BY <2>1, <2>2 DEF LimboOwned
\* The rest leaves the slab and the destructors' items alone.
<1>12. ASSUME UNCHANGED cslabVars, UNCHANGED limbo PROVE Goal
  BY <1>3, <1>12 DEF cslabVars
<1>13. CASE vacant_key \/ vacant_entry \/ entry_drop \/ rcu_insert_return \/ iter_mut
            \/ iter_drop \/ slab_drop \/ Finished \/ UNCHANGED rcuVars
  BY <1>12, <1>13 DEF vacant_key, vacant_entry, entry_drop, rcu_insert_return, iter_mut,
     iter_drop, slab_drop, Finished, rcuVars, advance_generation
<1>14. ASSUME NEW i \in Slots, iter_next(i) \/ iter_next_back(i)
       PROVE  Goal
  BY <1>12, <1>14 DEF iter_next, iter_next_back, Yield
<1>15. ASSUME NEW h \in Handles, schedule_finalization(h) \/ reader(h) \/ drop_handle(h)
       PROVE  Goal
  BY <1>12, <1>15 DEF schedule_finalization, reader, drop_handle, advance_generation
<1>16. ASSUME NEW p \in proxies, proxy_drop(p)
       PROVE  Goal
  BY <1>12, <1>16 DEF proxy_drop
<1>17. ASSUME NEW m \in marking, push_pending(m)
       PROVE  Goal
  BY <1>12, <1>17 DEF push_pending
<1>18. ASSUME NEW h \in Handles, NEW k \in Handles, clone(h, k)
       PROVE  Goal
  BY <1>12, <1>18 DEF clone
<1>19. ASSUME NEW h \in Handles, NEW i \in Slots, get(h, i)
       PROVE  Goal
  BY <1>12, <1>19 DEF get
<1>20. ASSUME NEW g \in Gens, gen_lock(g) \/ gen_unlock(g)
       PROVE  Goal
  BY <1>12, <1>20 DEF gen_lock, gen_unlock
<1> QED
  BY <1>4, <1>5, <1>7, <1>8, <1>9, <1>10, <1>11, <1>13, <1>14, <1>15, <1>16, <1>17, <1>18,
     <1>19, <1>20
  DEF RcuNext, Writer, Proxies, Readers, Destructor

\* Both parts of the inductive invariant hold in every reachable state.
LEMMA LastInductive == RcuSpec => [](RcuInv /\ LastInv)
<1>1. RcuInit => LastInv
  <2> SUFFICES ASSUME RcuInit PROVE LastInv
    OBVIOUS
  <2>1. ItemSlots = {}
    BY EntryFacts DEF RcuInit, CslabInit, ItemSlots, HasItem
  <2>2. DropInv
    BY <2>1 DEF RcuInit, CslabInit, DropInv, DropExact, UniqueItems
  <2>3. EndedEmpty /\ LinksOnward /\ LimboOwned
    BY DEF RcuInit, EndedEmpty, LinksOnward, LimboOwned
  <2>4. LiveHeld
    BY DEF RcuInit, LiveHeld, Held
  <2> QED
    BY <2>2, <2>3, <2>4 DEF LastInv
<1>2. RcuInv /\ LastInv /\ [RcuNext]_rcuVars => LastInv'
  BY EndedStep, HeldStep, OwnedStep DEF LastInv
<1> QED
  BY RcuInductive, <1>1, <1>2, PTL DEF RcuSpec

(***************************************************************************)
(* Every variable keeps its type, whatever the capacity, the handles and   *)
(* the number of generations: no index of a slot or of a generation, no    *)
(* count of an RcuIterMut ever leaves its range.                           *)
(***************************************************************************)
THEOREM RcuTypes == RcuSpec => []RcuTypeOK
<1>1. RcuInv => RcuTypeOK
  BY DEF RcuInv
<1> QED
  BY <1>1, RcuInductive, PTL

(***************************************************************************)
(* The slab inside an RcuCslab is as correct as the bare one, although     *)
(* destructors in other threads work on it.  Its links form one list       *)
(* through exactly the empty slots,                                        *)
(***************************************************************************)
THEOREM FreelistKept == RcuSpec => []FreelistExact
<1>1. RcuInv => FreelistExact
  BY DEF RcuInv, CslabInv
<1> QED
  BY <1>1, RcuInductive, PTL

\* len() counts the flagged slots and allocated() those that hold an item,
THEOREM CountersKept == RcuSpec => []CountersExact
<1>1. RcuInv => CountersExact
  BY DEF RcuInv, CslabInv
<1> QED
  BY <1>1, RcuInductive, PTL

\* and a flag of its bitmap has an item behind it, below the frontier.
THEOREM FlagsKept == RcuSpec => []FlagsSound
<1>1. RcuInv => FlagsSound
  BY DEF RcuInv, CslabInv
<1> QED
  BY <1>1, RcuInductive, PTL

(***************************************************************************)
(* RcuCslabGen::drop and CslabStorage::drop between them destroy no item   *)
(* twice, none that is still in the slab before its storage goes, and with *)
(* the storage precisely the present ones.                                 *)
(***************************************************************************)
THEOREM DestructorsExact == RcuSpec => []DropExact
<1>1. LastInv => DropExact
  BY DEF LastInv, DropInv
<1> QED
  BY <1>1, LastInductive, PTL

(***************************************************************************)
(* When the storage goes, every removal has been finalized and every item  *)
(* taken out has been destroyed: no generation was left behind.            *)
(***************************************************************************)
THEOREM AllFinalized == RcuSpec => []NothingLeaked
<1>1. RcuInv /\ LastInv => NothingLeaked
  <2> SUFFICES ASSUME RcuInv, LastInv, ~alive
               PROVE  MarkedSlots = {} /\ \A g \in Gens : limbo[g] = {}
    BY DEF NothingLeaked
  <2>1. \A g \in Gens : gstate[g] \in {"unborn", "gone"}
    BY DEF RcuInv, ReaderInv, StorageLast
  <2>2. \A g \in Gens : pending[g] = <<>> /\ limbo[g] = {}
    BY <2>1 DEF LastInv, EndedEmpty
  <2>3. \A g \in Gens : Pending(g) = {}
    BY <2>2 DEF Pending
  <2>4. marking = {}
    BY <2>1 DEF RcuInv, RcuTypeOK, GenInv, HoldersLive, Held
  <2>5. \A i \in Slots : i \notin MarkedSlots
    BY <2>3, <2>4 DEF RcuInv, RemovalsTracked
  <2> QED
    BY <2>2, <2>5 DEF MarkedSlots, ItemSlots
<1> QED
  BY <1>1, LastInductive, PTL

(***************************************************************************)
(* schedule_finalization(): a generation older than the writer's that has  *)
(* not ended is owed to a reader, a proxy or a destructor that is running, *)
(* of it or of an older one.  The oldest that has not ended is looked at:  *)
(* its predecessor is gone and cannot be what keeps it.                    *)
(***************************************************************************)
THEOREM NoneStraggles == RcuSpec => []NoStragglers
<1>1. RcuInv /\ LastInv => NoStragglers
  <2> SUFFICES ASSUME RcuInv, LastInv, NEW g \in Gens, g # cur_gen,
                      gstate[g] \in Ending \cup {"live"}
               PROVE  \E q \in 0 .. g :
                        \/ gstate[q] \in Ending
                        \/ \E h \in Live : handle[h] = q
                        \/ \E p \in proxies : p.gen = q
                        \/ \E m \in marking : m.gen = q
    BY DEF NoStragglers
  <2> DEFINE Left == {q \in Gens : gstate[q] \in Ending \cup {"live"}}
  <2>1. PICK q \in Left : \A x \in Left : q <= x
    <3>1. Left \in SUBSET Nat /\ g \in Left
      BY DEF Gens
    <3> HIDE DEF Left
    <3> QED
      BY <3>1, LeastNumber
  <2>2. q \in Gens /\ q \in 0 .. g /\ g \in Nat
    BY <2>1, MaxGenAssumption DEF Gens
  <2>3. CASE gstate[q] \in Ending
    BY <2>2, <2>3
  <2>4. CASE gstate[q] = "live"
    <3>1. Held(q)
      BY <2>2, <2>4 DEF LastInv, LiveHeld
    <3>2. ASSUME NEW x \in Gens, next_gen[x] = q PROVE FALSE
      <4>1. q # NoGen
        BY <2>2, MaxGenAssumption DEF Gens, NoGen
      <4>2. q = x + 1 /\ x \in Left
        BY <3>2, <4>1 DEF LastInv, LinksOnward
      <4>3. q <= x
        BY <2>1, <4>2
      <4> QED
        BY <4>2, <4>3, MaxGenAssumption DEF Gens
    <3>3. ASSUME cur_gen = q PROVE FALSE
      <4>1. g > cur_gen /\ cur_gen # NoGen
        BY <2>2, <3>3, MaxGenAssumption DEF Gens, NoGen
      <4>2. gstate[g] = "unborn"
        BY <4>1 DEF RcuInv, GenInv, CurIsNewest
      <4> QED
        BY <4>2 DEF Ending
    <3>4. \A h \in Handles : handle[h] = q => h \in Live
      BY <2>2, MaxGenAssumption DEF Live, Gens, NoGen
    <3> QED
      BY <2>2, <3>1, <3>2, <3>3, <3>4 DEF Held
  <2> QED
    BY <2>1, <2>3, <2>4
<1> QED
  BY <1>1, LastInductive, PTL

----------------------------------------------------------------------------
(* RcuCslab implements GracePeriod. *)

\* The value GracePeriod's `life` is given.
LifeOf(i) == IF i \in bitmap THEN "present" ELSE IF HasItem(i) THEN "marked" ELSE "free"

\* A step of any kind is one of GracePeriod, or invisible to it.
LEMMA GraceStep ==
  ASSUME RcuInv, [RcuNext]_rcuVars
  PROVE  [GP!GPNext]_(GP!gpVars)
<1> USE DEF cslabVars, readerVars
<1> DEFINE life == [i \in Slots |-> LifeOf(i)]
<1>0. /\ GP!gpVars = <<life, Live, unseen>>
      /\ (GP!gpVars)' = <<[i \in Slots |-> LifeOf(i)'], Live', unseen'>>
  BY DEF GP!gpVars, LifeOf
<1>1. /\ RcuTypeOK /\ CslabInv /\ GenInv /\ RemovalsTracked /\ UnseenWait /\ IdleHandles
      /\ handle \in [Handles -> Gens \cup {NoGen}] /\ unseen \in [Handles -> SUBSET Slots]
      /\ cur_gen \in Gens \cup {NoGen} /\ NoGen \notin Gens
  <2>1. /\ RcuTypeOK /\ CslabInv /\ GenInv /\ RemovalsTracked /\ UnseenWait /\ IdleHandles
    BY DEF RcuInv, ReaderInv
  <2>2. NoGen \notin Gens
    BY MaxGenAssumption DEF Gens, NoGen
  <2>3. /\ handle \in [Handles -> Gens \cup {NoGen}] /\ unseen \in [Handles -> SUBSET Slots]
        /\ cur_gen \in Gens \cup {NoGen}
    BY <2>1 DEF RcuTypeOK
  <2> QED
    BY <2>1, <2>2, <2>3
\* What GracePeriod does not see.
<1>2. ASSUME UNCHANGED <<bitmap, table, handle, unseen>> PROVE UNCHANGED GP!gpVars
  BY <1>0, <1>2 DEF LifeOf, HasItem, Live
<1>3. ASSUME UNCHANGED <<bitmap, table>> PROVE \A i \in Slots : LifeOf(i)' = LifeOf(i)
  BY <1>3 DEF LifeOf, HasItem
<1>4. ASSUME NEW v \in Items, insert(v), UNCHANGED <<handle, unseen>>
      PROVE  GP!GPNext
  <2>0. PICK f : f = first_free
    OBVIOUS
  <2>1. f \in Slots /\ ~HasItem(f) /\ f \notin bitmap
    BY <2>0, <1>1, <1>4, InsertMarked DEF CslabInv, FlagsSound
  <2>2. LifeOf(f) = "free"
    BY <2>1 DEF LifeOf
  <2>3. \A i \in Slots : LifeOf(i)' = IF i = f THEN "present" ELSE LifeOf(i)
    BY <2>0, <2>1, <1>1, <1>4 DEF insert, LifeOf, HasItem, RcuTypeOK, CslabTypeOK
  <2>4. GP!Fill(f)
    BY <2>1, <2>2, <2>3, <1>4 DEF GP!Fill, LifeOf, Live
  <2> QED
    BY <2>1, <2>4 DEF GP!GPNext
<1>5. ASSUME NEW i \in Slots, NEW g \in Gens, MarkIn(i, g)
      PROVE  GP!GPNext
  <2>1. HasItem(i) /\ i \in bitmap /\ bitmap' = bitmap \ {i} /\ UNCHANGED <<table, handle>>
    BY <1>1, <1>5 DEF MarkIn, mark_removed, CslabInv, FlagsSound
  <2>2. LifeOf(i) = "present"
    BY <2>1 DEF LifeOf
  <2>3. \A j \in Slots : LifeOf(j)' = IF j = i THEN "marked" ELSE LifeOf(j)
    BY <2>1 DEF LifeOf, HasItem
  <2>4. unseen' = [h \in Handles |-> IF h \in Live THEN unseen[h] \cup {i} ELSE {}]
    BY <1>5 DEF MarkIn
  <2>5. GP!Mark(i)
    BY <2>1, <2>2, <2>3, <2>4 DEF GP!Mark, LifeOf, Live
  <2> QED
    BY <2>5 DEF GP!GPNext
<1>6. ASSUME NEW e \in Gens, gen_finalize(e)
      PROVE  GP!GPNext
  <2>1. PICK i : i = Head(pending[e])
    OBVIOUS
  <2>2. /\ gstate[e] = "finalizing" /\ pending[e] # <<>> /\ finalize_remove(i)
        /\ UNCHANGED <<handle, unseen, bitmap>>
    BY <2>1, <1>6 DEF gen_finalize, finalize_remove
  <2>3. i \in MarkedSlots
    BY <2>1, <2>2, <1>1, NextIsMarked
  <2>4. i \in Slots /\ i \notin bitmap /\ HasItem(i)
    BY <2>3 DEF MarkedSlots, ItemSlots
  <2>5. \A h \in Live : i \notin unseen[h]
    BY <2>1, <2>2, <1>1, FinalizedSeen
  <2>6. LifeOf(i) = "marked"
    BY <2>4 DEF LifeOf
  <2>7. \A j \in Slots : LifeOf(j)' = IF j = i THEN "free" ELSE LifeOf(j)
    <3>1. MarkedSlots' = MarkedSlots \ {i} /\ \A j \in Slots : j # i => table'[j] = table[j]
      BY <2>2, <2>3, <1>1, FinalizeMarked
    <3>2. ~HasItem(i)'
      BY <3>1, <2>2, <2>4 DEF MarkedSlots, ItemSlots
    <3> QED
      BY <3>1, <3>2, <2>2, <2>4 DEF LifeOf, HasItem
  <2>8. GP!Recycle(i)
    BY <2>2, <2>4, <2>5, <2>6, <2>7 DEF GP!Recycle, LifeOf, Live
  <2> QED
    BY <2>4, <2>8 DEF GP!GPNext
<1>7. ASSUME NEW h \in Handles, schedule_finalization(h) \/ reader(h)
      PROVE  GP!GPNext
  <2>1. PICK g \in Gens : NewReader(h, g)
    <3>1. cur_gen \in Gens
      BY <1>1, <1>7 DEF schedule_finalization, reader, UseSlab, WriterReady
    <3>2. CASE reader(h)
      BY <3>1, <3>2 DEF reader
    <3>3. CASE schedule_finalization(h)
      <4>1. cur_gen + 1 \in Gens /\ NewReader(h, cur_gen + 1)
        BY <3>1, <3>3, MaxGenAssumption DEF schedule_finalization, advance_generation, Gens
      <4> QED
        BY <4>1 DEF NewReader
    <3> QED
      BY <3>2, <3>3, <1>7
  <2>2. h \notin Live /\ Live' = Live \cup {h} /\ unseen' = unseen
    BY <2>1, <1>1 DEF NewReader, Live
  <2>3. UNCHANGED <<bitmap, table>>
    BY <1>7 DEF schedule_finalization, reader, advance_generation
  <2>4. GP!Enter(h)
    BY <2>2, <2>3, <1>3 DEF GP!Enter, LifeOf
  <2> QED
    BY <2>4 DEF GP!GPNext
<1>8. ASSUME NEW h \in Handles, NEW k \in Handles, clone(h, k)
      PROVE  GP!GPNext
  <2>1. h \in Live /\ k \notin Live /\ Live' = Live \cup {k}
    BY <1>1, <1>8 DEF clone, Live
  <2>2. GP!Clone(h, k)
    BY <2>1, <1>3, <1>8 DEF clone, GP!Clone, LifeOf
  <2> QED
    BY <2>2 DEF GP!GPNext
<1>9. ASSUME NEW h \in Handles, drop_handle(h)
      PROVE  GP!GPNext
  <2>1. h \in Live /\ Live' = Live \ {h}
    BY <1>1, <1>9 DEF drop_handle, Live
  <2>2. GP!Exit(h)
    BY <2>1, <1>3, <1>9 DEF drop_handle, GP!Exit, LifeOf
  <2> QED
    BY <2>2 DEF GP!GPNext
<1>10. ASSUME NEW v \in Items, rcu_insert(v) \/ rcu_insert_full(v) \/ entry_insert(v)
       PROVE  GP!GPNext \/ UNCHANGED GP!gpVars
  BY <1>2, <1>4, <1>10 DEF rcu_insert, rcu_insert_full, entry_insert, insert_full
<1>11. ASSUME NEW i \in Slots, rcu_mark_removed(i)
       PROVE  GP!GPNext
  BY <1>1, <1>5, <1>11, UseSlabFacts DEF rcu_mark_removed
<1>12. ASSUME NEW p \in proxies, proxy_remove(p)
       PROVE  GP!GPNext
  <2>1. p.idx \in Slots /\ p.gen \in Gens
    BY <1>1 DEF RcuTypeOK, Proxy
  <2> QED
    BY <2>1, <1>5, <1>12 DEF proxy_remove
<1>13. ASSUME \/ vacant_key \/ vacant_entry \/ entry_drop \/ rcu_insert_return \/ iter_mut
              \/ iter_drop \/ slab_drop \/ storage_drop \/ Finished \/ UNCHANGED rcuVars
              \/ \E i \in Slots : iter_next(i) \/ iter_next_back(i)
              \/ \E p \in proxies : proxy_drop(p)
              \/ \E m \in marking : push_pending(m)
              \/ \E h \in Handles, i \in Slots : get(h, i)
              \/ \E g \in Gens : gen_lock(g) \/ gen_unlock(g) \/ gen_end(g)
       PROVE  UNCHANGED GP!gpVars
  <2>1. UNCHANGED <<bitmap, table, handle, unseen>>
    BY <1>13 DEF vacant_key, vacant_entry, entry_drop, rcu_insert_return, iter_mut, iter_drop,
       slab_drop, storage_drop, drop_storage, Finished, rcuVars, advance_generation, iter_next,
       iter_next_back, Yield, proxy_drop, push_pending, get, gen_lock, gen_unlock, gen_end
  <2> QED
    BY <2>1, <1>2
<1> QED
  BY <1>6, <1>7, <1>8, <1>9, <1>10, <1>11, <1>12, <1>13
  DEF RcuNext, Writer, Proxies, Readers, Destructor

(***************************************************************************)
(* RcuCslab keeps the promise that Cslab::finalize_remove asks for: a slot *)
(* is recycled only when no handle that may still see its flag is left.    *)
(***************************************************************************)
THEOREM GracePeriodKept == RcuSpec => ImplementsGracePeriod
<1>1. RcuInit => GP!GPInit
  BY EntryFacts DEF RcuInit, CslabInit, GP!GPInit, Live, HasItem
<1>2. RcuInv /\ [RcuNext]_rcuVars => [GP!GPNext]_(GP!gpVars)
  BY GraceStep
<1> QED
  BY <1>1, <1>2, RcuInductive, PTL DEF RcuSpec, GP!GPSpec, ImplementsGracePeriod

============================================================================
