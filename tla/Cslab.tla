------------------------------- MODULE Cslab -------------------------------
(***************************************************************************)
(* The writer side of `Cslab` (cslab/src/lib.rs): a fixed-capacity slab    *)
(* whose free entries are threaded into a list through the entries         *)
(* themselves, with a bitmap of the present items and a "frontier" (the    *)
(* highest index ever marked, plus one) that bounds every scan.            *)
(*                                                                         *)
(* Each action is one whole call, as a caller holding `&mut Cslab` makes   *)
(* it.  Readers running in between the stores of a call are the subject of *)
(* CslabMem; who may call finalize_remove(), and when, of RcuCslab.        *)
(***************************************************************************)
EXTENDS Integers, FiniteSets

CONSTANTS
  Capacity,     \* number of slots, fixed for the life of the slab
  Items         \* payloads; each is one Rust value, moved and never copied

\* `assert!(size > 0)` in CslabStorage::with_fixed_capacity.
ASSUME CapacityAssumption == Capacity \in Nat \ {0}

\* Cardinalities of sets of slots are taken, never of Items.
Slots == 0 .. Capacity - 1

VARIABLES
  first_free,   \* head of the free list; Capacity when it is empty
  in_use,       \* what len() reports
  allocated,    \* what allocated() reports
  frontier,     \* highest index ever marked in the bitmap, plus one
  bitmap,       \* the slots whose flag is set
  table,        \* the entries
  alive,        \* FALSE once CslabStorage::drop has run
  dropped       \* history: how often each item's destructor has run

cslabVars == <<first_free, in_use, allocated, frontier, bitmap, table,
               alive, dropped>>

(***************************************************************************)
(* `union Entry<T>`.  The code has no tag: reading a field that was not    *)
(* the one last written is undefined, and FreelistExact shows that the     *)
(* code never does so.                                                     *)
(***************************************************************************)
FreeEntry(offset) == [tag |-> "next_free", next_free |-> offset]
ItemEntry(v)      == [tag |-> "item", item |-> v]
Entry == [tag : {"next_free"}, next_free : Int] \cup [tag : {"item"}, item : Items]

HasItem(i) == table[i].tag = "item"

ItemSlots == {i \in Slots : HasItem(i)}
FreeSlots == {i \in Slots : ~HasItem(i)}

\* Marked for removal, removal not yet finalized.
MarkedSlots == ItemSlots \ bitmap

\* A Rust value exists once: it can be moved into the slab only while it is
\* neither in a slot nor destroyed.
Movable(v) == dropped[v] = 0 /\ \A i \in Slots : table[i] # ItemEntry(v)

----------------------------------------------------------------------------
(* Mutated forms of the operators below, used to check that the properties *)
(* can fail.                                                               *)

NextFree_Absolute(i)      == table[i].next_free
BumpFrontier_NoPlusOne(i) == IF i >= frontier THEN i ELSE frontier
Freed_Never(i)            == allocated

----------------------------------------------------------------------------
\* The index after i in the free list: the stored offset is relative to the
\* neighbour, so that a zeroed table is one list through every slot.
NextFree(i) == i + 1 + table[i].next_free

\* The offset stored in i when it is pushed onto the free list.
LinkTo(i) == first_free - i - 1

\* [Im]: the frontier after index i has been handed out.
BumpFrontier(i) == IF i >= frontier THEN i + 1 ELSE frontier

\* allocated() after slot i has been freed.
Freed(i) == allocated - 1

\* The slots that `Iter::new(self)` visits in CslabStorage::drop.
Scanned == {i \in bitmap : i < frontier}

CslabInit ==
  /\ first_free = 0
  /\ in_use = 0
  /\ allocated = 0
  /\ frontier = 0
  /\ bitmap = {}
  /\ table = [i \in Slots |-> FreeEntry(0)]
  /\ alive = TRUE
  /\ dropped = [v \in Items |-> 0]

\* Cslab::insert, and VacantEntry::insert which can only reach this case.
insert(v) ==
  /\ first_free < Capacity
  /\ first_free' = NextFree(first_free)
  /\ table' = [table EXCEPT ![first_free] = ItemEntry(v)]
  /\ frontier' = BumpFrontier(first_free)
  /\ bitmap' = bitmap \cup {first_free}
  /\ in_use' = in_use + 1
  /\ allocated' = allocated + 1
  /\ UNCHANGED <<alive, dropped>>

\* Cslab::insert returning Err: the rejected item dies with the call.
insert_full(v) ==
  /\ first_free >= Capacity
  /\ dropped' = [dropped EXCEPT ![v] = @ + 1]
  /\ UNCHANGED <<first_free, in_use, allocated, frontier, bitmap, table, alive>>

\* Cslab::mark_removed; its assertion makes an absent index a panic that
\* changes nothing.
mark_removed(i) ==
  /\ i \in bitmap
  /\ bitmap' = bitmap \ {i}
  /\ in_use' = in_use - 1
  /\ UNCHANGED <<first_free, allocated, frontier, table, alive, dropped>>

\* Mutant: the item is copied out and stays in its entry.
finalize_remove_Copy(i) ==
  /\ i \notin bitmap
  /\ allocated' = Freed(i)
  /\ UNCHANGED <<first_free, in_use, frontier, bitmap, table, alive, dropped>>

\* Cslab::finalize_remove.  The item moves to the caller.
finalize_remove(i) ==
  /\ i \notin bitmap
  /\ table' = [table EXCEPT ![i] = FreeEntry(LinkTo(i))]
  /\ first_free' = i
  /\ allocated' = Freed(i)
  /\ UNCHANGED <<in_use, frontier, bitmap, alive, dropped>>

\* CslabStorage::drop, run by whoever releases the last Arc.
drop_storage ==
  /\ alive
  /\ alive' = FALSE
  /\ dropped' = [v \in Items |->
       dropped[v] + Cardinality({i \in Scanned : table[i] = ItemEntry(v)})]
  /\ UNCHANGED <<first_free, in_use, allocated, frontier, bitmap, table>>

(***************************************************************************)
(* A client that honours the safety sections of the two unsafe methods     *)
(* except that it may drop the slab with removals still to be finalized.   *)
(***************************************************************************)
Insert(v)         == alive /\ Movable(v) /\ insert(v)
InsertFull(v)     == alive /\ Movable(v) /\ insert_full(v)
MarkRemoved(i)    == alive /\ mark_removed(i)
FinalizeRemove(i) == alive /\ i \in MarkedSlots /\ finalize_remove(i)

CslabNext ==
  \/ \E v \in Items : Insert(v) \/ InsertFull(v)
  \/ \E i \in Slots : MarkRemoved(i) \/ FinalizeRemove(i)
  \/ drop_storage

CslabSpec == CslabInit /\ [][CslabNext]_cslabVars

----------------------------------------------------------------------------
\* Every variable has its type; in particular first_free never runs past
\* Capacity, the value that means "no slot left".
CslabTypeOK ==
  /\ first_free \in 0 .. Capacity
  /\ in_use \in Nat
  /\ allocated \in Nat
  /\ frontier \in 0 .. Capacity
  /\ bitmap \in SUBSET Slots
  /\ table \in [Slots -> Entry]
  /\ alive \in BOOLEAN
  /\ dropped \in [Items -> Nat]

(***************************************************************************)
(* The links stored in the free entries form one list: it starts at        *)
(* first_free, goes through every slot that holds no item, each once, and  *)
(* ends at Capacity; its length is what allocated() leaves of the          *)
(* capacity.  rank counts the slots that come after a slot in the list.    *)
(* So insert() never reads an item as a link, never hands out an occupied  *)
(* slot, and fails only when every slot holds an item.                     *)
(***************************************************************************)
IsRank(rank) ==
  /\ \A i, j \in FreeSlots : rank[i] = rank[j] => i = j
  /\ \A i \in FreeSlots :
       \/ rank[i] = 0 /\ NextFree(i) = Capacity
       \/ /\ rank[i] > 0
          /\ NextFree(i) \in FreeSlots
          /\ rank[NextFree(i)] = rank[i] - 1
  /\ \/ FreeSlots = {} /\ first_free = Capacity /\ allocated = Capacity
     \/ /\ first_free \in FreeSlots
        /\ rank[first_free] = Capacity - allocated - 1
        /\ \A i \in FreeSlots : rank[i] <= rank[first_free]

FreelistExact == \E rank \in [FreeSlots -> Slots] : IsRank(rank)

\* len() counts the flagged slots, allocated() the slots holding an item,
\* so their difference is the removals marked and not finalized.
CountersExact ==
  /\ in_use = Cardinality(bitmap)
  /\ allocated = Cardinality(ItemSlots)

\* A set flag promises a reader an item to dereference, and lies below the
\* frontier that bounds every scan, the one in CslabStorage::drop included.
FlagsSound == \A i \in bitmap : HasItem(i) /\ i < frontier

\* The storage destroys each item it still owns exactly once: no item in a
\* live slab has been destroyed, none is ever destroyed twice, and dropping
\* the slab destroys precisely the present ones.
DropExact ==
  /\ \A v \in Items : dropped[v] <= 1
  /\ \A i \in ItemSlots : dropped[table[i].item] = IF alive \/ i \notin bitmap THEN 0 ELSE 1

============================================================================
