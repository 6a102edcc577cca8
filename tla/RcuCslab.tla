------------------------------ MODULE RcuCslab ------------------------------
(***************************************************************************)
(* `RcuCslab` (cslab/src/lib.rs): the slab together with the generations   *)
(* that decide when a marked removal may be finalized.                     *)
(*                                                                         *)
(* The processes are the owner of the RcuCslab ("the writer"), the threads *)
(* that hold RcuCslabReader handles, the threads that hold RcuEntry        *)
(* proxies of an iter_mut(), and the destructors of generations, which run *)
(* in whatever thread lets go of the last Arc.  They share the mutex       *)
(* around the Cslab; get() of a reader takes no lock.                      *)
(***************************************************************************)
EXTENDS Cslab, Sequences

CONSTANTS
  Handles,      \* names for RcuCslabReader values
  MaxGen        \* bound on the generations one run creates

ASSUME MaxGenAssumption == MaxGen \in Nat

Gens  == 0 .. MaxGen
NoGen == -1
NoKey == Capacity

VARIABLES
  cur_gen,      \* the writer's generation; NoGen once the RcuCslab is dropped
  gstate,       \* where each generation is between its creation and its end
  pending,      \* pending_removes of each generation
  next_gen,     \* the successor each generation keeps alive
  limbo,        \* items finalized and not yet destroyed, per destructor
  mutex,        \* who holds the mutex around the Cslab
  inline,       \* the generation whose destructor runs inside a call that has
                \* the slab borrowed: one of the writer's, or RcuEntry::remove
  marking,      \* calls of RcuCslabGen::mark_removed between their two locks
  it,           \* the RcuIterMut, if there is one
  proxies,      \* the RcuEntry values
  key,          \* the index last promised for the next insertion; NoKey if
                \* the writer has made a mutating call since
  handle,       \* the generation of each read handle
  unseen,       \* slots cleared since the handle last synchronized: it may
                \* still load their flag as set
  refs          \* references a handle has given out

genVars    == <<cur_gen, gstate, next_gen, inline>>
readerVars == <<handle, unseen, refs>>
rcuVars == <<cslabVars, genVars, pending, limbo, mutex, marking, it, proxies, key, readerVars>>

Proxy    == [idx : Slots, gen : Gens, usable : BOOLEAN]
NoIter   == [on |-> FALSE, head |-> 0, tail |-> 0, remaining |-> 0]
Live     == {h \in Handles : handle[h] # NoGen}
Ending   == {"dropping", "finalizing", "items"}

----------------------------------------------------------------------------
(* Mutated forms of the operators below, used to check that the properties *)
(* can fail.                                                               *)

\* Generations do not keep their successor alive.
Held_NoChain(g) ==
  \/ cur_gen = g
  \/ \E h \in Handles : handle[h] = g
  \/ \E p \in proxies : p.gen = g
  \/ \E m \in marking : m.gen = g

\* A proxy lets go of its generation before the removal is recorded.
Held_NoMarking(g) ==
  \/ cur_gen = g
  \/ \E h \in Handles : handle[h] = g
  \/ \E p \in proxies : p.gen = g
  \/ \E q \in Gens : next_gen[q] = g

\* RcuEntry does not carry the lifetime of the borrow.
UseSlab_NoBorrow ==
  /\ cur_gen # NoGen /\ inline = NoGen /\ mutex # "entry" /\ mutex # "reject"
  /\ ~it.on
  /\ marking = {}
  /\ UNCHANGED proxies

----------------------------------------------------------------------------
\* Everything that owns an Arc of generation g.
Held(g) ==
  \/ cur_gen = g
  \/ \E h \in Handles : handle[h] = g
  \/ \E p \in proxies : p.gen = g
  \/ \E m \in marking : m.gen = g
  \/ \E q \in Gens : next_gen[q] = g

\* Letting go of the last Arc of a generation starts its destructor.  gs is
\* gstate with what the step itself does to it.
Settle(gs) ==
  gstate' = [g \in Gens |-> IF gs[g] = "live" /\ ~Held(g)' THEN "dropping" ELSE gs[g]]

\* ... in the thread that let go of it, here inside a call that has the slab
\* borrowed and returns only when the destructor has ended.
RunInline ==
  inline' = IF \E g \in Gens : gstate[g] = "live" /\ gstate'[g] = "dropping"
            THEN CHOOSE g \in Gens : gstate[g] = "live" /\ gstate'[g] = "dropping"
            ELSE NoGen

\* Nobody is inside a call that has the slab borrowed: the destructor that the
\* writer's call or the remove() of a proxy has started is over.
WriterReady == cur_gen # NoGen /\ inline = NoGen /\ mutex # "entry" /\ mutex # "reject"

\* A call on the RcuCslab itself.  The borrow held by an RcuIterMut and by the
\* proxies excludes it, to the end of their remove(); making the call ends the
\* borrow, after which a proxy that still exists can only be dropped.
UseSlab ==
  /\ WriterReady
  /\ ~it.on
  /\ marking = {}
  /\ proxies' = {[p EXCEPT !.usable = FALSE] : p \in proxies}

----------------------------------------------------------------------------
RcuInit ==
  /\ CslabInit
  /\ cur_gen = 0
  /\ gstate = [g \in Gens |-> IF g = 0 THEN "live" ELSE "unborn"]
  /\ pending = [g \in Gens |-> <<>>]
  /\ next_gen = [g \in Gens |-> NoGen]
  /\ limbo = [g \in Gens |-> {}]
  /\ mutex = "free"
  /\ inline = NoGen
  /\ marking = {}
  /\ it = NoIter
  /\ proxies = {}
  /\ key = NoKey
  /\ handle = [h \in Handles |-> NoGen]
  /\ unseen = [h \in Handles |-> {}]
  /\ refs = [h \in Handles |-> {}]

Owned(v) == Movable(v) /\ \A g \in Gens : v \notin limbo[g]

\* RcuCslab::insert, a slot being free.
rcu_insert(v) ==
  /\ UseSlab /\ mutex = "free" /\ Owned(v)
  /\ insert(v)
  /\ key' = NoKey
  /\ UNCHANGED <<genVars, pending, limbo, mutex, marking, it, readerVars>>

\* RcuCslab::insert on a full slab: Cslab::insert drops the item on its way
\* out, and the guard is a temporary that outlives that call.
rcu_insert_full(v) ==
  /\ UseSlab /\ mutex = "free" /\ Owned(v)
  /\ insert_full(v)
  /\ mutex' = "reject"
  /\ key' = NoKey
  /\ UNCHANGED <<genVars, pending, limbo, marking, it, readerVars>>

rcu_insert_return ==
  /\ mutex = "reject"
  /\ mutex' = "free"
  /\ UNCHANGED <<cslabVars, genVars, pending, limbo, marking, it, proxies, key, readerVars>>

\* RcuCslab::vacant_key, returning Ok.
vacant_key ==
  /\ UseSlab /\ mutex = "free"
  /\ first_free < Capacity
  /\ key' = first_free
  /\ UNCHANGED <<cslabVars, genVars, pending, limbo, mutex, marking, it, readerVars>>

\* RcuCslab::vacant_entry, returning Ok: the entry is the mutex guard.
vacant_entry ==
  /\ UseSlab /\ mutex = "free"
  /\ first_free < Capacity
  /\ mutex' = "entry"
  /\ key' = first_free
  /\ UNCHANGED <<cslabVars, genVars, pending, limbo, marking, it, readerVars>>

\* VacantRcuEntry::insert.
entry_insert(v) ==
  /\ mutex = "entry" /\ Owned(v)
  /\ insert(v)
  /\ mutex' = "free"
  /\ key' = NoKey
  /\ UNCHANGED <<genVars, pending, limbo, marking, it, proxies, readerVars>>

\* A VacantRcuEntry dropped unused.
entry_drop ==
  /\ mutex = "entry"
  /\ mutex' = "free"
  /\ key' = NoKey
  /\ UNCHANGED <<cslabVars, genVars, pending, limbo, marking, it, proxies, readerVars>>

\* First half of RcuCslabGen::mark_removed, under the slab's mutex: from here
\* on, whoever reads without having synchronized may or may not see the flag.
MarkIn(i, g) ==
  /\ mutex = "free"
  /\ mark_removed(i)
  /\ marking' = marking \cup {[idx |-> i, gen |-> g]}
  /\ unseen' = [h \in Handles |-> IF h \in Live THEN unseen[h] \cup {i} ELSE {}]
  /\ key' = NoKey
  /\ UNCHANGED <<genVars, pending, limbo, mutex, it, handle, refs>>

\* RcuCslab::mark_removed.
rcu_mark_removed(i) == UseSlab /\ MarkIn(i, cur_gen)

\* RcuEntry::remove, in whatever thread the proxy is.
proxy_remove(p) ==
  /\ p.usable
  /\ proxies' = proxies \ {p}
  /\ MarkIn(p.idx, p.gen)

\* Mutant: the removal is not recorded.
push_pending_Lost(m) ==
  /\ marking' = marking \ {m}
  /\ UNCHANGED <<cslabVars, cur_gen, next_gen, pending, limbo, mutex, it, proxies, key, readerVars>>
  /\ Settle(gstate)
  /\ IF gstate' = gstate THEN UNCHANGED inline ELSE RunInline

\* Second half of RcuCslabGen::mark_removed, under the generation's mutex.  A
\* proxy is consumed by its remove(), which lets go of the generation before
\* it returns: the destructor this may start runs inside the call.
push_pending(m) ==
  /\ pending' = [pending EXCEPT ![m.gen] = Append(@, m.idx)]
  /\ marking' = marking \ {m}
  /\ UNCHANGED <<cslabVars, cur_gen, next_gen, limbo, mutex, it, proxies, key, readerVars>>
  /\ Settle(gstate)
  /\ IF gstate' = gstate THEN UNCHANGED inline ELSE RunInline

\* An RcuEntry dropped without remove().  It has no Drop of its own, so the end
\* of its scope needs no borrow, and the slab may be in another thread by then.
proxy_drop(p) ==
  /\ proxies' = proxies \ {p}
  /\ UNCHANGED <<cslabVars, cur_gen, next_gen, inline, pending, limbo, mutex, marking, it, key, readerVars>>
  /\ Settle(gstate)

\* RcuCslab::advance_generation.
advance_generation ==
  /\ cur_gen < MaxGen
  /\ next_gen' = [next_gen EXCEPT ![cur_gen] = cur_gen + 1]
  /\ cur_gen' = cur_gen + 1
  /\ key' = NoKey
  /\ UNCHANGED <<cslabVars, pending, limbo, mutex, marking>>

\* A handle that has seen every removal so far, as one made by the writer.
NewReader(h, g) ==
  /\ h \notin Live
  /\ handle' = [handle EXCEPT ![h] = g]
  /\ UNCHANGED <<unseen, refs>>

\* RcuCslab::schedule_finalization.
schedule_finalization(h) ==
  /\ UseSlab
  /\ advance_generation
  /\ NewReader(h, cur_gen + 1)
  /\ UNCHANGED it
  /\ Settle([gstate EXCEPT ![cur_gen + 1] = "live"])
  /\ RunInline

\* RcuCslab::reader.
reader(h) ==
  /\ UseSlab
  /\ NewReader(h, cur_gen)
  /\ UNCHANGED <<cslabVars, genVars, pending, limbo, mutex, marking, it, key>>

\* Drop of the RcuCslab.
slab_drop ==
  /\ UseSlab
  /\ cur_gen' = NoGen
  /\ key' = NoKey
  /\ UNCHANGED <<cslabVars, next_gen, pending, limbo, mutex, marking, it, readerVars>>
  /\ Settle(gstate)
  /\ RunInline

----------------------------------------------------------------------------
(* RcuIterMut.  Its Iter is modelled by what it yields; CslabIter has the  *)
(* scan itself.                                                            *)

Ahead == {i \in bitmap : it.head <= i /\ i < it.tail}

\* RcuCslab::iter_mut.  (Bound: its drop needs one more generation.)
iter_mut ==
  /\ UseSlab /\ mutex = "free"
  /\ cur_gen < MaxGen
  /\ key' = NoKey
  /\ it' = [on |-> TRUE, head |-> 0, tail |-> frontier, remaining |-> in_use]
  /\ UNCHANGED <<cslabVars, genVars, pending, limbo, mutex, marking, readerVars>>

Yield(i) ==
  /\ it.on
  /\ proxies' = proxies \cup {[idx |-> i, gen |-> cur_gen, usable |-> TRUE]}
  /\ UNCHANGED <<cslabVars, genVars, pending, limbo, mutex, marking, key, readerVars>>

\* Mutants: one next() counted twice, one next_back() not counted.
iter_next_Twice(i) ==
  /\ i \in Ahead /\ \A j \in Ahead : i <= j
  /\ it' = [it EXCEPT !.head = i + 1, !.remaining = @ - 2]
  /\ Yield(i)
iter_next_back_NoCount(i) ==
  /\ i \in Ahead /\ \A j \in Ahead : i >= j
  /\ it' = [it EXCEPT !.tail = i]
  /\ Yield(i)

\* RcuIterMut::next and next_back, returning Some.
iter_next(i) ==
  /\ i \in Ahead /\ \A j \in Ahead : i <= j
  /\ it' = [it EXCEPT !.head = i + 1, !.remaining = @ - 1]
  /\ Yield(i)
iter_next_back(i) ==
  /\ i \in Ahead /\ \A j \in Ahead : i >= j
  /\ it' = [it EXCEPT !.tail = i, !.remaining = @ - 1]
  /\ Yield(i)

\* Drop of the RcuIterMut.
iter_drop ==
  /\ it.on
  /\ advance_generation
  /\ it' = NoIter
  /\ UNCHANGED <<proxies, readerVars>>
  /\ Settle([gstate EXCEPT ![cur_gen + 1] = "live"])
  /\ RunInline

----------------------------------------------------------------------------
(* Read handles, each in a thread of its own. *)

\* RcuCslabReader::clone.
clone(h, k) ==
  /\ h \in Live /\ k \notin Live
  /\ handle' = [handle EXCEPT ![k] = handle[h]]
  /\ unseen' = [unseen EXCEPT ![k] = unseen[h]]
  /\ UNCHANGED <<cslabVars, genVars, pending, limbo, mutex, marking, it, proxies, key, refs>>

\* RcuCslabReader::get returning Some, or iter() yielding the item: the flag
\* is set, or was when the handle last synchronized.
get(h, i) ==
  /\ h \in Live
  /\ i \in bitmap \cup unseen[h]
  /\ HasItem(i)
  /\ refs' = [refs EXCEPT ![h] = @ \cup {<<i, table[i].item>>}]
  /\ UNCHANGED <<cslabVars, genVars, pending, limbo, mutex, marking, it, proxies, key, handle, unseen>>

\* Drop of an RcuCslabReader.
drop_handle(h) ==
  /\ h \in Live
  /\ handle' = [handle EXCEPT ![h] = NoGen]
  /\ unseen' = [unseen EXCEPT ![h] = {}]
  /\ refs' = [refs EXCEPT ![h] = {}]
  /\ UNCHANGED <<cslabVars, cur_gen, next_gen, inline, pending, limbo, mutex, marking, it, proxies, key>>
  /\ Settle(gstate)

----------------------------------------------------------------------------
(* RcuCslabGen::drop, then the drop of the generation's fields. *)

\* Mutants: finalization without the slab's mutex, a mutex never released,
\* a successor never released.
gen_finalize_Unlocked(g) ==
  /\ gstate[g] \in {"dropping", "finalizing"} /\ pending[g] # <<>>
  /\ LET i == Head(pending[g])
     IN  /\ finalize_remove(i)
         /\ limbo' = [limbo EXCEPT ![g] = @ \cup {table[i].item}]
  /\ pending' = [pending EXCEPT ![g] = Tail(@)]
  /\ UNCHANGED <<genVars, mutex, marking, it, proxies, key, readerVars>>
gen_unlock_Forgotten(g) ==
  /\ gstate[g] = "finalizing" /\ pending[g] = <<>>
  /\ gstate' = [gstate EXCEPT ![g] = "items"]
  /\ UNCHANGED <<cslabVars, cur_gen, next_gen, inline, pending, limbo, mutex, marking, it, proxies, key, readerVars>>
gen_end_KeepNext(g) ==
  /\ gstate[g] = "items"
  /\ dropped' = [v \in Items |-> IF v \in limbo[g] THEN dropped[v] + 1 ELSE dropped[v]]
  /\ limbo' = [limbo EXCEPT ![g] = {}]
  /\ UNCHANGED <<first_free, in_use, allocated, frontier, bitmap, table, alive, next_gen,
                 cur_gen, pending, mutex, marking, it, proxies, key, readerVars>>
  /\ Settle([gstate EXCEPT ![g] = "gone"])
  /\ IF inline = g THEN RunInline ELSE UNCHANGED inline

gen_lock(g) ==
  /\ gstate[g] = "dropping" /\ mutex = "free"
  /\ mutex' = "finalize"
  /\ gstate' = [gstate EXCEPT ![g] = "finalizing"]
  /\ UNCHANGED <<cslabVars, cur_gen, next_gen, inline, pending, limbo, marking, it, proxies, key, readerVars>>

gen_finalize(g) ==
  /\ gstate[g] = "finalizing" /\ pending[g] # <<>>
  /\ LET i == Head(pending[g])
     IN  /\ finalize_remove(i)
         /\ limbo' = [limbo EXCEPT ![g] = @ \cup {table[i].item}]
  /\ pending' = [pending EXCEPT ![g] = Tail(@)]
  /\ UNCHANGED <<genVars, mutex, marking, it, proxies, key, readerVars>>

gen_unlock(g) ==
  /\ gstate[g] = "finalizing" /\ pending[g] = <<>>
  /\ mutex' = "free"
  /\ gstate' = [gstate EXCEPT ![g] = "items"]
  /\ UNCHANGED <<cslabVars, cur_gen, next_gen, inline, pending, limbo, marking, it, proxies, key, readerVars>>

gen_end(g) ==
  /\ gstate[g] = "items"
  /\ dropped' = [v \in Items |-> IF v \in limbo[g] THEN dropped[v] + 1 ELSE dropped[v]]
  /\ limbo' = [limbo EXCEPT ![g] = {}]
  /\ next_gen' = [next_gen EXCEPT ![g] = NoGen]
  /\ UNCHANGED <<first_free, in_use, allocated, frontier, bitmap, table, alive,
                 cur_gen, pending, mutex, marking, it, proxies, key, readerVars>>
  /\ Settle([gstate EXCEPT ![g] = "gone"])
  /\ IF inline = g THEN RunInline ELSE UNCHANGED inline

\* The storage goes with the last of the slab, the handles and the generations.
storage_drop ==
  /\ cur_gen = NoGen /\ Live = {}
  /\ \A g \in Gens : gstate[g] \in {"unborn", "gone"}
  /\ drop_storage
  /\ UNCHANGED <<genVars, pending, limbo, mutex, marking, it, proxies, key, readerVars>>

\* Nothing is left to do.
Finished == ~alive /\ UNCHANGED rcuVars

Writer ==
  \/ \E v \in Items : rcu_insert(v) \/ rcu_insert_full(v) \/ entry_insert(v)
  \/ \E i \in Slots : rcu_mark_removed(i) \/ iter_next(i) \/ iter_next_back(i)
  \/ \E h \in Handles : schedule_finalization(h) \/ reader(h)
  \/ vacant_key \/ vacant_entry \/ entry_drop \/ rcu_insert_return
  \/ iter_mut \/ iter_drop \/ slab_drop
Proxies ==
  \/ \E p \in proxies : proxy_remove(p) \/ proxy_drop(p)
  \/ \E m \in marking : push_pending(m)
Readers ==
  \/ \E h \in Handles : drop_handle(h) \/ \E k \in Handles : clone(h, k)
  \/ \E h \in Handles, i \in Slots : get(h, i)
Destructor ==
  \/ \E g \in Gens : gen_lock(g) \/ gen_finalize(g) \/ gen_unlock(g) \/ gen_end(g)
  \/ storage_drop

RcuNext == Writer \/ Proxies \/ Readers \/ Destructor \/ Finished

RcuSpec == RcuInit /\ [][RcuNext]_rcuVars

----------------------------------------------------------------------------
Pending(g) == {pending[g][n] : n \in 1 .. Len(pending[g])}

\* Every variable has its type.
RcuTypeOK ==
  /\ CslabTypeOK
  /\ cur_gen \in Gens \cup {NoGen}
  /\ gstate \in [Gens -> Ending \cup {"unborn", "live", "gone"}]
  /\ pending \in [Gens -> Seq(Slots)]
  /\ next_gen \in [Gens -> Gens \cup {NoGen}]
  /\ limbo \in [Gens -> SUBSET Items]
  /\ mutex \in {"free", "entry", "reject", "finalize"}
  /\ inline \in Gens \cup {NoGen}
  /\ marking \in SUBSET [idx : Slots, gen : Gens]
  /\ it \in [on : BOOLEAN, head : 0 .. Capacity, tail : 0 .. Capacity, remaining : Nat]
  /\ proxies \in SUBSET Proxy
  /\ key \in 0 .. Capacity
  /\ handle \in [Handles -> Gens \cup {NoGen}]
  /\ unseen \in [Handles -> SUBSET Slots]
  /\ refs \in [Handles -> SUBSET (Slots \X Items)]

(***************************************************************************)
(* "the reference returned remains valid for the lifetime of the reader":  *)
(* whatever the writer, the proxies and the destructors do, the slot a     *)
(* handle has given a reference to keeps that very item, and a flag the    *)
(* handle may still load as set has an item behind it.                     *)
(***************************************************************************)
RefsValid ==
  \A h \in Live :
    /\ alive
    /\ \A r \in refs[h] : table[r[1]] = ItemEntry(r[2])
    /\ \A i \in unseen[h] : HasItem(i)

(***************************************************************************)
(* "Generations are thus finalized in strict creation order": a destructor *)
(* of a generation starts only after that of every older one is done.      *)
(***************************************************************************)
CreationOrder ==
  \A g, q \in Gens : q < g /\ gstate[g] \in Ending \cup {"gone"} => gstate[q] = "gone"

(***************************************************************************)
(* "reads performed in a given generation definitively cannot see items    *)
(* removed prior to the creation of the generation", removals through      *)
(* proxies that outlive their iterator included.                           *)
(***************************************************************************)
GenerationBlind ==
  \A h \in Live, g \in Gens :
    g < handle[h] => /\ Pending(g) \cap unseen[h] = {}
                     /\ \A m \in marking : m.gen = g => m.idx \notin unseen[h]

(***************************************************************************)
(* Each removal is on the way to being finalized once: the marked slots    *)
(* are those pending in some generation, or being entered into one, and    *)
(* none is there twice.                                                    *)
(***************************************************************************)
RemovalsTracked ==
  /\ \A i \in Slots : i \in MarkedSlots <=> \/ \E g \in Gens : i \in Pending(g)
                                           \/ \E m \in marking : m.idx = i
  /\ \A g, q \in Gens : \A j \in 1 .. Len(pending[g]), k \in 1 .. Len(pending[q]) :
       pending[g][j] = pending[q][k] => g = q /\ j = k
  /\ \A m, n \in marking : m.idx = n.idx => m = n
  /\ \A m \in marking, g \in Gens : m.idx \notin Pending(g)

(***************************************************************************)
(* schedule_finalization(): with no older reader left, "finalization will  *)
(* occur immediately during this method call".  When the writer is back    *)
(* from its call (and no remove() is running a destructor), an older       *)
(* generation that is not gone is owed to a handle or a proxy of it or of  *)
(* one still older, or its destructor (or that of an older one) is running *)
(* in another thread.                                                      *)
(***************************************************************************)
NoStragglers ==
  inline = NoGen =>
    \A g \in Gens : gstate[g] \in Ending \cup {"live"} /\ g # cur_gen =>
      \E q \in 0 .. g :
        \/ gstate[q] \in Ending
        \/ \E h \in Live : handle[h] = q
        \/ \E p \in proxies : p.gen = q
        \/ \E m \in marking : m.gen = q

\* When everything has been released nothing was forgotten: every removal is
\* finalized, and every item that left the slab has been destroyed.
NothingLeaked == ~alive => MarkedSlots = {} /\ \A g \in Gens : limbo[g] = {}

\* RcuIterMut's remaining is the number of items next() will still yield,
\* although proxies it has yielded are removing items meanwhile; so it never
\* underflows.
IterExact == it.on => it.remaining = Cardinality(Ahead)

\* A proxy that can still be used is the only one for its slot, and the item
\* is present: remove() never meets the assertion in mark_removed(), and the
\* reference behind Deref is valid.
ProxiesPresent ==
  \A p \in proxies : p.usable =>
    /\ p.idx \in bitmap
    /\ \A q \in proxies : q.usable /\ q.idx = p.idx => q = p

\* The key() of a VacantRcuEntry is where its insert() puts the item, and
\* there is room: no destructor gets in between.
EntryReserved == mutex = "entry" => key = first_free /\ first_free < Capacity

\* RcuCslab::vacant_key: "Returns the index which will be used for the next
\* allocation".
VacantKeyHonoured == key # NoKey => first_free = key

----------------------------------------------------------------------------
(* RcuCslab keeps the promise of GracePeriod. *)

GP == INSTANCE GracePeriod WITH
  Readers <- Handles,
  life    <- [i \in Slots |-> IF i \in bitmap THEN "present"
                              ELSE IF HasItem(i) THEN "marked" ELSE "free"],
  active  <- Live,
  blocks  <- unseen

\* Every behaviour of the slab with its generations recycles a slot only when
\* no handle that may still see its flag is left.
ImplementsGracePeriod == GP!GPSpec

----------------------------------------------------------------------------
(***************************************************************************)
(* Fairness: a thread that is inside a destructor, in remove(), or on its  *)
(* way out of insert() goes on.  Nothing obliges a client to drop a        *)
(* handle, a proxy or a VacantRcuEntry, and std's Mutex is not fair.       *)
(***************************************************************************)
RcuFairSpec ==
  /\ RcuSpec
  /\ WF_rcuVars(Destructor)
  /\ WF_rcuVars(\E m \in marking : push_pending(m))
  /\ WF_rcuVars(rcu_insert_return)

\* Unless the writer keeps taking the mutex for vacant entries, a generation
\* nobody holds is finalized, its items destroyed.
GenerationsEnd ==
  <>[](mutex # "entry") => \A g \in Gens : gstate[g] = "dropping" ~> gstate[g] = "gone"

\* Once the slab, its handles and its proxies are dropped, the storage is
\* freed: the chain of generations unwinds to its end.
StorageFreed == (cur_gen = NoGen /\ Live = {} /\ proxies = {}) ~> ~alive

============================================================================
