------------------------------ MODULE CslabMem ------------------------------
(***************************************************************************)
(* The stores of `Cslab` and the loads of `CslabReader` under the          *)
(* release/acquire memory model of Rust (that of C++20), labelled as in    *)
(* the design notes of cslab/src/lib.rs: [Ii] [Im] [Ib] of an insertion,   *)
(* [Rb] and [Ri] of a removal, [Gb] and [Gi] of a lookup, [Sm] of a scan.  *)
(*                                                                         *)
(* The clients are any that keep GracePeriod: its actions are conjuncts of *)
(* the ones here, and RcuCslab implements it.  All stores are made under   *)
(* `&mut Cslab`, so they happen one after the other: each has a time, and  *)
(* what a reader has synchronized with is the time up to which it knows    *)
(* them.  A reader may load any store that is not older than one it knows  *)
(* or has loaded before.  Loading a release store with an acquire load     *)
(* teaches it everything up to that store; a relaxed store between hides   *)
(* an earlier release store of the same word.                              *)
(***************************************************************************)
EXTENDS GracePeriod, Integers, Sequences

CONSTANTS
  BITS,         \* usize::BITS: slots that share a word of the bitmap
  MaxTime       \* bound on the stores of one run

ASSUME MemAssumption ==
  /\ Slots \subseteq Nat
  /\ BITS \in Nat \ {0}
  /\ MaxTime \in Nat

Word(i) == i \div BITS
Words   == {Word(i) : i \in Slots}

VARIABLES
  time,         \* of the last store
  words,        \* the stores to each word of the bitmap, oldest first
  fronts,       \* the stores to the frontier, oldest first
  cell,         \* the entry of each slot, not atomic: last written when, and
                \* whether that was an item
  step,         \* the store the running insert() makes next
  seen,         \* the time up to which a reader knows the stores
  last,         \* the newest store of each word a reader has loaded
  got           \* slots whose flag a reader has loaded as set

memVars == <<gpVars, time, words, fronts, cell, step, seen, last, got>>

Store(v, o) == [val |-> v, time |-> time + 1, ord |-> o]
Newest(h)   == h[Len(h)].val

\* The stores of history h that a reader knowing k may still load, having
\* loaded the one at position n of it.
Loadable(h, k, n) ==
  {j \in n .. Len(h) : \A l \in j + 1 .. Len(h) : h[l].time > k}

----------------------------------------------------------------------------
(* Memory orderings of the accesses, and weaker ones to show that each is  *)
(* needed; and the two stores of an insertion swapped.                     *)

Relaxed == "Relaxed"
FirstStore_Flag == "Ib"

IbOrdering == "Release"
RbOrdering == "Release"
GbOrdering == "Acquire"

\* insert() stores the frontier before the flag.
FirstStore == "Im"

----------------------------------------------------------------------------
Idle == [op |-> "none", idx |-> -1]

MemInit ==
  /\ GPInit
  /\ time = 0
  /\ words = [w \in Words |-> <<[val |-> {}, time |-> 0, ord |-> "Relaxed"]>>]
  /\ fronts = <<[val |-> 0, time |-> 0, ord |-> "Relaxed"]>>
  /\ cell = [i \in Slots |-> [item |-> FALSE, time |-> 0]]
  /\ step = Idle
  /\ seen = [r \in Readers |-> 0]
  /\ last = [r \in Readers |-> [w \in Words |-> 1]]
  /\ got = [r \in Readers |-> {}]

Tick == time' = time + 1

\* Bound: the stores of a whole call must fit.
Room(n) == time + n <= MaxTime

\* Cslab::insert, one store at a time; which free slot it takes is Cslab's
\* business.
store_item(i) ==                                                    \* [Ii]
  /\ step = Idle /\ life[i] = "free" /\ Room(3)
  /\ Tick
  /\ cell' = [cell EXCEPT ![i] = [item |-> TRUE, time |-> time + 1]]
  /\ step' = [op |-> FirstStore, idx |-> i]
  /\ UNCHANGED <<gpVars, words, fronts, seen, last, got>>

store_frontier ==                                                   \* [Im]
  /\ step.op = "Im"
  /\ Tick
  /\ fronts' = IF step.idx >= Newest(fronts)
               THEN Append(fronts, Store(step.idx + 1, "Relaxed")) ELSE fronts
  /\ step' = IF FirstStore = "Im" THEN [step EXCEPT !.op = "Ib"] ELSE Idle
  /\ UNCHANGED <<gpVars, words, cell, seen, last, got>>

store_flag ==                                                       \* [Ib]
  /\ step.op = "Ib"
  /\ Tick
  /\ Fill(step.idx)
  /\ LET w == Word(step.idx)
     IN  words' = [words EXCEPT ![w] =
           Append(@, Store(Newest(@) \cup {step.idx}, IbOrdering))]
  /\ step' = IF FirstStore = "Im" THEN Idle ELSE [step EXCEPT !.op = "Im"]
  /\ UNCHANGED <<fronts, cell, seen, last, got>>

\* Cslab::mark_removed.
clear_flag(i) ==                                                    \* [Rb]
  /\ step = Idle /\ Room(1)
  /\ Tick
  /\ Mark(i)
  /\ words' = [words EXCEPT ![Word(i)] = Append(@, Store(Newest(@) \ {i}, RbOrdering))]
  /\ UNCHANGED <<fronts, cell, step, seen, last, got>>

\* Cslab::finalize_remove: the item is taken and the link stored over it.
take_item(i) ==                                                     \* [Ri]
  /\ step = Idle /\ Room(1)
  /\ Tick
  /\ Recycle(i)
  /\ cell' = [cell EXCEPT ![i] = [item |-> FALSE, time |-> time + 1]]
  /\ UNCHANGED <<words, fronts, step, seen, last, got>>

\* Mutant: a reader is handed over without synchronizing.
begin_Unsynchronized(r) ==
  /\ step = Idle
  /\ Enter(r)
  /\ UNCHANGED <<seen, time, words, fronts, cell, step, last, got>>

\* A reader begins, synchronizing with the writer between two of its calls,
\* or as a copy of another one; and ends.
begin(r) ==
  /\ step = Idle
  /\ Enter(r)
  /\ seen' = [seen EXCEPT ![r] = time]
  /\ UNCHANGED <<time, words, fronts, cell, step, last, got>>
copy(r, s) ==
  /\ Clone(r, s)
  /\ seen' = [seen EXCEPT ![s] = seen[r]]
  /\ last' = [last EXCEPT ![s] = last[r]]
  /\ UNCHANGED <<time, words, fronts, cell, step, got>>
end(r) ==
  /\ Exit(r)
  /\ seen' = [seen EXCEPT ![r] = 0]
  /\ last' = [last EXCEPT ![r] = [w \in Words |-> 1]]
  /\ got' = [got EXCEPT ![r] = {}]
  /\ UNCHANGED <<time, words, fronts, cell, step>>

\* contains_key_impl, or one load of Iter::next; the reader may then
\* dereference any slot it saw flagged, until it ends.
load_word(r, w) ==                                                  \* [Gb]
  /\ r \in active
  /\ \E n \in Loadable(words[w], seen[r], last[r][w]) :
       LET s == words[w][n]
       IN  /\ last' = [last EXCEPT ![r][w] = n]
           /\ got' = [got EXCEPT ![r] = @ \cup s.val]
           /\ seen' = IF s.ord = "Release" /\ GbOrdering = "Acquire" /\ s.time > seen[r]
                      THEN [seen EXCEPT ![r] = s.time] ELSE seen
  /\ UNCHANGED <<gpVars, time, words, fronts, cell, step>>

MemNext ==
  \/ \E i \in Slots : store_item(i) \/ clear_flag(i) \/ take_item(i)
  \/ store_frontier \/ store_flag
  \/ \E r \in Readers : begin(r) \/ end(r)
  \/ \E r, s \in Readers : copy(r, s)
  \/ \E r \in Readers, w \in Words : load_word(r, w)

MemSpec == MemInit /\ [][MemNext]_memVars

----------------------------------------------------------------------------
(***************************************************************************)
(* A reader may dereference a slot it saw flagged, at once or at any time  *)
(* until it ends: the slot holds an item, and the store of that item is    *)
(* one the reader has synchronized with, so that [Gi] neither reads an     *)
(* uninitialized entry or a free-list link nor races with [Ii] or [Ri].    *)
(***************************************************************************)
NoRacyRead ==
  \A r \in active : \A i \in got[r] : cell[i].item /\ cell[i].time <= seen[r]

\* "if a get [G] ever succeeds, the ordering of [Ib] => [Gb] ensures that a
\* subsequent load of the maximum index [Sm] will also see this item", though
\* both accesses of the frontier are relaxed.
FrontierCoversGot ==
  \A r \in active : \A i \in got[r] :
    \A n \in Loadable(fronts, seen[r], 1) : fronts[n].val > i

(***************************************************************************)
(* "after which all readers will henceforth read the item's bitmap mark    *)
(* clear": the flags a reader may load as set are those of the items       *)
(* present and of the removals made since it synchronized, never the flag  *)
(* of an earlier tenant of the slot.  This is what RcuCslab's unseen       *)
(* stands for.                                                             *)
(***************************************************************************)
StaleFlagsBounded ==
  \A r \in active, w \in Words : \A n \in Loadable(words[w], seen[r], last[r][w]) :
    \A i \in words[w][n].val : life[i] = "present" \/ i \in blocks[r]

============================================================================
