------------------------------ MODULE RcuEpoch -----------------------------
(***************************************************************************)
(* RcuBox over an epoch::Atomic of crossbeam-epoch (rcu-crossbeam-epoch).  *)
(* A thread pins itself before it loads the pointer; an object that was    *)
(* replaced is handed to the collector, which destroys it when every       *)
(* thread that was pinned at that time has unpinned.  Nobody blocks:       *)
(* update() compares and swaps until it meets the value it started from.   *)
(*                                                                         *)
(* The collector is external.  That a pin after a deferral sees the swap   *)
(* before it is the assumption which the comment in write() states; here   *)
(* it holds because memory is sequentially consistent.  That the Ok of     *)
(* fetch_update() is the pointer that was replaced is how update() uses it *)
(* and what the library documents.                                         *)
(***************************************************************************)
CONSTANTS
  Objs, NoObj,       \* values in memory, and none
  Readers, Writers   \* threads

ASSUME EpochAssumption == NoObj \notin Objs /\ Readers \cap Writers = {}

VARIABLES
  ptr,          \* the atomic pointer
  live,         \* objects given to the box and not destroyed
  basis,        \* what the boxed value was derived from by update()
  pinned,       \* the threads that are pinned
  waits,        \* per object, the pins its destruction waits for
  deferred,     \* the objects handed to the collector
  guard,        \* what a reader loaded under its pin
  pc,           \* where each writer is in write() or update()
  prev,         \* the value update() hands to its closure and compares with
  old           \* the pointer a writer took out of the box

epochVars == <<ptr, live, basis, pinned, waits, deferred, guard, pc, prev, old>>

EpochInit ==
  /\ ptr \in Objs
  /\ live = {ptr} /\ basis = NoObj
  /\ pinned = {} /\ deferred = {}
  /\ waits = [o \in Objs |-> {}]
  /\ guard = [r \in Readers |-> NoObj]
  /\ pc = [w \in Writers |-> "idle"]
  /\ prev = [w \in Writers |-> NoObj]
  /\ old = [w \in Writers |-> NoObj]

----------------------------------------------------------------------------
(* Mutated forms of the operators below. *)

\* A thread loads the pointer without being pinned.
Pin_Missing(t) == pinned' = pinned

\* fetch_update() answers with the pointer it wrote, not with the one that was
\* there before.
exchange_Written(w, o) ==
  /\ pc[w] = "exchange" /\ o \notin live /\ ptr = prev[w]
  /\ ptr' = o /\ live' = live \cup {o} /\ basis' = prev[w]
  /\ old' = [old EXCEPT ![w] = o]
  /\ pc' = [pc EXCEPT ![w] = "defer"]
  /\ UNCHANGED <<pinned, waits, deferred, guard, prev>>

----------------------------------------------------------------------------
Pin(t) == pinned' = pinned \cup {t}

Unpin(t) ==
  /\ pinned' = pinned \ {t}
  /\ waits' = [o \in Objs |-> waits[o] \ {t}]

\* get() and inspect() pin, and load afterwards.
pin_reader(r) ==
  /\ guard[r] = NoObj /\ r \notin pinned
  /\ Pin(r)
  /\ UNCHANGED <<ptr, live, basis, waits, deferred, guard, pc, prev, old>>

load_reader(r) ==
  /\ guard[r] = NoObj /\ r \in pinned
  /\ guard' = [guard EXCEPT ![r] = ptr]
  /\ UNCHANGED <<ptr, live, basis, pinned, waits, deferred, pc, prev, old>>

release(r) ==
  /\ guard[r] # NoObj
  /\ guard' = [guard EXCEPT ![r] = NoObj]
  /\ Unpin(r)
  /\ UNCHANGED <<ptr, live, basis, deferred, pc, prev, old>>

pin_writer(w, op) ==
  /\ pc[w] = "idle"
  /\ Pin(w)
  /\ pc' = [pc EXCEPT ![w] = op]
  /\ UNCHANGED <<ptr, live, basis, waits, deferred, guard, prev, old>>

swap(w, o) ==
  /\ pc[w] = "write" /\ o \notin live
  /\ ptr' = o /\ live' = live \cup {o} /\ basis' = NoObj
  /\ old' = [old EXCEPT ![w] = ptr]
  /\ pc' = [pc EXCEPT ![w] = "defer"]
  /\ UNCHANGED <<pinned, waits, deferred, guard, prev>>

\* fetch_update() of update(): the load, after which the closure runs.
load_writer(w) ==
  /\ pc[w] = "update"
  /\ prev' = [prev EXCEPT ![w] = ptr]
  /\ pc' = [pc EXCEPT ![w] = "exchange"]
  /\ UNCHANGED <<ptr, live, basis, pinned, waits, deferred, guard, old>>

\* The closure returned a value and the exchange takes place; Ok has the
\* pointer that was replaced.
exchange(w, o) ==
  /\ pc[w] = "exchange" /\ o \notin live /\ ptr = prev[w]
  /\ ptr' = o /\ live' = live \cup {o} /\ basis' = prev[w]
  /\ old' = [old EXCEPT ![w] = ptr]
  /\ pc' = [pc EXCEPT ![w] = "defer"]
  /\ UNCHANGED <<pinned, waits, deferred, guard, prev>>

\* The exchange is weak: it may fail, also without a reason.  The value that
\* the closure built stays behind, owned by nobody; the closure is run again
\* on what the exchange found.
retry(w) ==
  /\ pc[w] = "exchange"
  /\ prev' = [prev EXCEPT ![w] = ptr]
  /\ UNCHANGED <<ptr, live, basis, pinned, waits, deferred, guard, pc, old>>

\* The closure returned None.
bail(w) ==
  /\ pc[w] = "exchange"
  /\ prev' = [prev EXCEPT ![w] = NoObj]
  /\ pc' = [pc EXCEPT ![w] = "idle"]
  /\ Unpin(w)
  /\ UNCHANGED <<ptr, live, basis, deferred, guard, old>>

\* defer_destroy(): the pins there are hold the object back.
defer(w) ==
  /\ pc[w] = "defer"
  /\ deferred' = deferred \cup {old[w]}
  /\ waits' = [waits EXCEPT ![old[w]] = pinned]
  /\ old' = [old EXCEPT ![w] = NoObj]
  /\ prev' = [prev EXCEPT ![w] = NoObj]
  /\ pc' = [pc EXCEPT ![w] = "unpin"]
  /\ UNCHANGED <<ptr, live, basis, pinned, guard>>

unpin_writer(w) ==
  /\ pc[w] = "unpin"
  /\ Unpin(w)
  /\ pc' = [pc EXCEPT ![w] = "idle"]
  /\ UNCHANGED <<ptr, live, basis, deferred, guard, prev, old>>

\* The collector, in whichever thread it gets to run.
collect(o) ==
  /\ o \in deferred /\ waits[o] = {}
  /\ live' = live \ {o}
  /\ deferred' = deferred \ {o}
  /\ UNCHANGED <<ptr, basis, pinned, waits, guard, pc, prev, old>>

EpochNext ==
  \/ \E r \in Readers : pin_reader(r) \/ load_reader(r) \/ release(r)
  \/ \E w \in Writers :
       \/ \E op \in {"write", "update"} : pin_writer(w, op)
       \/ load_writer(w) \/ retry(w) \/ bail(w) \/ defer(w) \/ unpin_writer(w)
       \/ \E o \in Objs : swap(w, o) \/ exchange(w, o)
  \/ \E o \in Objs : collect(o)

EpochSpec == EpochInit /\ [][EpochNext]_epochVars

----------------------------------------------------------------------------
\* The references there are: the guards, and those of the closures of
\* update().
Box == INSTANCE RcuBox WITH
  Users <- Readers \cup Writers,
  box   <- ptr,
  guard <- [u \in Readers \cup Writers |->
              IF u \in Readers THEN guard[u] ELSE prev[u]]

\* Pins keep the promises of the box: what a guard or a closure refers to is
\* not destroyed under it, and the exchange meets the very object the closure
\* saw, not another one at the same address.
EpochImplements == Box!BoxSpec

\* defer_destroy() is given an object once, and nothing is lost on the way:
\* an old value is with the writer that took it out or with the collector.
OldHandedOver ==
  /\ live = {ptr} \cup deferred \cup {old[w] : w \in {v \in Writers : old[v] # NoObj}}
  /\ ptr \notin deferred
  /\ \A w \in Writers : old[w] # ptr /\ old[w] \notin deferred
  /\ \A v, w \in Writers : v # w /\ old[v] # NoObj => old[v] # old[w]
============================================================================
