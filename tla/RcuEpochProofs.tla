--------------------------- MODULE RcuEpochProofs ---------------------------
(***************************************************************************)
(* The crossbeam-epoch implementation of RcuBox keeps the promises of the  *)
(* box, for every number of objects, readers and writers.                  *)
(***************************************************************************)
EXTENDS RcuEpoch, TLAPS

Threads == Readers \cup Writers

\* Every variable has its type.
EpochTypeOK ==
  /\ ptr \in Objs /\ live \in SUBSET Objs
  /\ pinned \in SUBSET Threads
  /\ waits \in [Objs -> SUBSET Threads]
  /\ deferred \in SUBSET Objs
  /\ guard \in [Readers -> Objs \cup {NoObj}]
  /\ pc \in [Writers -> {"idle", "write", "update", "exchange", "defer", "unpin"}]
  /\ prev \in [Writers -> Objs \cup {NoObj}]
  /\ old \in [Writers -> Objs \cup {NoObj}]

\* A writer has taken a pointer out of the box, or has one to compare with,
\* between the steps of its call that say so.
WriterSteps ==
  \A w \in Writers :
    /\ pc[w] = "defer" <=> old[w] # NoObj
    /\ pc[w] \notin {"exchange", "defer"} => prev[w] = NoObj

\* Whoever refers to an object is pinned.
RefsPinned ==
  /\ \A r \in Readers : guard[r] # NoObj => r \in pinned
  /\ \A w \in Writers : pc[w] # "idle" => w \in pinned

\* An object somebody refers to exists, and if it has been handed to the
\* collector its destruction waits for that very thread.
Waited(t, o) == o \in live /\ (o \in deferred => t \in waits[o])
RefsWaited ==
  /\ \A r \in Readers : guard[r] # NoObj => Waited(r, guard[r])
  /\ \A w \in Writers : prev[w] # NoObj => Waited(w, prev[w])

EpochInv == EpochTypeOK /\ WriterSteps /\ RefsPinned /\ OldHandedOver /\ RefsWaited

----------------------------------------------------------------------------
(* One step per action; each takes the invariant apart. *)

LEMMA TypeStep ==
  ASSUME EpochInv, [EpochNext]_epochVars
  PROVE  EpochTypeOK' /\ WriterSteps' /\ RefsPinned'
<1> USE EpochAssumption DEF EpochInv, EpochTypeOK, WriterSteps, RefsPinned, Threads
<1> DEFINE Goal == EpochTypeOK' /\ WriterSteps' /\ RefsPinned'
<1>1. ASSUME NEW r \in Readers, pin_reader(r) PROVE Goal
  BY <1>1 DEF pin_reader, Pin
<1>2. ASSUME NEW r \in Readers, load_reader(r) PROVE Goal
  BY <1>2 DEF load_reader
<1>3. ASSUME NEW r \in Readers, release(r) PROVE Goal
  BY <1>3 DEF release, Unpin
<1>4. ASSUME NEW w \in Writers, NEW op \in {"write", "update"}, pin_writer(w, op) PROVE Goal
  BY <1>4 DEF pin_writer, Pin
<1>5. ASSUME NEW w \in Writers, load_writer(w) PROVE Goal
  BY <1>5 DEF load_writer
<1>6. ASSUME NEW w \in Writers, retry(w) PROVE Goal
  BY <1>6 DEF retry
<1>7. ASSUME NEW w \in Writers, bail(w) PROVE Goal
  BY <1>7 DEF bail, Unpin
<1>8. ASSUME NEW w \in Writers, defer(w) PROVE Goal
  BY <1>8 DEF defer
<1>9. ASSUME NEW w \in Writers, unpin_writer(w) PROVE Goal
  BY <1>9 DEF unpin_writer, Unpin
<1>10. ASSUME NEW w \in Writers, NEW o \in Objs, swap(w, o) \/ exchange(w, o) PROVE Goal
  BY <1>10 DEF swap, exchange
<1>11. ASSUME NEW o \in Objs, collect(o) PROVE Goal
  BY <1>11 DEF collect
<1>12. CASE UNCHANGED epochVars
  BY <1>12 DEF epochVars
<1> HIDE DEF Goal
<1> QED
  BY <1>1, <1>2, <1>3, <1>4, <1>5, <1>6, <1>7, <1>8, <1>9, <1>10, <1>11, <1>12
     DEF EpochNext, Goal

\* Each old value is with one writer or with the collector: it changes hands
\* in swap() and the exchange, and once more in defer_destroy().
LEMMA HandOverStep ==
  ASSUME EpochInv, [EpochNext]_epochVars
  PROVE  OldHandedOver'
<1> USE EpochAssumption DEF EpochInv, EpochTypeOK, WriterSteps, OldHandedOver
<1>1. ASSUME NEW w \in Writers, NEW o \in Objs, swap(w, o) \/ exchange(w, o)
      PROVE  OldHandedOver'
  BY <1>1 DEF swap, exchange
<1>2. ASSUME NEW w \in Writers, defer(w) PROVE OldHandedOver'
  BY <1>2 DEF defer
<1>3. ASSUME NEW o \in Objs, collect(o) PROVE OldHandedOver'
  BY <1>3 DEF collect
<1>4. CASE UNCHANGED <<ptr, live, deferred, old>>
  BY <1>4
<1> QED
  BY <1>1, <1>2, <1>3, <1>4
     DEF EpochNext, epochVars, pin_reader, load_reader, release, pin_writer, load_writer, retry,
         bail, unpin_writer

\* Pins hold the collector back.  Only a thread itself ends its wait, and then
\* it refers to nothing any more.
LEMMA WaitStep ==
  ASSUME EpochInv, [EpochNext]_epochVars
  PROVE  RefsWaited'
<1> USE EpochAssumption
    DEF EpochInv, EpochTypeOK, WriterSteps, RefsPinned, OldHandedOver, RefsWaited, Waited, Threads
<1>1. ASSUME NEW r \in Readers, pin_reader(r) PROVE RefsWaited'
  BY <1>1 DEF pin_reader
<1>2. ASSUME NEW r \in Readers, load_reader(r) PROVE RefsWaited'
  BY <1>2 DEF load_reader
<1>3. ASSUME NEW r \in Readers, release(r) PROVE RefsWaited'
  BY <1>3 DEF release, Unpin
<1>4. ASSUME NEW w \in Writers, NEW op \in {"write", "update"}, pin_writer(w, op) PROVE RefsWaited'
  BY <1>4 DEF pin_writer
<1>5. ASSUME NEW w \in Writers, load_writer(w) \/ retry(w) PROVE RefsWaited'
  BY <1>5 DEF load_writer, retry
<1>6. ASSUME NEW w \in Writers, bail(w) PROVE RefsWaited'
  BY <1>6 DEF bail, Unpin
<1>7. ASSUME NEW w \in Writers, defer(w) PROVE RefsWaited'
  BY <1>7 DEF defer
<1>8. ASSUME NEW w \in Writers, unpin_writer(w) PROVE RefsWaited'
  BY <1>8 DEF unpin_writer, Unpin
<1>9. ASSUME NEW w \in Writers, NEW o \in Objs, swap(w, o) \/ exchange(w, o) PROVE RefsWaited'
  BY <1>9 DEF swap, exchange
<1>10. ASSUME NEW o \in Objs, collect(o) PROVE RefsWaited'
  BY <1>10 DEF collect
<1>11. CASE UNCHANGED epochVars
  BY <1>11 DEF epochVars
<1> QED
  BY <1>1, <1>2, <1>3, <1>4, <1>5, <1>6, <1>7, <1>8, <1>9, <1>10, <1>11 DEF EpochNext

\* The inductive invariant holds in every reachable state.
LEMMA EpochInductive == EpochSpec => []EpochInv
<1>1. EpochInit => EpochInv
  BY EpochAssumption
     DEF EpochInit, EpochInv, EpochTypeOK, WriterSteps, RefsPinned, OldHandedOver, RefsWaited
<1>2. EpochInv /\ [EpochNext]_epochVars => EpochInv'
  BY TypeStep, HandOverStep, WaitStep DEF EpochInv
<1> QED
  BY <1>1, <1>2, PTL DEF EpochSpec

(***************************************************************************)
(* write() and update(): an old value is never lost on its way to the      *)
(* collector and never given to it twice, however many writers race.       *)
(***************************************************************************)
THEOREM OldValuesHandedOver == EpochSpec => []OldHandedOver
<1>1. EpochInv => OldHandedOver
  BY DEF EpochInv
<1> QED
  BY <1>1, EpochInductive, PTL

----------------------------------------------------------------------------
(* The refinement. *)

\* A step of this implementation is one of the box, or none of its business.
LEMMA BoxStep ==
  ASSUME EpochInv, [EpochNext]_epochVars
  PROVE  [Box!BoxNext]_(Box!boxVars)
<1> DEFINE refs == [u \in Readers \cup Writers |-> IF u \in Readers THEN guard[u] ELSE prev[u]]
<1> USE EpochAssumption DEF EpochInv, EpochTypeOK
<1>1. ASSUME NEW r \in Readers, load_reader(r) PROVE Box!Get(r)
  <2>1. /\ guard' = [guard EXCEPT ![r] = ptr] /\ UNCHANGED <<ptr, live, basis, prev>>
    BY <1>1 DEF load_reader
  <2> QED
    BY <2>1 DEF Box!Get
<1>2. ASSUME NEW r \in Readers, release(r) PROVE Box!Release(r)
  BY <1>2 DEF release, Box!Release
<1>3. ASSUME NEW w \in Writers, load_writer(w) \/ retry(w) PROVE Box!Get(w)
  <2>1. /\ prev' = [prev EXCEPT ![w] = ptr] /\ w \notin Readers
        /\ UNCHANGED <<ptr, live, basis, guard>>
    BY <1>3 DEF load_writer, retry
  <2> QED
    BY <2>1 DEF Box!Get
<1>4. ASSUME NEW w \in Writers, bail(w) \/ defer(w) PROVE Box!Release(w)
  <2>1. /\ prev' = [prev EXCEPT ![w] = NoObj] /\ w \notin Readers
        /\ UNCHANGED <<ptr, live, basis, guard>>
    BY <1>4 DEF bail, defer
  <2> QED
    BY <2>1 DEF Box!Release
<1>5. ASSUME NEW w \in Writers, NEW o \in Objs, swap(w, o) PROVE Box!Write(o)
  BY <1>5 DEF swap, Box!Write
<1>6. ASSUME NEW w \in Writers, NEW o \in Objs, exchange(w, o) PROVE Box!Update(o)
  BY <1>6 DEF exchange, Box!Update
<1>7. ASSUME NEW o \in Objs, collect(o) PROVE Box!Destroy(o)
  <2>1. o \in live /\ o # ptr /\ live' = live \ {o}
    BY <1>7 DEF collect, OldHandedOver
  <2>2. ASSUME NEW u \in Readers \cup Writers PROVE refs[u] # o
    BY <1>7 DEF collect, RefsWaited, Waited
  <2> QED
    BY <1>7, <2>1, <2>2 DEF collect, Box!Destroy
<1>8. ASSUME UNCHANGED <<ptr, live, basis, guard, prev>> PROVE UNCHANGED Box!boxVars
  BY <1>8 DEF Box!boxVars
<1>9. CASE \/ \E r \in Readers : pin_reader(r)
           \/ \E w \in Writers : unpin_writer(w) \/ \E op \in {"write", "update"} : pin_writer(w, op)
           \/ UNCHANGED epochVars
  BY <1>8, <1>9 DEF pin_reader, unpin_writer, pin_writer, epochVars
<1> QED
  BY <1>1, <1>2, <1>3, <1>4, <1>5, <1>6, <1>7, <1>9 DEF EpochNext, Box!BoxNext

(***************************************************************************)
(* RcuBox over crossbeam-epoch is an RcuBox: what a guard or the closure   *)
(* of update() refers to is not destroyed, and no update is lost although  *)
(* a destroyed object's address may be used again.                         *)
(***************************************************************************)
THEOREM EpochIsBox == EpochSpec => EpochImplements
<1>1. EpochInit => Box!BoxInit
  BY EpochAssumption DEF EpochInit, Box!BoxInit
<1>2. EpochInv /\ [EpochNext]_epochVars => [Box!BoxNext]_(Box!boxVars)
  BY BoxStep
<1> QED
  BY <1>1, <1>2, EpochInductive, PTL DEF EpochSpec, EpochImplements, Box!BoxSpec
=============================================================================
