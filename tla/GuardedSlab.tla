---------------------------- MODULE GuardedSlab ----------------------------
(***************************************************************************)
(* An RcuCslabReader "living in an RcuBox (as it ought to)": the owner of  *)
(* the slab publishes a new read handle after its removals, and readers    *)
(* call get_guarded() or find_guarded() (rcu/src/rcu.rs), whose result     *)
(* keeps the guard of the box and dereferences with get_unchecked().       *)
(*                                                                         *)
(* The module composes what the two parts promise: RcuBox, implemented by  *)
(* RcuLock and RcuEpoch, whose objects are here the handles, and           *)
(* GracePeriod, implemented by RcuCslab, whose readers they are.           *)
(***************************************************************************)
EXTENDS RcuBox

CONSTANTS
  Slots,        \* indexes of the slab
  NoKey         \* no entry

ASSUME GuardedAssumption == NoObj \notin Objs /\ NoKey \notin Slots

VARIABLES
  life, active, blocks,   \* those of GracePeriod
  entry                   \* per user, the key of its RcuCslabEntryGuard

INSTANCE GracePeriod WITH Readers <- Objs

slabVars    == <<life, active, blocks>>
guardedVars == <<boxVars, slabVars, entry>>

\* RcuBox::new(slab.reader()).
GuardedInit ==
  /\ BoxInit
  /\ life = [i \in Slots |-> "free"]
  /\ active = live
  /\ blocks = [o \in Objs |-> {}]
  /\ entry = [u \in Users |-> NoKey]

----------------------------------------------------------------------------
(* The owner of the slab. *)

insert(i)       == Fill(i) /\ UNCHANGED <<boxVars, entry>>
mark_removed(i) == Mark(i) /\ UNCHANGED <<boxVars, entry>>

\* schedule_finalization() returns a handle, which the writer holds ...
schedule_finalization(o) ==
  /\ active \subseteq live
  /\ Enter(o)
  /\ UNCHANGED <<boxVars, entry>>

\* ... until it has moved it into the box.
publish(o) ==
  /\ o \in active /\ Write(o)
  /\ UNCHANGED <<slabVars, entry>>

\* Mutant: the box forgets the handle it had.
destroy_Leaked(o) == Destroy(o) /\ UNCHANGED <<slabVars, entry>>

\* The box lets go of an old handle, whose drop may end a generation.
destroy(o) == Destroy(o) /\ Exit(o) /\ UNCHANGED entry

\* The destructor of a generation, in whatever thread.
finalize(i) == Recycle(i) /\ UNCHANGED <<boxVars, entry>>

----------------------------------------------------------------------------
(* Readers.  get_guarded() and find_guarded() take a guard of the box, look *)
(* at flags through it, and return it together with the key, or drop it.    *)

get(u) ==
  /\ guard[u] = NoObj
  /\ Get(u)
  /\ UNCHANGED <<slabVars, entry>>

\* contains_key() may answer true, or iter() yield the slot.
Visible(o, k) == life[k] = "present" \/ k \in blocks[o]

\* Mutant: the guard ends with the look-up.
found_NotKept(u, k) ==
  /\ guard[u] # NoObj /\ entry[u] = NoKey
  /\ Visible(guard[u], k)
  /\ entry' = [entry EXCEPT ![u] = k]
  /\ Release(u)
  /\ UNCHANGED slabVars

found(u, k) ==
  /\ guard[u] # NoObj /\ entry[u] = NoKey
  /\ Visible(guard[u], k)
  /\ entry' = [entry EXCEPT ![u] = k]
  /\ UNCHANGED <<boxVars, slabVars>>

\* The guard is dropped: nothing was found, or the RcuCslabEntryGuard ends.
\* Its user may be the last one of an old handle.
release(u) ==
  /\ guard[u] # NoObj
  /\ entry' = [entry EXCEPT ![u] = NoKey]
  /\ \/ Release(u) /\ UNCHANGED slabVars
     \/ ReleaseLast(u) /\ Exit(guard[u])

GuardedNext ==
  \/ \E i \in Slots : insert(i) \/ mark_removed(i) \/ finalize(i)
  \/ \E o \in Objs : schedule_finalization(o) \/ publish(o) \/ destroy(o)
  \/ \E u \in Users : get(u) \/ release(u) \/ \E k \in Slots : found(u, k)

(***************************************************************************)
(* Readers complete; the box destroys what nobody refers to (RcuLock:      *)
(* OldValueGoes); a generation nobody holds is finalized (RcuCslab:        *)
(* GenerationsEnd).  The writer is free never to publish again.            *)
(***************************************************************************)
GuardedSpec ==
  /\ GuardedInit /\ [][GuardedNext]_guardedVars
  /\ \A u \in Users : WF_guardedVars(release(u))
  /\ \A o \in Objs : WF_guardedVars(destroy(o))
  /\ \A i \in Slots : WF_guardedVars(finalize(i))

----------------------------------------------------------------------------
(***************************************************************************)
(* RcuCslabEntryGuard dereferences without a check, since the key "was at  *)
(* one point visible to this reader": whatever has been removed, published *)
(* and destroyed since, its item is still in the slot.                     *)
(***************************************************************************)
EntryValid == \A u \in Users : entry[u] # NoKey => life[entry[u]] # "free"

\* The removal of k is known to every reader to come.
Superseded(k) ==
  /\ life[k] = "marked"
  /\ \A o \in active : k \in blocks[o] => o \in live /\ o # box

\* "Once all references to the previous generation are dropped, finalization
\* will occur": readers that come and go for ever do not hold a published
\* removal back, however get_guarded() meets write().  For boxes that destroy
\* an old handle nobody refers to (OldValueGoes: the lock-based ones); nothing
\* in this repository makes crossbeam's collector run, so nothing is claimed
\* for the rcu-crossbeam-epoch feature.
RemovedRecycled == \A k \in Slots : Superseded(k) ~> life[k] = "free"
============================================================================
