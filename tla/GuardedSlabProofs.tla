-------------------------- MODULE GuardedSlabProofs --------------------------
(***************************************************************************)
(* An RcuCslabEntryGuard may dereference without a check, for every number *)
(* of slots, handles and users: the argument uses nothing of the box and   *)
(* of the slab but what RcuBox and GracePeriod promise.                    *)
(***************************************************************************)
EXTENDS GuardedSlab, TLAPS

\* Every variable has its type.
GuardedTypeOK ==
  /\ box \in Objs /\ live \in SUBSET Objs
  /\ guard \in [Users -> Objs \cup {NoObj}]
  /\ life \in [Slots -> {"free", "present", "marked"}]
  /\ active \in SUBSET Objs
  /\ blocks \in [Objs -> SUBSET Slots]
  /\ entry \in [Users -> Slots \cup {NoKey}]

\* The handles in the box, or held through a guard of it, exist.
HandlesExist ==
  /\ box \in live /\ live \subseteq active
  /\ \A u \in Users : guard[u] # NoObj => guard[u] \in live

\* An entry has the guard it was found through, and its item is there or has
\* been removed while that handle existed.
EntryKept ==
  \A u \in Users : entry[u] # NoKey =>
    /\ guard[u] # NoObj
    /\ \/ life[entry[u]] = "present"
       \/ life[entry[u]] = "marked" /\ entry[u] \in blocks[guard[u]]

\* What a handle may not have seen is not recycled, and one that does not
\* exist has nothing to see.
BlocksMarked ==
  /\ \A o \in active : \A k \in blocks[o] : life[k] = "marked"
  /\ \A o \in Objs \ active : blocks[o] = {}

GuardedInv == GuardedTypeOK /\ HandlesExist /\ EntryKept /\ BlocksMarked

----------------------------------------------------------------------------
\* The handle in the box and those that guards refer to are not destroyed:
\* every action of the box keeps them, and only one that destroys a handle
\* takes it from the readers of the slab.
LEMMA HandlesStep ==
  ASSUME GuardedInv, [GuardedNext]_guardedVars
  PROVE  GuardedTypeOK' /\ HandlesExist'
<1> USE GuardedAssumption DEF GuardedInv, GuardedTypeOK, HandlesExist
<1>1. ASSUME NEW i \in Slots, insert(i) \/ mark_removed(i) \/ finalize(i)
      PROVE  GuardedTypeOK' /\ HandlesExist'
  BY <1>1 DEF insert, mark_removed, finalize, Fill, Mark, Recycle, boxVars
<1>2. ASSUME NEW o \in Objs, schedule_finalization(o)
      PROVE  GuardedTypeOK' /\ HandlesExist'
  BY <1>2 DEF schedule_finalization, Enter, boxVars
<1>3. ASSUME NEW o \in Objs, publish(o)
      PROVE  GuardedTypeOK' /\ HandlesExist'
  BY <1>3 DEF publish, Write, slabVars
<1>4. ASSUME NEW o \in Objs, destroy(o)
      PROVE  GuardedTypeOK' /\ HandlesExist'
  BY <1>4 DEF destroy, Destroy, Exit
<1>5. ASSUME NEW u \in Users, get(u)
      PROVE  GuardedTypeOK' /\ HandlesExist'
  BY <1>5 DEF get, Get, slabVars
<1>6. ASSUME NEW u \in Users, NEW k \in Slots, found(u, k)
      PROVE  GuardedTypeOK' /\ HandlesExist'
  BY <1>6 DEF found, boxVars, slabVars
<1>7. ASSUME NEW u \in Users, release(u)
      PROVE  GuardedTypeOK' /\ HandlesExist'
  <2>1. CASE Release(u) /\ UNCHANGED slabVars
    BY <1>7, <2>1 DEF release, Release, slabVars
  <2>2. CASE ReleaseLast(u) /\ Exit(guard[u])
    BY <1>7, <2>2 DEF release, ReleaseLast, Exit
  <2> QED
    BY <1>7, <2>1, <2>2 DEF release
<1>8. CASE UNCHANGED guardedVars
  BY <1>8 DEF guardedVars, boxVars, slabVars
<1> QED
  BY <1>1, <1>2, <1>3, <1>4, <1>5, <1>6, <1>7, <1>8 DEF GuardedNext

\* GracePeriod: a removal reaches every handle that exists, and recycling
\* waits for those it has reached.
LEMMA BlocksStep ==
  ASSUME GuardedInv, [GuardedNext]_guardedVars
  PROVE  BlocksMarked'
<1> USE DEF GuardedInv, GuardedTypeOK, BlocksMarked
<1>1. ASSUME NEW i \in Slots, insert(i)
      PROVE  BlocksMarked'
  BY <1>1 DEF insert, Fill
<1>2. ASSUME NEW i \in Slots, mark_removed(i)
      PROVE  BlocksMarked'
  BY <1>2 DEF mark_removed, Mark
<1>3. ASSUME NEW i \in Slots, finalize(i)
      PROVE  BlocksMarked'
  BY <1>3 DEF finalize, Recycle
<1>4. ASSUME NEW o \in Objs, schedule_finalization(o)
      PROVE  BlocksMarked'
  BY <1>4 DEF schedule_finalization, Enter
<1>5. ASSUME NEW o \in Objs, Exit(o)
      PROVE  BlocksMarked'
  BY <1>5 DEF Exit
<1>6. CASE UNCHANGED slabVars
  BY <1>6 DEF slabVars
<1>7. ASSUME NEW u \in Users, release(u)
      PROVE  BlocksMarked'
  BY <1>5, <1>6, <1>7 DEF release, ReleaseLast
<1> QED
  BY <1>1, <1>2, <1>3, <1>4, <1>5, <1>6, <1>7
     DEF GuardedNext, publish, destroy, get, found, guardedVars

\* An entry keeps its guard, the guard its handle, and the handle the item.
LEMMA EntryStep ==
  ASSUME GuardedInv, [GuardedNext]_guardedVars
  PROVE  EntryKept'
<1> SUFFICES ASSUME NEW u \in Users, entry'[u] # NoKey
             PROVE  /\ guard'[u] # NoObj
                    /\ \/ life'[entry'[u]] = "present"
                       \/ life'[entry'[u]] = "marked" /\ entry'[u] \in blocks'[guard'[u]]
  BY DEF EntryKept
<1> DEFINE Goal == /\ guard'[u] # NoObj
                   /\ \/ life'[entry'[u]] = "present"
                      \/ life'[entry'[u]] = "marked" /\ entry'[u] \in blocks'[guard'[u]]
<1> USE GuardedAssumption DEF GuardedInv, GuardedTypeOK, HandlesExist, EntryKept
<1>1. ASSUME NEW i \in Slots, insert(i) PROVE Goal
  BY <1>1 DEF insert, Fill, boxVars
<1>2. ASSUME NEW i \in Slots, mark_removed(i) PROVE Goal
  <2>1. guard[u] # NoObj /\ guard[u] \in active /\ guard'[u] = guard[u] /\ entry'[u] = entry[u]
    BY <1>2 DEF mark_removed, boxVars
  <2>2. blocks'[guard[u]] = blocks[guard[u]] \cup {i}
    BY <1>2, <2>1 DEF mark_removed, Mark
  <2> QED
    BY <1>2, <2>1, <2>2 DEF mark_removed, Mark
<1>3. ASSUME NEW i \in Slots, finalize(i) PROVE Goal
  <2>1. guard[u] # NoObj /\ guard[u] \in active /\ guard'[u] = guard[u] /\ entry'[u] = entry[u]
    BY <1>3 DEF finalize, boxVars
  <2>2. entry[u] # i
    BY <1>3, <2>1 DEF finalize, Recycle
  <2> QED
    BY <1>3, <2>1, <2>2 DEF finalize, Recycle
<1>4. ASSUME NEW o \in Objs, schedule_finalization(o) \/ publish(o) PROVE Goal
  BY <1>4 DEF schedule_finalization, publish, Enter, Write, boxVars, slabVars
<1>5. ASSUME NEW o \in Objs, destroy(o) PROVE Goal
  BY <1>5 DEF destroy, Destroy, Exit
<1>6. ASSUME NEW v \in Users, get(v) PROVE Goal
  BY <1>6 DEF get, Get, slabVars
<1>7. ASSUME NEW v \in Users, NEW k \in Slots, found(v, k) PROVE Goal
  BY <1>7 DEF found, Visible, boxVars, slabVars, BlocksMarked
<1>8. ASSUME NEW v \in Users, release(v) PROVE Goal
  <2>1. v # u /\ entry'[u] = entry[u]
    BY <1>8 DEF release
  <2>2. CASE Release(v) /\ UNCHANGED slabVars
    BY <2>1, <2>2 DEF Release, slabVars
  <2>3. CASE ReleaseLast(v) /\ Exit(guard[v])
    BY <2>1, <2>3 DEF ReleaseLast, Exit
  <2> QED
    BY <1>8, <2>2, <2>3 DEF release
<1>9. CASE UNCHANGED guardedVars
  BY <1>9 DEF guardedVars, boxVars, slabVars
<1> HIDE DEF Goal
<1> QED
  BY <1>1, <1>2, <1>3, <1>4, <1>5, <1>6, <1>7, <1>8, <1>9 DEF GuardedNext, Goal

(***************************************************************************)
(* RcuCslabEntryGuard::deref: the item behind an entry guard is in its     *)
(* slot until the guard is dropped, for every number of slots, handles and *)
(* users.                                                                  *)
(***************************************************************************)
THEOREM EntriesStayValid == GuardedSpec => []EntryValid
<1>1. GuardedInit => GuardedInv
  BY GuardedAssumption
     DEF GuardedInit, BoxInit, GuardedInv, GuardedTypeOK, HandlesExist, EntryKept, BlocksMarked
<1>2. GuardedInv /\ [GuardedNext]_guardedVars => GuardedInv'
  BY HandlesStep, BlocksStep, EntryStep DEF GuardedInv
<1>3. GuardedInv => EntryValid
  BY DEF GuardedInv, EntryKept, EntryValid
<1> QED
  BY <1>1, <1>2, <1>3, PTL DEF GuardedSpec
==============================================================================
