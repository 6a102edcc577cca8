------------------------------ MODULE RcuLock ------------------------------
(***************************************************************************)
(* The three implementations of RcuBox whose writers take a lock:          *)
(*                                                                         *)
(*   "rwlock"    RwLock<T>: a guard is a read lock, and writers wait for   *)
(*               guards;                                                   *)
(*   "mutex_arc" Mutex<Arc<T>>: a guard is a clone of the Arc, taken under *)
(*               the mutex;                                                *)
(*   "arc_swap"  ArcSwap<T> and a mutex for the writers: a guard is loaded *)
(*               without it.  update() calls inspect() and then stores,    *)
(*               and the store drops the old pointer under the mutex; the  *)
(*               other two hand the locked value to the closure and drop   *)
(*               the old one after the lock.                               *)
(*                                                                         *)
(* A guard of ArcSwap owns a count, like a clone of the Arc: it may begin  *)
(* as a debt, which the writer that replaces the pointer pays.             *)
(***************************************************************************)
EXTENDS Naturals, FiniteSets

CONSTANTS
  Objs, NoObj,       \* values in memory, and none
  Readers,
  Writers, Nobody    \* threads that write, and none

ASSUME LockAssumption ==
  /\ NoObj \notin Objs /\ Nobody \notin Writers
  /\ Readers \cap Writers = {}
  /\ IsFiniteSet(Readers) /\ IsFiniteSet(Writers)

VARIABLES
  impl,         \* the implementation compiled in
  ptr,          \* what the box points to
  count,        \* owners of each object; it dies at zero
  basis,        \* what the boxed value was derived from by update()
  guard,        \* RcuGuards
  mutex,        \* the writer that holds the mutex, or the write lock
  pc,           \* where each writer is in write() or update()
  seen,         \* the value the closure of update() is reading
  from,         \* the value the closure's result is derived from
  old           \* the pointer a writer is about to drop

lockVars == <<impl, ptr, count, basis, guard, mutex, pc, seen, from, old>>

LockInit ==
  /\ impl \in {"rwlock", "mutex_arc", "arc_swap"}
  /\ ptr \in Objs
  /\ count = [o \in Objs |-> IF o = ptr THEN 1 ELSE 0]
  /\ basis = NoObj
  /\ guard = [r \in Readers |-> NoObj]
  /\ mutex = Nobody
  /\ pc = [w \in Writers |-> "idle"]
  /\ seen = [w \in Writers |-> NoObj]
  /\ from = [w \in Writers |-> NoObj]
  /\ old = [w \in Writers |-> NoObj]

----------------------------------------------------------------------------
\* The lock covers the value itself, and not only the writers.
InPlace == impl \in {"rwlock", "mutex_arc"}

(* Mutated forms of the operators below. *)

\* A writer does not wait for the mutex.
MayLock_Anytime == TRUE

\* A pointer is handed out without taking a count.
Clone_Borrowed(o) == count' = count

\* The writer waits for a moment without readers to drop the old value.
drop_old_Quiescent(w) ==
  /\ pc[w] = "drop" /\ \A r \in Readers : guard[r] = NoObj
  /\ old' = [old EXCEPT ![w] = NoObj]
  /\ count' = [count EXCEPT ![old[w]] = @ - 1]
  /\ pc' = [pc EXCEPT ![w] = IF InPlace THEN "idle" ELSE "unlock"]
  /\ UNCHANGED <<impl, ptr, basis, guard, mutex, seen, from>>

----------------------------------------------------------------------------
\* A new owner: a clone of the Arc, or a load of the ArcSwap.
Clone(o) == count' = [count EXCEPT ![o] = @ + 1]

\* Dropping the last count destroys the object, wherever it happens.
Drop(o) == count' = [count EXCEPT ![o] = @ - 1]

MayLock == mutex = Nobody

\* get(), and inspect() up to the call of its closure.
get(r) ==
  /\ guard[r] = NoObj
  /\ InPlace => MayLock
  /\ guard' = [guard EXCEPT ![r] = ptr]
  /\ IF impl = "rwlock" THEN UNCHANGED count ELSE Clone(ptr)
  /\ UNCHANGED <<impl, ptr, basis, mutex, pc, seen, from, old>>

\* The end of a guard, or of inspect().
release(r) ==
  /\ guard[r] # NoObj
  /\ guard' = [guard EXCEPT ![r] = NoObj]
  /\ IF impl = "rwlock" THEN UNCHANGED count ELSE Drop(guard[r])
  /\ UNCHANGED <<impl, ptr, basis, mutex, pc, seen, from, old>>

lock(w, op) ==
  /\ pc[w] = "idle" /\ MayLock
  /\ impl = "rwlock" => \A r \in Readers : guard[r] = NoObj
  /\ mutex' = w
  /\ pc' = [pc EXCEPT ![w] = op]
  /\ UNCHANGED <<impl, ptr, count, basis, guard, seen, from, old>>

\* update(): the closure is given the current value ...
load(w) ==
  /\ pc[w] = "update"
  /\ seen' = [seen EXCEPT ![w] = ptr]
  /\ IF InPlace THEN UNCHANGED count ELSE Clone(ptr)
  /\ pc' = [pc EXCEPT ![w] = "closure"]
  /\ UNCHANGED <<impl, ptr, basis, guard, mutex, from, old>>

\* ... and gives it back when it returns.
Returned(w) ==
  /\ pc[w] = "closure"
  /\ seen' = [seen EXCEPT ![w] = NoObj]
  /\ IF InPlace THEN UNCHANGED count ELSE Drop(seen[w])

\* It returned a new value,
derive(w) ==
  /\ Returned(w)
  /\ from' = [from EXCEPT ![w] = seen[w]]
  /\ pc' = [pc EXCEPT ![w] = "store"]
  /\ UNCHANGED <<impl, ptr, basis, guard, mutex, old>>

\* or None: the mutex is released on the way out.
bail(w) ==
  /\ Returned(w)
  /\ pc' = [pc EXCEPT ![w] = "idle"]
  /\ mutex' = Nobody
  /\ UNCHANGED <<impl, ptr, basis, guard, from, old>>

\* The pointer is replaced, by write() or by update() with what its closure
\* returned.  The count of the box goes to the writer.
replace(w, o) ==
  /\ pc[w] \in {"write", "store"} /\ count[o] = 0
  /\ ptr' = o
  /\ count' = [count EXCEPT ![o] = 1]
  /\ basis' = IF pc[w] = "store" THEN from[w] ELSE NoObj
  /\ old' = [old EXCEPT ![w] = ptr]
  /\ from' = [from EXCEPT ![w] = NoObj]
  /\ pc' = [pc EXCEPT ![w] = IF InPlace THEN "unlock" ELSE "drop"]
  /\ UNCHANGED <<impl, guard, mutex, seen>>

unlock(w) ==
  /\ pc[w] = "unlock"
  /\ mutex' = Nobody
  /\ pc' = [pc EXCEPT ![w] = IF InPlace THEN "drop" ELSE "idle"]
  /\ UNCHANGED <<impl, ptr, count, basis, guard, seen, from, old>>

drop_old(w) ==
  /\ pc[w] = "drop"
  /\ old' = [old EXCEPT ![w] = NoObj]
  /\ Drop(old[w])
  /\ pc' = [pc EXCEPT ![w] = IF InPlace THEN "idle" ELSE "unlock"]
  /\ UNCHANGED <<impl, ptr, basis, guard, mutex, seen, from>>

Call(w) ==
  \/ load(w) \/ derive(w) \/ bail(w)
  \/ \E o \in Objs : replace(w, o)
  \/ unlock(w) \/ drop_old(w)

LockNext ==
  \/ \E r \in Readers : get(r) \/ release(r)
  \/ \E w \in Writers : Call(w) \/ \E op \in {"write", "update"} : lock(w, op)

\* A call that has the mutex is executed to its end, and readers complete.
\* Nothing is assumed of the mutex: a writer may wait for it for ever.
LockSpec ==
  /\ LockInit /\ [][LockNext]_lockVars
  /\ \A w \in Writers : WF_lockVars(Call(w))
  /\ \A r \in Readers : WF_lockVars(release(r))

----------------------------------------------------------------------------
\* The references there are: the guards, and those of running closures.
Box == INSTANCE RcuBox WITH
  Users <- Readers \cup Writers,
  box   <- ptr,
  live  <- {o \in Objs : count[o] > 0},
  guard <- [u \in Readers \cup Writers |->
              IF u \in Readers THEN guard[u] ELSE seen[u]]

\* Each implementation keeps the promises of the box: what a guard or a
\* closure of update() refers to is not destroyed, and no update is lost
\* although write() and update() of several threads meet.
LockImplements == Box!BoxSpec

\* "The old value will be destructed once all readers have completed."
\* (write(), whose implementations only let go of their own.)
OldValueGoes == Box!OldDestructed

\* An object has as many counts as owners: the box, the writer that moved it
\* out, the guards and loads of update() that own one.
CountsExact ==
  LET Cloned == IF impl = "rwlock" THEN {} ELSE Readers
      Loaded == IF impl = "arc_swap" THEN Writers ELSE {}
  IN  \A o \in Objs :
        count[o] = Cardinality({p \in {ptr} : p = o})
                   + Cardinality({w \in Writers : old[w] = o})
                   + Cardinality({r \in Cloned : guard[r] = o})
                   + Cardinality({w \in Loaded : seen[w] = o})
============================================================================
