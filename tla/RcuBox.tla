------------------------------- MODULE RcuBox -------------------------------
(***************************************************************************)
(* What `RcuBox` (rcu/src/rcu.rs) promises, whichever implementation is    *)
(* selected: a guard keeps the value it got, values are replaced one at a  *)
(* time, an update is derived from the very value it replaces, and an old  *)
(* value is destroyed once, after its last guard.                          *)
(*                                                                         *)
(* An object is a value with its place in memory; the name of a destroyed  *)
(* one may be used again.                                                  *)
(***************************************************************************)
CONSTANTS
  Objs,         \* objects
  Users,        \* whoever may hold a reference: guards, and running closures
  NoObj         \* no object

VARIABLES
  box,          \* the value in the box
  live,         \* the values given to the box and not destroyed yet
  guard,        \* the value each user has a reference to
  basis         \* the value the boxed one was derived from by update();
                \* NoObj after new() or write()

boxVars == <<box, live, guard, basis>>

BoxInit ==
  /\ box \in Objs
  /\ live = {box}
  /\ guard = [u \in Users |-> NoObj]
  /\ basis = NoObj

\* get(), or the beginning of inspect(): "the latest version".
Get(u) ==
  /\ guard' = [guard EXCEPT ![u] = box]
  /\ UNCHANGED <<box, live, basis>>

Release(u) ==
  /\ guard' = [guard EXCEPT ![u] = NoObj]
  /\ UNCHANGED <<box, live, basis>>

Write(o) ==
  /\ o \notin live
  /\ box' = o /\ live' = live \cup {o} /\ basis' = NoObj
  /\ UNCHANGED guard

\* "behaves as `self.write(self.inspect(f))` but without the possibility of
\* a lost update"
Update(o) ==
  /\ o \notin live
  /\ box' = o /\ live' = live \cup {o} /\ basis' = box
  /\ UNCHANGED guard

\* "The old value will be destructed once all readers have completed."
Destroy(o) ==
  /\ o \in live /\ o # box
  /\ \A u \in Users : guard[u] # o
  /\ live' = live \ {o}
  /\ UNCHANGED <<box, guard, basis>>

\* A user that lets go of an object may have to destroy it.
ReleaseLast(u) ==
  /\ guard[u] \in live /\ guard[u] # box
  /\ \A v \in Users : v # u => guard[v] # guard[u]
  /\ live' = live \ {guard[u]}
  /\ guard' = [guard EXCEPT ![u] = NoObj]
  /\ UNCHANGED <<box, basis>>

BoxNext ==
  \/ \E u \in Users : Get(u) \/ Release(u) \/ ReleaseLast(u)
  \/ \E o \in Objs : Write(o) \/ Update(o) \/ Destroy(o)

BoxSpec == BoxInit /\ [][BoxNext]_boxVars

\* An old value nobody refers to any more is destroyed.
OldDestructed ==
  \A o \in Objs :
    (o \in live /\ o # box /\ \A u \in Users : guard[u] # o) ~> o \notin live
============================================================================
