--------------------------- MODULE RcuLockProofs ---------------------------
(***************************************************************************)
(* The three implementations of RcuBox whose writers take a lock keep the  *)
(* promises of the box, for every number of objects, readers and writers.  *)
(*                                                                         *)
(* Why: an object has exactly as many counts as owners, so the count that  *)
(* takes it to zero is the last reference; and a writer holds the mutex    *)
(* from the moment it reads the box until it has replaced the pointer, so  *)
(* what its closure saw is what it replaces.                               *)
(***************************************************************************)
EXTENDS RcuLock, FiniteSetTheorems, TLAPS

LockTypeOK ==
  /\ impl \in {"rwlock", "mutex_arc", "arc_swap"}
  /\ ptr \in Objs
  /\ guard \in [Readers -> Objs \cup {NoObj}]
  /\ mutex \in Writers \cup {Nobody}
  /\ pc \in [Writers -> {"idle", "write", "update", "closure", "store", "drop", "unlock"}]
  /\ seen \in [Writers -> Objs \cup {NoObj}]
  /\ from \in [Writers -> Objs \cup {NoObj}]
  /\ old \in [Writers -> Objs \cup {NoObj}]

\* The steps at which a writer has the mutex, and an old pointer.
Locked == {"write", "update", "closure", "store", "unlock"} \cup IF InPlace THEN {} ELSE {"drop"}
Taken  == {"drop"} \cup IF InPlace THEN {"unlock"} ELSE {}

WriterSteps ==
  \A w \in Writers :
    /\ pc[w] \in Locked <=> mutex = w
    /\ old[w] # NoObj <=> pc[w] \in Taken
    /\ IF pc[w] = "closure" THEN seen[w] = ptr ELSE seen[w] = NoObj
    /\ pc[w] = "store" => from[w] = ptr

\* Guards of the RwLock keep writers out.
ReadLocked ==
  impl = "rwlock" =>
    \A r \in Readers : guard[r] # NoObj => mutex = Nobody /\ guard[r] = ptr

CountInv == count \in [Objs -> Nat] /\ CountsExact

LockInv == LockTypeOK /\ WriterSteps /\ ReadLocked /\ CountInv

----------------------------------------------------------------------------
(* Counting owners. *)

Places == Objs \cup {NoObj}

In(S, g, o) == Cardinality({x \in S : g[x] = o})

LEMMA InTyped ==
  ASSUME NEW S, IsFiniteSet(S), NEW g, NEW o
  PROVE  /\ IsFiniteSet({x \in S : g[x] = o})
         /\ In(S, g, o) \in Nat
         /\ In(S, g, o) = 0 => \A x \in S : g[x] # o
<1> DEFINE T == {x \in S : g[x] = o}
<1>1. IsFiniteSet(T)
  BY FS_Subset
<1>2. Cardinality(T) \in Nat
  BY <1>1, FS_CardinalityType
<1>3. Cardinality(T) = 0 => T = {}
  BY <1>1, FS_EmptySet
<1> QED
  BY <1>1, <1>2, <1>3 DEF In

LEMMA InNone ==
  ASSUME NEW g, NEW o
  PROVE  In({}, g, o) = 0
<1>1. {x \in {} : g[x] = o} = {}
  OBVIOUS
<1> QED
  BY <1>1, FS_EmptySet DEF In

\* x gets a count of v ...
LEMMA Gained ==
  ASSUME NEW S, IsFiniteSet(S), NEW g \in [S -> Places], NEW x \in S, g[x] = NoObj,
         NEW v \in Objs
  PROVE  \A o \in Objs :
           In(S, [g EXCEPT ![x] = v], o) = In(S, g, o) + (IF o = v THEN 1 ELSE 0)
<1> SUFFICES ASSUME NEW o \in Objs
             PROVE  In(S, [g EXCEPT ![x] = v], o) = In(S, g, o) + (IF o = v THEN 1 ELSE 0)
  OBVIOUS
<1> DEFINE h == [g EXCEPT ![x] = v]
           A == {y \in S : g[y] = o}
           B == {y \in S : h[y] = o}
<1>1. IsFiniteSet(A) /\ x \notin A /\ Cardinality(A) \in Nat
  BY InTyped, LockAssumption DEF In
<1>2. CASE o = v
  <2>1. B = A \cup {x}
    BY <1>2
  <2> QED
    BY <1>1, <1>2, <2>1, FS_AddElement DEF In
<1>3. CASE o # v
  <2>1. B = A
    BY <1>3, LockAssumption
  <2> QED
    BY <1>1, <1>3, <2>1 DEF In
<1> QED
  BY <1>2, <1>3

\* ... and gives it up.
LEMMA Lost ==
  ASSUME NEW S, IsFiniteSet(S), NEW g \in [S -> Places], NEW x \in S, g[x] # NoObj
  PROVE  /\ \A o \in Objs :
              In(S, [g EXCEPT ![x] = NoObj], o) = In(S, g, o) - (IF o = g[x] THEN 1 ELSE 0)
         /\ In(S, g, g[x]) >= 1
<1>1. In(S, g, g[x]) >= 1
  <2>1. In(S, g, g[x]) \in Nat /\ (In(S, g, g[x]) = 0 => \A y \in S : g[y] # g[x])
    BY InTyped
  <2> QED
    BY <2>1
<1>2. ASSUME NEW o \in Objs
      PROVE  In(S, [g EXCEPT ![x] = NoObj], o) = In(S, g, o) - (IF o = g[x] THEN 1 ELSE 0)
  <2> DEFINE h == [g EXCEPT ![x] = NoObj]
             A == {y \in S : g[y] = o}
             B == {y \in S : h[y] = o}
  <2>1. IsFiniteSet(A) /\ Cardinality(A) \in Nat
    BY InTyped DEF In
  <2>2. CASE o = g[x]
    <3>1. B = A \ {x} /\ x \in A
      BY <2>2, LockAssumption
    <3> QED
      BY <2>1, <2>2, <3>1, FS_RemoveElement DEF In
  <2>3. CASE o # g[x]
    <3>1. B = A
      BY <2>3, LockAssumption
    <3> QED
      BY <2>1, <2>3, <3>1 DEF In
  <2> QED
    BY <2>2, <2>3
<1> QED
  BY <1>1, <1>2

Cloned == IF impl = "rwlock" THEN {} ELSE Readers
Loaded == IF impl = "arc_swap" THEN Writers ELSE {}

\* The owners of o, each kind by itself.
Boxes(o)  == IF ptr = o THEN 1 ELSE 0
Olds(o)   == In(Writers, old, o)
Clones(o) == In(Cloned, guard, o)
Loads(o)  == In(Loaded, seen, o)

LEMMA CountsAre ==
  CountsExact <=> \A o \in Objs : count[o] = Boxes(o) + Olds(o) + Clones(o) + Loads(o)
<1>1. \A o : Cardinality({p \in {ptr} : p = o}) = Boxes(o)
  <2> SUFFICES ASSUME NEW o PROVE Cardinality({p \in {ptr} : p = o}) = Boxes(o)
    OBVIOUS
  <2>1. CASE ptr = o
    <3>1. {p \in {ptr} : p = o} = {o}
      BY <2>1
    <3> QED
      BY <2>1, <3>1, FS_Singleton DEF Boxes
  <2>2. CASE ptr # o
    <3>1. {p \in {ptr} : p = o} = {}
      BY <2>2
    <3> QED
      BY <2>2, <3>1, FS_EmptySet DEF Boxes
  <2> QED
    BY <2>1, <2>2
<1> QED
  BY <1>1, Zenon DEF CountsExact, Olds, Clones, Loads, In, Cloned, Loaded

LEMMA CountsAreNext ==
  (CountsExact <=> \A o \in Objs : count[o] = Boxes(o) + Olds(o) + Clones(o) + Loads(o))'
  BY CountsAre, PTL

LEMMA KindsTyped ==
  ASSUME NEW o
  PROVE  Boxes(o) \in Nat /\ Olds(o) \in Nat /\ Clones(o) \in Nat /\ Loads(o) \in Nat
<1>1. IsFiniteSet(Cloned) /\ IsFiniteSet(Loaded) /\ IsFiniteSet(Writers)
  BY LockAssumption, FS_EmptySet DEF Cloned, Loaded
<1>2. Olds(o) \in Nat /\ Clones(o) \in Nat /\ Loads(o) \in Nat
  BY <1>1, InTyped DEF Olds, Clones, Loads
<1> QED
  BY <1>2 DEF Boxes

Sum(o) == Boxes(o) + Olds(o) + Clones(o) + Loads(o)

\* The count of p follows its owners: they are one more,
LEMMA CountUp ==
  ASSUME CountInv, NEW p \in Objs, Clone(p),
         \A o \in Objs : Sum(o)' = Sum(o) + (IF o = p THEN 1 ELSE 0)
  PROVE  CountInv'
<1>1. count \in [Objs -> Nat] /\ \A o \in Objs : count[o] = Sum(o)
  BY CountsAre DEF CountInv, Sum
<1>2. count' = [count EXCEPT ![p] = @ + 1]
  BY DEF Clone
<1>3. \A o \in Objs : count'[o] = Sum(o)'
  BY <1>1, <1>2
<1>4. CountsExact'
  BY <1>3, CountsAreNext DEF Sum
<1> QED
  BY <1>1, <1>2, <1>4 DEF CountInv

\* one less,
LEMMA CountDown ==
  ASSUME CountInv, NEW p \in Objs, Drop(p), Sum(p) >= 1,
         \A o \in Objs : Sum(o)' = Sum(o) - (IF o = p THEN 1 ELSE 0)
  PROVE  CountInv'
<1>1. count \in [Objs -> Nat] /\ \A o \in Objs : count[o] = Sum(o)
  BY CountsAre DEF CountInv, Sum
<1>2. count' = [count EXCEPT ![p] = @ - 1]
  BY DEF Drop
<1>3. \A o \in Objs : count'[o] = Sum(o)'
  BY <1>1, <1>2
<1>4. CountsExact'
  BY <1>3, CountsAreNext DEF Sum
<1> QED
  BY <1>1, <1>2, <1>4 DEF CountInv

\* or as many.
LEMMA CountSame ==
  ASSUME CountInv, UNCHANGED count, \A o \in Objs : Sum(o)' = Sum(o)
  PROVE  CountInv'
<1>1. \A o \in Objs : count[o] = Sum(o)
  BY CountsAre DEF CountInv, Sum
<1>2. CountsExact'
  BY <1>1, CountsAreNext DEF Sum
<1> QED
  BY <1>2 DEF CountInv

----------------------------------------------------------------------------
(* One step per action. *)

LEMMA LockTypeStep ==
  ASSUME LockInv, [LockNext]_lockVars
  PROVE  LockTypeOK' /\ WriterSteps' /\ ReadLocked'
<1> USE LockAssumption DEF LockInv, LockTypeOK, WriterSteps, ReadLocked, Locked, Taken, InPlace
<1> DEFINE Goal == LockTypeOK' /\ WriterSteps' /\ ReadLocked'
<1>1. ASSUME NEW r \in Readers, get(r) PROVE Goal
  BY <1>1 DEF get, MayLock
<1>2. ASSUME NEW r \in Readers, release(r) PROVE Goal
  BY <1>2 DEF release
<1>3. ASSUME NEW w \in Writers, NEW op \in {"write", "update"}, lock(w, op) PROVE Goal
  BY <1>3 DEF lock, MayLock
<1>4. ASSUME NEW w \in Writers, load(w) PROVE Goal
  BY <1>4 DEF load
<1>5. ASSUME NEW w \in Writers, derive(w) PROVE Goal
  BY <1>5 DEF derive, Returned
<1>6. ASSUME NEW w \in Writers, bail(w) PROVE Goal
  BY <1>6 DEF bail, Returned
<1>7. ASSUME NEW w \in Writers, NEW o \in Objs, replace(w, o) PROVE Goal
  BY <1>7 DEF replace
<1>8. ASSUME NEW w \in Writers, unlock(w) PROVE Goal
  BY <1>8 DEF unlock
<1>9. ASSUME NEW w \in Writers, drop_old(w) PROVE Goal
  BY <1>9 DEF drop_old
<1>10. CASE UNCHANGED lockVars
  BY <1>10 DEF lockVars
<1> HIDE DEF Goal
<1> QED
  BY <1>1, <1>2, <1>3, <1>4, <1>5, <1>6, <1>7, <1>8, <1>9, <1>10 DEF LockNext, Call, Goal

LEMMA GetCounts ==
  ASSUME LockInv, NEW r \in Readers, get(r)
  PROVE  CountInv'
<1> USE DEF LockInv
<1>1. /\ impl' = impl /\ ptr' = ptr /\ old' = old /\ seen' = seen
      /\ guard' = [guard EXCEPT ![r] = ptr] /\ guard[r] = NoObj
      /\ IF impl = "rwlock" THEN UNCHANGED count ELSE Clone(ptr)
  BY DEF get
<1>2. /\ ptr \in Objs /\ guard \in [Readers -> Places]
  BY DEF LockTypeOK, Places
<1>3. \A o \in Objs : /\ Boxes(o)' = Boxes(o) /\ Olds(o)' = Olds(o) /\ Loads(o)' = Loads(o)
                      /\ Clones(o)' = In(Cloned, guard', o)
  BY <1>1 DEF Boxes, Olds, Loads, Clones, Cloned, Loaded
<1>4. CASE impl = "rwlock"
  <2>1. \A o \in Objs : Clones(o)' = Clones(o)
    BY <1>3, <1>4, InNone DEF Clones, Cloned
  <2>2. \A o \in Objs : Sum(o)' = Sum(o)
    BY <1>3, <2>1 DEF Sum
  <2> QED
    BY <1>1, <1>4, <2>2, CountSame
<1>5. CASE impl # "rwlock"
  <2>1. \A o \in Objs : Clones(o)' = Clones(o) + (IF o = ptr THEN 1 ELSE 0)
    <3>1. \A o \in Objs : In(Readers, [guard EXCEPT ![r] = ptr], o)
                           = In(Readers, guard, o) + (IF o = ptr THEN 1 ELSE 0)
      <4>1. IsFiniteSet(Readers) /\ guard[r] = NoObj
        BY <1>1, LockAssumption
      <4> QED
        BY <1>2, <4>1, Gained, Zenon
    <3> QED
      BY <1>1, <1>3, <1>5, <3>1 DEF Clones, Cloned
  <2>2. \A o \in Objs : Sum(o)' = Sum(o) + (IF o = ptr THEN 1 ELSE 0)
    BY <1>3, <2>1, KindsTyped DEF Sum
  <2> QED
    BY <1>1, <1>2, <1>5, <2>2, CountUp
<1> QED
  BY <1>4, <1>5

LEMMA ReleaseCounts ==
  ASSUME LockInv, NEW r \in Readers, release(r)
  PROVE  CountInv'
<1> USE DEF LockInv
<1> DEFINE p == guard[r]
<1>1. /\ impl' = impl /\ ptr' = ptr /\ old' = old /\ seen' = seen
      /\ guard' = [guard EXCEPT ![r] = NoObj] /\ p # NoObj
      /\ IF impl = "rwlock" THEN UNCHANGED count ELSE Drop(p)
  BY DEF release
<1>2. p \in Objs /\ guard \in [Readers -> Places]
  BY <1>1 DEF LockTypeOK, Places
<1>3. \A o \in Objs : /\ Boxes(o)' = Boxes(o) /\ Olds(o)' = Olds(o) /\ Loads(o)' = Loads(o)
                      /\ Clones(o)' = In(Cloned, guard', o)
  BY <1>1 DEF Boxes, Olds, Loads, Clones, Cloned, Loaded
<1>4. CASE impl = "rwlock"
  <2>1. \A o \in Objs : Clones(o)' = Clones(o)
    BY <1>3, <1>4, InNone DEF Clones, Cloned
  <2>2. \A o \in Objs : Sum(o)' = Sum(o)
    BY <1>3, <2>1 DEF Sum
  <2> QED
    BY <1>1, <1>4, <2>2, CountSame
<1>5. CASE impl # "rwlock"
  <2>1. /\ \A o \in Objs : Clones(o)' = Clones(o) - (IF o = p THEN 1 ELSE 0)
        /\ Clones(p) >= 1
    <3>1. \A o \in Objs : In(Readers, [guard EXCEPT ![r] = NoObj], o)
                           = In(Readers, guard, o) - (IF o = p THEN 1 ELSE 0)
      BY <1>1, <1>2, Lost, LockAssumption
    <3>2. In(Readers, guard, p) >= 1
      BY <1>1, <1>2, Lost, LockAssumption
    <3> QED
      BY <1>1, <1>3, <1>5, <3>1, <3>2 DEF Clones, Cloned
  <2> HIDE DEF p
  <2>2. \A o \in Objs : Sum(o)' = Sum(o) - (IF o = p THEN 1 ELSE 0)
    BY <1>3, <2>1, KindsTyped DEF Sum
  <2>3. Sum(p) >= 1
    BY <2>1, KindsTyped DEF Sum
  <2> QED
    BY <1>1, <1>2, <1>5, <2>2, <2>3, CountDown
<1> QED
  BY <1>4, <1>5

LEMMA LoadCounts ==
  ASSUME LockInv, NEW w \in Writers, load(w)
  PROVE  CountInv'
<1> USE DEF LockInv
<1>1. /\ impl' = impl /\ ptr' = ptr /\ old' = old /\ guard' = guard
      /\ seen' = [seen EXCEPT ![w] = ptr] /\ seen[w] = NoObj
      /\ IF InPlace THEN UNCHANGED count ELSE Clone(ptr)
  BY DEF load, WriterSteps
<1>2. ptr \in Objs /\ seen \in [Writers -> Places] /\ (InPlace <=> impl # "arc_swap")
  BY DEF LockTypeOK, Places, InPlace
<1>3. \A o \in Objs : /\ Boxes(o)' = Boxes(o) /\ Olds(o)' = Olds(o) /\ Clones(o)' = Clones(o)
                      /\ Loads(o)' = In(Loaded, seen', o)
  BY <1>1 DEF Boxes, Olds, Loads, Clones, Cloned, Loaded
<1>4. CASE InPlace
  <2>1. \A o \in Objs : Loads(o)' = Loads(o)
    BY <1>2, <1>3, <1>4, InNone DEF Loads, Loaded
  <2>2. \A o \in Objs : Sum(o)' = Sum(o)
    BY <1>3, <2>1 DEF Sum
  <2> QED
    BY <1>1, <1>4, <2>2, CountSame
<1>5. CASE ~InPlace
  <2>1. \A o \in Objs : Loads(o)' = Loads(o) + (IF o = ptr THEN 1 ELSE 0)
    <3>1. \A o \in Objs : In(Writers, [seen EXCEPT ![w] = ptr], o)
                           = In(Writers, seen, o) + (IF o = ptr THEN 1 ELSE 0)
      <4>1. IsFiniteSet(Writers) /\ seen[w] = NoObj
        BY <1>1, LockAssumption
      <4> QED
        BY <1>2, <4>1, Gained, Zenon
    <3> QED
      BY <1>1, <1>2, <1>3, <1>5, <3>1 DEF Loads, Loaded
  <2>2. \A o \in Objs : Sum(o)' = Sum(o) + (IF o = ptr THEN 1 ELSE 0)
    BY <1>3, <2>1, KindsTyped DEF Sum
  <2> QED
    BY <1>1, <1>2, <1>5, <2>2, CountUp
<1> QED
  BY <1>4, <1>5

\* The closure of update() returns, with a value or without.
LEMMA ReturnCounts ==
  ASSUME LockInv, NEW w \in Writers, Returned(w), UNCHANGED <<impl, ptr, guard, old>>
  PROVE  CountInv'
<1> USE DEF LockInv
<1> DEFINE p == seen[w]
<1>1. /\ seen' = [seen EXCEPT ![w] = NoObj] /\ p = ptr
      /\ IF InPlace THEN UNCHANGED count ELSE Drop(p)
  BY DEF Returned, WriterSteps
<1>2. /\ p \in Objs /\ p # NoObj /\ seen \in [Writers -> Places]
      /\ (InPlace <=> impl # "arc_swap")
  BY <1>1, LockAssumption DEF LockTypeOK, Places, InPlace
<1>3. \A o \in Objs : /\ Boxes(o)' = Boxes(o) /\ Olds(o)' = Olds(o) /\ Clones(o)' = Clones(o)
                      /\ Loads(o)' = In(Loaded, seen', o)
  BY <1>1 DEF Boxes, Olds, Loads, Clones, Cloned, Loaded
<1>4. CASE InPlace
  <2>1. \A o \in Objs : Loads(o)' = Loads(o)
    BY <1>2, <1>3, <1>4, InNone DEF Loads, Loaded
  <2>2. \A o \in Objs : Sum(o)' = Sum(o)
    BY <1>3, <2>1 DEF Sum
  <2> QED
    BY <1>1, <1>4, <2>2, CountSame
<1>5. CASE ~InPlace
  <2>1. /\ \A o \in Objs : Loads(o)' = Loads(o) - (IF o = p THEN 1 ELSE 0)
        /\ Loads(p) >= 1
    <3>1. \A o \in Objs : In(Writers, [seen EXCEPT ![w] = NoObj], o)
                           = In(Writers, seen, o) - (IF o = p THEN 1 ELSE 0)
      BY <1>1, <1>2, Lost, LockAssumption
    <3>2. In(Writers, seen, p) >= 1
      BY <1>1, <1>2, Lost, LockAssumption
    <3> QED
      BY <1>1, <1>2, <1>3, <1>5, <3>1, <3>2 DEF Loads, Loaded
  <2> HIDE DEF p
  <2>2. \A o \in Objs : Sum(o)' = Sum(o) - (IF o = p THEN 1 ELSE 0)
    BY <1>3, <2>1, KindsTyped DEF Sum
  <2>3. Sum(p) >= 1
    BY <2>1, KindsTyped DEF Sum
  <2> QED
    BY <1>1, <1>2, <1>5, <2>2, <2>3, CountDown
<1> QED
  BY <1>4, <1>5

\* The count of the box goes to the writer.
LEMMA ReplaceCounts ==
  ASSUME LockInv, NEW w \in Writers, NEW o \in Objs, replace(w, o)
  PROVE  CountInv'
<1> USE DEF LockInv
<1>1. /\ impl' = impl /\ ptr' = o /\ guard' = guard /\ seen' = seen
      /\ old' = [old EXCEPT ![w] = ptr]
      /\ count' = [count EXCEPT ![o] = 1] /\ count[o] = 0
  BY DEF replace
<1>2. old[w] = NoObj
  BY DEF replace, WriterSteps, Taken, LockTypeOK
<1>3. ptr \in Objs /\ old \in [Writers -> Places]
  BY DEF LockTypeOK, Places
<1>4. count \in [Objs -> Nat] /\ \A q \in Objs : count[q] = Sum(q)
  BY CountsAre DEF CountInv, Sum
<1>5. \A q \in Objs : /\ Boxes(q)' = (IF o = q THEN 1 ELSE 0)
                      /\ Loads(q)' = Loads(q) /\ Clones(q)' = Clones(q)
                      /\ Olds(q)' = Olds(q) + (IF q = ptr THEN 1 ELSE 0)
  <2>1. \A q \in Objs : In(Writers, [old EXCEPT ![w] = ptr], q)
                         = In(Writers, old, q) + (IF q = ptr THEN 1 ELSE 0)
    <3>1. IsFiniteSet(Writers)
      BY LockAssumption
    <3> QED
      BY <1>2, <1>3, <3>1, Gained, Zenon
  <2> QED
    BY <1>1, <2>1 DEF Boxes, Olds, Loads, Clones, Cloned, Loaded
<1>6. ptr # o /\ Sum(o) = 0
  BY <1>1, <1>4, KindsTyped DEF Sum, Boxes
<1>7. \A q \in Objs : count'[q] = Sum(q)'
  <2>1. \A q \in Objs : Boxes(q) = (IF q = ptr THEN 1 ELSE 0)
    BY DEF Boxes
  <2>2. \A q \in Objs : Sum(q)' = Sum(q) + (IF o = q THEN 1 ELSE 0)
    BY <1>5, <2>1, KindsTyped DEF Sum
  <2> QED
    BY <1>1, <1>4, <1>6, <2>2
<1>8. CountsExact'
  BY <1>7, CountsAreNext DEF Sum
<1> QED
  BY <1>1, <1>4, <1>8 DEF CountInv

LEMMA DropCounts ==
  ASSUME LockInv, NEW w \in Writers, drop_old(w)
  PROVE  CountInv'
<1> USE DEF LockInv
<1> DEFINE p == old[w]
<1>1. /\ impl' = impl /\ ptr' = ptr /\ guard' = guard /\ seen' = seen
      /\ old' = [old EXCEPT ![w] = NoObj] /\ Drop(p)
  BY DEF drop_old
<1>2. p # NoObj
  BY DEF drop_old, WriterSteps, Taken
<1>3. p \in Objs /\ old \in [Writers -> Places]
  BY <1>2 DEF LockTypeOK, Places
<1>4. \A o \in Objs : /\ Boxes(o)' = Boxes(o) /\ Loads(o)' = Loads(o) /\ Clones(o)' = Clones(o)
                      /\ Olds(o)' = Olds(o) - (IF o = p THEN 1 ELSE 0)
                      /\ Olds(p) >= 1
  <2>1. IsFiniteSet(Writers)
    BY LockAssumption
  <2>2. /\ \A o \in Objs : In(Writers, [old EXCEPT ![w] = NoObj], o)
                             = In(Writers, old, o) - (IF o = p THEN 1 ELSE 0)
        /\ In(Writers, old, p) >= 1
    BY <1>2, <1>3, <2>1, Lost, Zenon
  <2> QED
    BY <1>1, <2>2 DEF Boxes, Olds, Loads, Clones, Cloned, Loaded
<1> HIDE DEF p
<1>5. \A o \in Objs : Sum(o)' = Sum(o) - (IF o = p THEN 1 ELSE 0)
  BY <1>4, KindsTyped DEF Sum
<1>6. Sum(p) >= 1
  BY <1>3, <1>4, KindsTyped DEF Sum
<1> QED
  BY <1>1, <1>3, <1>5, <1>6, CountDown

\* The mutex changes hands, and no count.
LEMMA QuietCounts ==
  ASSUME LockInv, UNCHANGED <<impl, ptr, count, guard, seen, old>>
  PROVE  CountInv'
<1>1. \A o \in Objs : Sum(o)' = Sum(o)
  BY DEF Sum, Boxes, Olds, Loads, Clones, Cloned, Loaded
<1> QED
  BY <1>1, CountSame DEF LockInv

LEMMA CountStep ==
  ASSUME LockInv, [LockNext]_lockVars
  PROVE  CountInv'
<1>1. ASSUME NEW w \in Writers, derive(w) \/ bail(w) PROVE CountInv'
  BY <1>1, ReturnCounts DEF derive, bail
<1>2. ASSUME NEW w \in Writers, unlock(w) PROVE CountInv'
  BY <1>2, QuietCounts DEF unlock
<1>3. ASSUME NEW w \in Writers, NEW op \in {"write", "update"}, lock(w, op) PROVE CountInv'
  BY <1>3, QuietCounts DEF lock
<1>4. CASE UNCHANGED lockVars
  BY <1>4, QuietCounts DEF lockVars
<1> QED
  BY <1>1, <1>2, <1>3, <1>4, GetCounts, ReleaseCounts, LoadCounts, ReplaceCounts, DropCounts
     DEF LockNext, Call

\* The inductive invariant holds in every reachable state.
LEMMA LockInductive == LockSpec => []LockInv
<1>1. LockInit => LockInv
  <2> SUFFICES ASSUME LockInit PROVE LockInv
    OBVIOUS
  <2>1. LockTypeOK /\ WriterSteps /\ ReadLocked
    BY LockAssumption
       DEF LockInit, LockTypeOK, WriterSteps, ReadLocked, Locked, Taken, InPlace
  <2>2. \A o \in Objs : Olds(o) = 0 /\ Clones(o) = 0 /\ Loads(o) = 0
    <3> SUFFICES ASSUME NEW o \in Objs PROVE Olds(o) = 0 /\ Clones(o) = 0 /\ Loads(o) = 0
      OBVIOUS
    <3>1. /\ {w \in Writers : old[w] = o} = {}
          /\ {r \in Cloned : guard[r] = o} = {}
          /\ {w \in Loaded : seen[w] = o} = {}
      BY LockAssumption DEF LockInit, Cloned, Loaded
    <3> QED
      BY <3>1, FS_EmptySet DEF Olds, Clones, Loads, In
  <2>3. CountInv
    <3>1. count \in [Objs -> Nat] /\ \A o \in Objs : count[o] = Boxes(o)
      BY DEF LockInit, Boxes
    <3>2. \A o \in Objs : count[o] = Boxes(o) + Olds(o) + Clones(o) + Loads(o)
      BY <2>2, <3>1, KindsTyped
    <3> QED
      BY <3>1, <3>2, CountsAre DEF CountInv
  <2> QED
    BY <2>1, <2>3 DEF LockInv
<1>2. LockInv /\ [LockNext]_lockVars => LockInv'
  BY LockTypeStep, CountStep DEF LockInv
<1> QED
  BY <1>1, <1>2, PTL DEF LockSpec

(***************************************************************************)
(* Every implementation with a lock keeps its counts: none is taken        *)
(* without an owner to give it back, so no value is destroyed early and    *)
(* none is left behind, whatever get(), write() and update() of any number *)
(* of threads do.                                                          *)
(***************************************************************************)
THEOREM CountsKept == LockSpec => []CountsExact
<1>1. LockInv => CountsExact
  BY DEF LockInv, CountInv
<1> QED
  BY <1>1, LockInductive, PTL

----------------------------------------------------------------------------
(* The refinement. *)

\* An object without counts is not in the box, and nobody refers to it.
Unowned(o) ==
  /\ o # ptr
  /\ \A r \in Readers : guard[r] # o
  /\ \A w \in Writers : seen[w] # o

LEMMA DeadUnowned == LockInv => \A o \in Objs : count[o] = 0 => Unowned(o)
<1> SUFFICES ASSUME LockInv, NEW o \in Objs, count[o] = 0 PROVE Unowned(o)
  OBVIOUS
<1>1. Boxes(o) = 0 /\ Clones(o) = 0
  <2>1. count[o] = Boxes(o) + Olds(o) + Clones(o) + Loads(o)
    BY CountsAre DEF LockInv, CountInv
  <2>2. Boxes(o) \in Nat /\ Olds(o) \in Nat /\ Clones(o) \in Nat /\ Loads(o) \in Nat
    BY KindsTyped
  <2> QED
    BY <2>1, <2>2
<1>2. o # ptr
  BY <1>1 DEF Boxes
<1>3. \A r \in Readers : guard[r] # o
  <2>1. CASE impl = "rwlock"
    BY <1>2, <2>1, LockAssumption DEF LockInv, ReadLocked
  <2>2. CASE impl # "rwlock"
    BY <1>1, <2>2, InTyped, LockAssumption DEF Clones, Cloned
  <2> QED
    BY <2>1, <2>2
<1>4. \A w \in Writers : seen[w] # o
  BY <1>2, LockAssumption DEF LockInv, WriterSteps
<1> QED
  BY <1>2, <1>3, <1>4 DEF Unowned

LEMMA DeadUnownedNext == (LockInv => \A o \in Objs : count[o] = 0 => Unowned(o))'
  BY DeadUnowned, PTL

Alive == {o \in Objs : count[o] > 0}
Refs  == [u \in Readers \cup Writers |-> IF u \in Readers THEN guard[u] ELSE seen[u]]

\* A step of these implementations is one of the box, or none of its business.
LEMMA LockBoxStep ==
  ASSUME LockInv, [LockNext]_lockVars
  PROVE  [Box!BoxNext]_(Box!boxVars)
<1> USE LockAssumption
<1>1. /\ LockTypeOK /\ WriterSteps
      /\ count \in [Objs -> Nat] /\ ptr \in Objs
      /\ guard \in [Readers -> Objs \cup {NoObj}]
      /\ seen \in [Writers -> Objs \cup {NoObj}]
  BY DEF LockInv, LockTypeOK, CountInv
<1>2. /\ count' \in [Objs -> Nat]
      /\ \A o \in Objs : count'[o] = 0 => Unowned(o)'
  BY LockTypeStep, CountStep, DeadUnownedNext DEF LockInv, CountInv
<1>3. count[ptr] > 0
  BY <1>1, DeadUnowned DEF Unowned
<1>4. ASSUME NEW r \in Readers, get(r) PROVE Box!Get(r)
  <2>1. Alive' = Alive
    BY <1>1, <1>3, <1>4 DEF get, Clone, Alive
  <2> QED
    BY <1>1, <1>4, <2>1 DEF get, Alive, Box!Get
<1>5. ASSUME NEW r \in Readers, release(r) PROVE Box!Release(r) \/ Box!ReleaseLast(r)
  <2>0. PICK p \in Objs : p = guard[r]
    BY <1>1, <1>5 DEF release
  <2>1. /\ UNCHANGED <<ptr, basis, seen>>
        /\ guard' = [guard EXCEPT ![r] = NoObj]
        /\ count' = IF impl = "rwlock" THEN count ELSE [count EXCEPT ![p] = @ - 1]
    BY <1>5, <2>0 DEF release, Drop
  <2>2. CASE impl = "rwlock" \/ count'[p] > 0
    <3>1. Alive' = Alive
      BY <1>1, <2>1, <2>2 DEF Alive
    <3> QED
      BY <1>1, <2>1, <3>1 DEF Alive, Box!Release
  <2>3. CASE impl # "rwlock" /\ count'[p] = 0
    <3>1. Unowned(p)'
      BY <1>2, <2>1, <2>3
    <3>2. p # ptr /\ \A v \in Readers \cup Writers : v # r => Refs[v] # p
      BY <1>1, <2>1, <3>1 DEF Unowned, Refs
    <3>3. p \in Alive /\ Alive' = Alive \ {p}
      BY <1>1, <2>1, <2>3 DEF Alive
    <3>4. Refs[r] = p /\ Refs' = [Refs EXCEPT ![r] = NoObj]
      BY <1>1, <2>0, <2>1 DEF Refs
    <3> QED
      BY <2>1, <3>2, <3>3, <3>4 DEF Alive, Refs, Box!ReleaseLast
  <2>4. count'[p] > 0 \/ count'[p] = 0
    BY <1>2
  <2> QED
    BY <2>2, <2>3, <2>4
<1>6. ASSUME NEW w \in Writers, load(w) PROVE Box!Get(w)
  <2>1. Alive' = Alive
    BY <1>1, <1>3, <1>6 DEF load, Clone, Alive
  <2>2. w \notin Readers /\ seen' = [seen EXCEPT ![w] = ptr] /\ UNCHANGED <<ptr, basis, guard>>
    BY <1>6 DEF load
  <2> QED
    BY <1>1, <2>1, <2>2 DEF Alive, Box!Get
<1>7. ASSUME NEW w \in Writers, derive(w) \/ bail(w) PROVE Box!Release(w)
  <2>1. /\ Returned(w) /\ seen[w] = ptr /\ w \notin Readers
        /\ UNCHANGED <<ptr, basis, guard>>
    BY <1>1, <1>7 DEF derive, bail, Returned, WriterSteps
  <2>2. count'[ptr] > 0
    BY <1>1, <1>2, <2>1 DEF Unowned
  <2>3. Alive' = Alive
    BY <1>1, <1>3, <2>1, <2>2 DEF Returned, Drop, Alive
  <2> QED
    BY <1>1, <2>1, <2>3 DEF Returned, Alive, Box!Release
<1>8. ASSUME NEW w \in Writers, NEW o \in Objs, replace(w, o)
      PROVE  Box!Write(o) \/ Box!Update(o)
  <2>1. /\ o \notin Alive /\ Alive' = Alive \cup {o} /\ ptr' = o
        /\ UNCHANGED <<guard, seen>>
    BY <1>1, <1>8 DEF replace, Alive
  <2>2. basis' = NoObj \/ basis' = ptr
    BY <1>1, <1>8 DEF replace, WriterSteps
  <2> QED
    BY <2>1, <2>2 DEF Alive, Box!Write, Box!Update
<1>9. ASSUME NEW w \in Writers, drop_old(w)
      PROVE  (\E o \in Objs : Box!Destroy(o)) \/ UNCHANGED Box!boxVars
  <2>0. PICK p \in Objs : p = old[w]
    BY <1>1, <1>9 DEF drop_old, WriterSteps, Taken, LockTypeOK
  <2>1. /\ UNCHANGED <<ptr, basis, guard, seen>>
        /\ count' = [count EXCEPT ![p] = @ - 1]
    BY <1>9, <2>0 DEF drop_old, Drop
  <2>2. CASE count'[p] > 0
    <3>1. Alive' = Alive
      BY <1>1, <2>1, <2>2 DEF Alive
    <3> QED
      BY <2>1, <3>1 DEF Alive, Box!boxVars
  <2>3. CASE count'[p] = 0
    <3>1. Unowned(p)'
      BY <1>2, <2>1, <2>3
    <3>2. p # ptr /\ \A v \in Readers \cup Writers : Refs[v] # p
      BY <2>1, <3>1 DEF Unowned, Refs
    <3>3. p \in Alive /\ Alive' = Alive \ {p}
      BY <1>1, <2>1, <2>3 DEF Alive
    <3> QED
      BY <2>1, <3>2, <3>3 DEF Alive, Refs, Box!Destroy
  <2>4. count'[p] > 0 \/ count'[p] = 0
    BY <1>2
  <2> QED
    BY <2>2, <2>3, <2>4
<1>10. CASE \/ \E w \in Writers : unlock(w) \/ \E op \in {"write", "update"} : lock(w, op)
            \/ UNCHANGED lockVars
  <2>1. UNCHANGED <<ptr, count, basis, guard, seen>>
    BY <1>10 DEF unlock, lock, lockVars
  <2> QED
    BY <2>1 DEF Box!boxVars
<1> QED
  BY <1>4, <1>5, <1>6, <1>7, <1>8, <1>9, <1>10 DEF LockNext, Call, Box!BoxNext

(***************************************************************************)
(* RcuBox over a RwLock, over a Mutex of an Arc and over an ArcSwap is an  *)
(* RcuBox: what a guard or the closure of update() refers to is not        *)
(* destroyed, values are replaced one at a time and no update is lost.     *)
(***************************************************************************)
THEOREM LockIsBox == LockSpec => LockImplements
<1>1. LockInit => Box!BoxInit
  <2> SUFFICES ASSUME LockInit PROVE Box!BoxInit
    OBVIOUS
  <2>1. Alive = {ptr}
    BY DEF LockInit, Alive
  <2>2. Refs = [u \in Readers \cup Writers |-> NoObj]
    BY DEF LockInit, Refs
  <2> QED
    BY <2>1, <2>2 DEF LockInit, Alive, Refs, Box!BoxInit
<1>2. LockInv /\ [LockNext]_lockVars => [Box!BoxNext]_(Box!boxVars)
  BY LockBoxStep
<1> QED
  BY <1>1, <1>2, LockInductive, PTL DEF LockSpec, LockImplements, Box!BoxSpec
============================================================================
