----------------------------- MODULE CslabIter -----------------------------
(***************************************************************************)
(* `Iter` (cslab/src/lib.rs): the double-ended scan of the bitmap, a word  *)
(* at a time, while the writer goes on setting and clearing flags.  Each   *)
(* step is one turn of the loop in next() or next_back(), that is one      *)
(* atomic load.                                                            *)
(*                                                                         *)
(* A word is the set of its bit positions.  A load may return flags that   *)
(* are out of date: any flag that has changed since the scanning thread    *)
(* last synchronized with the writer is loaded as set or as clear.  A      *)
(* CslabReader scans in this way; the ExclIter of the writer itself is the *)
(* case exclusive, where no flag changes.                                  *)
(***************************************************************************)
EXTENDS Integers, FiniteSets

CONSTANTS
  Size,         \* slots in the table
  BITS          \* usize::BITS

ASSUME IterAssumption ==
  /\ Size \in Nat \ {0}
  /\ BITS \in Nat \ {0}

Slots == 0 .. Size - 1
Words == (Size + BITS - 1) \div BITS

VARIABLES
  exclusive,    \* an ExclIter, whose borrow keeps the writer out
  bitmap,       \* the flags when the scanning thread last synchronized
  changed,      \* slots whose flag has changed since
  head, tail,   \* the part still to be scanned: head inclusive, tail exclusive
  in_use,       \* ExclIter.in_use
  pc,           \* "ready", or inside "next" or "next_back"
  front, back,  \* indexes yielded by next() and by next_back()
  calls         \* how many items were yielded

iterVars == <<exclusive, bitmap, changed, head, tail, in_use, pc, front, back, calls>>

----------------------------------------------------------------------------
(* Arithmetic of machine words. *)

\* The bits of w shifted towards bit 0, and towards the top with those above
\* it lost.
Shr(w, n) == {b - n : b \in {c \in w : c >= n}}
Shl(w, n) == {b + n : b \in {c \in w : c + n < BITS}}

trailing_zeros(w) == CHOOSE b \in w : \A c \in w : b <= c
leading_zeros(w)  == BITS - 1 - (CHOOSE b \in w : \A c \in w : b >= c)

\* What an acquire load of word n may return.
Load(n) ==
  {{i - n * BITS : i \in {j \in (bitmap \ changed) \cup seen : j \div BITS = n}} :
     seen \in SUBSET {j \in changed : j \div BITS = n}}

----------------------------------------------------------------------------
(* Mutated forms of the operators below, used to check that the properties *)
(* can fail.                                                               *)

Distance_WholeWord(bme) == IF bme = {} THEN BITS ELSE trailing_zeros(bme)
BackDistance_Short(bme) == IF bme = {} THEN (tail - 1) % BITS ELSE leading_zeros(bme)
AtEnd_Late(d)           == d > tail - head
After_Same(i)           == i
call_Unchecked(op) ==
  /\ pc = "ready"
  /\ pc' = op
  /\ UNCHANGED <<exclusive, bitmap, changed, head, tail, in_use, front, back, calls>>

----------------------------------------------------------------------------
\* Distance from head to the next item, or to the next word.
Distance(bme) == IF bme = {} THEN BITS - (head % BITS) ELSE trailing_zeros(bme)

\* What moves the bit of tail - 1 to the top.
BackShift == BITS - (((tail - 1) % BITS) + 1)

\* Distance from tail to the previous item, or to the previous word.
BackDistance(bme) == IF bme = {} THEN ((tail - 1) % BITS) + 1 ELSE leading_zeros(bme)

\* Nothing is found before the other end.
AtEnd(d) == d >= tail - head

\* Where head goes on after index i was found.
After(i) == i + 1

----------------------------------------------------------------------------
\* Iter::new, or ExclIter::new.  Every flag the thread has synchronized with
\* lies below the frontier it loads.
IterInit ==
  /\ exclusive \in BOOLEAN
  /\ bitmap \in SUBSET Slots
  /\ changed \in IF exclusive THEN {{}} ELSE SUBSET Slots
  /\ head = 0
  /\ tail \in 0 .. Size
  /\ \A i \in bitmap \ changed : i < tail
  /\ in_use = Cardinality(bitmap)
  /\ pc = "ready"
  /\ front = {} /\ back = {} /\ calls = 0

\* The writer sets or clears a flag.
flag_changes(i) ==
  /\ ~exclusive
  /\ changed' = changed \cup {i}
  /\ UNCHANGED <<exclusive, bitmap, head, tail, in_use, pc, front, back, calls>>

\* A call of next() or next_back() that does not return None at once.
call(op) ==
  /\ pc = "ready" /\ head < tail
  /\ pc' = op
  /\ UNCHANGED <<exclusive, bitmap, changed, head, tail, in_use, front, back, calls>>

\* One turn of the loop in next().
next ==
  /\ pc = "next"
  /\ \E w \in Load(head \div BITS) :
       LET bme == Shr(w, head % BITS)
           d   == Distance(bme)
       IN  \/ /\ AtEnd(d)
              /\ head' = tail
              /\ pc' = "ready"
              /\ UNCHANGED <<front, calls>>
           \/ /\ ~AtEnd(d)
              /\ bme # {}
              /\ head' = After(head + d)
              /\ front' = front \cup {head + d}
              /\ calls' = calls + 1
              /\ pc' = "ready"
           \/ /\ ~AtEnd(d)
              /\ bme = {}
              /\ head' = head + d
              /\ UNCHANGED <<front, calls, pc>>
  /\ UNCHANGED <<exclusive, bitmap, changed, tail, in_use, back>>

\* One turn of the loop in next_back().
next_back ==
  /\ pc = "next_back"
  /\ \E w \in Load((tail - 1) \div BITS) :
       LET bme == Shl(w, BackShift)
           d   == BackDistance(bme)
       IN  \/ /\ AtEnd(d)
              /\ tail' = head
              /\ pc' = "ready"
              /\ UNCHANGED <<back, calls>>
           \/ /\ ~AtEnd(d)
              /\ bme # {}
              /\ tail' = tail - d - 1
              /\ back' = back \cup {tail - d - 1}
              /\ calls' = calls + 1
              /\ pc' = "ready"
           \/ /\ ~AtEnd(d)
              /\ bme = {}
              /\ tail' = tail - d
              /\ UNCHANGED <<back, calls, pc>>
  /\ UNCHANGED <<exclusive, bitmap, changed, head, in_use, front>>

\* The iterator is exhausted and its owner is done with it.
Exhausted == pc = "ready" /\ head >= tail /\ UNCHANGED iterVars

IterNext ==
  \/ \E i \in Slots : flag_changes(i)
  \/ call("next") \/ call("next_back")
  \/ next \/ next_back
  \/ Exhausted

\* A call that has begun is executed to its end.
IterSpec == IterInit /\ [][IterNext]_iterVars /\ WF_iterVars(next \/ next_back)

----------------------------------------------------------------------------
Yielded == front \cup back

\* Every variable has its type, and the unsigned tail - head never underflows.
IterTypeOK ==
  /\ exclusive \in BOOLEAN
  /\ bitmap \in SUBSET Slots /\ changed \in SUBSET Slots
  /\ head \in 0 .. Size /\ tail \in 0 .. Size /\ head <= tail
  /\ in_use \in Nat
  /\ pc \in {"ready", "next", "next_back"}
  /\ front \in SUBSET Slots /\ back \in SUBSET Slots
  /\ calls \in Nat

\* No load is past either end of the bitmap: "needed to avoid possibly
\* loading past the end", and its counterpart for the beginning, hold on
\* every turn of the loop and not only on entry.
LoadsInBounds ==
  /\ pc = "next" => head \div BITS < Words
  /\ pc = "next_back" => tail >= 1 /\ (tail - 1) \div BITS < Words

\* An item present from before the scan until the scan passes it is not
\* missed, from whichever end the scan comes and however the flags around it
\* change: it is yielded already, or still lies between head and tail.
NothingMissed ==
  \A i \in bitmap \ changed : i \in Yielded \/ (head <= i /\ i < tail)

\* The two ends never overlap and neither turns back: every item is yielded
\* at most once, by next() in ascending and by next_back() in descending order.
EachOnce ==
  /\ calls = Cardinality(Yielded)
  /\ \A i \in front : i < head
  /\ \A i \in back : tail <= i

\* Every call returns: each turn of the loop leaves less to scan.
CallsReturn == pc # "ready" ~> pc = "ready"

\* The items that next() and next_back() of an ExclIter have still to yield.
Remaining == {i \in bitmap : head <= i /\ i < tail}

\* What size_hint() and count() of an ExclIter answer without scanning is, at
\* every moment, the number of items it has yielded plus the number it will
\* yet yield.  So the answer is exact before the first call of next() or
\* next_back(), whatever the frontier and the bitmap; and afterwards, as
\* nobody updates it, it is too large by exactly the items yielded.
ExclCount == exclusive => in_use = calls + Cardinality(Remaining)

============================================================================
