--------------------------- MODULE CslabIterProofs ---------------------------
(***************************************************************************)
(* The scan of the bitmap is right for every size of the table, every      *)
(* width of a word, every bitmap, and however its flags change meanwhile.  *)
(***************************************************************************)
EXTENDS CslabIter, FiniteSetTheorems, TLAPS

\* A call that has begun has something to scan; what was yielded lies behind
\* the two ends, and was seen flagged; the borrow of an ExclIter keeps the
\* flags as they are.
Scanning == pc # "ready" => head < tail
Behind   == (\A i \in front : i < head) /\ (\A i \in back : tail <= i)
Flagged  == Yielded \subseteq bitmap \cup changed
Excluded == exclusive => changed = {}
Counted  == in_use = Cardinality(bitmap) /\ calls = Cardinality(Yielded)

IterInv == IterTypeOK /\ Scanning /\ Behind /\ Flagged /\ Excluded /\ Counted /\ NothingMissed

----------------------------------------------------------------------------
(* Numbers, and the words that bits lie in.                                *)

\* The least number of a nonempty set.
Less == {ss \in Nat \X Nat : ss[1] < ss[2]}

LEMMA LeastNumber ==
  ASSUME NEW T \in SUBSET Nat, NEW x \in T
  PROVE  \E m \in T : \A n \in T : m <= n
<1>1. Less = OpToRel(<, Nat)
  BY Zenon DEF Less, OpToRel
<1>2. IsWellFoundedOn(Less, Nat)
  BY <1>1, NatLessThanWellFounded, Zenon
<1>3. PICK m \in T : \A y \in T : <<y, m>> \notin Less
  BY <1>2, WFMin
<1>4. \A y \in T : ~(y < m)
  BY <1>3 DEF Less
<1> QED
  BY <1>4

\* The position of a number in its word, and of the word.
LEMMA InWord ==
  ASSUME NEW n \in Nat
  PROVE  /\ n \div BITS \in Nat
         /\ n % BITS \in 0 .. BITS - 1
         /\ (n \div BITS) * BITS \in Nat
         /\ n = (n \div BITS) * BITS + (n % BITS)
  BY IterAssumption

\* A later word begins where an earlier one has ended.
LEMMA WordsApart ==
  ASSUME NEW m \in Nat, NEW n \in Nat, m < n
  PROVE  m * BITS + BITS <= n * BITS
<1>1. m + 1 <= n /\ BITS \in Nat
  BY IterAssumption
<1>2. (m + 1) * BITS <= n * BITS
  BY <1>1
<1>3. (m + 1) * BITS = m * BITS + BITS
  BY <1>1
<1> QED
  BY <1>2, <1>3

\* The word of a smaller number is not a later one.
LEMMA DivMonotone ==
  ASSUME NEW m \in Nat, NEW n \in Nat, m <= n
  PROVE  m \div BITS <= n \div BITS
<1> SUFFICES ASSUME n \div BITS < m \div BITS PROVE FALSE
  BY InWord
<1>1. (n \div BITS) * BITS + BITS <= (m \div BITS) * BITS
  BY InWord, WordsApart
<1> QED
  BY <1>1, InWord, IterAssumption

\* Every slot has its word in the bitmap.
LEMMA SlotInBitmap ==
  ASSUME NEW n \in Nat, n < Size
  PROVE  n \div BITS < Words
<1> DEFINE p == Size + BITS - 1
<1>1. p \in Nat /\ Words = p \div BITS /\ p >= n + BITS
  BY IterAssumption DEF Words
<1> HIDE DEF p
<1>2. /\ p \div BITS \in Nat /\ (p \div BITS) * BITS \in Nat
      /\ p % BITS \in 0 .. BITS - 1 /\ p = (p \div BITS) * BITS + (p % BITS)
  BY <1>1, InWord
<1>3. /\ n \div BITS \in Nat /\ (n \div BITS) * BITS \in Nat
      /\ n % BITS \in 0 .. BITS - 1 /\ n = (n \div BITS) * BITS + (n % BITS)
  BY InWord
<1>4. CASE p \div BITS = n \div BITS
  BY <1>1, <1>2, <1>3, <1>4, IterAssumption
<1>5. CASE p \div BITS < n \div BITS
  <2>1. (p \div BITS) * BITS + BITS <= (n \div BITS) * BITS
    BY <1>2, <1>3, <1>5, WordsApart
  <2> QED
    BY <1>1, <1>2, <1>3, <2>1, IterAssumption
<1> QED
  BY <1>1, <1>2, <1>3, <1>4, <1>5

\* A load has a bit for every flag that is known to be set, and none for a
\* slot that was never flagged.
LEMMA LoadFacts ==
  ASSUME IterTypeOK, NEW n \in Nat, NEW w \in Load(n)
  PROVE  /\ \A b \in w : b \in 0 .. BITS - 1 /\ n * BITS + b \in bitmap \cup changed
         /\ \A i \in bitmap \ changed : i \div BITS = n => i - n * BITS \in w
<1>1. PICK seen \in SUBSET {j \in changed : j \div BITS = n} :
        w = {i - n * BITS : i \in {j \in (bitmap \ changed) \cup seen : j \div BITS = n}}
  BY DEF Load
<1>2. Slots \subseteq Nat /\ bitmap \subseteq Slots /\ changed \subseteq Slots
  BY DEF IterTypeOK, Slots
<1>3. ASSUME NEW b \in w
      PROVE  b \in 0 .. BITS - 1 /\ n * BITS + b \in bitmap \cup changed
  <2>1. PICK i \in bitmap \cup changed : i \div BITS = n /\ b = i - n * BITS
    BY <1>1
  <2>2. i \in Nat /\ n * BITS \in Nat
    BY <1>2, IterAssumption
  <2>3. i = n * BITS + (i % BITS) /\ i % BITS \in 0 .. BITS - 1
    BY <2>1, <2>2, InWord
  <2> QED
    BY <2>1, <2>2, <2>3
<1>4. ASSUME NEW i \in bitmap \ changed, i \div BITS = n
      PROVE  i - n * BITS \in w
  BY <1>1, <1>4
<1> QED
  BY <1>3, <1>4
----------------------------------------------------------------------------
(* One turn of the loop, from either end.                                  *)

\* From the front: nothing known to be set is passed over, and what is found
\* was flagged.
LEMMA ForwardTurn ==
  ASSUME IterTypeOK, NEW w \in Load(head \div BITS)
  PROVE  LET bme == Shr(w, head % BITS)
             d   == Distance(bme)
         IN  /\ d \in Nat
             /\ bme = {} => d >= 1
             /\ bme # {} => head + d \in bitmap \cup changed
             /\ \A i \in bitmap \ changed : i >= head => i >= head + d
<1> DEFINE n == head \div BITS
           r == head % BITS
           bme == Shr(w, r)
           d == Distance(bme)
<1>1. /\ head \in Nat /\ n \in Nat /\ n * BITS \in Nat
      /\ r \in 0 .. BITS - 1 /\ head = n * BITS + r
  BY InWord DEF IterTypeOK
<1>2. /\ \A b \in w : b \in 0 .. BITS - 1 /\ n * BITS + b \in bitmap \cup changed
      /\ \A i \in bitmap \ changed : i \div BITS = n => i - n * BITS \in w
  BY <1>1, LoadFacts
<1>3. bitmap \subseteq Nat /\ changed \subseteq Nat
  BY DEF IterTypeOK, Slots
<1>4. d = IF bme = {} THEN BITS - r ELSE trailing_zeros(bme)
  BY DEF Distance
<1> HIDE DEF n, r, d
<1>5. bme = {b - r : b \in {c \in w : c >= r}}
  BY DEF Shr
<1> HIDE DEF bme
<1>6. \A c \in bme : c \in Nat /\ c + r \in w
  BY <1>1, <1>2, <1>5
\* An item not before head is in this word, and then seen, or in a later one.
<1>7. ASSUME NEW i \in bitmap \ changed, i >= head
      PROVE  i - head \in bme \/ i >= n * BITS + BITS
  <2>1. i \in Nat
    BY <1>3
  <2>2. CASE i \div BITS = n
    <3>1. i - n * BITS \in w
      BY <1>2, <2>2
    <3>2. i - n * BITS >= r /\ (i - n * BITS) - r = i - head
      BY <1>1, <1>7, <2>1
    <3> QED
      BY <1>5, <3>1, <3>2
  <2>3. CASE i \div BITS # n
    <3>1. n <= i \div BITS
      <4>1. head \div BITS <= i \div BITS
        BY <1>1, <1>7, <2>1, DivMonotone
      <4> QED
        BY <4>1 DEF n
    <3>2. /\ i \div BITS \in Nat
          /\ i % BITS \in 0 .. BITS - 1
          /\ (i \div BITS) * BITS \in Nat
          /\ i = (i \div BITS) * BITS + (i % BITS)
      BY <2>1, InWord
    <3>3. n < i \div BITS
      BY <1>1, <2>3, <3>1, <3>2
    <3>4. n * BITS + BITS <= (i \div BITS) * BITS
      BY <1>1, <3>2, <3>3, WordsApart
    <3> QED
      BY <1>1, <3>2, <3>4, IterAssumption
  <2> QED
    BY <2>2, <2>3
<1>8. CASE bme = {}
  <2>1. d = BITS - r
    BY <1>4, <1>8
  <2>2. \A i \in bitmap \ changed : i >= head => i >= head + d
    BY <1>1, <1>3, <1>7, <1>8, <2>1, IterAssumption
  <2> QED
    BY <1>1, <1>8, <2>1, <2>2, IterAssumption DEF bme, d, r
<1>9. CASE bme # {}
  <2>1. \E m \in bme : \A c \in bme : m <= c
    BY <1>6, <1>9, LeastNumber
  <2>2. d \in bme /\ \A c \in bme : d <= c
    BY <1>4, <1>9, <2>1 DEF trailing_zeros
  <2>3. d \in Nat /\ d + r \in 0 .. BITS - 1 /\ n * BITS + (d + r) \in bitmap \cup changed
    BY <1>2, <1>6, <2>2
  <2>4. head + d = n * BITS + (d + r)
    BY <1>1, <2>3
  <2>5. \A i \in bitmap \ changed : i >= head => i >= head + d
    BY <1>1, <1>3, <1>7, <2>2, <2>3, <2>4, IterAssumption
  <2> QED
    BY <1>9, <2>3, <2>4, <2>5 DEF bme, d, r
<1> QED
  BY <1>8, <1>9

\* From the back, the same.
LEMMA BackwardTurn ==
  ASSUME IterTypeOK, tail >= 1, NEW w \in Load((tail - 1) \div BITS)
  PROVE  LET bme == Shl(w, BackShift)
             d   == BackDistance(bme)
         IN  /\ d \in Nat
             /\ bme = {} => d >= 1
             /\ bme # {} => tail - d - 1 \in bitmap \cup changed
             /\ \A i \in bitmap \ changed : i < tail => i < tail - d
<1> DEFINE t == tail - 1
           n == t \div BITS
           r == t % BITS
           s == BITS - (r + 1)
           bme == Shl(w, s)
           d == BackDistance(bme)
<1>0. t \in Nat /\ tail \in Nat /\ tail = t + 1
  BY DEF IterTypeOK
<1>1. /\ n \in Nat /\ n * BITS \in Nat
      /\ r \in 0 .. BITS - 1 /\ t = n * BITS + r
  BY <1>0, InWord
<1>2. /\ \A b \in w : b \in 0 .. BITS - 1 /\ n * BITS + b \in bitmap \cup changed
      /\ \A i \in bitmap \ changed : i \div BITS = n => i - n * BITS \in w
  BY <1>1, LoadFacts
<1>3. bitmap \subseteq Nat /\ changed \subseteq Nat
  BY DEF IterTypeOK, Slots
<1>4. d = IF bme = {} THEN r + 1 ELSE leading_zeros(bme)
  BY DEF BackDistance
<1>5. bme = {b + s : b \in {c \in w : c + s < BITS}} /\ s = BITS - (r + 1)
  BY DEF Shl
<1>b. bme = Shl(w, BackShift) /\ d = BackDistance(bme)
  BY DEF BackShift
<1> HIDE DEF n, r, t, s, bme, d
<1>6. \A c \in bme : c \in 0 .. BITS - 1 /\ c - s \in w
  BY <1>1, <1>2, <1>5, IterAssumption
<1>7. ASSUME NEW i \in bitmap \ changed, i < tail
      PROVE  (i - n * BITS) + s \in bme \/ i < n * BITS
  <2>1. i \in Nat /\ i <= t
    BY <1>0, <1>3, <1>7
  <2>2. CASE i \div BITS = n
    <3>1. i - n * BITS \in w
      BY <1>2, <2>2
    <3>2. (i - n * BITS) + s < BITS
      BY <1>1, <1>5, <2>1, IterAssumption
    <3> QED
      BY <1>5, <3>1, <3>2
  <2>3. CASE i \div BITS # n
    <3>1. i \div BITS <= n
      <4>1. i \div BITS <= t \div BITS
        BY <1>0, <2>1, DivMonotone
      <4> QED
        BY <4>1 DEF n
    <3>2. /\ i \div BITS \in Nat
          /\ i % BITS \in 0 .. BITS - 1
          /\ (i \div BITS) * BITS \in Nat
          /\ i = (i \div BITS) * BITS + (i % BITS)
      BY <2>1, InWord
    <3>3. i \div BITS < n
      <4>1. \A a, b \in Nat : a <= b /\ a # b => a < b
        OBVIOUS
      <4> QED
        BY <1>1, <2>3, <3>1, <3>2, <4>1, Zenon
    <3>4. (i \div BITS) * BITS + BITS <= n * BITS
      BY <1>1, <3>2, <3>3, WordsApart
    <3> QED
      BY <1>1, <3>2, <3>4, IterAssumption
  <2> QED
    BY <2>2, <2>3
<1>8. CASE bme = {}
  <2>1. d = r + 1
    BY <1>4, <1>8
  <2>2. \A i \in bitmap \ changed : i < tail => i < tail - d
    BY <1>0, <1>1, <1>3, <1>7, <1>8, <2>1
  <2> QED
    BY <1>1, <1>8, <1>b, <2>1, <2>2
<1>9. CASE bme # {}
  <2> DEFINE gaps == {BITS - 1 - c : c \in bme}
  <2>1. PICK c \in bme : TRUE
    BY <1>9
  <2>2. gaps \in SUBSET Nat /\ BITS - 1 - c \in gaps
    BY <1>6, <2>1, IterAssumption
  <2>3. PICK g \in gaps : \A x \in gaps : g <= x
    <3> HIDE DEF gaps
    <3> QED
      BY <2>2, LeastNumber
  <2>4. PICK m \in bme : g = BITS - 1 - m
    BY <2>3
  <2>5. ASSUME NEW x \in bme PROVE m >= x
    <3>1. BITS - 1 - x \in gaps
      OBVIOUS
    <3>2. BITS - 1 - m <= BITS - 1 - x
      BY <2>3, <2>4, <3>1
    <3>3. x \in Int /\ m \in Int /\ BITS \in Int
      BY <1>6, IterAssumption
    <3> QED
      BY <3>2, <3>3
  <2>6. \E b \in bme : \A x \in bme : b >= x
    BY <2>5
  <2>7. PICK z \in bme : d = BITS - 1 - z /\ \A x \in bme : z >= x
    BY <1>4, <1>9, <2>6 DEF leading_zeros
  <2>8. /\ z \in 0 .. BITS - 1 /\ z - s \in 0 .. BITS - 1
        /\ n * BITS + (z - s) \in bitmap \cup changed
    BY <1>2, <1>6, <2>7
  <2>9. d \in Nat /\ tail - d - 1 = n * BITS + (z - s)
    BY <1>0, <1>1, <1>5, <2>7, <2>8, IterAssumption
  <2>10. \A i \in bitmap \ changed : i < tail => i < tail - d
    <3> SUFFICES ASSUME NEW i \in bitmap \ changed, i < tail PROVE i < tail - d
      OBVIOUS
    <3>1. i \in Nat
      BY <1>3
    <3>2. CASE (i - n * BITS) + s \in bme
      <4>1. (i - n * BITS) + s <= z
        BY <2>7, <3>2
      <4> QED
        BY <1>0, <1>1, <1>5, <2>8, <2>9, <3>1, <4>1, IterAssumption
    <3>3. CASE i < n * BITS
      BY <1>0, <1>1, <2>8, <2>9, <3>1, <3>3
    <3> QED
      BY <1>7, <3>2, <3>3
  <2> QED
    BY <1>9, <1>b, <2>8, <2>9, <2>10
<1> QED
  BY <1>8, <1>9

----------------------------------------------------------------------------
(* The invariant.                                                          *)

LEMMA FiniteSlots == \A S \in SUBSET Slots : IsFiniteSet(S) /\ Cardinality(S) \in Nat
<1>1. IsFiniteSet(Slots)
  BY FS_Interval, IterAssumption DEF Slots
<1> QED
  BY <1>1, FS_Subset, FS_CardinalityType

\* An index that was not yielded before is one more.
LEMMA OneMore ==
  ASSUME IterInv, NEW i \in Slots, i \notin Yielded
  PROVE  Cardinality(Yielded \cup {i}) = calls + 1
<1>1. Yielded \in SUBSET Slots
  BY DEF IterInv, IterTypeOK, Yielded
<1>2. IsFiniteSet(Yielded)
  BY <1>1, FiniteSlots
<1> QED
  BY <1>2, FS_AddElement DEF IterInv, Counted

LEMMA IterStep ==
  ASSUME IterInv, [IterNext]_iterVars
  PROVE  IterInv'
<1>a. /\ IterTypeOK /\ Scanning /\ Behind /\ Flagged /\ Excluded /\ Counted /\ NothingMissed
      /\ head \in Nat /\ tail \in Nat /\ head <= tail /\ tail <= Size /\ Size \in Nat
      /\ bitmap \subseteq Slots /\ changed \subseteq Slots
      /\ front \subseteq Slots /\ back \subseteq Slots
      /\ \A i \in Slots : i \in Nat /\ i < Size
  BY IterAssumption DEF IterInv, IterTypeOK, Slots
<1>1. ASSUME NEW i \in Slots, flag_changes(i)
      PROVE  IterInv'
  <2>1. /\ ~exclusive /\ changed' = changed \cup {i}
        /\ UNCHANGED <<exclusive, bitmap, head, tail, in_use, pc, front, back, calls>>
    BY <1>1 DEF flag_changes
  <2> QED
    BY <1>a, <2>1 DEF IterInv, IterTypeOK, Scanning, Behind, Flagged, Excluded, Counted,
                      NothingMissed, Yielded
<1>2. ASSUME NEW op \in {"next", "next_back"}, call(op)
      PROVE  IterInv'
  <2>1. /\ head < tail /\ pc' = op
        /\ UNCHANGED <<exclusive, bitmap, changed, head, tail, in_use, front, back, calls>>
    BY <1>2 DEF call
  <2> QED
    BY <1>a, <2>1 DEF IterInv, IterTypeOK, Scanning, Behind, Flagged, Excluded, Counted,
                      NothingMissed, Yielded
<1>3. CASE next
  <2>0. /\ pc = "next" /\ head < tail
        /\ UNCHANGED <<exclusive, bitmap, changed, tail, in_use, back>>
    BY <1>3, <1>a DEF next, Scanning
  <2>1. PICK w \in Load(head \div BITS) :
       LET bme == Shr(w, head % BITS)
           d   == Distance(bme)
       IN  \/ /\ AtEnd(d)
              /\ head' = tail
              /\ pc' = "ready"
              /\ UNCHANGED <<front, calls>>
           \/ /\ ~AtEnd(d)
              /\ bme # {}
              /\ head' = After(head + d)
              /\ front' = front \cup {head + d}
              /\ calls' = calls + 1
              /\ pc' = "ready"
           \/ /\ ~AtEnd(d)
              /\ bme = {}
              /\ head' = head + d
              /\ UNCHANGED <<front, calls, pc>>
    BY <1>3 DEF next
  <2> DEFINE bme == Shr(w, head % BITS)
             d   == Distance(bme)
  <2>2. /\ d \in Nat
        /\ bme # {} => head + d \in bitmap \cup changed
        /\ \A i \in bitmap \ changed : i >= head => i >= head + d
    BY <1>a, ForwardTurn
  <2>3. \/ d >= tail - head /\ head' = tail /\ pc' = "ready" /\ UNCHANGED <<front, calls>>
        \/ /\ d < tail - head /\ bme # {} /\ head' = head + d + 1
           /\ front' = front \cup {head + d} /\ calls' = calls + 1 /\ pc' = "ready"
        \/ d < tail - head /\ head' = head + d /\ UNCHANGED <<front, calls, pc>>
    <3> HIDE DEF d, bme
    <3>1. AtEnd(d) <=> d >= tail - head
      BY DEF AtEnd
    <3>2. After(head + d) = head + d + 1
      BY DEF After
    <3>3. ~(d >= tail - head) => d < tail - head
      BY <1>a, <2>2
    <3> USE DEF d, bme
    <3> QED
      BY <2>1, <3>1, <3>2, <3>3
  <2> HIDE DEF d, bme
  <2>4. CASE d >= tail - head /\ head' = tail /\ pc' = "ready" /\ UNCHANGED <<front, calls>>
    <3>1. NothingMissed'
      BY <1>a, <2>0, <2>2, <2>4 DEF NothingMissed, Yielded
    <3>2. Behind' /\ Flagged' /\ Counted'
      BY <1>a, <2>0, <2>4 DEF Behind, Flagged, Counted, Yielded
    <3> QED
      BY <1>a, <2>0, <2>4, <3>1, <3>2 DEF IterInv, IterTypeOK, Scanning, Excluded
  <2>5. CASE /\ d < tail - head /\ bme # {} /\ head' = head + d + 1
             /\ front' = front \cup {head + d} /\ calls' = calls + 1 /\ pc' = "ready"
    <3>1. /\ head + d \in Slots /\ head + d < tail /\ head' \in 0 .. Size /\ head' <= tail
          /\ head + d \in bitmap \cup changed /\ head <= head + d
      BY <1>a, <2>2, <2>5
    <3>2. head + d \notin Yielded
      BY <1>a, <2>2, <3>1 DEF Behind, Yielded
    <3>3. Yielded' = Yielded \cup {head + d}
      BY <2>0, <2>5 DEF Yielded
    <3>4. Counted'
      BY <1>a, <2>0, <2>5, <3>1, <3>2, <3>3, OneMore DEF Counted
    <3>5. Behind' /\ Flagged'
      BY <1>a, <2>0, <2>2, <2>5, <3>1, <3>3 DEF Behind, Flagged
    <3>6. NothingMissed'
      BY <1>a, <2>0, <2>2, <2>5, <3>3 DEF NothingMissed
    <3>7. IterTypeOK'
      BY <1>a, <2>0, <2>5, <3>1 DEF IterTypeOK
    <3> QED
      BY <1>a, <2>0, <2>5, <3>4, <3>5, <3>6, <3>7 DEF IterInv, Scanning, Excluded
  <2>6. CASE d < tail - head /\ head' = head + d /\ UNCHANGED <<front, calls, pc>>
    <3>1. NothingMissed'
      BY <1>a, <2>0, <2>2, <2>6 DEF NothingMissed, Yielded
    <3>2. Behind' /\ Flagged' /\ Counted'
      BY <1>a, <2>0, <2>2, <2>6 DEF Behind, Flagged, Counted, Yielded
    <3>3. head' \in 0 .. Size /\ head' < tail
      BY <1>a, <2>2, <2>6
    <3> QED
      BY <1>a, <2>0, <2>6, <3>1, <3>2, <3>3 DEF IterInv, IterTypeOK, Scanning, Excluded
  <2> QED
    BY <2>3, <2>4, <2>5, <2>6
<1>4. CASE next_back
  <2>0. /\ pc = "next_back" /\ head < tail /\ tail >= 1
        /\ UNCHANGED <<exclusive, bitmap, changed, head, in_use, front>>
    BY <1>4, <1>a DEF next_back, Scanning
  <2>1. PICK w \in Load((tail - 1) \div BITS) :
       LET bme == Shl(w, BackShift)
           d   == BackDistance(bme)
       IN  \/ /\ AtEnd(d)
              /\ tail' = head
              /\ pc' = "ready"
              /\ UNCHANGED <<back, calls>>
           \/ /\ ~AtEnd(d)
              /\ bme # {}
              /\ tail' = tail - d - 1
              /\ back' = back \cup {tail - d - 1}
              /\ calls' = calls + 1
              /\ pc' = "ready"
           \/ /\ ~AtEnd(d)
              /\ bme = {}
              /\ tail' = tail - d
              /\ UNCHANGED <<back, calls, pc>>
    BY <1>4 DEF next_back
  <2> DEFINE bme == Shl(w, BackShift)
             d   == BackDistance(bme)
  <2>2. /\ d \in Nat
        /\ bme # {} => tail - d - 1 \in bitmap \cup changed
        /\ \A i \in bitmap \ changed : i < tail => i < tail - d
    BY <1>a, <2>0, BackwardTurn
  <2>3. \/ d >= tail - head /\ tail' = head /\ pc' = "ready" /\ UNCHANGED <<back, calls>>
        \/ /\ d < tail - head /\ bme # {} /\ tail' = tail - d - 1
           /\ back' = back \cup {tail - d - 1} /\ calls' = calls + 1 /\ pc' = "ready"
        \/ d < tail - head /\ tail' = tail - d /\ UNCHANGED <<back, calls, pc>>
    <3> HIDE DEF d, bme
    <3>1. AtEnd(d) <=> d >= tail - head
      BY DEF AtEnd
    <3>2. ~(d >= tail - head) => d < tail - head
      BY <1>a, <2>2
    <3> USE DEF d, bme
    <3> QED
      BY <2>1, <3>1, <3>2
  <2> HIDE DEF d, bme
  <2>4. CASE d >= tail - head /\ tail' = head /\ pc' = "ready" /\ UNCHANGED <<back, calls>>
    <3>1. NothingMissed'
      BY <1>a, <2>0, <2>2, <2>4 DEF NothingMissed, Yielded
    <3>2. Behind' /\ Flagged' /\ Counted'
      BY <1>a, <2>0, <2>4 DEF Behind, Flagged, Counted, Yielded
    <3> QED
      BY <1>a, <2>0, <2>4, <3>1, <3>2 DEF IterInv, IterTypeOK, Scanning, Excluded
  <2>5. CASE /\ d < tail - head /\ bme # {} /\ tail' = tail - d - 1
             /\ back' = back \cup {tail - d - 1} /\ calls' = calls + 1 /\ pc' = "ready"
    <3>1. /\ tail - d - 1 \in Slots /\ tail' \in 0 .. Size /\ head <= tail' /\ tail' < tail
          /\ tail - d - 1 \in bitmap \cup changed
      BY <1>a, <2>2, <2>5
    <3>2. tail - d - 1 \notin Yielded
      BY <1>a, <2>2, <2>5, <3>1 DEF Behind, Yielded
    <3>3. Yielded' = Yielded \cup {tail - d - 1}
      BY <2>0, <2>5 DEF Yielded
    <3>4. Counted'
      BY <1>a, <2>0, <2>5, <3>1, <3>2, <3>3, OneMore DEF Counted
    <3>5. Behind' /\ Flagged'
      BY <1>a, <2>0, <2>2, <2>5, <3>1, <3>3 DEF Behind, Flagged
    <3>6. NothingMissed'
      BY <1>a, <2>0, <2>2, <2>5, <3>3 DEF NothingMissed
    <3>7. IterTypeOK'
      BY <1>a, <2>0, <2>5, <3>1 DEF IterTypeOK
    <3> QED
      BY <1>a, <2>0, <2>5, <3>4, <3>5, <3>6, <3>7 DEF IterInv, Scanning, Excluded
  <2>6. CASE d < tail - head /\ tail' = tail - d /\ UNCHANGED <<back, calls, pc>>
    <3>1. NothingMissed'
      BY <1>a, <2>0, <2>2, <2>6 DEF NothingMissed, Yielded
    <3>2. Behind' /\ Flagged' /\ Counted'
      BY <1>a, <2>0, <2>2, <2>6 DEF Behind, Flagged, Counted, Yielded
    <3>3. tail' \in 0 .. Size /\ head < tail'
      BY <1>a, <2>2, <2>6
    <3> QED
      BY <1>a, <2>0, <2>6, <3>1, <3>2, <3>3 DEF IterInv, IterTypeOK, Scanning, Excluded
  <2> QED
    BY <2>3, <2>4, <2>5, <2>6
<1>5. CASE Exhausted \/ UNCHANGED iterVars
  BY <1>a, <1>5 DEF Exhausted, iterVars, IterInv, IterTypeOK, Scanning, Behind, Flagged,
                    Excluded, Counted, NothingMissed, Yielded
<1> QED
  BY <1>1, <1>2, <1>3, <1>4, <1>5 DEF IterNext

LEMMA IterInductive == IterSpec => []IterInv
<1>1. IterInit => IterInv
  <2> SUFFICES ASSUME IterInit PROVE IterInv
    OBVIOUS
  <2>1. Yielded = {} /\ Cardinality(Yielded) = 0
    BY FS_EmptySet DEF IterInit, Yielded
  <2>2. Cardinality(bitmap) \in Nat
    BY FiniteSlots DEF IterInit
  <2>3. IterTypeOK
    BY <2>2, IterAssumption DEF IterInit, IterTypeOK
  <2>4. \A i \in bitmap : i >= 0
    BY DEF IterInit, Slots
  <2> QED
    BY <2>1, <2>3, <2>4 DEF IterInit, IterInv, Scanning, Behind, Flagged, Excluded, Counted,
                            NothingMissed
<1> QED
  BY <1>1, IterStep, PTL DEF IterSpec

(***************************************************************************)
(* The unsigned tail - head never underflows and no index leaves the table *)
(* (Iter::next and next_back, for every BITS and every size).              *)
(***************************************************************************)
THEOREM IterTypes == IterSpec => []IterTypeOK
<1>1. IterInv => IterTypeOK
  BY DEF IterInv
<1> QED
  BY <1>1, IterInductive, PTL

(***************************************************************************)
(* Neither loop loads a word outside the bitmap, on any of its turns.      *)
(***************************************************************************)
THEOREM LoadsStayInside == IterSpec => []LoadsInBounds
<1>1. IterInv => LoadsInBounds
  <2> SUFFICES ASSUME IterInv
               PROVE  /\ pc = "next" => head \div BITS < Words
                      /\ pc = "next_back" => tail >= 1 /\ (tail - 1) \div BITS < Words
    BY DEF LoadsInBounds
  <2>1. head \in Nat /\ tail \in Nat /\ tail <= Size /\ Size \in Nat
    BY IterAssumption DEF IterInv, IterTypeOK
  <2>2. ASSUME pc = "next" PROVE head \div BITS < Words
    <3>1. head < Size
      BY <2>1, <2>2 DEF IterInv, Scanning
    <3> QED
      BY <2>1, <3>1, SlotInBitmap
  <2>3. ASSUME pc = "next_back" PROVE tail >= 1 /\ (tail - 1) \div BITS < Words
    <3>1. tail >= 1 /\ tail - 1 \in Nat /\ tail - 1 < Size
      BY <2>1, <2>3 DEF IterInv, Scanning
    <3> QED
      BY <3>1, SlotInBitmap
  <2> QED
    BY <2>2, <2>3
<1> QED
  BY <1>1, IterInductive, PTL

(***************************************************************************)
(* An item present throughout is yielded or still ahead, from whichever    *)
(* end the scan comes: the shift and the count of zeros in a word skip     *)
(* nothing, for every width of a word.                                     *)
(***************************************************************************)
THEOREM ScanMissesNothing == IterSpec => []NothingMissed
<1>1. IterInv => NothingMissed
  BY DEF IterInv
<1> QED
  BY <1>1, IterInductive, PTL

\* No index is yielded twice, also not by the two ends together.
THEOREM YieldsEachOnce == IterSpec => []EachOnce
<1>1. IterInv => EachOnce
  BY DEF IterInv, Counted, Behind, EachOnce
<1> QED
  BY <1>1, IterInductive, PTL

(***************************************************************************)
(* ExclIter::count and size_hint answer what was yielded plus what is      *)
(* still to come: exact for a fresh iterator, of every capacity and word   *)
(* size, and too large by the items yielded for one that has advanced.     *)
(***************************************************************************)
THEOREM CountIsTotal == IterSpec => []ExclCount
<1>1. IterInv => ExclCount
  <2> SUFFICES ASSUME IterInv, exclusive
               PROVE  in_use = calls + Cardinality(Remaining)
    BY DEF ExclCount
  <2>1. changed = {} /\ Yielded \subseteq bitmap
    BY DEF IterInv, Excluded, Flagged
  <2>2. bitmap = Yielded \cup Remaining
    BY <2>1 DEF IterInv, NothingMissed, Remaining
  <2>3. Yielded \cap Remaining = {}
    <3>1. \A i \in bitmap : i \in Int
      BY DEF IterInv, IterTypeOK, Slots
    <3>2. head \in Int /\ tail \in Int
      BY DEF IterInv, IterTypeOK
    <3>3. \A i \in Yielded : i < head \/ tail <= i
      BY DEF IterInv, Behind, Yielded
    <3> QED
      BY <3>1, <3>2, <3>3 DEF Remaining
  <2>4. Yielded \in SUBSET Slots /\ Remaining \in SUBSET Slots
    BY <2>1 DEF IterInv, IterTypeOK, Remaining
  <2>5. /\ IsFiniteSet(Yielded) /\ Cardinality(Yielded) \in Nat
        /\ IsFiniteSet(Remaining) /\ Cardinality(Remaining) \in Nat
    BY <2>4, FiniteSlots
  <2>6. Cardinality(Yielded \cup Remaining)
          = Cardinality(Yielded) + Cardinality(Remaining) - Cardinality(Yielded \cap Remaining)
    BY <2>5, FS_Union
  <2>7. Cardinality(Yielded \cap Remaining) = 0
    BY <2>3, FS_EmptySet
  <2>8. Cardinality(bitmap) = Cardinality(Yielded) + Cardinality(Remaining)
    BY <2>2, <2>5, <2>6, <2>7
  <2> QED
    BY <2>8 DEF IterInv, Counted
<1> QED
  BY <1>1, IterInductive, PTL

=============================================================================
