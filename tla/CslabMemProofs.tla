--------------------------- MODULE CslabMemProofs ---------------------------
(***************************************************************************)
(* The memory orderings of Cslab are enough, for every number of slots and *)
(* readers, every width of a word and every number of stores.              *)
(***************************************************************************)
EXTENDS CslabMem, TLAPS

Orderings == {"Release", "Relaxed"}
FlagStore == [val : SUBSET Slots, time : Nat, ord : Orderings]
MaxStore  == [val : Nat, time : Nat, ord : Orderings]
Nonempty(h) == Len(h) >= 1

\* Every variable has its type.
MemTypeOK ==
  /\ life \in [Slots -> {"free", "present", "marked"}]
  /\ active \in SUBSET Readers
  /\ blocks \in [Readers -> SUBSET Slots]
  /\ time \in Nat
  /\ words \in [Words -> Seq(FlagStore)]
  /\ fronts \in Seq(MaxStore)
  /\ cell \in [Slots -> [item : BOOLEAN, time : Nat]]
  /\ step \in [op : {"none", "Im", "Ib"}, idx : Slots \cup {-1}]
  /\ seen \in [Readers -> Nat]
  /\ last \in [Readers -> [Words -> Nat \ {0}]]
  /\ got \in [Readers -> SUBSET Slots]

\* A reader that does not exist has nothing to see; what one may not have
\* seen is not recycled.
BlocksMarked ==
  /\ \A r \in active : \A i \in blocks[r] : life[i] = "marked"
  /\ \A r \in Readers \ active : blocks[r] = {} /\ got[r] = {}

\* The running insert() has stored its item, and, when the flag is next, a
\* frontier above it.
InsertSteps ==
  /\ step.op = "none" <=> step = Idle
  /\ step.op # "none" => /\ step.idx \in Slots
                         /\ life[step.idx] = "free"
                         /\ cell[step.idx].item
  /\ step.op = "Ib" => Newest(fronts) > step.idx

\* A slot that is not free has an item.
ItemsThere ==
  /\ \A i \in Slots : life[i] # "free" => cell[i].item
  /\ \A i \in Slots : cell[i].time <= time

\* The newest store of a word has the flags of the items present, and is
\* newer than the items.
NewestFlags ==
  \A w \in Words :
    /\ Nonempty(words[w])
    /\ \A i \in Slots : i \in Newest(words[w]) <=> Word(i) = w /\ life[i] = "present"
    /\ \A i \in Newest(words[w]) : cell[i].time < words[w][Len(words[w])].time

\* Every store that sets a flag releases, and a frontier above the flag was
\* stored before it.
FlagStores ==
  \A w \in Words : \A n \in 1 .. Len(words[w]) :
    /\ words[w][n].time <= time
    /\ \A i \in words[w][n].val :
         /\ words[w][n].ord = "Release"
         /\ \E l \in 1 .. Len(fronts) : fronts[l].val > i /\ fronts[l].time <= words[w][n].time

\* The frontier grows.
FrontsGrow ==
  /\ Nonempty(fronts)
  /\ \A n \in 1 .. Len(fronts) : fronts[n].time <= time
  /\ \A m, n \in 1 .. Len(fronts) : m <= n => fronts[m].val <= fronts[n].val

\* What a reader has loaded is a store.
LastLoaded == \A r \in Readers, w \in Words : last[r][w] <= Len(words[w])

\* The flags a reader may load as set are those of this tenant of the slot.
LoadsCurrent ==
  \A r \in active, w \in Words : \A n \in Loadable(words[w], seen[r], last[r][w]) :
    \A i \in words[w][n].val :
      /\ life[i] = "present" \/ i \in blocks[r]
      /\ cell[i].time <= words[w][n].time

\* What a reader has seen flagged is there, and the reader knows it.
GotKnown ==
  \A r \in active : \A i \in got[r] :
    /\ life[i] = "present" \/ i \in blocks[r]
    /\ cell[i].time <= seen[r]
    /\ \E l \in 1 .. Len(fronts) : fronts[l].val > i /\ fronts[l].time <= seen[r]

MemInv ==
  /\ MemTypeOK /\ BlocksMarked /\ InsertSteps /\ ItemsThere /\ NewestFlags
  /\ FlagStores /\ FrontsGrow /\ LastLoaded /\ LoadsCurrent /\ GotKnown

----------------------------------------------------------------------------
(* Histories of stores.                                                    *)

\* A new store is the last of its history and leaves the others where they are.
LEMMA AppendFacts ==
  ASSUME NEW S, NEW h \in Seq(S), NEW e \in S
  PROVE  /\ Append(h, e) \in Seq(S)
         /\ Len(Append(h, e)) = Len(h) + 1
         /\ Len(h) \in Nat
         /\ \A n \in 1 .. Len(h) : Append(h, e)[n] = h[n] /\ h[n] \in S
         /\ Append(h, e)[Len(h) + 1] = e
  OBVIOUS

\* The more a reader knows and has loaded, the fewer stores it may load.
LEMMA LoadableShrinks ==
  ASSUME NEW h, Len(h) \in Nat, \A n \in 1 .. Len(h) : h[n].time \in Nat,
         NEW k \in Nat, NEW k2 \in Nat, k <= k2,
         NEW m \in Nat \ {0}, NEW m2 \in Nat \ {0}, m <= m2
  PROVE  Loadable(h, k2, m2) \subseteq Loadable(h, k, m)
<1> SUFFICES ASSUME NEW n \in Loadable(h, k2, m2)
             PROVE  n \in Loadable(h, k, m)
  OBVIOUS
<1>1. n \in m .. Len(h) /\ \A l \in n + 1 .. Len(h) : h[l].time > k2
  BY DEF Loadable
<1>2. ASSUME NEW l \in n + 1 .. Len(h)
      PROVE  h[l].time > k
  BY <1>1
<1> QED
  BY <1>1, <1>2 DEF Loadable

\* A reader that knows every store made so far may load only the newest.
LEMMA LoadableNewest ==
  ASSUME NEW h, Len(h) \in Nat, NEW k \in Nat, NEW m \in Nat \ {0},
         \A n \in 1 .. Len(h) : h[n].time \in Nat /\ h[n].time <= k
  PROVE  \A n \in Loadable(h, k, m) : n = Len(h)
<1> SUFFICES ASSUME NEW n \in Loadable(h, k, m), n # Len(h)
             PROVE  FALSE
  OBVIOUS
<1>1. n \in m .. Len(h) /\ \A l \in n + 1 .. Len(h) : h[l].time > k
  BY DEF Loadable
<1>2. n + 1 \in n + 1 .. Len(h) /\ n + 1 \in 1 .. Len(h)
  BY <1>1
<1> QED
  BY <1>1, <1>2

\* What may be loaded after a store could be loaded before it, or is that store.
LEMMA LoadableAppend ==
  ASSUME NEW S, NEW h \in Seq(S), NEW e \in S, NEW k \in Nat, NEW m \in Nat \ {0}
  PROVE  \A n \in Loadable(Append(h, e), k, m) : n \in Loadable(h, k, m) \/ n = Len(h) + 1
<1> SUFFICES ASSUME NEW n \in Loadable(Append(h, e), k, m), n # Len(h) + 1
             PROVE  n \in Loadable(h, k, m)
  OBVIOUS
<1>1. /\ n \in m .. Len(h) + 1
      /\ \A l \in n + 1 .. Len(h) + 1 : Append(h, e)[l].time > k
      /\ Len(h) \in Nat
  BY AppendFacts DEF Loadable
<1>2. ASSUME NEW l \in n + 1 .. Len(h)
      PROVE  h[l].time > k
  <2>1. l \in n + 1 .. Len(h) + 1 /\ l \in 1 .. Len(h)
    BY <1>1
  <2>2. Append(h, e)[l] = h[l]
    BY <2>1, AppendFacts
  <2> QED
    BY <1>1, <2>1, <2>2
<1> QED
  BY <1>1, <1>2 DEF Loadable

----------------------------------------------------------------------------
(* Types, and what a store to a word of the bitmap changes.                *)

LEMMA WordType == \A i \in Slots : Word(i) \in Words
  BY DEF Words

\* The newest of a history's stores is one of them.
LEMMA NewestType ==
  ASSUME MemTypeOK, NewestFlags, FrontsGrow
  PROVE  /\ \A w \in Words : /\ Len(words[w]) \in Nat \ {0}
                             /\ \A n \in 1 .. Len(words[w]) : words[w][n] \in FlagStore
                             /\ words[w][Len(words[w])] \in FlagStore
                             /\ Newest(words[w]) \in SUBSET Slots
         /\ Len(fronts) \in Nat \ {0}
         /\ \A n \in 1 .. Len(fronts) : fronts[n] \in MaxStore
         /\ Newest(fronts) \in Nat
<1>1. ASSUME NEW w \in Words
      PROVE  /\ Len(words[w]) \in Nat \ {0}
             /\ \A n \in 1 .. Len(words[w]) : words[w][n] \in FlagStore
             /\ words[w][Len(words[w])] \in FlagStore
             /\ Newest(words[w]) \in SUBSET Slots
  <2>1. words[w] \in Seq(FlagStore) /\ Len(words[w]) >= 1
    BY DEF MemTypeOK, NewestFlags, Nonempty
  <2>2. Len(words[w]) \in Nat \ {0} /\ \A n \in 1 .. Len(words[w]) : words[w][n] \in FlagStore
    BY <2>1
  <2>3. words[w][Len(words[w])] \in FlagStore
    BY <2>2
  <2> QED
    BY <2>2, <2>3 DEF Newest, FlagStore
<1>2. fronts \in Seq(MaxStore) /\ Len(fronts) >= 1
  BY DEF MemTypeOK, FrontsGrow, Nonempty
<1>3. Len(fronts) \in Nat \ {0} /\ \A n \in 1 .. Len(fronts) : fronts[n] \in MaxStore
  BY <1>2
<1>4. fronts[Len(fronts)] \in MaxStore
  BY <1>3
<1> QED
  BY <1>1, <1>3, <1>4 DEF Newest, MaxStore

\* A store of value v to word w0.
StoreTo(w0, v) == words' = [words EXCEPT ![w0] = Append(@, Store(v, "Release"))]

LEMMA StoreFacts ==
  ASSUME MemTypeOK, NEW w0 \in Words, NEW v \in SUBSET Slots, StoreTo(w0, v)
  PROVE  /\ Store(v, "Release") \in FlagStore
         /\ words' \in [Words -> Seq(FlagStore)]
         /\ words'[w0] = Append(words[w0], Store(v, "Release"))
         /\ Len(words[w0]) \in Nat
         /\ Len(words'[w0]) = Len(words[w0]) + 1
         /\ \A n \in 1 .. Len(words[w0]) : words'[w0][n] = words[w0][n] /\ words[w0][n] \in FlagStore
         /\ words'[w0][Len(words[w0]) + 1] = Store(v, "Release")
         /\ \A w \in Words : w # w0 => words'[w] = words[w]
<1>1. Store(v, "Release") \in FlagStore
  BY DEF Store, FlagStore, Orderings, MemTypeOK
<1>2. words[w0] \in Seq(FlagStore) /\ words \in [Words -> Seq(FlagStore)]
  BY DEF MemTypeOK
<1>3. words'[w0] = Append(words[w0], Store(v, "Release"))
  BY <1>2 DEF StoreTo
<1>4. \A w \in Words : w # w0 => words'[w] = words[w]
  BY <1>2 DEF StoreTo
<1>5. Append(words[w0], Store(v, "Release")) \in Seq(FlagStore)
  BY <1>1, <1>2, AppendFacts
<1>6. words' \in [Words -> Seq(FlagStore)]
  BY <1>2, <1>5 DEF StoreTo
<1> QED
  BY <1>1, <1>2, <1>3, <1>4, <1>6, AppendFacts

\* The two stores to the bitmap.
LEMMA BitmapStores ==
  /\ store_flag => StoreTo(Word(step.idx), Newest(words[Word(step.idx)]) \cup {step.idx})
  /\ \A i \in Slots : clear_flag(i) => StoreTo(Word(i), Newest(words[Word(i)]) \ {i})
  BY DEF store_flag, clear_flag, StoreTo, IbOrdering, RbOrdering

\* The store to the frontier, or none.
LEMMA FrontierStore ==
  ASSUME MemInv, store_frontier
  PROVE  /\ step.idx \in Slots /\ step.idx \in Nat
         /\ fronts' \in Seq(MaxStore)
         /\ \/ /\ step.idx >= Newest(fronts)
               /\ Len(fronts') = Len(fronts) + 1
               /\ \A n \in 1 .. Len(fronts) : fronts'[n] = fronts[n]
               /\ fronts'[Len(fronts) + 1] = Store(step.idx + 1, "Relaxed")
            \/ step.idx < Newest(fronts) /\ fronts' = fronts
<1>1. step.idx \in Slots /\ step.idx \in Nat
  BY MemAssumption DEF MemInv, InsertSteps, store_frontier
<1>2. fronts \in Seq(MaxStore) /\ Newest(fronts) \in Nat
  BY NewestType DEF MemInv, MemTypeOK
<1>3. Store(step.idx + 1, "Relaxed") \in MaxStore
  BY <1>1 DEF Store, MaxStore, Orderings, MemInv, MemTypeOK
<1>4. CASE step.idx >= Newest(fronts)
  <2>1. fronts' = Append(fronts, Store(step.idx + 1, "Relaxed"))
    BY <1>4 DEF store_frontier
  <2> QED
    BY <1>1, <1>2, <1>3, <1>4, <2>1, AppendFacts
<1>5. CASE step.idx < Newest(fronts)
  <2>1. fronts' = fronts
    BY <1>1, <1>2, <1>5 DEF store_frontier
  <2> QED
    BY <1>1, <1>2, <1>5, <2>1
<1> QED
  BY <1>1, <1>2, <1>4, <1>5

\* What a reader loads is a store of that word.
LEMMA LoadFacts ==
  ASSUME MemInv, NEW r \in Readers, NEW w \in Words, load_word(r, w)
  PROVE  \E n \in Loadable(words[w], seen[r], last[r][w]) :
           /\ n \in 1 .. Len(words[w]) /\ n >= last[r][w]
           /\ words[w][n] \in FlagStore
           /\ last' = [last EXCEPT ![r][w] = n]
           /\ got' = [got EXCEPT ![r] = @ \cup words[w][n].val]
           /\ seen' \in [Readers -> Nat]
           /\ seen[r] <= seen'[r]
           /\ words[w][n].ord = "Release" => words[w][n].time <= seen'[r]
           /\ \A q \in Readers : q # r => seen'[q] = seen[q]
<1>1. PICK n \in Loadable(words[w], seen[r], last[r][w]) :
           /\ last' = [last EXCEPT ![r][w] = n]
           /\ got' = [got EXCEPT ![r] = @ \cup words[w][n].val]
           /\ seen' = IF words[w][n].ord = "Release" /\ words[w][n].time > seen[r]
                      THEN [seen EXCEPT ![r] = words[w][n].time] ELSE seen
  BY DEF load_word, GbOrdering
<1>2. last[r][w] \in Nat \ {0} /\ seen[r] \in Nat /\ seen \in [Readers -> Nat]
  BY DEF MemInv, MemTypeOK
<1>3. n \in 1 .. Len(words[w]) /\ n >= last[r][w] /\ Len(words[w]) \in Nat
  BY <1>2, NewestType DEF Loadable, MemInv
<1>4. words[w][n] \in FlagStore
  BY <1>3, NewestType DEF MemInv
<1>5. words[w][n].time \in Nat
  BY <1>4 DEF FlagStore
<1>6. /\ seen' \in [Readers -> Nat]
      /\ seen[r] <= seen'[r]
      /\ words[w][n].ord = "Release" => words[w][n].time <= seen'[r]
      /\ \A q \in Readers : q # r => seen'[q] = seen[q]
  <2>1. CASE words[w][n].ord = "Release" /\ words[w][n].time > seen[r]
    BY <1>1, <1>2, <1>5, <2>1
  <2>2. CASE ~(words[w][n].ord = "Release" /\ words[w][n].time > seen[r])
    BY <1>1, <1>2, <1>5, <2>2
  <2> QED
    BY <2>1, <2>2
<1> QED
  BY <1>1, <1>3, <1>4, <1>6

\* MemTypeOK, one step per action.
LEMMA MemTypeStep ==
  ASSUME MemInv, [MemNext]_memVars
  PROVE  MemTypeOK'
<1> USE DEF MemTypeOK, gpVars
<1> MemTypeOK
  BY DEF MemInv
<1>1. ASSUME NEW i \in Slots, store_item(i)
      PROVE  MemTypeOK'
  BY <1>1 DEF store_item, Tick, FirstStore
<1>2. ASSUME NEW i \in Slots, clear_flag(i)
      PROVE  MemTypeOK'
  <2>1. words' \in [Words -> Seq(FlagStore)]
    BY <1>2, BitmapStores, StoreFacts, NewestType, WordType DEF MemInv
  <2> QED
    BY <1>2, <2>1 DEF clear_flag, Tick, Mark
<1>3. ASSUME NEW i \in Slots, take_item(i)
      PROVE  MemTypeOK'
  BY <1>3 DEF take_item, Tick, Recycle
<1>4. CASE store_frontier
  <2>1. step.idx \in Slots /\ fronts' \in Seq(MaxStore)
    BY <1>4, FrontierStore
  <2>2. step' \in [op : {"none", "Im", "Ib"}, idx : Slots \cup {-1}]
    BY <1>4, <2>1 DEF store_frontier, FirstStore
  <2> QED
    BY <1>4, <2>1, <2>2 DEF store_frontier, Tick
<1>5. CASE store_flag
  <2>1. step.idx \in Slots
    BY <1>5 DEF store_flag, MemInv, InsertSteps
  <2> DEFINE w == Word(step.idx)
             v == Newest(words[w]) \cup {step.idx}
  <2>2. w \in Words /\ v \in SUBSET Slots /\ StoreTo(w, v)
    BY <1>5, <2>1, BitmapStores, NewestType, WordType DEF MemInv
  <2> HIDE DEF w, v
  <2>3. words' \in [Words -> Seq(FlagStore)]
    BY <2>2, StoreFacts
  <2>4. step' \in [op : {"none", "Im", "Ib"}, idx : Slots \cup {-1}]
    BY <1>5, <2>1 DEF store_flag, FirstStore, Idle
  <2>5. life' \in [Slots -> {"free", "present", "marked"}]
    BY <1>5, <2>1 DEF store_flag, Fill
  <2> QED
    BY <1>5, <2>3, <2>4, <2>5 DEF store_flag, Tick, Fill
<1>6. ASSUME NEW r \in Readers, begin(r)
      PROVE  MemTypeOK'
  BY <1>6 DEF begin, Enter
<1>7. ASSUME NEW r \in Readers, end(r)
      PROVE  MemTypeOK'
  BY <1>7 DEF end, Exit
<1>8. ASSUME NEW r \in Readers, NEW s \in Readers, copy(r, s)
      PROVE  MemTypeOK'
  BY <1>8 DEF copy, Clone
<1>9. ASSUME NEW r \in Readers, NEW w \in Words, load_word(r, w)
      PROVE  MemTypeOK'
  <2>1. PICK n \in 1 .. Len(words[w]) :
           /\ words[w][n] \in FlagStore
           /\ last' = [last EXCEPT ![r][w] = n]
           /\ got' = [got EXCEPT ![r] = @ \cup words[w][n].val]
           /\ seen' \in [Readers -> Nat]
    BY <1>9, LoadFacts
  <2>2. words[w][n].val \in SUBSET Slots
    BY <2>1 DEF FlagStore
  <2>3. got' \in [Readers -> SUBSET Slots]
    BY <2>1, <2>2
  <2>4. last' \in [Readers -> [Words -> Nat \ {0}]]
    BY <2>1
  <2> QED
    BY <1>9, <2>1, <2>3, <2>4 DEF load_word
<1>10. CASE UNCHANGED memVars
  BY <1>10 DEF memVars
<1> QED
  BY <1>1, <1>2, <1>3, <1>4, <1>5, <1>6, <1>7, <1>8, <1>9, <1>10 DEF MemNext

----------------------------------------------------------------------------
(* The invariant, by parts.                                                *)

LEMMA ItemsStep ==
  ASSUME MemInv, [MemNext]_memVars
  PROVE  BlocksMarked' /\ InsertSteps' /\ ItemsThere'
<1> USE DEF gpVars, Tick, BlocksMarked, InsertSteps, ItemsThere
<1> DEFINE Goal == BlocksMarked' /\ InsertSteps' /\ ItemsThere'
<1>a. MemTypeOK /\ BlocksMarked /\ InsertSteps /\ ItemsThere
  BY DEF MemInv
<1> USE <1>a DEF MemTypeOK
<1>1. ASSUME NEW i \in Slots, store_item(i) PROVE Goal
  BY <1>1 DEF store_item, FirstStore, Idle
<1>2. ASSUME NEW i \in Slots, clear_flag(i) PROVE Goal
  BY <1>2 DEF clear_flag, Mark, Idle
<1>3. ASSUME NEW i \in Slots, take_item(i) PROVE Goal
  BY <1>3 DEF take_item, Recycle, Idle
<1>4. CASE store_frontier
  <2>1. step.idx \in Slots /\ step.idx \in Nat
    BY <1>4, FrontierStore
  <2>2. Newest(fronts)' > step.idx
    <3>1. Newest(fronts) \in Nat /\ Len(fronts) \in Nat
      BY NewestType DEF MemInv
    <3>2. CASE step.idx >= Newest(fronts)
      <4>1. Len(fronts') = Len(fronts) + 1 /\ fronts'[Len(fronts) + 1].val = step.idx + 1
        BY <1>4, <2>1, <3>1, <3>2, FrontierStore DEF Store
      <4> QED
        BY <2>1, <4>1 DEF Newest
    <3>3. CASE step.idx < Newest(fronts)
      <4>1. fronts' = fronts
        BY <1>4, <2>1, <3>1, <3>3, FrontierStore
      <4> QED
        BY <3>1, <2>1, <3>3, <4>1 DEF Newest
    <3> QED
      BY <2>1, <3>1, <3>2, <3>3
  <2>3. step' = [op |-> "Ib", idx |-> step.idx]
    BY <1>4 DEF store_frontier, FirstStore
  <2> QED
    BY <1>4, <2>1, <2>2, <2>3 DEF store_frontier, Idle
<1>5. CASE store_flag
  <2>1. step.idx \in Slots /\ step' = Idle
    BY <1>5 DEF store_flag, FirstStore
  <2> QED
    BY <1>5, <2>1 DEF store_flag, Fill, Idle
<1>6. ASSUME NEW r \in Readers, begin(r) PROVE Goal
  BY <1>6 DEF begin, Enter
<1>7. ASSUME NEW r \in Readers, end(r) PROVE Goal
  BY <1>7 DEF end, Exit
<1>8. ASSUME NEW r \in Readers, NEW s \in Readers, copy(r, s) PROVE Goal
  BY <1>8 DEF copy, Clone
<1>9. ASSUME NEW r \in Readers, NEW w \in Words, load_word(r, w) PROVE Goal
  <2>1. \A q \in Readers \ active : got'[q] = got[q]
    BY <1>9, LoadFacts DEF load_word
  <2> QED
    BY <1>9, <2>1 DEF load_word
<1>10. CASE UNCHANGED memVars
  BY <1>10 DEF memVars
<1> QED
  BY <1>1, <1>2, <1>3, <1>4, <1>5, <1>6, <1>7, <1>8, <1>9, <1>10 DEF MemNext

\* The frontier grows, and its old stores stay.
LEMMA FrontsStep ==
  ASSUME MemInv, [MemNext]_memVars
  PROVE  /\ FrontsGrow'
         /\ \A l \in 1 .. Len(fronts) : l \in 1 .. Len(fronts') /\ fronts'[l] = fronts[l]
<1> DEFINE Goal == /\ FrontsGrow'
                   /\ \A l \in 1 .. Len(fronts) : l \in 1 .. Len(fronts') /\ fronts'[l] = fronts[l]
<1>a. /\ FrontsGrow /\ Len(fronts) \in Nat \ {0} /\ time \in Nat
      /\ \A n \in 1 .. Len(fronts) : fronts[n].val \in Nat /\ fronts[n].time \in Nat
  BY NewestType DEF MemInv, MemTypeOK, MaxStore
<1>1. CASE fronts' = fronts /\ (time' = time \/ time' = time + 1)
  BY <1>1, <1>a DEF FrontsGrow, Nonempty
<1>2. CASE store_frontier
  <2>1. CASE fronts' = fronts
    BY <1>1, <1>2, <2>1 DEF store_frontier, Tick
  <2>2. CASE fronts' # fronts
    <3>1. /\ step.idx \in Nat
          /\ step.idx >= Newest(fronts)
          /\ Len(fronts') = Len(fronts) + 1
          /\ \A n \in 1 .. Len(fronts) : fronts'[n] = fronts[n]
          /\ fronts'[Len(fronts) + 1] = Store(step.idx + 1, "Relaxed")
          /\ time' = time + 1
      BY <1>2, <2>2, FrontierStore DEF store_frontier, Tick
    <3>2. fronts'[Len(fronts')].val = step.idx + 1 /\ fronts'[Len(fronts')].time = time + 1
      BY <3>1 DEF Store
    <3>3. \A n \in 1 .. Len(fronts) : fronts[n].val <= Newest(fronts) /\ Newest(fronts) \in Nat
      BY <1>a DEF FrontsGrow, Newest
    <3>4. Nonempty(fronts)'
      BY <1>a, <3>1 DEF Nonempty
    <3>5. ASSUME NEW n \in 1 .. Len(fronts')
          PROVE  fronts'[n].time <= time'
      <4>1. CASE n = Len(fronts')
        BY <1>a, <3>1, <3>2, <4>1
      <4>2. CASE n # Len(fronts')
        BY <1>a, <3>1, <4>2 DEF FrontsGrow
      <4> QED
        BY <4>1, <4>2
    <3>6. ASSUME NEW m \in 1 .. Len(fronts'), NEW n \in 1 .. Len(fronts'), m <= n
          PROVE  fronts'[m].val <= fronts'[n].val
      <4>1. CASE n = Len(fronts') /\ m = n
        BY <3>1, <3>2, <4>1
      <4>2. CASE n = Len(fronts') /\ m # n
        <5>1. m \in 1 .. Len(fronts)
          BY <1>a, <3>1, <3>6, <4>2
        <5> QED
          BY <1>a, <3>1, <3>2, <3>3, <4>2, <5>1
      <4>3. CASE n # Len(fronts')
        <5>1. m \in 1 .. Len(fronts) /\ n \in 1 .. Len(fronts)
          BY <1>a, <3>1, <3>6, <4>3
        <5> QED
          BY <1>a, <3>1, <3>6, <5>1 DEF FrontsGrow
      <4> QED
        BY <4>1, <4>2, <4>3
    <3> QED
      BY <1>a, <3>1, <3>4, <3>5, <3>6 DEF FrontsGrow
  <2> QED
    BY <2>1, <2>2
<1> QED
  BY <1>1, <1>2
     DEF MemNext, memVars, store_item, clear_flag, take_item, store_flag, begin, end, copy,
         load_word, Tick

\* The bitmap: of the word stored to, and of the others.
LEMMA FlagsStored ==
  ASSUME MemInv, MemTypeOK', NEW w0 \in Words, NEW v \in SUBSET Slots, StoreTo(w0, v),
         time' = time + 1, UNCHANGED <<fronts, cell, last>>,
         \A i \in Slots : i \in v <=> Word(i) = w0 /\ life'[i] = "present",
         \A i \in Slots : Word(i) # w0 => life'[i] = life[i],
         \A i \in v : \E l \in 1 .. Len(fronts) : fronts[l].val > i /\ fronts[l].time <= time
  PROVE  NewestFlags' /\ FlagStores' /\ LastLoaded'
<1>a. /\ time \in Nat /\ Len(fronts) \in Nat \ {0}
      /\ \A l \in 1 .. Len(fronts) : fronts[l].time \in Nat
      /\ \A i \in Slots : cell[i].time \in Nat /\ cell[i].time <= time
  BY NewestType DEF MemInv, MemTypeOK, MaxStore, ItemsThere
<1>b. /\ Len(words[w0]) \in Nat
      /\ Len(words'[w0]) = Len(words[w0]) + 1
      /\ \A n \in 1 .. Len(words[w0]) : words'[w0][n] = words[w0][n]
      /\ words'[w0][Len(words'[w0])] = Store(v, "Release")
      /\ \A w \in Words : w # w0 => words'[w] = words[w]
  BY StoreFacts DEF MemInv
<1>c. NewestFlags /\ FlagStores /\ LastLoaded /\ MemTypeOK
  BY DEF MemInv
<1>1. ASSUME NEW w \in Words
      PROVE  /\ Nonempty(words'[w])
             /\ \A i \in Slots : i \in Newest(words'[w]) <=> Word(i) = w /\ life'[i] = "present"
             /\ \A i \in Newest(words'[w]) : cell'[i].time < words'[w][Len(words'[w])].time
  <2>1. CASE w = w0
    <3>1. Newest(words'[w]) = v /\ words'[w][Len(words'[w])].time = time + 1
      BY <1>b, <2>1 DEF Newest, Store
    <3> QED
      BY <1>a, <1>b, <2>1, <3>1 DEF Nonempty
  <2>2. CASE w # w0
    BY <1>b, <1>c, <2>2 DEF NewestFlags
  <2> QED
    BY <2>1, <2>2
<1>2. ASSUME NEW w \in Words, NEW n \in 1 .. Len(words'[w])
      PROVE  /\ words'[w][n].time <= time'
             /\ \A i \in words'[w][n].val :
                  /\ words'[w][n].ord = "Release"
                  /\ \E l \in 1 .. Len(fronts') :
                       fronts'[l].val > i /\ fronts'[l].time <= words'[w][n].time
  <2>1. CASE w = w0 /\ n = Len(words'[w])
    <3>1. words'[w][n] = [val |-> v, time |-> time + 1, ord |-> "Release"]
      BY <1>b, <2>1 DEF Store
    <3> QED
      BY <1>a, <3>1
  <2>2. CASE ~(w = w0 /\ n = Len(words'[w]))
    <3>1. n \in 1 .. Len(words[w]) /\ words'[w][n] = words[w][n]
      BY <1>b, <2>2
    <3>2. words[w][n].time \in Nat
      BY <3>1, NewestType DEF MemInv, FlagStore
    <3> QED
      BY <1>a, <1>c, <3>1, <3>2 DEF FlagStores
  <2> QED
    BY <2>1, <2>2
<1>3. LastLoaded'
  <2> SUFFICES ASSUME NEW r \in Readers, NEW w \in Words
               PROVE  last[r][w] <= Len(words'[w])
    BY DEF LastLoaded
  <2>1. last[r][w] <= Len(words[w]) /\ last[r][w] \in Nat
    BY <1>c DEF LastLoaded, MemTypeOK
  <2> QED
    BY <1>b, <2>1
<1> QED
  BY <1>1, <1>2, <1>3 DEF NewestFlags, FlagStores

\* A frontier above every flag of the newest store of a word is known by now.
LEMMA FlagTimes ==
  ASSUME MemInv, NEW w \in Words, NEW i \in Newest(words[w])
  PROVE  \E l \in 1 .. Len(fronts) : fronts[l].val > i /\ fronts[l].time <= time
<1>1. Len(words[w]) \in 1 .. Len(words[w]) /\ words[w][Len(words[w])] \in FlagStore
  BY NewestType DEF MemInv
<1>2. words[w][Len(words[w])].time \in Nat /\ words[w][Len(words[w])].time <= time
  BY <1>1 DEF FlagStore, MemInv, FlagStores
<1>3. PICK l \in 1 .. Len(fronts) :
         fronts[l].val > i /\ fronts[l].time <= words[w][Len(words[w])].time
  BY <1>1 DEF MemInv, FlagStores, Newest
<1>4. fronts[l].time \in Nat /\ time \in Nat
  BY NewestType DEF MemInv, MemTypeOK, MaxStore
<1> QED
  BY <1>2, <1>3, <1>4

LEMMA FlagsStep ==
  ASSUME MemInv, [MemNext]_memVars
  PROVE  NewestFlags' /\ FlagStores' /\ LastLoaded'
<1> DEFINE Goal == NewestFlags' /\ FlagStores' /\ LastLoaded'
<1>a. /\ NewestFlags /\ FlagStores /\ LastLoaded /\ MemTypeOK /\ MemTypeOK'
      /\ time \in Nat /\ Len(fronts) \in Nat \ {0}
      /\ \A l \in 1 .. Len(fronts) : fronts[l].time \in Nat
      /\ \A l \in 1 .. Len(fronts) : l \in 1 .. Len(fronts') /\ fronts'[l] = fronts[l]
      /\ \A w \in Words : \A n \in 1 .. Len(words[w]) : words[w][n].time \in Nat
  BY NewestType, MemTypeStep, FrontsStep DEF MemInv, MemTypeOK, MaxStore, FlagStore
<1>b. ASSUME UNCHANGED words, time' = time \/ time' = time + 1
      PROVE  FlagStores'
  <2> SUFFICES ASSUME NEW w \in Words, NEW n \in 1 .. Len(words[w])
               PROVE  /\ words[w][n].time <= time'
                      /\ \A i \in words[w][n].val :
                           /\ words[w][n].ord = "Release"
                           /\ \E l \in 1 .. Len(fronts') :
                                fronts'[l].val > i /\ fronts'[l].time <= words[w][n].time
    BY <1>b DEF FlagStores
  <2>1. words[w][n].time <= time'
    BY <1>a, <1>b DEF FlagStores
  <2>2. ASSUME NEW i \in words[w][n].val
        PROVE  /\ words[w][n].ord = "Release"
               /\ \E l \in 1 .. Len(fronts') :
                    fronts'[l].val > i /\ fronts'[l].time <= words[w][n].time
    <3>1. words[w][n].ord = "Release"
      BY <1>a DEF FlagStores
    <3>2. PICK l \in 1 .. Len(fronts) : fronts[l].val > i /\ fronts[l].time <= words[w][n].time
      BY <1>a DEF FlagStores
    <3> QED
      BY <1>a, <3>1, <3>2
  <2> QED
    BY <2>1, <2>2
<1>c. ASSUME UNCHANGED <<words, last>>, life' = life, cell' = cell, time' = time \/ time' = time + 1
      PROVE  Goal
  BY <1>a, <1>b, <1>c DEF NewestFlags, LastLoaded
<1>1. ASSUME NEW i \in Slots, store_item(i) PROVE Goal
  <2>1. NewestFlags'
    BY <1>1, <1>a DEF store_item, NewestFlags, MemTypeOK, gpVars, Newest
  <2> QED
    BY <1>1, <1>a, <1>b, <2>1 DEF store_item, Tick, LastLoaded
<1>2. ASSUME NEW i \in Slots, clear_flag(i) PROVE Goal
  <2> DEFINE w0 == Word(i)
             v  == Newest(words[w0]) \ {i}
  <2>1. w0 \in Words /\ v \in SUBSET Slots /\ StoreTo(w0, v)
    BY <1>2, WordType, BitmapStores, NewestType DEF MemInv
  <2>2. time' = time + 1 /\ UNCHANGED <<fronts, cell, last>>
    BY <1>2 DEF clear_flag, Tick
  <2>3. life' = [life EXCEPT ![i] = "marked"]
    BY <1>2 DEF clear_flag, Mark
  <2>4. \A j \in Slots : j \in Newest(words[w0]) <=> Word(j) = w0 /\ life[j] = "present"
    BY <1>a, <2>1 DEF NewestFlags
  <2>5. \A j \in Slots : j \in v <=> Word(j) = w0 /\ life'[j] = "present"
    BY <1>a, <2>3, <2>4 DEF MemTypeOK
  <2>6. \A j \in Slots : Word(j) # w0 => life'[j] = life[j]
    BY <1>a, <2>3 DEF MemTypeOK
  <2>7. \A j \in v : \E l \in 1 .. Len(fronts) : fronts[l].val > j /\ fronts[l].time <= time
    BY <1>a, <2>1, FlagTimes
  <2> HIDE DEF w0, v
  <2> QED
    BY <1>a, <2>1, <2>2, <2>5, <2>6, <2>7, FlagsStored
<1>3. ASSUME NEW i \in Slots, take_item(i) PROVE Goal
  <2>1. NewestFlags'
    BY <1>3, <1>a DEF take_item, Recycle, NewestFlags, MemTypeOK, Newest
  <2> QED
    BY <1>3, <1>a, <1>b, <2>1 DEF take_item, Tick, LastLoaded
<1>4. CASE store_frontier
  BY <1>4, <1>c DEF store_frontier, gpVars, Tick
<1>5. CASE store_flag
  <2> DEFINE i  == step.idx
             w0 == Word(i)
             v  == Newest(words[w0]) \cup {i}
  <2>1. i \in Slots /\ Newest(fronts) > i
    BY <1>5 DEF store_flag, MemInv, InsertSteps
  <2>2. w0 \in Words /\ v \in SUBSET Slots /\ StoreTo(w0, v)
    BY <1>5, <2>1, WordType, BitmapStores, NewestType DEF MemInv
  <2>3. time' = time + 1 /\ UNCHANGED <<fronts, cell, last>>
    BY <1>5 DEF store_flag, Tick
  <2>4. life' = [life EXCEPT ![i] = "present"]
    BY <1>5 DEF store_flag, Fill
  <2>5. \A j \in Slots : j \in Newest(words[w0]) <=> Word(j) = w0 /\ life[j] = "present"
    BY <1>a, <2>2 DEF NewestFlags
  <2>6. \A j \in Slots : j \in v <=> Word(j) = w0 /\ life'[j] = "present"
    BY <1>a, <2>1, <2>4, <2>5 DEF MemTypeOK
  <2>7. \A j \in Slots : Word(j) # w0 => life'[j] = life[j]
    BY <1>a, <2>1, <2>4 DEF MemTypeOK
  <2>8. ASSUME NEW j \in v
        PROVE  \E l \in 1 .. Len(fronts) : fronts[l].val > j /\ fronts[l].time <= time
    <3>1. CASE j = i
      BY <1>a, <2>1, <3>1 DEF Newest, MemInv, FrontsGrow
    <3>2. CASE j # i
      BY <1>a, <2>2, <3>2, FlagTimes
    <3> QED
      BY <3>1, <3>2
  <2> HIDE DEF w0, v, i
  <2> QED
    BY <1>a, <2>2, <2>3, <2>6, <2>7, <2>8, FlagsStored
<1>6. ASSUME NEW r \in Readers, begin(r) PROVE Goal
  BY <1>6, <1>c DEF begin, Enter
<1>7. ASSUME NEW r \in Readers, end(r) PROVE Goal
  <2>1. NewestFlags'
    BY <1>7, <1>a DEF end, Exit, NewestFlags
  <2>2. LastLoaded'
    BY <1>7, <1>a DEF end, LastLoaded, MemTypeOK, NewestFlags, Nonempty
  <2> QED
    BY <1>7, <1>a, <1>b, <2>1, <2>2 DEF end
<1>8. ASSUME NEW r \in Readers, NEW s \in Readers, copy(r, s) PROVE Goal
  <2>1. NewestFlags'
    BY <1>8, <1>a DEF copy, Clone, NewestFlags
  <2>2. LastLoaded'
    BY <1>8, <1>a DEF copy, LastLoaded, MemTypeOK
  <2> QED
    BY <1>8, <1>a, <1>b, <2>1, <2>2 DEF copy
<1>9. ASSUME NEW r \in Readers, NEW w \in Words, load_word(r, w) PROVE Goal
  <2>1. PICK n \in 1 .. Len(words[w]) : last' = [last EXCEPT ![r][w] = n]
    BY <1>9, LoadFacts
  <2>2. LastLoaded'
    BY <1>9, <1>a, <2>1, NewestType DEF load_word, LastLoaded, MemTypeOK, MemInv
  <2>3. NewestFlags'
    BY <1>9, <1>a DEF load_word, NewestFlags, gpVars
  <2> QED
    BY <1>9, <1>a, <1>b, <2>2, <2>3 DEF load_word
<1>10. CASE UNCHANGED memVars
  BY <1>10, <1>c DEF memVars, gpVars
<1> QED
  BY <1>1, <1>2, <1>3, <1>4, <1>5, <1>6, <1>7, <1>8, <1>9, <1>10 DEF MemNext

\* What r may load from word w is of the slots' present tenants.
LoadsOf(r, w) ==
  \A n \in Loadable(words[w], seen[r], last[r][w]) : \A i \in words[w][n].val :
    /\ life[i] = "present" \/ i \in blocks[r]
    /\ cell[i].time <= words[w][n].time

\* A store to the bitmap adds only flags of items present.
LEMMA LoadsStored ==
  ASSUME MemInv, NEW w0 \in Words, NEW v \in SUBSET Slots, StoreTo(w0, v),
         time' = time + 1, UNCHANGED <<cell, last, seen>>,
         \A i \in v : life'[i] = "present",
         NEW r \in active, r \in Readers, NEW w \in Words,
         \A i \in Slots : life[i] = "present" \/ i \in blocks[r]
                            => life'[i] = "present" \/ i \in blocks'[r]
  PROVE  LoadsOf(r, w)'
<1>a. LoadsOf(r, w) /\ MemTypeOK
  BY DEF MemInv, LoadsCurrent, LoadsOf
<1>b. /\ words[w] \in Seq(FlagStore) /\ Store(v, "Release") \in FlagStore
      /\ seen[r] \in Nat /\ last[r][w] \in Nat \ {0}
      /\ Len(words[w]) \in Nat
  BY StoreFacts, NewestType DEF MemInv, MemTypeOK
<1>1. CASE w # w0
  <2>1. words'[w] = words[w]
    BY <1>1, StoreFacts DEF MemInv
  <2>2. \A n \in Loadable(words[w], seen[r], last[r][w]) : words[w][n].val \subseteq Slots
    <3>1. \A n \in Loadable(words[w], seen[r], last[r][w]) : words[w][n] \in FlagStore
      BY <1>b DEF Loadable
    <3> QED
      BY <3>1 DEF FlagStore
  <2> QED
    BY <1>a, <2>1, <2>2 DEF LoadsOf, Loadable
<1>2. CASE w = w0
  <2> SUFFICES ASSUME NEW n \in Loadable(words'[w], seen[r], last[r][w]),
                      NEW i \in words'[w][n].val
               PROVE  /\ life'[i] = "present" \/ i \in blocks'[r]
                      /\ cell[i].time <= words'[w][n].time
    BY DEF LoadsOf, Loadable
  <2>1. words'[w] = Append(words[w], Store(v, "Release"))
    BY <1>2, StoreFacts DEF MemInv
  <2>2. n \in Loadable(words[w], seen[r], last[r][w]) \/ n = Len(words[w]) + 1
    BY <1>b, <2>1, LoadableAppend
  <2>3. CASE n = Len(words[w]) + 1
    <3>1. words'[w][n] = Store(v, "Release")
      BY <1>b, <2>1, <2>3, AppendFacts
    <3>2. i \in v /\ words'[w][n].time = time + 1
      BY <3>1 DEF Store
    <3> QED
      BY <3>2 DEF MemInv, MemTypeOK, ItemsThere
  <2>4. CASE n \in Loadable(words[w], seen[r], last[r][w])
    <3>1. n \in 1 .. Len(words[w])
      BY <1>b, <2>4 DEF Loadable
    <3>2. words'[w][n] = words[w][n] /\ words[w][n] \in FlagStore
      BY <1>b, <2>1, <3>1, AppendFacts
    <3>3. i \in Slots
      BY <3>2 DEF FlagStore
    <3> QED
      BY <1>a, <2>4, <3>2, <3>3 DEF LoadsOf
  <2> QED
    BY <2>2, <2>3, <2>4
<1> QED
  BY <1>1, <1>2

\* LoadsCurrent, one step per action.
LEMMA LoadsStep ==
  ASSUME MemInv, [MemNext]_memVars
  PROVE  LoadsCurrent'
<1> SUFFICES ASSUME NEW q \in active', NEW x \in Words
             PROVE  LoadsOf(q, x)'
  BY DEF LoadsCurrent, LoadsOf
<1>a. /\ MemTypeOK /\ MemTypeOK' /\ BlocksMarked /\ NewestFlags
      /\ \A r \in active, w \in Words : LoadsOf(r, w)
      /\ q \in Readers
  BY MemTypeStep DEF MemInv, MemTypeOK, LoadsCurrent, LoadsOf
<1>b. \A r \in Readers : \A n \in Loadable(words[x], seen[r], last[r][x]) :
        words[x][n].val \subseteq Slots /\ n \in 1 .. Len(words[x])
  <2> TAKE r \in Readers
  <2> TAKE n \in Loadable(words[x], seen[r], last[r][x])
  <2>1. last[r][x] \in Nat \ {0} /\ Len(words[x]) \in Nat
    BY <1>a, NewestType DEF MemInv, MemTypeOK
  <2>2. n \in 1 .. Len(words[x])
    BY <2>1 DEF Loadable
  <2> QED
    BY <2>2, NewestType DEF FlagStore, MemInv
<1>c. CASE UNCHANGED <<life, active, blocks, words, seen, last, cell>>
  BY <1>a, <1>c DEF LoadsOf, Loadable
<1>1. ASSUME NEW i \in Slots, store_item(i) PROVE LoadsOf(q, x)'
  <2>1. life[i] = "free" /\ q \in active /\ UNCHANGED <<life, active, blocks, words, seen, last>>
    BY <1>1 DEF store_item, gpVars
  <2>2. \A j \in Slots : j # i => cell'[j] = cell[j]
    BY <1>1, <1>a DEF store_item, MemTypeOK
  <2>3. i \notin blocks[q]
    BY <1>a, <2>1 DEF BlocksMarked
  <2> QED
    BY <1>a, <1>b, <2>1, <2>2, <2>3 DEF LoadsOf, Loadable
<1>2. ASSUME NEW i \in Slots, clear_flag(i) PROVE LoadsOf(q, x)'
  <2> DEFINE w0 == Word(i)
             v  == Newest(words[w0]) \ {i}
  <2>1. w0 \in Words /\ v \in SUBSET Slots /\ StoreTo(w0, v)
    BY <1>2, WordType, BitmapStores, NewestType DEF MemInv
  <2>2. time' = time + 1 /\ UNCHANGED <<cell, last, seen>> /\ q \in active
    BY <1>2 DEF clear_flag, Tick, Mark
  <2>3. life' = [life EXCEPT ![i] = "marked"] /\ blocks'[q] = blocks[q] \cup {i}
    BY <1>2, <1>a, <2>2 DEF clear_flag, Mark
  <2>4. \A j \in Newest(words[w0]) : life[j] = "present"
    BY <1>a, <2>1, NewestType DEF NewestFlags, MemInv
  <2>5. \A j \in v : life'[j] = "present"
    BY <1>a, <2>1, <2>3, <2>4 DEF MemTypeOK
  <2>6. \A j \in Slots : life[j] = "present" \/ j \in blocks[q]
                            => life'[j] = "present" \/ j \in blocks'[q]
    BY <1>a, <2>3 DEF MemTypeOK
  <2> HIDE DEF w0, v
  <2> QED
    BY <1>a, <2>1, <2>2, <2>5, <2>6, LoadsStored
<1>3. ASSUME NEW i \in Slots, take_item(i) PROVE LoadsOf(q, x)'
  <2>1. life[i] = "marked" /\ q \in active /\ i \notin blocks[q] /\ UNCHANGED <<active, blocks, words, seen, last>>
    BY <1>3 DEF take_item, Recycle
  <2>2. \A j \in Slots : j # i => cell'[j] = cell[j] /\ life'[j] = life[j]
    BY <1>3, <1>a DEF take_item, Recycle, MemTypeOK
  <2> QED
    BY <1>a, <1>b, <2>1, <2>2 DEF LoadsOf, Loadable
<1>4. CASE store_frontier
  BY <1>4, <1>c DEF store_frontier, gpVars
<1>5. CASE store_flag
  <2> DEFINE i  == step.idx
             w0 == Word(i)
             v  == Newest(words[w0]) \cup {i}
  <2>1. i \in Slots
    BY <1>5 DEF store_flag, MemInv, InsertSteps
  <2>2. w0 \in Words /\ v \in SUBSET Slots /\ StoreTo(w0, v)
    BY <1>5, <2>1, WordType, BitmapStores, NewestType DEF MemInv
  <2>3. time' = time + 1 /\ UNCHANGED <<cell, last, seen>> /\ q \in active /\ blocks' = blocks
    BY <1>5 DEF store_flag, Tick, Fill
  <2>4. life' = [life EXCEPT ![i] = "present"]
    BY <1>5 DEF store_flag, Fill
  <2>5. \A j \in Newest(words[w0]) : life[j] = "present"
    BY <1>a, <2>2, NewestType DEF NewestFlags, MemInv
  <2>6. \A j \in v : life'[j] = "present"
    BY <1>a, <2>1, <2>2, <2>4, <2>5 DEF MemTypeOK
  <2>7. \A j \in Slots : life[j] = "present" \/ j \in blocks[q]
                            => life'[j] = "present" \/ j \in blocks'[q]
    BY <1>a, <2>1, <2>3, <2>4 DEF MemTypeOK
  <2> HIDE DEF w0, v, i
  <2> QED
    BY <1>a, <2>2, <2>3, <2>6, <2>7, LoadsStored
<1>6. ASSUME NEW r \in Readers, begin(r) PROVE LoadsOf(q, x)'
  <2>1. CASE q # r
    BY <1>6, <1>a, <2>1 DEF begin, Enter, LoadsOf, Loadable, MemTypeOK
  <2>2. CASE q = r
    <3>1. seen'[q] = time /\ UNCHANGED <<words, last, life, cell>>
      BY <1>6, <1>a, <2>2 DEF begin, Enter, MemTypeOK
    <3>2. /\ Len(words[x]) \in Nat /\ last[q][x] \in Nat \ {0} /\ time \in Nat
          /\ \A n \in 1 .. Len(words[x]) : words[x][n].time \in Nat /\ words[x][n].time <= time
      <4>1. Len(words[x]) \in Nat /\ \A n \in 1 .. Len(words[x]) : words[x][n].time \in Nat
        BY NewestType DEF MemInv, FlagStore
      <4>2. \A n \in 1 .. Len(words[x]) : words[x][n].time <= time
        BY DEF MemInv, FlagStores
      <4>3. last[q][x] \in Nat \ {0} /\ time \in Nat
        BY <1>a DEF MemTypeOK
      <4> QED
        BY <4>1, <4>2, <4>3
    <3>3. \A n \in Loadable(words[x], time, last[q][x]) : n = Len(words[x])
      BY <3>2, LoadableNewest
    <3>4. \A j \in Newest(words[x]) : /\ life[j] = "present"
                                      /\ cell[j].time <= words[x][Len(words[x])].time
      <4> TAKE j \in Newest(words[x])
      <4>1. j \in Slots /\ words[x][Len(words[x])].time \in Nat
        BY NewestType DEF MemInv, FlagStore
      <4>2. cell[j].time \in Nat
        BY <1>a, <4>1 DEF MemTypeOK
      <4>3. life[j] = "present" /\ cell[j].time < words[x][Len(words[x])].time
        BY <1>a, <4>1 DEF NewestFlags
      <4> QED
        BY <4>1, <4>2, <4>3
    <3> QED
      BY <3>1, <3>3, <3>4 DEF LoadsOf, Newest, Loadable
  <2> QED
    BY <2>1, <2>2
<1>7. ASSUME NEW r \in Readers, end(r) PROVE LoadsOf(q, x)'
  BY <1>7, <1>a DEF end, Exit, LoadsOf, Loadable, MemTypeOK
<1>8. ASSUME NEW r \in Readers, NEW s \in Readers, copy(r, s) PROVE LoadsOf(q, x)'
  <2>1. CASE q # s
    BY <1>8, <1>a, <2>1 DEF copy, Clone, LoadsOf, Loadable, MemTypeOK
  <2>2. CASE q = s
    <3>1. /\ seen'[q] = seen[r] /\ last'[q] = last[r] /\ blocks'[q] = blocks[r]
          /\ UNCHANGED <<words, life, cell>> /\ r \in active
      BY <1>8, <1>a, <2>2 DEF copy, Clone, MemTypeOK
    <3> QED
      BY <1>a, <3>1 DEF LoadsOf, Loadable
  <2> QED
    BY <2>1, <2>2
<1>9. ASSUME NEW r \in Readers, NEW w \in Words, load_word(r, w) PROVE LoadsOf(q, x)'
  <2>1. PICK n \in 1 .. Len(words[w]) :
           /\ n >= last[r][w]
           /\ last' = [last EXCEPT ![r][w] = n]
           /\ seen[r] <= seen'[r]
           /\ \A p \in Readers : p # r => seen'[p] = seen[p]
    BY <1>9, LoadFacts
  <2>2. /\ last[q][x] \in Nat \ {0} /\ last'[q][x] \in Nat \ {0} /\ last[q][x] <= last'[q][x]
        /\ seen[q] \in Nat /\ seen'[q] \in Nat /\ seen[q] <= seen'[q]
    <3>1. /\ q \in Readers /\ last \in [Readers -> [Words -> Nat \ {0}]]
          /\ last' \in [Readers -> [Words -> Nat \ {0}]]
          /\ seen \in [Readers -> Nat] /\ seen' \in [Readers -> Nat]
      BY <1>a DEF MemTypeOK
    <3>2. last'[q][x] = IF q = r /\ x = w THEN n ELSE last[q][x]
      BY <2>1, <3>1
    <3>3. last[q][x] \in Nat \ {0} /\ last'[q][x] \in Nat \ {0} /\ last[q][x] <= last'[q][x]
      <4>1. last[q][x] \in Nat \ {0} /\ last'[q][x] \in Nat \ {0}
        BY <3>1
      <4>2. q = r /\ x = w => last[q][x] <= n
        BY <2>1, <4>1
      <4> QED
        BY <3>2, <4>1, <4>2
    <3>4. seen[q] \in Nat /\ seen'[q] \in Nat /\ seen[q] <= seen'[q]
      <4>1. seen[q] \in Nat /\ seen'[q] \in Nat
        BY <3>1
      <4>2. q # r => seen'[q] = seen[q]
        BY <2>1, <3>1, Zenon
      <4>3. seen[r] <= seen'[r]
        BY <2>1, Zenon
      <4> QED
        BY <4>1, <4>2, <4>3
    <3> QED
      BY <3>3, <3>4
  <2>3. Len(words[x]) \in Nat /\ \A k \in 1 .. Len(words[x]) : words[x][k].time \in Nat
    BY NewestType DEF MemInv, FlagStore
  <2>4. Loadable(words[x], seen'[q], last'[q][x]) \subseteq Loadable(words[x], seen[q], last[q][x])
    BY <2>2, <2>3, LoadableShrinks
  <2>5. q \in active /\ UNCHANGED <<words, life, cell, blocks>>
    BY <1>9 DEF load_word, gpVars
  <2> QED
    BY <1>a, <2>4, <2>5 DEF LoadsOf, Loadable
<1>10. CASE UNCHANGED memVars
  BY <1>10, <1>c DEF memVars, gpVars
<1> QED
  BY <1>1, <1>2, <1>3, <1>4, <1>5, <1>6, <1>7, <1>8, <1>9, <1>10 DEF MemNext

\* What r has seen flagged as i is there, and r knows the stores behind it.
Knows(r, i) ==
  /\ life[i] = "present" \/ i \in blocks[r]
  /\ cell[i].time <= seen[r]
  /\ \E l \in 1 .. Len(fronts) : fronts[l].val > i /\ fronts[l].time <= seen[r]

\* GotKnown, one step per action.
LEMMA GotStep ==
  ASSUME MemInv, [MemNext]_memVars
  PROVE  GotKnown'
<1> SUFFICES ASSUME NEW q \in active', NEW j \in got'[q]
             PROVE  Knows(q, j)'
  BY DEF GotKnown, Knows
<1>a. /\ MemTypeOK /\ MemTypeOK' /\ BlocksMarked /\ q \in Readers /\ j \in Slots
      /\ \A r \in active : \A i \in got[r] : Knows(r, i)
      /\ \A l \in 1 .. Len(fronts) : l \in 1 .. Len(fronts') /\ fronts'[l] = fronts[l]
  BY MemTypeStep, FrontsStep DEF MemInv, MemTypeOK, GotKnown, Knows
<1>b. ASSUME q \in active, j \in got[q], seen'[q] = seen[q], cell'[j] = cell[j],
             life[j] = "present" \/ j \in blocks[q] => life'[j] = "present" \/ j \in blocks'[q]
      PROVE  Knows(q, j)'
  <2>1. Knows(q, j)
    BY <1>a, <1>b
  <2>2. PICK l \in 1 .. Len(fronts) : fronts[l].val > j /\ fronts[l].time <= seen[q]
    BY <2>1 DEF Knows
  <2>3. l \in 1 .. Len(fronts') /\ fronts'[l].val > j /\ fronts'[l].time <= seen'[q]
    BY <1>a, <1>b, <2>2
  <2> QED
    BY <1>b, <2>1, <2>3 DEF Knows
<1>1. ASSUME NEW i \in Slots, store_item(i) PROVE Knows(q, j)'
  <2>1. life[i] = "free" /\ UNCHANGED <<life, active, blocks, seen, got>>
    BY <1>1 DEF store_item, gpVars
  <2>2. j # i
    BY <1>a, <2>1 DEF BlocksMarked, Knows
  <2>3. cell'[j] = cell[j]
    BY <1>1, <1>a, <2>2 DEF store_item, MemTypeOK
  <2> QED
    BY <1>b, <2>1, <2>3
<1>2. ASSUME NEW i \in Slots, clear_flag(i) PROVE Knows(q, j)'
  <2>1. UNCHANGED <<active, cell, seen, got>>
    BY <1>2 DEF clear_flag, Mark
  <2>2. life[j] = "present" \/ j \in blocks[q] => life'[j] = "present" \/ j \in blocks'[q]
    BY <1>2, <1>a DEF clear_flag, Mark, MemTypeOK
  <2> QED
    BY <1>b, <2>1, <2>2
<1>3. ASSUME NEW i \in Slots, take_item(i) PROVE Knows(q, j)'
  <2>1. /\ life[i] = "marked" /\ i \notin blocks[q] /\ UNCHANGED <<active, blocks, seen, got>>
        /\ q \in active
    BY <1>3 DEF take_item, Recycle
  <2>2. j # i
    BY <1>a, <2>1 DEF Knows
  <2>3. cell'[j] = cell[j] /\ life'[j] = life[j]
    BY <1>3, <1>a, <2>2 DEF take_item, Recycle, MemTypeOK
  <2> QED
    BY <1>b, <2>1, <2>3
<1>4. CASE store_frontier
  BY <1>4, <1>b DEF store_frontier, gpVars
<1>5. CASE store_flag
  <2>1. UNCHANGED <<active, blocks, cell, seen, got>> /\ (life[j] = "present" => life'[j] = "present")
    BY <1>5, <1>a DEF store_flag, Fill, MemTypeOK
  <2> QED
    BY <1>b, <2>1
<1>6. ASSUME NEW r \in Readers, begin(r) PROVE Knows(q, j)'
  <2>1. q # r
    BY <1>6, <1>a DEF begin, Enter, BlocksMarked
  <2> QED
    BY <1>6, <1>a, <1>b, <2>1 DEF begin, Enter, MemTypeOK
<1>7. ASSUME NEW r \in Readers, end(r) PROVE Knows(q, j)'
  <2>1. q # r /\ q \in active /\ UNCHANGED <<life, cell>>
    BY <1>7 DEF end, Exit
  <2>2. seen'[q] = seen[q] /\ got'[q] = got[q] /\ blocks'[q] = blocks[q]
    BY <1>7, <1>a, <2>1 DEF end, Exit, MemTypeOK
  <2> QED
    BY <1>b, <2>1, <2>2
<1>8. ASSUME NEW r \in Readers, NEW s \in Readers, copy(r, s) PROVE Knows(q, j)'
  <2>1. q # s
    BY <1>8, <1>a DEF copy, Clone, BlocksMarked
  <2>2. q \in active /\ UNCHANGED <<life, cell, got>>
    BY <1>8, <2>1 DEF copy, Clone
  <2>3. seen'[q] = seen[q] /\ blocks'[q] = blocks[q]
    BY <1>8, <1>a, <2>1 DEF copy, Clone, MemTypeOK
  <2> QED
    BY <1>b, <2>2, <2>3
<1>9. ASSUME NEW r \in Readers, NEW w \in Words, load_word(r, w) PROVE Knows(q, j)'
  <2>1. PICK n \in Loadable(words[w], seen[r], last[r][w]) :
           /\ n \in 1 .. Len(words[w])
           /\ words[w][n] \in FlagStore
           /\ got' = [got EXCEPT ![r] = @ \cup words[w][n].val]
           /\ seen[r] <= seen'[r]
           /\ words[w][n].ord = "Release" => words[w][n].time <= seen'[r]
           /\ \A p \in Readers : p # r => seen'[p] = seen[p]
    BY <1>9, LoadFacts
  <2>2. r \in active /\ UNCHANGED <<life, active, blocks, words, fronts, cell>>
    BY <1>9 DEF load_word, gpVars
  <2>3. CASE q # r
    <3>1. got'[q] = got[q]
      BY <1>a, <2>1, <2>3 DEF MemTypeOK
    <3> QED
      BY <1>a, <1>b, <2>1, <2>2, <2>3, <3>1
  <2>t. /\ seen[r] \in Nat /\ seen'[r] \in Nat /\ words[w][n].time \in Nat /\ cell[j].time \in Nat
        /\ \A l \in 1 .. Len(fronts) : fronts[l].time \in Nat
    BY <1>a, <2>1, NewestType DEF MemTypeOK, FlagStore, MaxStore, MemInv
  <2>4. CASE q = r /\ j \in got[r]
    <3>1. Knows(r, j)
      BY <1>a, <2>2, <2>4
    <3>2. cell[j].time <= seen'[r]
      BY <2>1, <2>t, <3>1 DEF Knows
    <3>3. PICK l \in 1 .. Len(fronts) : fronts[l].val > j /\ fronts[l].time <= seen[r]
      BY <3>1 DEF Knows
    <3>4. fronts[l].time <= seen'[r]
      BY <2>1, <2>t, <3>3
    <3> QED
      BY <2>2, <2>4, <3>1, <3>2, <3>3, <3>4 DEF Knows
  <2>5. CASE q = r /\ j \notin got[r]
    <3>1. j \in words[w][n].val
      BY <1>a, <2>1, <2>5 DEF MemTypeOK
    <3>2. (life[j] = "present" \/ j \in blocks[r]) /\ cell[j].time <= words[w][n].time
      BY <2>1, <2>2, <3>1 DEF MemInv, LoadsCurrent
    <3>3. words[w][n].ord = "Release"
      BY <2>1, <3>1 DEF MemInv, FlagStores
    <3>4. PICK l \in 1 .. Len(fronts) : fronts[l].val > j /\ fronts[l].time <= words[w][n].time
      BY <2>1, <3>1 DEF MemInv, FlagStores
    <3>5. cell[j].time <= seen'[r] /\ fronts[l].time <= seen'[r]
      BY <2>1, <2>t, <3>2, <3>3, <3>4
    <3> QED
      BY <2>2, <2>5, <3>2, <3>4, <3>5 DEF Knows
  <2> QED
    BY <2>3, <2>4, <2>5
<1>10. CASE UNCHANGED memVars
  BY <1>10, <1>b DEF memVars, gpVars
<1> QED
  BY <1>1, <1>2, <1>3, <1>4, <1>5, <1>6, <1>7, <1>8, <1>9, <1>10 DEF MemNext

LEMMA MemInitInv == MemInit => MemInv
<1> SUFFICES ASSUME MemInit PROVE MemInv
  OBVIOUS
<1> DEFINE none == [val |-> {}, time |-> 0, ord |-> "Relaxed"]
           zero == [val |-> 0, time |-> 0, ord |-> "Relaxed"]
<1>1. none \in FlagStore /\ zero \in MaxStore
  BY DEF FlagStore, MaxStore, Orderings
<1>2. /\ <<none>> \in Seq(FlagStore) /\ Len(<<none>>) = 1 /\ <<none>>[1] = none
      /\ <<zero>> \in Seq(MaxStore) /\ Len(<<zero>>) = 1 /\ <<zero>>[1] = zero
  BY <1>1
<1>3. \A w \in Words : words[w] = <<none>>
  BY DEF MemInit
<1>4. fronts = <<zero>>
  BY DEF MemInit
<1>5. MemTypeOK
  BY <1>2 DEF MemInit, GPInit, MemTypeOK, Idle
<1>6. BlocksMarked /\ InsertSteps /\ ItemsThere
  BY DEF MemInit, GPInit, BlocksMarked, InsertSteps, ItemsThere, Idle
<1>7. NewestFlags
  BY <1>2, <1>3 DEF MemInit, GPInit, NewestFlags, Nonempty, Newest
<1>8. FlagStores
  BY <1>2, <1>3 DEF MemInit, FlagStores
<1>9. FrontsGrow
  BY <1>2, <1>4 DEF MemInit, FrontsGrow, Nonempty
<1>10. LastLoaded
  BY <1>2, <1>3 DEF MemInit, LastLoaded
<1>11. LoadsCurrent /\ GotKnown
  BY DEF MemInit, GPInit, LoadsCurrent, GotKnown
<1> QED
  BY <1>5, <1>6, <1>7, <1>8, <1>9, <1>10, <1>11 DEF MemInv

LEMMA MemInductive == MemInv /\ [MemNext]_memVars => MemInv'
  BY MemTypeStep, ItemsStep, FrontsStep, FlagsStep, LoadsStep, GotStep DEF MemInv

----------------------------------------------------------------------------
(***************************************************************************)
(* The stores [Ib] and [Rb] release and the load [Gb] acquires: that is    *)
(* enough for every slot a reader has seen flagged to hold an item, stored *)
(* before anything the reader does with it, until the reader ends.         *)
(***************************************************************************)
THEOREM NoRacyReads == MemSpec => []NoRacyRead
<1>1. MemInv => NoRacyRead
  <2> SUFFICES ASSUME MemInv, NEW r \in active, NEW i \in got[r]
               PROVE  cell[i].item /\ cell[i].time <= seen[r]
    BY DEF NoRacyRead
  <2>1. i \in Slots /\ r \in Readers
    BY DEF MemInv, MemTypeOK
  <2>2. life[i] # "free" /\ cell[i].time <= seen[r]
    BY DEF MemInv, GotKnown, BlocksMarked
  <2> QED
    BY <2>1, <2>2 DEF MemInv, ItemsThere
<1> QED
  BY <1>1, MemInitInv, MemInductive, PTL DEF MemSpec

(***************************************************************************)
(* The accesses of the frontier may be relaxed: [Im] comes before [Ib], so *)
(* whoever has seen a flag loads, by [Sm], a frontier above its slot.      *)
(***************************************************************************)
THEOREM FrontierCovers == MemSpec => []FrontierCoversGot
<1>1. MemInv => FrontierCoversGot
  <2> SUFFICES ASSUME MemInv, NEW r \in active, NEW i \in got[r],
                      NEW n \in Loadable(fronts, seen[r], 1)
               PROVE  fronts[n].val > i
    BY DEF FrontierCoversGot
  <2>1. /\ i \in Nat /\ r \in Readers /\ seen[r] \in Nat
        /\ Len(fronts) \in Nat
        /\ \A l \in 1 .. Len(fronts) : fronts[l].val \in Nat /\ fronts[l].time \in Nat
    BY MemAssumption, NewestType DEF MemInv, MemTypeOK, MaxStore
  <2>2. PICK l \in 1 .. Len(fronts) : fronts[l].val > i /\ fronts[l].time <= seen[r]
    BY DEF MemInv, GotKnown
  <2>3. n \in 1 .. Len(fronts) /\ \A m \in n + 1 .. Len(fronts) : fronts[m].time > seen[r]
    BY DEF Loadable
  <2>4. l <= n
    <3>1. SUFFICES ASSUME l > n PROVE FALSE
      BY <2>2, <2>3
    <3>2. l \in n + 1 .. Len(fronts)
      BY <2>1, <2>2, <2>3, <3>1
    <3> QED
      BY <2>1, <2>2, <2>3, <3>2
  <2>5. fronts[l].val <= fronts[n].val
    BY <2>2, <2>3, <2>4 DEF MemInv, FrontsGrow
  <2> QED
    BY <2>1, <2>2, <2>3, <2>5
<1> QED
  BY <1>1, MemInitInv, MemInductive, PTL DEF MemSpec

(***************************************************************************)
(* A reader may load as set the flags of the items present and of the      *)
(* removals made since it synchronized, and no others: what RcuCslab's     *)
(* unseen says of a reader is what the memory orderings give.              *)
(***************************************************************************)
THEOREM StaleBounded == MemSpec => []StaleFlagsBounded
<1>1. MemInv => StaleFlagsBounded
  BY DEF MemInv, LoadsCurrent, StaleFlagsBounded
<1> QED
  BY <1>1, MemInitInv, MemInductive, PTL DEF MemSpec

=============================================================================
