-------------------------- MODULE UnixStreamProofs -------------------------
(***************************************************************************)
(* Proof that every open descriptor has one owner, and every owner an open *)
(* descriptor, when no SocketAncillary receives with what an earlier call  *)
(* left in its buffer (Reuse = FALSE; the run MCUdsReuse shows what        *)
(* happens otherwise).                                                     *)
(*                                                                         *)
(* Why it holds: what recv() takes for its own is exactly what recvmsg()   *)
(* has just installed.  For that the words of the control buffer must list *)
(* each of these descriptors once, in as many words as num_fds() finds,    *)
(* and a call that failed must have left no header to find.                *)
(***************************************************************************)
EXTENDS UnixStream, FiniteSetTheorems, TLAPS

CowFds  == [fd : Fds, owned : BOOLEAN]
Buffers == [len : Nat, data : [1 .. Room -> Nat]]

AncTypeOK ==
  /\ open \in SUBSET Fds /\ mine \in SUBSET Fds
  /\ fds \in [Sides -> SUBSET CowFds] /\ held \in SUBSET CowFds
  /\ control \in [Sides -> Buffers]

\* o is Std and, each once, the descriptors of the four owners.
Apart(o, m, h, s, r) ==
  /\ Std \in o
  /\ o \ {Std} = m \cup h \cup s \cup r
  /\ m \cap h = {} /\ m \cap s = {} /\ m \cap r = {}
  /\ h \cap s = {} /\ h \cap r = {} /\ s \cap r = {}

OwnersApart == Apart(open, mine, OwnedIn(held), OwnedIn(fds["send"]), OwnedIn(fds["recv"]))

\* A borrow has its OwnedFd among those of the client.
BorrowsLive ==
  /\ BorrowedIn(held) \subseteq mine
  /\ \A t \in Sides : BorrowedIn(fds[t]) \subseteq mine

AncInv == AncTypeOK /\ OwnersApart /\ BorrowsLive

\* While a receive runs there is no header in its buffer.
NoHeader ==
  /\ pc \in [Sides -> {"idle", "await", "try"}]
  /\ pc["recv"] # "idle" => control["recv"].len = 0

StreamInv == AncInv /\ NoHeader

----------------------------------------------------------------------------
(* Descriptors in order. *)

Rank(F, f) == Cardinality({g \in F : g < f})

\* A set of descriptors is finite, as are its parts.
LEMMA FdsFinite ==
  ASSUME NEW F \in SUBSET Fds
  PROVE  IsFiniteSet(F) /\ Cardinality(F) \in Nat
<1>1. IsFiniteSet(Fds)
  BY FS_Interval, AncillaryAssumption DEF Fds
<1>2. IsFiniteSet(F)
  BY <1>1, FS_Subset
<1> QED
  BY <1>2, FS_CardinalityType

\* Counted by the smaller ones, the members of F are numbered 0, 1, ...
LEMMA RankRange ==
  ASSUME NEW F \in SUBSET Fds, NEW f \in F
  PROVE  Rank(F, f) \in 0 .. Cardinality(F) - 1
<1> DEFINE B == {g \in F : g < f}
<1>1. B \in SUBSET F /\ f \notin B
  BY AncillaryAssumption DEF Fds
<1>2. IsFiniteSet(F) /\ Cardinality(F) \in Nat /\ Cardinality(B) \in Nat
  BY <1>1, FdsFinite
<1>3. Cardinality(B) <= Cardinality(F) /\ Cardinality(B) # Cardinality(F)
  BY <1>1, <1>2, FS_Subset
<1> QED
  BY <1>2, <1>3 DEF Rank

LEMMA RankGrows ==
  ASSUME NEW F \in SUBSET Fds, NEW f \in F, NEW h \in F, f < h
  PROVE  Rank(F, f) # Rank(F, h)
<1> DEFINE A == {g \in F : g < f}
           B == {g \in F : g < h}
<1>0. \A g \in F : g \in Nat
  BY AncillaryAssumption DEF Fds
<1>1. A \in SUBSET B /\ f \in B /\ f \notin A /\ B \in SUBSET Fds
  <2>1. \A g \in F : g < f => g < h
    BY <1>0
  <2>2. ~(f < f)
    BY <1>0
  <2> QED
    BY <2>1, <2>2
<1>2. IsFiniteSet(B)
  BY <1>1, FdsFinite
<1>3. Cardinality(A) # Cardinality(B)
  BY <1>1, <1>2, FS_Subset
<1> QED
  BY <1>3 DEF Rank

LEMMA RankInjective ==
  ASSUME NEW F \in SUBSET Fds, NEW f \in F, NEW h \in F, Rank(F, f) = Rank(F, h)
  PROVE  f = h
<1>1. f \in Nat /\ h \in Nat
  BY AncillaryAssumption DEF Fds
<1>2. CASE f < h
  BY <1>2, RankGrows
<1>3. CASE h < f
  BY <1>3, RankGrows
<1> QED
  BY <1>1, <1>2, <1>3

\* No number is left out.
LEMMA RankOnto ==
  ASSUME NEW F \in SUBSET Fds, NEW n \in 0 .. Cardinality(F) - 1
  PROVE  \E f \in F : Rank(F, f) = n
<1> DEFINE T == 0 .. Cardinality(F) - 1
           r == [f \in F |-> Rank(F, f)]
<1>1. Cardinality(F) \in Nat
  BY FdsFinite
<1>2. IsFiniteSet(T) /\ Cardinality(T) = Cardinality(F)
  BY <1>1, FS_Interval
<1>3. r \in [F -> T]
  BY RankRange
<1>4. \A f, h \in F : r[f] = r[h] => f = h
  BY RankInjective
<1>5. r \in Injection(F, T)
  BY <1>3, <1>4 DEF Injection, IsInjective
<1>6. r \in Surjection(F, T)
  BY <1>2, <1>5, FS_Injection
<1>7. \E f \in F : r[f] = n
  BY <1>6 DEF Surjection
<1> QED
  BY <1>7

\* The kernel hands out no more descriptors than it was asked for, and none
\* that is open.
LEMMA LowestFacts ==
  ASSUME NEW n \in Nat
  PROVE  /\ Lowest(n) \in SUBSET (Fds \ open)
         /\ Cardinality(Lowest(n)) <= n
<1> DEFINE G == Fds \ open
           T == 0 .. n - 1
           r == [f \in Lowest(n) |-> Rank(G, f)]
<1>1. Lowest(n) = {f \in G : Rank(G, f) < n}
  BY DEF Lowest, Rank
<1>2. \A f \in Lowest(n) : Rank(G, f) \in T
  BY <1>1, RankRange, FdsFinite
<1>3. \A f, h \in Lowest(n) : r[f] = r[h] => f = h
  BY <1>1, RankInjective
<1>4. r \in Injection(Lowest(n), T)
  BY <1>2, <1>3 DEF Injection, IsInjective
<1>5. IsFiniteSet(T) /\ Cardinality(T) = n
  BY FS_Interval
<1>6. Cardinality(Lowest(n)) <= n
  BY <1>4, <1>5, FS_Injection
<1> QED
  BY <1>1, <1>6

\* Word j of a buffer that lists F is the member with j - 1 smaller ones.
LEMMA ListingWords ==
  ASSUME AncTypeOK, NEW t \in Sides, NEW F \in SUBSET Fds
  PROVE  LET c == Listing(t, F)
         IN  /\ c \in Buffers
             /\ c.len = 16 + 4 * Cardinality(F)
             /\ \A j \in 1 .. Room : j <= Cardinality(F)
                  => c.data[j] \in F /\ Rank(F, c.data[j]) = j - 1
<1> DEFINE c == Listing(t, F)
           n == Cardinality(F)
           Word(j) == IF j <= n THEN CHOOSE f \in F : Cardinality({g \in F : g < f}) = j - 1
                      ELSE control[t].data[j]
<1>1. n \in Nat /\ Room \in Nat
  BY FdsFinite, AncillaryAssumption
<1>2. c.len = 16 + 4 * n /\ c.len \in Nat
  BY <1>1 DEF Listing, CMSG_LEN, SizeOfFd
<1>3. c = [len |-> CMSG_LEN(SizeOfFd * n), data |-> [j \in 1 .. Room |-> Word(j)]]
  BY Zenon DEF Listing
<1> HIDE DEF Word, c
<1>4. \A j \in 1 .. Room : c.data[j] = Word(j)
  BY <1>3
<1>5. \A j \in 1 .. Room : j <= n => c.data[j] \in F /\ Rank(F, c.data[j]) = j - 1
  <2> SUFFICES ASSUME NEW j \in 1 .. Room, j <= n
               PROVE  c.data[j] \in F /\ Rank(F, c.data[j]) = j - 1
    OBVIOUS
  <2>1. j - 1 \in 0 .. n - 1
    BY <1>1
  <2>2. Word(j) = CHOOSE f \in F : Cardinality({g \in F : g < f}) = j - 1
    BY Zenon DEF Word
  <2>3. \E f \in F : Cardinality({g \in F : g < f}) = j - 1
    BY <2>1, RankOnto DEF Rank
  <2>4. Word(j) \in F /\ Cardinality({g \in F : g < Word(j)}) = j - 1
    BY <2>2, <2>3, Zenon
  <2> QED
    BY <1>4, <2>4 DEF Rank
<1>6. c \in Buffers
  <2>1. control[t].data \in [1 .. Room -> Nat]
    BY DEF AncTypeOK, Buffers
  <2>2. \A j \in 1 .. Room : ~(j <= n) => Word(j) = control[t].data[j]
    BY Zenon DEF Word
  <2>3. \A f \in F : f \in Nat
    BY AncillaryAssumption DEF Fds
  <2>4. \A j \in 1 .. Room : Word(j) \in Nat
    BY <1>4, <1>5, <2>1, <2>2, <2>3
  <2>5. c.len = CMSG_LEN(SizeOfFd * n)
    BY <1>3
  <2> QED
    BY <1>2, <1>3, <2>4, <2>5 DEF Buffers
<1> QED
  BY <1>2, <1>5, <1>6 DEF c

\* If there is room for F, each member of F is in one of the words num_fds()
\* finds, and nothing else is.
LEMMA ListingExact ==
  ASSUME AncTypeOK, NEW t \in Sides, NEW F \in SUBSET Fds, Cardinality(F) <= Room
  PROVE  LET c == Listing(t, F)
         IN  {c.data[j] : j \in 1 .. num_fds(c)} = F
<1> DEFINE c == Listing(t, F)
           n == Cardinality(F)
<1>1. n \in Nat /\ Room \in Nat /\ n <= Room
  BY FdsFinite, AncillaryAssumption
<1>2. /\ c.len = 16 + 4 * n
      /\ \A j \in 1 .. Room : j <= n => c.data[j] \in F /\ Rank(F, c.data[j]) = j - 1
  BY ListingWords
<1> HIDE DEF c
<1>3. num_fds(c) = n
  <2>1. num_fds(c) = (c.len - 16) \div 4
    BY DEF num_fds, CMSG_LEN, SizeOfFd
  <2> QED
    BY <1>1, <1>2, <2>1
<1>4. \A j \in 1 .. n : c.data[j] \in F
  BY <1>1, <1>2
<1>5. \A f \in F : \E j \in 1 .. n : c.data[j] = f
  <2> SUFFICES ASSUME NEW f \in F PROVE \E j \in 1 .. n : c.data[j] = f
    OBVIOUS
  <2> DEFINE j == Rank(F, f) + 1
  <2>1. j \in 1 .. n /\ j \in 1 .. Room /\ j <= n /\ j - 1 = Rank(F, f)
    BY <1>1, RankRange
  <2> HIDE DEF j
  <2>2. c.data[j] \in F /\ Rank(F, c.data[j]) = Rank(F, f)
    BY <1>2, <2>1
  <2> QED
    BY <2>1, <2>2, RankInjective
<1>6. {c.data[j] : j \in 1 .. num_fds(c)} = F
  BY <1>3, <1>4, <1>5
<1> QED
  BY <1>6 DEF c

----------------------------------------------------------------------------
(* Sets of CowFds. *)

LEMMA OwnedMembers ==
  ASSUME NEW S \in SUBSET CowFds
  PROVE  /\ OwnedIn(S) = {f \in Fds : Owned(f) \in S}
         /\ BorrowedIn(S) = {f \in Fds : Borrowed(f) \in S}
<1>1. \A c \in S : /\ c.fd \in Fds
                   /\ c.owned => c = Owned(c.fd)
                   /\ ~c.owned => c = Borrowed(c.fd)
  BY DEF CowFds, Owned, Borrowed
<1>2. \A f : /\ Owned(f).fd = f /\ Owned(f).owned
             /\ Borrowed(f).fd = f /\ ~Borrowed(f).owned
  BY DEF Owned, Borrowed
<1> QED
  BY <1>1, <1>2 DEF OwnedIn, BorrowedIn

LEMMA CowKinds ==
  /\ \A f \in Fds : Owned(f) \in CowFds /\ Borrowed(f) \in CowFds
  /\ \A f, g : (Owned(f) = Owned(g) => f = g) /\ Owned(f) # Borrowed(g)
  /\ \A f, g : Borrowed(f) = Borrowed(g) => f = g
  /\ \A c \in CowFds : /\ c.fd \in Fds
                       /\ c.owned => c = Owned(c.fd)
                       /\ ~c.owned => c = Borrowed(c.fd)
<1>1. \A f : /\ Owned(f).fd = f /\ Owned(f).owned
             /\ Borrowed(f).fd = f /\ ~Borrowed(f).owned
  BY DEF Owned, Borrowed
<1> QED
  BY <1>1 DEF CowFds, Owned, Borrowed

\* Owning F.
LEMMA OwnedAll ==
  ASSUME NEW F \in SUBSET Fds
  PROVE  LET S == {Owned(f) : f \in F}
         IN  S \in SUBSET CowFds /\ OwnedIn(S) = F /\ BorrowedIn(S) = {}
<1> DEFINE S == {Owned(f) : f \in F}
<1>1. S \in SUBSET CowFds
  BY CowKinds
<1>2. /\ OwnedIn(S) = {f \in Fds : Owned(f) \in S}
      /\ BorrowedIn(S) = {f \in Fds : Borrowed(f) \in S}
  BY <1>1, OwnedMembers
<1>3. \A f \in Fds : (Owned(f) \in S <=> f \in F) /\ Borrowed(f) \notin S
  BY CowKinds
<1> QED
  BY <1>1, <1>2, <1>3

\* Both together.
LEMMA OwnedUnion ==
  ASSUME NEW S \in SUBSET CowFds, NEW T \in SUBSET CowFds
  PROVE  /\ OwnedIn(S \cup T) = OwnedIn(S) \cup OwnedIn(T)
         /\ BorrowedIn(S \cup T) = BorrowedIn(S) \cup BorrowedIn(T)
  BY DEF OwnedIn, BorrowedIn

\* All but one.
LEMMA OwnedMinus ==
  ASSUME NEW S \in SUBSET CowFds, NEW c \in S
  PROVE  /\ c.owned => OwnedIn(S \ {c}) = OwnedIn(S) \ {c.fd} /\ c.fd \in OwnedIn(S)
         /\ ~c.owned => OwnedIn(S \ {c}) = OwnedIn(S)
         /\ BorrowedIn(S \ {c}) \subseteq BorrowedIn(S)
         /\ OwnedIn({c}) = IF c.owned THEN {c.fd} ELSE {}
<1>1. OwnedIn(S \ {c}) = {f \in Fds : Owned(f) \in S \ {c}}
  BY OwnedMembers
<1>2. OwnedIn(S) = {f \in Fds : Owned(f) \in S}
  BY OwnedMembers
<1>3. BorrowedIn(S \ {c}) \subseteq BorrowedIn(S)
  BY DEF BorrowedIn
<1>4. OwnedIn({c}) = IF c.owned THEN {c.fd} ELSE {}
  BY DEF OwnedIn
<1>5. CASE c.owned
  <2>1. c.fd \in Fds /\ c = Owned(c.fd)
    BY <1>5, CowKinds
  <2>2. \A f : Owned(f) = c <=> f = c.fd
    BY <2>1, CowKinds
  <2> QED
    BY <1>1, <1>2, <1>3, <1>4, <1>5, <2>1, <2>2
<1>6. CASE ~c.owned
  <2>1. \A f : Owned(f) # c
    BY <1>6, CowKinds
  <2> QED
    BY <1>1, <1>2, <1>3, <1>4, <1>6, <2>1
<1> QED
  BY <1>5, <1>6

----------------------------------------------------------------------------
(* The operations of Ancillary keep its part of the invariant. *)

LEMMA AncSame ==
  ASSUME AncInv, UNCHANGED ancVars
  PROVE  AncInv'
<1> QED
  BY DEF AncInv, AncTypeOK, OwnersApart, Apart, BorrowsLive, ancVars, OwnedIn, BorrowedIn

\* What is allocated has had no owner.
LEMMA LowestNew ==
  ASSUME AncInv
  PROVE  /\ Lowest(1) \in SUBSET Fds /\ Lowest(1) \cap open = {}
         /\ mine \subseteq open /\ OwnedIn(held) \subseteq open
  BY LowestFacts DEF AncInv, OwnersApart, Apart

LEMMA OpenStep ==
  ASSUME AncInv, open_file
  PROVE  AncInv'
<1>1. AncTypeOK'
  BY LowestNew DEF AncInv, AncTypeOK, open_file
<1>2. OwnersApart'
  BY LowestNew DEF AncInv, OwnersApart, Apart, open_file
<1>3. BorrowsLive'
  BY DEF AncInv, BorrowsLive, open_file
<1> QED
  BY <1>1, <1>2, <1>3 DEF AncInv

LEMMA CloseStep ==
  ASSUME AncInv, NEW f \in mine, close(f)
  PROVE  AncInv'
<1>1. AncTypeOK'
  BY DEF AncInv, AncTypeOK, close
<1>2. OwnersApart'
  BY DEF AncInv, OwnersApart, Apart, close
<1>3. BorrowsLive'
  BY DEF AncInv, BorrowsLive, close
<1> QED
  BY <1>1, <1>2, <1>3 DEF AncInv

LEMMA FromOwnedStep ==
  ASSUME AncInv, NEW f \in mine, from_owned(f)
  PROVE  AncInv'
<1>1. f \in Fds /\ held \in SUBSET CowFds
  BY DEF AncInv, AncTypeOK
<1>2. {Owned(f)} \in SUBSET CowFds /\ OwnedIn({Owned(f)}) = {f} /\ BorrowedIn({Owned(f)}) = {}
  <2>1. {Owned(g) : g \in {f}} = {Owned(f)}
    <3>1. \A x : x \in {Owned(g) : g \in {f}} <=> x \in {Owned(f)}
      OBVIOUS
    <3> QED
      BY <3>1
  <2>2. {f} \in SUBSET Fds
    BY <1>1
  <2> DEFINE N == {Owned(g) : g \in {f}}
  <2>3. N \in SUBSET CowFds /\ OwnedIn(N) = {f} /\ BorrowedIn(N) = {}
    BY <2>2, OwnedAll
  <2>4. N = {Owned(f)}
    BY <2>1
  <2> HIDE DEF N
  <2> QED
    BY <2>3, <2>4
<1>3. /\ OwnedIn(held') = OwnedIn(held) \cup {f}
      /\ BorrowedIn(held') = BorrowedIn(held)
  BY <1>1, <1>2, OwnedUnion DEF from_owned
<1>4. AncTypeOK'
  BY <1>2 DEF AncInv, AncTypeOK, from_owned
<1>5. OwnersApart'
  BY <1>3 DEF AncInv, OwnersApart, Apart, from_owned
<1>6. BorrowsLive'
  BY <1>3 DEF AncInv, BorrowsLive, from_owned
<1> QED
  BY <1>4, <1>5, <1>6 DEF AncInv

LEMMA IntoOwnedStep ==
  ASSUME AncInv, NEW c \in held, try_into_owned(c)
  PROVE  AncInv'
<1>1. held \in SUBSET CowFds /\ c \in CowFds /\ c.fd \in Fds
  BY CowKinds DEF AncInv, AncTypeOK
<1>2. /\ c.owned => OwnedIn(held') = OwnedIn(held) \ {c.fd} /\ c.fd \in OwnedIn(held)
      /\ ~c.owned => OwnedIn(held') = OwnedIn(held)
      /\ BorrowedIn(held') \subseteq BorrowedIn(held)
  BY <1>1, OwnedMinus DEF try_into_owned
<1>3. AncTypeOK'
  BY <1>1, LowestNew DEF AncInv, AncTypeOK, try_into_owned
<1>4. OwnersApart'
  BY <1>2, LowestNew DEF AncInv, OwnersApart, Apart, try_into_owned
<1>5. BorrowsLive'
  BY <1>2 DEF AncInv, BorrowsLive, try_into_owned
<1> QED
  BY <1>3, <1>4, <1>5 DEF AncInv

LEMMA CloneStep ==
  ASSUME AncInv, NEW c \in held, try_clone(c)
  PROVE  AncInv'
<1> DEFINE N == {Owned(f) : f \in Lowest(1)}
<1>1. held \in SUBSET CowFds
  BY DEF AncInv, AncTypeOK
<1>2. N \in SUBSET CowFds /\ OwnedIn(N) = Lowest(1) /\ BorrowedIn(N) = {}
  BY LowestNew, OwnedAll
<1>3. held' = held \cup N
  BY DEF try_clone
<1> HIDE DEF N
<1>4. /\ OwnedIn(held') = OwnedIn(held) \cup Lowest(1)
      /\ BorrowedIn(held') = BorrowedIn(held)
  <2>1. /\ OwnedIn(held \cup N) = OwnedIn(held) \cup OwnedIn(N)
        /\ BorrowedIn(held \cup N) = BorrowedIn(held) \cup BorrowedIn(N)
    BY <1>1, <1>2, OwnedUnion
  <2> QED
    BY <1>2, <1>3, <2>1
<1>5. AncTypeOK'
  <2>1. open' \in SUBSET Fds /\ mine' \in SUBSET Fds
    BY LowestNew DEF AncInv, AncTypeOK, try_clone
  <2>2. UNCHANGED <<fds, control>>
    BY DEF try_clone
  <2> QED
    BY <1>2, <1>3, <2>1, <2>2 DEF AncInv, AncTypeOK
<1>6. OwnersApart'
  BY <1>4, LowestNew DEF AncInv, OwnersApart, Apart, try_clone
<1>7. BorrowsLive'
  BY <1>4 DEF AncInv, BorrowsLive, try_clone
<1> QED
  BY <1>5, <1>6, <1>7 DEF AncInv

LEMMA CloneToOwnedStep ==
  ASSUME AncInv, NEW c \in held, try_clone_to_owned(c)
  PROVE  AncInv'
<1>1. AncTypeOK'
  BY LowestNew DEF AncInv, AncTypeOK, try_clone_to_owned
<1>2. OwnersApart'
  BY LowestNew DEF AncInv, OwnersApart, Apart, try_clone_to_owned
<1>3. BorrowsLive'
  BY DEF AncInv, BorrowsLive, try_clone_to_owned
<1> QED
  BY <1>1, <1>2, <1>3 DEF AncInv

LEMMA DropCowStep ==
  ASSUME AncInv, NEW c \in held, drop_cow(c)
  PROVE  AncInv'
<1>1. held \in SUBSET CowFds
  BY DEF AncInv, AncTypeOK
<1>2. /\ c.owned => OwnedIn(held') = OwnedIn(held) \ {c.fd} /\ c.fd \in OwnedIn(held)
      /\ ~c.owned => OwnedIn(held') = OwnedIn(held)
      /\ BorrowedIn(held') \subseteq BorrowedIn(held)
      /\ OwnedIn({c}) = IF c.owned THEN {c.fd} ELSE {}
  BY <1>1, OwnedMinus DEF drop_cow
<1>3. AncTypeOK'
  BY DEF AncInv, AncTypeOK, drop_cow
<1>4. OwnersApart'
  <2>1. /\ Apart(open, mine, OwnedIn(held), OwnedIn(fds["send"]), OwnedIn(fds["recv"]))
        /\ Std \notin OwnedIn(held)
    BY DEF AncInv, OwnersApart, Apart
  <2>2. mine' = mine /\ fds' = fds /\ open' = open \ OwnedIn({c})
    BY DEF drop_cow
  <2>3. CASE c.owned
    <3>1. OwnedIn(held') = OwnedIn(held) \ {c.fd} /\ open' = open \ {c.fd}
      BY <1>2, <2>2, <2>3
    <3> QED
      BY <1>2, <2>1, <2>2, <2>3, <3>1 DEF OwnersApart, Apart
  <2>4. CASE ~c.owned
    <3>1. OwnedIn(held') = OwnedIn(held) /\ open' = open
      BY <1>2, <2>2, <2>4
    <3> QED
      BY <2>1, <2>2, <3>1 DEF OwnersApart
  <2> QED
    BY <2>3, <2>4
<1>5. BorrowsLive'
  BY <1>2 DEF AncInv, BorrowsLive, drop_cow
<1> QED
  BY <1>3, <1>4, <1>5 DEF AncInv

LEMMA FdsStep ==
  ASSUME AncInv, OnFds
  PROVE  AncInv'
  BY OpenStep, CloseStep, FromOwnedStep, IntoOwnedStep, CloneStep, CloneToOwnedStep,
     DropCowStep DEF OnFds

\* Side t has the CowFds of X instead of those it had.
LEMMA Replaced ==
  ASSUME AncTypeOK, NEW t \in Sides, NEW X \in SUBSET CowFds, fds' = [fds EXCEPT ![t] = X]
  PROVE  /\ fds' \in [Sides -> SUBSET CowFds]
         /\ fds'[t] = X
         /\ \A u \in Sides : u # t => fds'[u] = fds[u]
  BY DEF AncTypeOK

LEMMA NoneIn == OwnedIn({}) = {} /\ BorrowedIn({}) = {}
  BY DEF OwnedIn, BorrowedIn

LEMMA ZeroedTyped == Zeroed \in Buffers
  BY AncillaryAssumption DEF Zeroed, Buffers

\* What is closed with the CowFds of side t had no other owner.
LEMMA Emptied ==
  ASSUME AncInv, NEW t \in Sides, fds' = [fds EXCEPT ![t] = {}],
         open' = open \ OwnedIn(fds[t]), UNCHANGED <<held, mine>>
  PROVE  OwnersApart' /\ BorrowsLive' /\ open' \in SUBSET Fds
         /\ fds' \in [Sides -> SUBSET CowFds]
<1>1. /\ fds' \in [Sides -> SUBSET CowFds]
      /\ fds'[t] = {}
      /\ \A u \in Sides : u # t => fds'[u] = fds[u]
  BY Replaced DEF AncInv
<1>2. OwnersApart'
  <2>1. CASE t = "send"
    BY <1>1, <2>1, NoneIn DEF AncInv, OwnersApart, Apart, Sides
  <2>2. CASE t = "recv"
    BY <1>1, <2>2, NoneIn DEF AncInv, OwnersApart, Apart, Sides
  <2> QED
    BY <2>1, <2>2 DEF Sides
<1>3. BorrowsLive'
  BY <1>1, NoneIn DEF AncInv, BorrowsLive
<1> QED
  BY <1>1, <1>2, <1>3 DEF AncInv, AncTypeOK

LEMMA ClearStep ==
  ASSUME AncInv, NEW t \in Sides, clear(t)
  PROVE  AncInv'
<1>1. OwnersApart' /\ BorrowsLive' /\ open' \in SUBSET Fds /\ fds' \in [Sides -> SUBSET CowFds]
  BY Emptied DEF clear
<1> QED
  BY <1>1 DEF AncInv, AncTypeOK, clear

LEMMA DropStep ==
  ASSUME AncInv, NEW t \in Sides, drop(t)
  PROVE  AncInv'
<1>1. OwnersApart' /\ BorrowsLive' /\ open' \in SUBSET Fds /\ fds' \in [Sides -> SUBSET CowFds]
  BY Emptied DEF drop, Renew
<1>2. control' \in [Sides -> Buffers]
  BY ZeroedTyped DEF AncInv, AncTypeOK, drop, Renew
<1> QED
  BY <1>1, <1>2 DEF AncInv, AncTypeOK, drop

LEMMA IntoMessagesStep ==
  ASSUME AncInv, NEW t \in Sides, into_messages(t)
  PROVE  AncInv'
<1>1. /\ fds' \in [Sides -> SUBSET CowFds]
      /\ fds'[t] = {}
      /\ \A u \in Sides : u # t => fds'[u] = fds[u]
  BY Replaced DEF AncInv, into_messages, Renew
<1>2. control' \in [Sides -> Buffers]
  BY ZeroedTyped DEF AncInv, AncTypeOK, into_messages, Renew
<1>3. held \in SUBSET CowFds /\ fds[t] \in SUBSET CowFds
  BY DEF AncInv, AncTypeOK
<1>4. /\ OwnedIn(held') = OwnedIn(held) \cup OwnedIn(fds[t])
      /\ BorrowedIn(held') = BorrowedIn(held) \cup BorrowedIn(fds[t])
  BY <1>3, OwnedUnion DEF into_messages
<1>5. OwnersApart'
  <2>1. CASE t = "send"
    BY <1>1, <1>4, <2>1, NoneIn DEF AncInv, OwnersApart, Apart, Sides, into_messages
  <2>2. CASE t = "recv"
    BY <1>1, <1>4, <2>2, NoneIn DEF AncInv, OwnersApart, Apart, Sides, into_messages
  <2> QED
    BY <2>1, <2>2 DEF Sides
<1>6. BorrowsLive'
  BY <1>1, <1>4, NoneIn DEF AncInv, BorrowsLive, into_messages
<1> QED
  BY <1>1, <1>2, <1>3, <1>5, <1>6 DEF AncInv, AncTypeOK, into_messages

LEMMA AddStep ==
  ASSUME AncInv, NEW t \in Sides, NEW f \in mine, add_fds(t, f)
  PROVE  AncInv'
<1> DEFINE N == {Borrowed(f)}
<1>1. f \in Fds /\ fds[t] \in SUBSET CowFds
  BY DEF AncInv, AncTypeOK
<1>2. N \in SUBSET CowFds /\ OwnedIn(N) = {} /\ BorrowedIn(N) = {f}
  <2>1. N \in SUBSET CowFds
    BY <1>1, CowKinds
  <2>2. \A g \in Fds : Owned(g) \notin N /\ (Borrowed(g) \in N <=> g = f)
    BY CowKinds
  <2> HIDE DEF N
  <2> QED
    BY <1>1, <2>1, <2>2, OwnedMembers
<1>3. fds' = [fds EXCEPT ![t] = fds[t] \cup N]
  BY DEF add_fds
<1> HIDE DEF N
<1>4. /\ fds' \in [Sides -> SUBSET CowFds]
      /\ fds'[t] = fds[t] \cup N
      /\ \A u \in Sides : u # t => fds'[u] = fds[u]
  <2>1. fds[t] \cup N \in SUBSET CowFds
    BY <1>1, <1>2
  <2> QED
    BY <1>3, <2>1, Replaced DEF AncInv
<1>5. OwnedIn(fds'[t]) = OwnedIn(fds[t]) /\ BorrowedIn(fds'[t]) = BorrowedIn(fds[t]) \cup {f}
  <2>1. /\ OwnedIn(fds[t] \cup N) = OwnedIn(fds[t]) \cup OwnedIn(N)
        /\ BorrowedIn(fds[t] \cup N) = BorrowedIn(fds[t]) \cup BorrowedIn(N)
    BY <1>1, <1>2, OwnedUnion
  <2> QED
    BY <1>2, <1>4, <2>1
<1>6. OwnersApart'
  <2>1. \A u \in Sides : OwnedIn(fds'[u]) = OwnedIn(fds[u])
    BY <1>4, <1>5
  <2> QED
    BY <2>1 DEF AncInv, OwnersApart, Apart, Sides, add_fds
<1>7. BorrowsLive'
  BY <1>4, <1>5 DEF AncInv, BorrowsLive, add_fds
<1> QED
  BY <1>4, <1>6, <1>7 DEF AncInv, AncTypeOK, add_fds

LEMMA AttachStep ==
  ASSUME AncInv, NEW t \in Sides, Attach(t)
  PROVE  AncInv'
<1> DEFINE F == {c.fd : c \in fds[t]}
<1>1. F \in SUBSET Fds
  BY CowKinds DEF AncInv, AncTypeOK
<1>2. Listing(t, F) \in Buffers
  BY <1>1, ListingWords DEF AncInv
<1>3. control' \in [Sides -> Buffers]
  BY <1>2 DEF AncInv, AncTypeOK, Attach
<1> QED
  BY <1>3 DEF AncInv, AncTypeOK, OwnersApart, BorrowsLive, Attach

\* recv() owns exactly what recvmsg() has installed.
LEMMA RecvStep ==
  ASSUME AncInv, NEW t \in Sides, NEW k \in 0 .. Room, recv_ok(t, k)
  PROVE  AncInv'
<1> DEFINE n == IF k < Room THEN k ELSE Room
           F == Lowest(n)
           c == Listing(t, F)
           X == {Owned(c.data[j]) : j \in 1 .. num_fds(c)}
<1>1. n \in Nat /\ n <= Room
  BY AncillaryAssumption
<1> HIDE DEF n
<1>2. F \in SUBSET Fds /\ F \cap open = {} /\ Cardinality(F) <= Room
  BY <1>1, LowestFacts, FdsFinite, AncillaryAssumption
<1>3. CASE F = {}
  <2>1. UNCHANGED ancVars
    BY <1>3 DEF recv_ok, n
  <2> QED
    BY <2>1, AncSame
<1>4. CASE F # {}
  <2>1. Adopt(t, c, open \cup F)
    BY <1>4 DEF recv_ok, n
  <2> HIDE DEF F
  <2>2. c \in Buffers /\ {c.data[j] : j \in 1 .. num_fds(c)} = F
    BY <1>2, ListingWords, ListingExact DEF AncInv
  <2>3. /\ fds' = [fds EXCEPT ![t] = X]
        /\ open' = (open \cup F) \ OwnedIn(fds[t])
        /\ control' = [control EXCEPT ![t] = c]
        /\ UNCHANGED <<held, mine>>
    BY <2>1 DEF Adopt
  <2> HIDE DEF c
  <2>4. X = {Owned(f) : f \in F}
    BY <2>2
  <2>5. X \in SUBSET CowFds /\ OwnedIn(X) = F /\ BorrowedIn(X) = {}
    BY <1>2, <2>4, OwnedAll
  <2> HIDE DEF X
  <2>6. /\ fds' \in [Sides -> SUBSET CowFds]
        /\ fds'[t] = X
        /\ \A u \in Sides : u # t => fds'[u] = fds[u]
    BY <2>3, <2>5, Replaced DEF AncInv
  <2>7. AncTypeOK'
    BY <1>2, <2>2, <2>3, <2>6 DEF AncInv, AncTypeOK
  <2>8. OwnersApart'
    <3>1. CASE t = "send"
      BY <1>2, <2>3, <2>5, <2>6, <3>1 DEF AncInv, OwnersApart, Apart, Sides
    <3>2. CASE t = "recv"
      BY <1>2, <2>3, <2>5, <2>6, <3>2 DEF AncInv, OwnersApart, Apart, Sides
    <3> QED
      BY <3>1, <3>2 DEF Sides
  <2>9. BorrowsLive'
    BY <2>3, <2>5, <2>6 DEF AncInv, BorrowsLive
  <2> QED
    BY <2>7, <2>8, <2>9 DEF AncInv
<1> QED
  BY <1>3, <1>4

\* Without a header in the buffer, a call that failed takes nothing.
LEMMA FailedStep ==
  ASSUME AncInv, control["recv"].len = 0, recv_failed("recv")
  PROVE  AncInv' /\ UNCHANGED ancVars
  BY AncSame DEF recv_failed

LEMMA SideStep ==
  ASSUME AncInv, Reuse = FALSE, NEW t \in Sides, OnSide(t)
  PROVE  AncInv'
<1>1. CASE t = "recv" /\ recv_interrupted
  BY <1>1, FailedStep DEF recv_interrupted, MayReceive
<1>2. CASE t = "recv" /\ \E k \in 0 .. Room : recv_blocking(k)
  BY <1>2, RecvStep DEF recv_blocking
<1>3. CASE send_blocking(t)
  BY <1>3, AttachStep DEF send_blocking
<1> QED
  BY <1>1, <1>2, <1>3, ClearStep, DropStep, IntoMessagesStep, AddStep DEF OnSide

----------------------------------------------------------------------------
(* The stream. *)

LEMMA StreamInvInit ==
  ASSUME StreamInit
  PROVE  StreamInv
<1>1. \A t \in Sides : fds[t] = {} /\ control[t] = Zeroed
  BY DEF StreamInit, AncInit
<1>2. AncTypeOK
  BY ZeroedTyped, AncillaryAssumption DEF StreamInit, AncInit, AncTypeOK, Fds, Std
<1>3. OwnersApart
  BY <1>1, NoneIn DEF StreamInit, AncInit, OwnersApart, Apart, Sides
<1>4. BorrowsLive
  BY <1>1, NoneIn DEF StreamInit, AncInit, BorrowsLive
<1>5. NoHeader
  BY DEF StreamInit, NoHeader, Sides
<1> QED
  BY <1>2, <1>3, <1>4, <1>5 DEF StreamInv, AncInv

\* Only a task that is between two calls, or that returns, changes its buffer.
LEMMA StreamInvNext ==
  ASSUME StreamInv, Reuse = FALSE, [StreamNext]_unixVars
  PROVE  StreamInv'
<1>1. AncInv /\ NoHeader /\ pc \in [Sides -> {"idle", "await", "try"}]
  BY DEF StreamInv, NoHeader
<1>2. CASE OnFds /\ UNCHANGED streamVars
  <2>1. AncInv'
    BY <1>1, <1>2, FdsStep
  <2>2. UNCHANGED <<control, pc>>
    BY <1>2 DEF OnFds, open_file, close, from_owned, try_into_owned, try_clone,
                try_clone_to_owned, drop_cow, streamVars
  <2> QED
    BY <1>1, <2>1, <2>2 DEF StreamInv, NoHeader
<1>3. ASSUME NEW t \in Sides, pc[t] = "idle", OnSide(t), UNCHANGED streamVars
      PROVE  StreamInv'
  <2>1. AncInv'
    BY <1>1, <1>3, SideStep
  <2>2. UNCHANGED pc
    BY <1>3 DEF streamVars
  <2>3. t = "send" => control'["recv"] = control["recv"]
    BY <1>1, <1>3 DEF OnSide, send_blocking, Attach, clear, drop, into_messages, Renew,
                      add_fds, AncInv, AncTypeOK, Sides
  <2> QED
    BY <1>1, <1>3, <2>1, <2>2, <2>3 DEF StreamInv, NoHeader, Sides
<1>4. ASSUME NEW t \in Sides, begin(t) PROVE StreamInv'
  <2>1. UNCHANGED ancVars
    BY <1>4 DEF begin
  <2>2. NoHeader'
    BY <1>1, <1>4 DEF begin, MayReceive, NoHeader, ancVars, Sides
  <2> QED
    BY <1>1, <2>1, <2>2, AncSame DEF StreamInv
<1>5. ASSUME NEW t \in Sides, cancel(t) \/ awaited(t) \/ not_ready(t) PROVE StreamInv'
  <2>1. UNCHANGED ancVars
    BY <1>5 DEF cancel, awaited, not_ready
  <2>2. NoHeader'
    BY <1>1, <1>5 DEF cancel, awaited, not_ready, Again, NoHeader, ancVars, Sides
  <2> QED
    BY <1>1, <2>1, <2>2, AncSame DEF StreamInv
<1>6. CASE send
  <2>1. AncInv'
    BY <1>1, <1>6, AttachStep DEF send, Sides
  <2>2. pc' \in [Sides -> {"idle", "await", "try"}] /\ pc'["recv"] = pc["recv"]
    BY <1>1, <1>6 DEF send, Return, Again, Sides
  <2>3. control'["recv"] = control["recv"]
    BY <1>1, <1>6 DEF send, Attach, AncInv, AncTypeOK, Sides
  <2> QED
    BY <1>1, <2>1, <2>2, <2>3 DEF StreamInv, NoHeader
<1>7. CASE recv_data
  <2>1. AncInv'
    BY <1>1, <1>7, RecvStep DEF recv_data, Sides
  <2>2. pc' \in [Sides -> {"idle", "await", "try"}] /\ pc'["recv"] = "idle"
    BY <1>1, <1>7 DEF recv_data, Return, Sides
  <2> QED
    BY <2>1, <2>2 DEF StreamInv, NoHeader
<1>8. CASE recv_empty
  <2>1. control["recv"].len = 0
    BY <1>1, <1>8 DEF recv_empty, Calls, NoHeader
  <2>2. AncInv' /\ UNCHANGED ancVars
    BY <1>1, <1>8, <2>1, FailedStep DEF recv_empty
  <2>3. pc' \in [Sides -> {"idle", "await", "try"}]
    BY <1>1, <1>8 DEF recv_empty, Again, Sides
  <2> QED
    BY <2>1, <2>2, <2>3 DEF StreamInv, NoHeader, ancVars
<1>9. CASE recv_eof
  <2>1. control["recv"].len = 0 /\ UNCHANGED ancVars
    BY <1>1, <1>9 DEF recv_eof, Calls, NoHeader
  <2>2. pc' \in [Sides -> {"idle", "await", "try"}]
    BY <1>1, <1>9 DEF recv_eof, Return, Again, Sides
  <2> QED
    BY <1>1, <2>1, <2>2, AncSame DEF StreamInv, NoHeader, ancVars
<1>10. CASE peer_send \/ peer_read \/ peer_close \/ driver \/ UNCHANGED unixVars
  <2>1. UNCHANGED <<ancVars, pc>>
    BY <1>10 DEF peer_send, peer_read, peer_close, driver, unixVars, streamVars
  <2> QED
    BY <1>1, <2>1, AncSame DEF StreamInv, NoHeader, ancVars
<1> QED
  BY <1>2, <1>3, <1>4, <1>5, <1>6, <1>7, <1>8, <1>9, <1>10 DEF StreamNext, Client, Task

LEMMA DisjointCount ==
  ASSUME NEW A, NEW B, IsFiniteSet(A), IsFiniteSet(B), A \cap B = {}
  PROVE  /\ IsFiniteSet(A \cup B)
         /\ Cardinality(A \cup B) = Cardinality(A) + Cardinality(B)
<1>1. Cardinality(A) \in Nat /\ Cardinality(B) \in Nat
  BY FS_CardinalityType
<1>2. Cardinality(A \cap B) = 0
  BY FS_EmptySet
<1>3. /\ IsFiniteSet(A \cup B)
      /\ Cardinality(A \cup B) = Cardinality(A) + Cardinality(B) - Cardinality(A \cap B)
  BY FS_Union
<1> QED
  BY <1>1, <1>2, <1>3

\* Four sets that are apart have together as many members as each by itself.
LEMMA ApartCounts ==
  ASSUME NEW o \in SUBSET Fds, NEW m \in SUBSET Fds, NEW h \in SUBSET Fds,
         NEW s \in SUBSET Fds, NEW r \in SUBSET Fds, Apart(o, m, h, s, r)
  PROVE  Cardinality(o \ {Std}) = Cardinality(m) + Cardinality(h) + Cardinality(s)
                                  + Cardinality(r)
<1>1. IsFiniteSet(m) /\ IsFiniteSet(h) /\ IsFiniteSet(s) /\ IsFiniteSet(r)
  BY FdsFinite
<1>2. IsFiniteSet(m \cup h) /\ Cardinality(m \cup h) = Cardinality(m) + Cardinality(h)
  BY <1>1, DisjointCount DEF Apart
<1>3. (m \cup h) \cap s = {} /\ (m \cup h \cup s) \cap r = {}
  BY DEF Apart
<1>4. /\ IsFiniteSet(m \cup h \cup s)
      /\ Cardinality(m \cup h \cup s) = Cardinality(m \cup h) + Cardinality(s)
  BY <1>1, <1>2, <1>3, DisjointCount
<1>5. Cardinality(m \cup h \cup s \cup r) = Cardinality(m \cup h \cup s) + Cardinality(r)
  BY <1>1, <1>3, <1>4, DisjointCount
<1> QED
  BY <1>2, <1>4, <1>5 DEF Apart

LEMMA OwnersCounted ==
  ASSUME StreamInv
  PROVE  OwnersExact
<1> DEFINE anc == [t \in Sides |-> OwnedIn(fds[t])]
<1>1. anc["send"] = OwnedIn(fds["send"]) /\ anc["recv"] = OwnedIn(fds["recv"])
  BY DEF Sides
<1>2. Apart(open, mine, OwnedIn(held), OwnedIn(fds["send"]), OwnedIn(fds["recv"]))
  BY DEF StreamInv, AncInv, OwnersApart
<1>3. /\ open \in SUBSET Fds /\ mine \in SUBSET Fds
      /\ OwnedIn(held) \in SUBSET Fds
      /\ OwnedIn(fds["send"]) \in SUBSET Fds /\ OwnedIn(fds["recv"]) \in SUBSET Fds
  BY <1>2 DEF StreamInv, AncInv, AncTypeOK, Apart
<1>4. open \ {Std} = mine \cup OwnedIn(held) \cup OwnedIn(fds["send"]) \cup OwnedIn(fds["recv"])
  BY <1>2 DEF Apart
<1>5. Cardinality(open \ {Std}) = Cardinality(mine) + Cardinality(OwnedIn(held))
        + Cardinality(OwnedIn(fds["send"])) + Cardinality(OwnedIn(fds["recv"]))
  BY <1>2, <1>3, ApartCounts
<1>6. mine \subseteq open
  BY <1>4
<1>7. BorrowedIn(held) \subseteq open /\ \A t \in Sides : BorrowedIn(fds[t]) \subseteq open
  BY <1>6 DEF StreamInv, AncInv, BorrowsLive
<1> HIDE DEF anc
<1>8. /\ open \ {Std} = mine \cup OwnedIn(held) \cup anc["send"] \cup anc["recv"]
      /\ Cardinality(open \ {Std}) = Cardinality(mine) + Cardinality(OwnedIn(held))
                                     + Cardinality(anc["send"]) + Cardinality(anc["recv"])
  BY <1>1, <1>4, <1>5
<1> QED
  BY <1>7, <1>8 DEF OwnersExact, anc

(***************************************************************************)
(* If no SocketAncillary is used again with what a call left in its        *)
(* buffer, then whatever the two tasks, the client and the peer do, every  *)
(* open descriptor has one owner and every owner an open descriptor        *)
(* (recv(): OwnedFd::from_raw_fd of each word it reads), and what is       *)
(* borrowed is open: for any number of descriptors, any room in the        *)
(* control buffer and any lengths of the queues.                           *)
(***************************************************************************)
THEOREM DescriptorsOwned == Reuse = FALSE => (StreamSpec => []OwnersExact)
<1> SUFFICES ASSUME Reuse = FALSE PROVE StreamSpec => []OwnersExact
  OBVIOUS
<1>1. StreamInit => StreamInv
  BY StreamInvInit
<1>2. StreamInv /\ [StreamNext]_unixVars => StreamInv'
  BY StreamInvNext
<1>3. StreamInv => OwnersExact
  BY OwnersCounted
<1> QED
  BY <1>1, <1>2, <1>3, PTL DEF StreamSpec
============================================================================
