------------------------- MODULE PacketFormatProofs -------------------------
(***************************************************************************)
(* The size table of a packet tells the messages apart that were numbered  *)
(* apart, and unpacking gives the messages that were packed, for queues of *)
(* any length.                                                             *)
(***************************************************************************)
EXTENDS PacketFormat, FiniteSetTheorems, SequenceTheorems, TLAPS

\* There are finitely many changes.
LEMMA ChangesFinite ==
  ASSUME NEW s, NEW s0, NEW n \in Nat
  PROVE  IsFiniteSet(Changes(s, s0, n)) /\ Cardinality(Changes(s, s0, n)) \in Nat
<1>1. IsFiniteSet(1 .. n)
  BY FS_Interval
<1>2. Changes(s, s0, n) \subseteq 1 .. n
  BY DEF Changes
<1> QED
  BY <1>1, <1>2, FS_Subset, FS_CardinalityType

\* Going one block further counts one change more, or none.
LEMMA OneMoreChange ==
  ASSUME NEW s, NEW s0, NEW n \in Nat \ {0}
  PROVE  Cardinality(Changes(s, s0, n)) =
           Cardinality(Changes(s, s0, n - 1)) + (IF s[n] # Before(s, s0, n) THEN 1 ELSE 0)
<1> DEFINE C == Changes(s, s0, n - 1)
<1>1. n - 1 \in Nat /\ IsFiniteSet(C) /\ Cardinality(C) \in Nat
  BY ChangesFinite
<1>2. n \notin C
  BY DEF Changes
<1>3. CASE s[n] # Before(s, s0, n)
  <2>1. Changes(s, s0, n) = C \cup {n}
    BY <1>3 DEF Changes
  <2> QED
    BY <2>1, <1>1, <1>2, <1>3, FS_AddElement
<1>4. CASE s[n] = Before(s, s0, n)
  <2>1. Changes(s, s0, n) = C
    BY <1>4 DEF Changes
  <2> QED
    BY <2>1, <1>1, <1>4
<1> QED
  BY <1>3, <1>4

\* Before the first block nothing has changed.
LEMMA NoChangeYet ==
  ASSUME NEW s, NEW s0
  PROVE  Cardinality(Changes(s, s0, 0)) = 0
<1>1. Changes(s, s0, 0) = {}
  BY DEF Changes
<1> QED
  BY <1>1, FS_EmptySet

\* The bit of a block is 0 or 1.
LEMMA FlagsType ==
  ASSUME NEW nos \in Seq(Nat)
  PROVE  Flags(nos) \in Seq({0, 1}) /\ Len(Flags(nos)) = Len(nos)
<1>1. \A i \in 1 .. Len(nos) : Cardinality(Changes(nos, 0, i)) % 2 \in {0, 1}
  BY ChangesFinite
<1> QED
  BY <1>1 DEF Flags

\* The bit changes where the number changes; the first bit is that of number
\* 0 or not.
LEMMA FlagsChange ==
  ASSUME NEW nos \in Seq(Nat), NEW i \in 1 .. Len(nos)
  PROVE  /\ i > 1 => (Flags(nos)[i] # Flags(nos)[i - 1] <=> nos[i] # nos[i - 1])
         /\ i = 1 => (Flags(nos)[i] # 1 <=> nos[i] = 0)
<1> DEFINE Count(k) == Cardinality(Changes(nos, 0, k))
<1>1. /\ Count(i) = Count(i - 1) + (IF nos[i] # Before(nos, 0, i) THEN 1 ELSE 0)
      /\ Count(i - 1) \in Nat
  BY OneMoreChange, ChangesFinite
<1>2. Count(0) = 0
  BY NoChangeYet
<1>3. Flags(nos)[i] = Count(i) % 2
  BY DEF Flags
<1>4. i > 1 => Flags(nos)[i - 1] = Count(i - 1) % 2
  BY DEF Flags
<1>5. (Count(i - 1) + 1) % 2 # Count(i - 1) % 2
  <2> HIDE DEF Count
  <2> QED
    BY <1>1
<1> HIDE DEF Count
<1>6. CASE i > 1
  <2>1. Before(nos, 0, i) = nos[i - 1] /\ Flags(nos)[i - 1] = Count(i - 1) % 2
    BY <1>4, <1>6 DEF Before
  <2>2. CASE nos[i] = nos[i - 1]
    <3>1. Count(i) = Count(i - 1)
      BY <1>1, <2>1, <2>2
    <3>2. Flags(nos)[i] = Flags(nos)[i - 1]
      BY <3>1, <1>3, <2>1, Zenon
    <3> QED
      BY <3>2, <2>2, <1>6
  <2>3. CASE nos[i] # nos[i - 1]
    <3>1. Count(i) = Count(i - 1) + 1
      BY <1>1, <2>1, <2>3
    <3>2. Flags(nos)[i] # Flags(nos)[i - 1]
      BY <3>1, <1>3, <1>5, <2>1, Zenon
    <3> QED
      BY <3>2, <2>3, <1>6
  <2> QED
    BY <2>2, <2>3, Zenon
<1>7. CASE i = 1
  <2>1. Count(1) = IF nos[1] # 0 THEN 1 ELSE 0
    BY <1>1, <1>2, <1>7 DEF Before
  <2>2. 1 % 2 = 1 /\ 0 % 2 = 0
    OBVIOUS
  <2> QED
    BY <2>1, <2>2, <1>3, <1>7
<1> QED
  BY <1>6, <1>7

\* Packing, then unpacking: when the first message has number 0, the receiver
\* puts the first block into its first message, and starts a new message at
\* exactly those blocks whose number differs from the last one's.
THEOREM BoundariesKept ==
  ASSUME NEW nos \in Seq(Nat), NEW i \in 1 .. Len(nos)
  PROVE  LET place == Places(Flags(nos))
         IN  /\ i = 1 /\ nos[1] = 0 => place[i] = 0
             /\ i > 1 => place[i] = place[i - 1] + (IF nos[i] # nos[i - 1] THEN 1 ELSE 0)
<1> DEFINE flags == Flags(nos)
           Count(k) == Cardinality(Changes(flags, 1, k))
<1>1. /\ Count(i) = Count(i - 1) + (IF flags[i] # Before(flags, 1, i) THEN 1 ELSE 0)
      /\ Count(i - 1) \in Nat
  <2> HIDE DEF flags
  <2> QED
    BY OneMoreChange, ChangesFinite
<1>2. Count(0) = 0
  BY NoChangeYet
<1>3. Len(flags) = Len(nos)
  BY FlagsType
<1>4. Places(flags)[i] = Count(i) - 1 /\ (i > 1 => Places(flags)[i - 1] = Count(i - 1) - 1)
  BY <1>3 DEF Places
<1>5. /\ i > 1 => (flags[i] # Before(flags, 1, i) <=> nos[i] # nos[i - 1])
      /\ i = 1 => (flags[i] # Before(flags, 1, i) <=> nos[i] = 0)
  BY FlagsChange DEF Before
<1> HIDE DEF flags, Count
<1> SUFFICES /\ i = 1 /\ nos[1] = 0 => Places(flags)[i] = 0
             /\ i > 1 => Places(flags)[i] = Places(flags)[i - 1]
                                              + (IF nos[i] # nos[i - 1] THEN 1 ELSE 0)
  BY DEF flags
<1>6. CASE i > 1
  <2>1. Count(i) = Count(i - 1) + (IF nos[i] # nos[i - 1] THEN 1 ELSE 0)
    BY <1>1, <1>5, <1>6
  <2>2. Count(i) - 1 = Count(i - 1) - 1 + (IF nos[i] # nos[i - 1] THEN 1 ELSE 0)
    BY <2>1, <1>1
  <2> QED
    BY <2>2, <1>4, <1>6
<1>7. CASE i = 1
  <2>1. nos[1] = 0 => Count(1) = 1
    BY <1>1, <1>2, <1>5, <1>7
  <2> QED
    BY <2>1, <1>4, <1>7
<1> QED
  BY <1>6, <1>7

----------------------------------------------------------------------------
(* What is unpacked.                                                       *)

\* Every set of natural numbers has a least one: with it, what would be shown by
\* induction is shown of a least counterexample.
LEMMA LeastNumber ==
  ASSUME NEW T \in SUBSET Nat, T # {}
  PROVE  \E x \in T : \A y \in T : x <= y
<1>1. PICK m \in T : TRUE
  OBVIOUS
<1> DEFINE F == {0 .. x : x \in {y \in T : y <= m}}
<1>2. IsFiniteSet(0 .. m)
  BY FS_Interval
<1>3. IsWellFoundedOn(StrictSubsetOrdering(0 .. m), SUBSET (0 .. m))
  <2>1. FiniteSubsetsOf(0 .. m) = SUBSET (0 .. m)
    BY <1>2, FS_FiniteSubsetsOfFinite, Zenon
  <2> QED
    BY <2>1, FS_StrictSubsetOrderingWellFounded, Zenon
<1>4. F \subseteq SUBSET (0 .. m) /\ F # {}
  OBVIOUS
<1>5. PICK I \in F : \A J \in F : <<J, I>> \notin StrictSubsetOrdering(0 .. m)
  <2> HIDE DEF F
  <2> QED
    BY <1>3, <1>4, WFMin, Zenon
<1>6. PICK x \in T : x <= m /\ I = 0 .. x
  BY <1>5
<1>7. ASSUME NEW y \in T, y < x
      PROVE  FALSE
  <2>1. 0 .. y \in F /\ 0 .. y \subseteq 0 .. x /\ x \in 0 .. x /\ x \notin 0 .. y
    BY <1>6, <1>7
  <2>2. <<0 .. y, I>> \in StrictSubsetOrdering(0 .. m)
    BY <2>1, <1>4, <1>6 DEF StrictSubsetOrdering
  <2> QED
    BY <2>1, <2>2, <1>5
<1> QED
  BY <1>7

\* A sequence that does not change between two places has one element there.
LEMMA Constant ==
  ASSUME NEW s, NEW i \in Nat, NEW j \in Nat, \A m \in i + 1 .. j : s[m] = s[m - 1]
  PROVE  \A m \in i .. j : s[m] = s[i]
<1> DEFINE T == {m \in i .. j : s[m] # s[i]}
<1>1. SUFFICES ASSUME T # {} PROVE FALSE
  OBVIOUS
<1>2. PICK x \in T : \A y \in T : x <= y
  <2>1. T \in SUBSET Nat
    OBVIOUS
  <2> HIDE DEF T
  <2> QED
    BY <1>1, <2>1, LeastNumber
<1>3. x \in i + 1 .. j /\ x - 1 \in i .. j /\ x - 1 \notin T
  BY <1>2
<1> QED
  BY <1>2, <1>3

\* Up to a later place there are at least as many changes; as many, if and only if
\* nothing changes between.
LEMMA ChangesBetween ==
  ASSUME NEW s, NEW s0, NEW i \in Nat, NEW j \in Nat, i <= j
  PROVE  /\ Cardinality(Changes(s, s0, i)) <= Cardinality(Changes(s, s0, j))
         /\ Cardinality(Changes(s, s0, i)) = Cardinality(Changes(s, s0, j))
              <=> \A m \in i + 1 .. j : s[m] = Before(s, s0, m)
<1>1. Changes(s, s0, i) \subseteq Changes(s, s0, j) /\ IsFiniteSet(Changes(s, s0, j))
  BY ChangesFinite DEF Changes
<1>2. /\ Cardinality(Changes(s, s0, i)) <= Cardinality(Changes(s, s0, j))
      /\ Cardinality(Changes(s, s0, i)) = Cardinality(Changes(s, s0, j))
           => Changes(s, s0, i) = Changes(s, s0, j)
  BY <1>1, FS_Subset
<1>3. Changes(s, s0, i) = Changes(s, s0, j) <=> \A m \in i + 1 .. j : s[m] = Before(s, s0, m)
  BY DEF Changes
<1> QED
  BY <1>2, <1>3

\* Blocks whose numbers tell their messages apart: the first number is 0, the
\* number changes where the message does, and no message comes twice.
Numbered(nos, blocks) ==
  /\ nos \in Seq(Nat) /\ Len(blocks) = Len(nos)
  /\ Len(nos) > 0 => nos[1] = 0
  /\ \A i \in 2 .. Len(nos) : nos[i] = nos[i - 1] <=> blocks[i] = blocks[i - 1]
  /\ \A i, j, k \in 1 .. Len(nos) :
       i < j /\ j < k /\ blocks[i] = blocks[k] => blocks[j] = blocks[i]

\* Another block is numbered as the last one if it is of the same message, and
\* otherwise, if it is the first of its message, with another number.
LEMMA NumberedAppend ==
  ASSUME NEW S, NEW nos \in Seq(Nat), NEW blocks \in Seq(S), Numbered(nos, blocks),
         NEW no \in Nat, NEW x \in S,
         Len(nos) = 0 => no = 0,
         Len(nos) > 0 => \/ no = nos[Len(nos)] /\ x = blocks[Len(nos)]
                         \/ no # nos[Len(nos)] /\ \A i \in 1 .. Len(nos) : blocks[i] # x
  PROVE  Numbered(Append(nos, no), Append(blocks, x))
<1> DEFINE N == Len(nos)
           n1 == Append(nos, no)
           b1 == Append(blocks, x)
<1>1. /\ N \in Nat /\ Len(blocks) = N
      /\ n1 \in Seq(Nat) /\ Len(n1) = N + 1 /\ Len(b1) = N + 1
      /\ n1[N + 1] = no /\ b1[N + 1] = x
  BY AppendProperties, LenProperties DEF Numbered
<1>2. \A i \in 1 .. N : n1[i] = nos[i] /\ b1[i] = blocks[i]
  BY <1>1, AppendProperties
<1> HIDE DEF n1, b1
<1>3. n1[1] = 0
  <2>1. CASE N = 0
    BY <2>1, <1>1
  <2>2. CASE N > 0
    BY <2>2, <1>1, <1>2 DEF Numbered
  <2> QED
    BY <2>1, <2>2, <1>1
<1>4. ASSUME NEW i \in 2 .. N + 1
      PROVE  n1[i] = n1[i - 1] <=> b1[i] = b1[i - 1]
  <2>1. CASE i \in 2 .. N
    <3>1. i \in 1 .. N /\ i - 1 \in 1 .. N
      BY <2>1, <1>1
    <3>2. nos[i] = nos[i - 1] <=> blocks[i] = blocks[i - 1]
      BY <2>1 DEF Numbered
    <3> QED
      BY <3>1, <3>2, <1>2
  <2>2. CASE i = N + 1
    <3>1. N > 0 /\ i - 1 = N /\ N \in 1 .. N
      BY <2>2, <1>1
    <3>2. n1[i] = no /\ b1[i] = x /\ n1[i - 1] = nos[N] /\ b1[i - 1] = blocks[N]
      BY <2>2, <3>1, <1>1, <1>2
    <3> QED
      BY <3>1, <3>2
  <2> QED
    BY <2>1, <2>2, <1>1
<1>5. ASSUME NEW i \in 1 .. N + 1, NEW j \in 1 .. N + 1, NEW k \in 1 .. N + 1,
             i < j, j < k, b1[i] = b1[k]
      PROVE  b1[j] = b1[i]
  <2>0. i \in 1 .. N /\ j \in 1 .. N /\ N > 0 /\ N \in 1 .. N
    <3> N \in Nat
      BY <1>1
    <3> HIDE DEF N
    <3> QED
      BY <1>5
  <2>a. \A e, f, g \in 1 .. N : e < f /\ f < g /\ blocks[e] = blocks[g] => blocks[f] = blocks[e]
    BY DEF Numbered
  <2>1. CASE k \in 1 .. N
    BY <2>0, <2>1, <2>a, <1>2, <1>5
  <2>2. CASE k = N + 1
    <3>1. blocks[i] = x /\ b1[i] = blocks[i] /\ b1[j] = blocks[j]
      BY <2>0, <2>2, <1>1, <1>2, <1>5
    <3>2. blocks[N] = x
      BY <2>0, <3>1
    <3>3. CASE j = N
      BY <3>1, <3>2, <3>3
    <3>4. CASE j < N
      BY <3>1, <3>2, <3>4, <2>0, <2>a, <1>5
    <3> QED
      BY <3>3, <3>4, <2>0, <1>1
  <2> QED
    BY <2>1, <2>2, <1>1
<1>6. Numbered(n1, b1)
  BY <1>1, <1>3, <1>4, <1>5 DEF Numbered
<1> QED
  BY <1>6 DEF n1, b1

\* The receiver puts two blocks into one message if and only if they are of the
\* same message, and later blocks into the same or later messages.
LEMMA PlaceIsMessage ==
  ASSUME NEW nos, NEW blocks, Numbered(nos, blocks),
         NEW i \in 1 .. Len(nos), NEW j \in 1 .. Len(nos), i <= j
  PROVE  LET place == Places(Flags(nos))
         IN  /\ place[i] \in Int /\ place[j] \in Int /\ place[i] <= place[j]
             /\ place[i] = place[j] <=> blocks[i] = blocks[j]
<1> DEFINE flags == Flags(nos)
           Count(k) == Cardinality(Changes(flags, 1, k))
<1>0. nos \in Seq(Nat) /\ i \in Nat /\ j \in Nat /\ Len(nos) \in Nat
  BY DEF Numbered
<1>1. Len(flags) = Len(nos)
  BY <1>0, FlagsType
<1>2. Places(flags)[i] = Count(i) - 1 /\ Places(flags)[j] = Count(j) - 1
  BY <1>1 DEF Places
<1>3. Count(i) \in Nat /\ Count(j) \in Nat
  BY <1>0, ChangesFinite
<1>4. /\ Count(i) <= Count(j)
      /\ Count(i) = Count(j) <=> \A m \in i + 1 .. j : flags[m] = Before(flags, 1, m)
  BY <1>0, ChangesBetween
<1>5. \A m \in i + 1 .. j : flags[m] = Before(flags, 1, m) <=> blocks[m] = blocks[m - 1]
  <2> SUFFICES ASSUME NEW m \in i + 1 .. j
               PROVE  flags[m] = Before(flags, 1, m) <=> blocks[m] = blocks[m - 1]
    OBVIOUS
  <2>1. m \in 2 .. Len(nos) /\ m \in 1 .. Len(nos) /\ m > 1 /\ m # 1
    BY <1>0
  <2>2. Before(flags, 1, m) = flags[m - 1]
    BY <2>1 DEF Before
  <2>3. flags[m] # flags[m - 1] <=> nos[m] # nos[m - 1]
    BY <1>0, <2>1, FlagsChange
  <2>4. nos[m] = nos[m - 1] <=> blocks[m] = blocks[m - 1]
    BY <2>1 DEF Numbered
  <2> QED
    BY <2>2, <2>3, <2>4, Zenon
<1>6. (\A m \in i + 1 .. j : blocks[m] = blocks[m - 1]) <=> blocks[i] = blocks[j]
  <2>1. ASSUME \A m \in i + 1 .. j : blocks[m] = blocks[m - 1]
        PROVE  blocks[i] = blocks[j]
    <3> HIDE DEF flags, Count
    <3>1. \A m \in i .. j : blocks[m] = blocks[i]
      BY <1>0, <2>1, Constant, Zenon
    <3>2. j \in i .. j
      BY <1>0
    <3> QED
      BY <3>1, <3>2
  <2>2. ASSUME blocks[i] = blocks[j], NEW m \in i + 1 .. j
        PROVE  blocks[m] = blocks[m - 1]
    <3>1. ASSUME NEW n \in i .. j
          PROVE  blocks[n] = blocks[i]
      <4>1. CASE n = i \/ n = j
        BY <4>1, <2>2
      <4>2. CASE i < n /\ n < j
        <5>1. n \in 1 .. Len(nos)
          BY <1>0
        <5>2. blocks[i] = blocks[j] => blocks[n] = blocks[i]
          BY <4>2, <5>1, Zenon DEF Numbered
        <5> QED
          BY <5>2, <2>2
      <4> QED
        BY <4>1, <4>2, <1>0
    <3>2. m \in i .. j /\ m - 1 \in i .. j
      BY <1>0
    <3> QED
      BY <3>1, <3>2
  <2> QED
    BY <2>1, <2>2, Zenon
<1> HIDE DEF flags, Count
<1>7. Count(i) = Count(j) <=> blocks[i] = blocks[j]
  BY <1>4, <1>5, <1>6, Zenon
<1> QED
  BY <1>2, <1>3, <1>4, <1>7 DEF flags

\* The blocks before the k-th message are the first ones.
LEMMA PrecedingBlocks ==
  ASSUME NEW nos, NEW blocks, Numbered(nos, blocks), NEW k \in Int
  PROVE  LET place == Places(Flags(nos))
             preceding == Cardinality({i \in 1 .. Len(Flags(nos)) : place[i] < k})
         IN  /\ preceding \in 0 .. Len(nos)
             /\ \A i \in 1 .. Len(nos) : place[i] < k <=> i <= preceding
<1> DEFINE place == Places(Flags(nos))
           D == {i \in 1 .. Len(nos) : place[i] < k}
           C == {i \in 1 .. Len(nos) : ~(place[i] < k)}
<1>0. nos \in Seq(Nat) /\ Len(nos) \in Nat
  BY DEF Numbered
<1>1. Len(Flags(nos)) = Len(nos)
  BY <1>0, FlagsType
<1>2. \A i, j \in 1 .. Len(nos) : i <= j => place[i] <= place[j] /\ place[i] \in Int /\ place[j] \in Int
  BY PlaceIsMessage
<1> HIDE DEF place
<1>3. \E n \in 0 .. Len(nos) : D = 1 .. n
  <2>1. CASE C = {}
    BY <2>1, <1>0
  <2>2. CASE C # {}
    <3>1. C \in SUBSET Nat
      BY <1>0
    <3>2. PICK c \in C : \A d \in C : c <= d
      <4> HIDE DEF C
      <4> QED
        BY <2>2, <3>1, LeastNumber
    <3>3. c \in 1 .. Len(nos) /\ ~(place[c] < k) /\ c - 1 \in 0 .. Len(nos)
      BY <1>0
    <3>4. ASSUME NEW i \in 1 .. Len(nos)
          PROVE  place[i] < k <=> i <= c - 1
      <4>1. CASE i < c
        <5>1. i \notin C
          BY <3>2, <3>3, <4>1, <1>0
        <5> QED
          BY <5>1, <4>1, <3>3, <1>0
      <4>2. CASE c <= i
        <5>1. place[c] <= place[i] /\ place[c] \in Int /\ place[i] \in Int
          BY <1>2, <3>3, <4>2
        <5> QED
          BY <5>1, <3>3, <4>2, <1>0
      <4> QED
        BY <4>1, <4>2, <3>3, <1>0
    <3>5. D = 1 .. c - 1
      BY <3>3, <3>4, <1>0
    <3> QED
      BY <3>3, <3>5
  <2> QED
    BY <2>1, <2>2
<1>4. PICK n \in 0 .. Len(nos) : D = 1 .. n
  BY <1>3
<1>5. Cardinality(D) = n
  <2>1. n \in Nat /\ 1 \in Int /\ n \in Int
    BY <1>0
  <2>2. Cardinality(1 .. n) = IF 1 > n THEN 0 ELSE n - 1 + 1
    BY <2>1, FS_Interval
  <2>3. Cardinality(1 .. n) = n
    BY <2>1, <2>2
  <2> QED
    BY <2>3, <1>4, Zenon
<1>6. \A i \in 1 .. Len(nos) : place[i] < k <=> i <= n
  <2>1. \A i \in 1 .. Len(nos) : i \in D <=> i \in 1 .. n
    BY <1>4
  <2> QED
    BY <2>1, <1>0
<1> QED
  BY <1>1, <1>4, <1>5, <1>6 DEF place

\* The receiver leaves no message empty: from one block to the next it goes to
\* the next message at most.
LEMMA NoMessageEmpty ==
  ASSUME NEW nos, NEW blocks, Numbered(nos, blocks), Len(nos) > 0
  PROVE  LET place == Places(Flags(nos))
         IN  /\ \A i \in 1 .. Len(nos) : place[i] \in 0 .. place[Len(nos)]
             /\ \A k \in 0 .. place[Len(nos)] : \E i \in 1 .. Len(nos) : place[i] = k
<1> DEFINE place == Places(Flags(nos))
           N == Len(nos)
<1>0. nos \in Seq(Nat) /\ N \in Nat \ {0} /\ nos[1] = 0 /\ 1 \in 1 .. N /\ N \in 1 .. N
  BY DEF Numbered
<1>1. \A i, j \in 1 .. N : i <= j => place[i] <= place[j] /\ place[i] \in Int /\ place[j] \in Int
  BY PlaceIsMessage
<1>2. place[1] = 0
  BY <1>0, BoundariesKept
<1>3. \A i \in 2 .. N : place[i] <= place[i - 1] + 1
  <2> SUFFICES ASSUME NEW i \in 2 .. N PROVE place[i] <= place[i - 1] + 1
    OBVIOUS
  <2>1. i \in 1 .. N /\ i - 1 \in 1 .. N /\ i > 1
    BY <1>0
  <2>2. place[i] = place[i - 1] + (IF nos[i] # nos[i - 1] THEN 1 ELSE 0)
    BY <1>0, <2>1, BoundariesKept
  <2> HIDE DEF place
  <2>3. place[i - 1] \in Int
    BY <1>1, <2>1
  <2> QED
    BY <2>2, <2>3
<1> HIDE DEF place
<1>4. \A i \in 1 .. N : place[i] \in 0 .. place[N]
  BY <1>0, <1>1, <1>2
<1>5. ASSUME NEW k \in 0 .. place[N]
      PROVE  \E i \in 1 .. N : place[i] = k
  <2> DEFINE T == {i \in 1 .. N : place[i] >= k}
  <2>1. T \in SUBSET Nat /\ T # {}
    BY <1>0, <1>4
  <2>2. PICK x \in T : \A y \in T : x <= y
    <3> HIDE DEF T
    <3> QED
      BY <2>1, LeastNumber
  <2>3. CASE x = 1
    BY <2>2, <2>3, <1>2, <1>0
  <2>4. CASE x # 1
    <3>1. x \in 2 .. N /\ x - 1 \in 1 .. N /\ x - 1 \notin T
      BY <2>2, <2>4, <1>0
    <3>2. place[x - 1] < k /\ place[x] <= place[x - 1] + 1 /\ place[x - 1] \in Int
          /\ place[x] \in Int /\ place[x] >= k
      BY <3>1, <1>3, <1>4, <2>2
    <3> QED
      BY <3>1, <3>2, <1>0
  <2> QED
    BY <2>3, <2>4
<1> QED
  BY <1>4, <1>5 DEF place

\* Packing, then unpacking: the receiver gets the messages that were packed, each
\* whole and by itself, and in their order.
THEOREM UnpackedAsPacked ==
  ASSUME NEW S, NEW blocks \in Seq(S), NEW nos, Numbered(nos, blocks)
  PROVE  MessagesIn(Unpack(blocks, Flags(nos)), blocks, Len(blocks))
<1> DEFINE flags == Flags(nos)
           place == Places(flags)
           N == Len(nos)
           Preceding(k) == Cardinality({i \in 1 .. Len(flags) : place[i] < k})
           count == CountMessages(flags)
           u == Unpack(blocks, flags)
<1>0. nos \in Seq(Nat) /\ N \in Nat /\ Len(blocks) = N /\ Len(flags) = N
  BY FlagsType DEF Numbered
<1>1. u = [k \in 1 .. count |-> SubSeq(blocks, Preceding(k - 1) + 1, Preceding(k))]
  BY DEF Unpack
<1>2. \A k \in Int : /\ Preceding(k) \in 0 .. N
                     /\ \A i \in 1 .. N : place[i] < k <=> i <= Preceding(k)
  BY PrecedingBlocks
<1>3. \A i, j \in 1 .. N : i <= j =>
        /\ place[i] \in Int /\ place[j] \in Int /\ place[i] <= place[j]
        /\ place[i] = place[j] <=> blocks[i] = blocks[j]
  BY PlaceIsMessage
<1>4. N > 0 => /\ \A i \in 1 .. N : place[i] \in 0 .. place[N]
               /\ \A k \in 0 .. place[N] : \E i \in 1 .. N : place[i] = k
  BY NoMessageEmpty
<1>5. count \in Nat /\ Len(u) = count
  <2>0. flags = <<>> <=> N = 0
    <3>1. flags \in Seq({0, 1})
      BY <1>0, FlagsType
    <3> HIDE DEF flags
    <3> QED
      BY <3>1, <1>0
  <2>1. count \in Nat
    <3>1. CASE N = 0
      BY <3>1, <2>0 DEF CountMessages
    <3>2. CASE N > 0
      <4>1. count = place[N] + 1
        BY <3>2, <2>0, <1>0 DEF CountMessages
      <4>2. N \in 1 .. N
        BY <3>2, <1>0
      <4> HIDE DEF count, place
      <4> QED
        BY <4>1, <4>2, <1>4, <3>2
    <3> QED
      BY <3>1, <3>2, <1>0
  <2> HIDE DEF count, Preceding, u
  <2> QED
    BY <1>1, <2>1
<1>6. \A i \in 1 .. N : place[i] + 1 \in 1 .. count
  <2> SUFFICES ASSUME NEW i \in 1 .. N PROVE place[i] + 1 \in 1 .. count
    OBVIOUS
  <2>1. N > 0 /\ flags # <<>>
    BY <1>0
  <2>2. count = place[N] + 1
    BY <2>1, <1>0 DEF CountMessages
  <2> HIDE DEF count, place
  <2> QED
    BY <2>1, <2>2, <1>4
<1>7. \A k \in 1 .. count : \E i \in 1 .. N : place[i] = k - 1
  <2> SUFFICES ASSUME NEW k \in 1 .. count PROVE \E i \in 1 .. N : place[i] = k - 1
    OBVIOUS
  <2>1. flags # <<>> /\ count = place[N] + 1
    BY <1>0 DEF CountMessages
  <2>2. N > 0
    <3>1. flags \in Seq({0, 1})
      BY <1>0, FlagsType
    <3> HIDE DEF flags
    <3> QED
      BY <3>1, <2>1, <1>0
  <2>3. N \in 1 .. N
    BY <2>2, <1>0
  <2> HIDE DEF count, place
  <2> QED
    BY <2>1, <2>2, <2>3, <1>4
<1> HIDE DEF Preceding, count, place, u
\* The k-th message is the run of the blocks with place k - 1.
<1>8. ASSUME NEW k \in 1 .. count
      PROVE  /\ Preceding(k - 1) + 1 \in 1 .. N /\ Preceding(k) \in 1 .. N
             /\ Preceding(k - 1) + 1 <= Preceding(k)
             /\ \A i \in 1 .. N : place[i] = k - 1
                                    <=> i \in Preceding(k - 1) + 1 .. Preceding(k)
  <2>1. k \in Int /\ k - 1 \in Int
    BY <1>5
  <2>2. \A i \in 1 .. N : place[i] \in Int
    BY <1>3
  <2>3. \A i \in 1 .. N : place[i] = k - 1 <=> place[i] < k /\ ~(place[i] < k - 1)
    BY <2>1, <2>2
  <2>4. /\ Preceding(k) \in 0 .. N /\ Preceding(k - 1) \in 0 .. N
        /\ \A i \in 1 .. N : place[i] < k <=> i <= Preceding(k)
        /\ \A i \in 1 .. N : place[i] < k - 1 <=> i <= Preceding(k - 1)
    BY <2>1, <1>2
  <2>5. \A i \in 1 .. N : place[i] = k - 1 <=> i \in Preceding(k - 1) + 1 .. Preceding(k)
    BY <2>3, <2>4, <1>0
  <2>6. PICK i \in 1 .. N : place[i] = k - 1
    BY <1>7
  <2>7. i \in Preceding(k - 1) + 1 .. Preceding(k)
    BY <2>5, <2>6
  <2> QED
    BY <2>4, <2>5, <2>7, <1>0
<1>9. ASSUME NEW k \in 1 .. count
      PROVE  /\ u[k] = SubSeq(blocks, Preceding(k - 1) + 1, Preceding(k))
             /\ u[k][1] = blocks[Preceding(k - 1) + 1]
             /\ \A i \in 1 .. N : blocks[i] = u[k][1] <=> place[i] = k - 1
  <2> DEFINE a == Preceding(k - 1) + 1
             b == Preceding(k)
  <2>1. u[k] = SubSeq(blocks, a, b)
    BY <1>1
  <2>2. a \in 1 .. N /\ b \in 1 .. N /\ a <= b /\ a \in a .. b
    BY <1>8, <1>0
  <2>3. u[k][1] = blocks[a]
    <3> HIDE DEF a, b
    <3> QED
      BY <2>1, <2>2, <1>0
  <2>4. place[a] = k - 1
    BY <1>8, <2>2
  <2> HIDE DEF a, b
  <2>5. \A i \in 1 .. N : blocks[i] = blocks[a] <=> place[i] = place[a]
    <3> SUFFICES ASSUME NEW i \in 1 .. N PROVE blocks[i] = blocks[a] <=> place[i] = place[a]
      OBVIOUS
    <3>1. i <= a \/ a <= i
      BY <2>2, <1>0
    <3> QED
      BY <3>1, <2>2, <1>3
  <2> QED
    BY <2>1, <2>3, <2>4, <2>5 DEF a, b
<1>10. ASSUME NEW k \in 1 .. Len(u)
       PROVE  \E a, b \in 1 .. Len(blocks) :
                Run(blocks, a, b) /\ u[k] = SubSeq(blocks, a, b)
  <2>1. k \in 1 .. count
    BY <1>5
  <2> DEFINE a == Preceding(k - 1) + 1
             b == Preceding(k)
  <2>2. a \in 1 .. Len(blocks) /\ b \in 1 .. Len(blocks) /\ a <= b
    BY <2>1, <1>0, <1>8
  <2>3. /\ u[k] = SubSeq(blocks, a, b)
        /\ \A i \in 1 .. Len(blocks) : blocks[i] = blocks[a] <=> i \in a .. b
    BY <2>1, <1>0, <1>8, <1>9
  <2> HIDE DEF a, b
  <2>4. Run(blocks, a, b)
    BY <2>2, <2>3 DEF Run
  <2> QED
    BY <2>2, <2>3, <2>4
<1>11. ASSUME NEW k \in 1 .. Len(u), NEW l \in 1 .. Len(u), k < l,
              NEW i \in 1 .. Len(blocks), NEW j \in 1 .. Len(blocks),
              blocks[i] = u[k][1], blocks[j] = u[l][1]
       PROVE  i < j
  <2>1. place[i] = k - 1 /\ place[j] = l - 1 /\ i \in 1 .. N /\ j \in 1 .. N
    BY <1>0, <1>5, <1>9, <1>11
  <2>2. j <= i => place[j] <= place[i]
    BY <2>1, <1>3
  <2> QED
    BY <2>1, <2>2, <1>0, <1>5, <1>11
<1>12. ASSUME NEW i \in 1 .. Len(blocks)
       PROVE  \E k \in 1 .. Len(u) : u[k][1] = blocks[i]
  <2>1. i \in 1 .. N /\ place[i] + 1 \in 1 .. count /\ place[i] \in Int
    BY <1>0, <1>3, <1>6
  <2>2. u[place[i] + 1][1] = blocks[i]
    <3>1. place[i] = (place[i] + 1) - 1
      BY <2>1
    <3> QED
      BY <3>1, <2>1, <1>9
  <2> QED
    BY <2>1, <2>2, <1>5
<1> QED
  BY <1>10, <1>11, <1>12 DEF MessagesIn, u

----------------------------------------------------------------------------
(* Messages in a sequence of blocks.                                       *)

\* The message g is the run a .. b of s, and begins with the first block of it.
IsRun(g, s, a, b) == Run(s, a, b) /\ g = SubSeq(s, a, b) /\ g[1] = s[a]

\* So is every message that was unpacked.
LEMMA RunOfMessage ==
  ASSUME NEW u, NEW s, NEW n \in Nat, MessagesIn(u, s, n), NEW k \in 1 .. Len(u)
  PROVE  \E a, b \in 1 .. n : IsRun(u[k], s, a, b)
<1>1. PICK a \in 1 .. n, b \in 1 .. n : Run(s, a, b) /\ u[k] = SubSeq(s, a, b)
  BY DEF MessagesIn
<1>2. SubSeq(s, a, b)[1] = s[a]
  BY <1>1 DEF Run
<1> QED
  BY <1>1, <1>2 DEF IsRun

\* Of a message in the first n blocks there are none behind.
LEMMA MessagesApart ==
  ASSUME NEW u, NEW s, NEW n \in Nat, Len(s) \in Nat, n <= Len(s), MessagesIn(u, s, n),
         NEW i \in 1 .. n, NEW j \in n + 1 .. Len(s)
  PROVE  s[i] # s[j]
<1>1. PICK k \in 1 .. Len(u) : u[k][1] = s[i]
  BY DEF MessagesIn
<1>2. PICK a \in 1 .. n, b \in 1 .. n : IsRun(u[k], s, a, b)
  BY RunOfMessage, Zenon
<1>3. j \in 1 .. Len(s) /\ j \notin a .. b
  OBVIOUS
<1> QED
  BY <1>1, <1>2, <1>3 DEF IsRun, Run

\* Part of a sequence is part of a longer one.
LEMMA SamePart ==
  ASSUME NEW s, NEW t, NEW a \in Nat, NEW b \in Nat, NEW d \in Nat,
         \A i \in a .. b : s[i] = t[d + i]
  PROVE  SubSeq(s, a, b) = SubSeq(t, d + a, d + b)
<1>1. /\ SubSeq(s, a, b) = [i \in 1 .. b - a + 1 |-> s[a + i - 1]]
      /\ SubSeq(t, d + a, d + b) = [i \in 1 .. b - a + 1 |-> t[d + a + i - 1]]
  OBVIOUS
<1>2. \A i \in 1 .. b - a + 1 : a + i - 1 \in a .. b /\ d + (a + i - 1) = d + a + i - 1
  OBVIOUS
<1> QED
  BY <1>1, <1>2

\* There are no messages in no blocks.
LEMMA NoMessages == ASSUME NEW s PROVE MessagesIn(<<>>, s, 0)
BY DEF MessagesIn

\* Another block behind does not change the messages in front.
LEMMA MessagesStay ==
  ASSUME NEW S, NEW s \in Seq(S), NEW x \in S, NEW u, NEW n \in Nat, n <= Len(s),
         MessagesIn(u, s, n), \A i \in 1 .. n : s[i] # x
  PROVE  MessagesIn(u, Append(s, x), n)
<1> DEFINE t == Append(s, x)
<1>1. /\ Len(s) \in Nat /\ Len(t) = Len(s) + 1 /\ t[Len(s) + 1] = x
      /\ \A i \in 1 .. Len(s) : t[i] = s[i]
  BY AppendProperties, LenProperties
<1> HIDE DEF t
<1>2. \A i \in 1 .. n : i \in 1 .. Len(s) /\ t[i] = s[i]
  BY <1>1
<1>3. ASSUME NEW k \in 1 .. Len(u)
      PROVE  \E a, b \in 1 .. n : Run(t, a, b) /\ u[k] = SubSeq(t, a, b)
  <2>1. PICK a \in 1 .. n, b \in 1 .. n : IsRun(u[k], s, a, b)
    BY RunOfMessage, Zenon
  <2>2. SubSeq(s, a, b) = SubSeq(t, a, b)
    <3>1. \A i \in a .. b : i \in 1 .. n /\ s[i] = t[0 + i]
      BY <1>2
    <3>2. a \in Nat /\ b \in Nat /\ 0 + a = a /\ 0 + b = b
      OBVIOUS
    <3> QED
      BY <3>1, <3>2, SamePart
  <2>3. ASSUME NEW i \in 1 .. Len(t)
        PROVE  t[i] = t[a] <=> i \in a .. b
    <3>1. CASE i \in 1 .. Len(s)
      BY <3>1, <2>1, <1>1, <1>2 DEF IsRun, Run
    <3>2. CASE i = Len(s) + 1
      <4>1. t[i] = x /\ t[a] = s[a] /\ s[a] # x
        BY <3>2, <1>1, <1>2
      <4>2. i \notin a .. b
        BY <3>2, <1>1
      <4> QED
        BY <4>1, <4>2
    <3> QED
      BY <3>1, <3>2, <1>1
  <2>4. Run(t, a, b)
    BY <2>1, <2>3 DEF IsRun, Run
  <2> QED
    BY <2>1, <2>2, <2>4 DEF IsRun
<1>4. ASSUME NEW k \in 1 .. Len(u), NEW l \in 1 .. Len(u), k < l,
             NEW i \in 1 .. n, NEW j \in 1 .. n, t[i] = u[k][1], t[j] = u[l][1]
      PROVE  i < j
  <2>1. \A e, f \in 1 .. n : s[e] = u[k][1] /\ s[f] = u[l][1] => e < f
    BY <1>4 DEF MessagesIn
  <2> QED
    BY <1>2, <1>4, <2>1
<1>5. ASSUME NEW i \in 1 .. n
      PROVE  \E k \in 1 .. Len(u) : u[k][1] = t[i]
  BY <1>2 DEF MessagesIn
<1> QED
  BY <1>3, <1>4, <1>5 DEF MessagesIn, t

\* The messages of the next blocks follow those in the first n.
LEMMA MessagesJoin ==
  ASSUME NEW S, NEW s \in Seq(S), NEW t \in Seq(S), NEW U, NEW u \in Seq(U), NEW v \in Seq(U),
         NEW n \in Nat, n + Len(t) <= Len(s), \A i \in 1 .. Len(t) : t[i] = s[n + i],
         MessagesIn(u, s, n), MessagesIn(v, t, Len(t)),
         \A i \in 1 .. n + Len(t), j \in n + Len(t) + 1 .. Len(s) : s[i] # s[j]
  PROVE  MessagesIn(u \o v, s, n + Len(t))
<1> DEFINE w == u \o v
           m == n + Len(t)
<1>0. /\ Len(s) \in Nat /\ Len(t) \in Nat /\ Len(u) \in Nat /\ Len(v) \in Nat
      /\ m \in Nat /\ n <= m /\ m <= Len(s)
  BY LenProperties
<1>1. /\ Len(w) = Len(u) + Len(v)
      /\ \A k \in 1 .. Len(u) : w[k] = u[k]
      /\ \A k \in 1 .. Len(v) : w[Len(u) + k] = v[k]
  BY ConcatProperties
<1>2. \A i \in 1 .. n, j \in n + 1 .. Len(s) : s[i] # s[j]
  <2>1. n <= Len(s) /\ Len(s) \in Nat
    BY <1>0
  <2> HIDE DEF w, m
  <2> QED
    BY <2>1, MessagesApart, Zenon
<1>a. ASSUME NEW i \in n + 1 .. m
      PROVE  i - n \in 1 .. Len(t) /\ t[i - n] = s[i]
  <2>1. i - n \in 1 .. Len(t) /\ n + (i - n) = i
    BY <1>0
  <2> QED
    BY <2>1
<1>b. ASSUME NEW k \in 1 .. Len(w)
      PROVE  k \in 1 .. Len(u) \/ k - Len(u) \in 1 .. Len(v)
  BY <1>0, <1>1
<1>c. ASSUME NEW k \in 1 .. Len(w), k - Len(u) \in 1 .. Len(v)
      PROVE  w[k] = v[k - Len(u)]
  <2>1. Len(u) + (k - Len(u)) = k
    BY <1>0
  <2> QED
    BY <2>1, <1>1, <1>c
<1> HIDE DEF w, m
\* Where the messages of u and those of v lie in s, and in which order.
<1>3. ASSUME NEW k \in 1 .. Len(u)
      PROVE  \E a, b \in 1 .. n : IsRun(u[k], s, a, b)
  BY RunOfMessage, Zenon
<1>4. ASSUME NEW k \in 1 .. Len(v)
      PROVE  \E a, b \in n + 1 .. m : IsRun(v[k], s, a, b)
  <2>1. PICK a \in 1 .. Len(t), b \in 1 .. Len(t) : IsRun(v[k], t, a, b)
    BY <1>0, RunOfMessage, Zenon
  <2>2. n + a \in n + 1 .. m /\ n + b \in n + 1 .. m /\ n + a <= n + b /\ t[a] = s[n + a]
    BY <1>0, <2>1 DEF m, IsRun, Run
  <2>3. SubSeq(t, a, b) = SubSeq(s, n + a, n + b)
    <3>1. \A i \in a .. b : i \in 1 .. Len(t) /\ t[i] = s[n + i]
      BY <1>0
    <3>2. a \in Nat /\ b \in Nat
      BY <1>0
    <3> QED
      BY <3>1, <3>2, SamePart
  <2>4. ASSUME NEW i \in 1 .. Len(s)
        PROVE  s[i] = s[n + a] <=> i \in n + a .. n + b
    <3>1. CASE i <= n
      <4>1. s[i] # s[n + a]
        BY <3>1, <2>2, <1>0, <1>2
      <4>2. i \notin n + a .. n + b
        BY <3>1, <1>0
      <4> QED
        BY <4>1, <4>2
    <3>2. CASE i \in n + 1 .. m
      <4>1. i - n \in 1 .. Len(t) /\ t[i - n] = s[i]
        BY <3>2, <1>a
      <4>2. s[i] = s[n + a] <=> i - n \in a .. b
        BY <4>1, <2>1, <2>2 DEF IsRun, Run
      <4>3. i - n \in a .. b <=> i \in n + a .. n + b
        BY <1>0
      <4> QED
        BY <4>2, <4>3
    <3>3. CASE i > m
      <4>1. n + a \in 1 .. n + Len(t) /\ i \in n + Len(t) + 1 .. Len(s)
        BY <3>3, <2>2, <1>0 DEF m
      <4>2. s[n + a] # s[i]
        BY <4>1
      <4>3. i \notin n + a .. n + b
        BY <3>3, <2>2, <1>0
      <4> QED
        BY <4>2, <4>3
    <3> QED
      BY <3>1, <3>2, <3>3, <1>0
  <2>5. Run(s, n + a, n + b)
    BY <2>2, <2>4 DEF Run
  <2> QED
    BY <2>1, <2>2, <2>3, <2>5 DEF IsRun
<1>d. ASSUME NEW k \in 1 .. Len(u), NEW i \in 1 .. Len(s), s[i] = u[k][1]
      PROVE  i \in 1 .. n
  <2>1. PICK a \in 1 .. n, b \in 1 .. n : IsRun(u[k], s, a, b)
    BY <1>3, Zenon
  <2>2. i \in a .. b
    BY <2>1, <1>d DEF IsRun, Run
  <2> QED
    BY <2>2
<1>e. ASSUME NEW k \in 1 .. Len(v), NEW i \in 1 .. Len(s), s[i] = v[k][1]
      PROVE  i \in n + 1 .. m
  <2>1. PICK a \in n + 1 .. m, b \in n + 1 .. m : IsRun(v[k], s, a, b)
    BY <1>4, Zenon
  <2>2. i \in a .. b
    BY <2>1, <1>e DEF IsRun, Run
  <2> QED
    BY <2>2, <1>0
<1>f. /\ \A k, l \in 1 .. Len(u) : k < l =>
           \A i, j \in 1 .. n : s[i] = u[k][1] /\ s[j] = u[l][1] => i < j
      /\ \A k, l \in 1 .. Len(v) : k < l =>
           \A i, j \in 1 .. Len(t) : t[i] = v[k][1] /\ t[j] = v[l][1] => i < j
  BY DEF MessagesIn
<1>5. ASSUME NEW k \in 1 .. Len(w)
      PROVE  \E a, b \in 1 .. m : Run(s, a, b) /\ w[k] = SubSeq(s, a, b)
  <2>1. CASE k \in 1 .. Len(u)
    <3>1. PICK a \in 1 .. n, b \in 1 .. n : IsRun(u[k], s, a, b)
      BY <2>1, <1>3, Zenon
    <3>2. a \in 1 .. m /\ b \in 1 .. m
      BY <1>0
    <3>3. Run(s, a, b) /\ w[k] = SubSeq(s, a, b)
      BY <3>1, <2>1, <1>1 DEF IsRun
    <3> QED
      BY <3>2, <3>3
  <2>2. CASE k - Len(u) \in 1 .. Len(v)
    <3>1. PICK a \in n + 1 .. m, b \in n + 1 .. m : IsRun(v[k - Len(u)], s, a, b)
      BY <2>2, <1>4, Zenon
    <3>2. a \in 1 .. m /\ b \in 1 .. m
      BY <1>0
    <3>3. Run(s, a, b) /\ w[k] = SubSeq(s, a, b)
      BY <3>1, <2>2, <1>c DEF IsRun
    <3> QED
      BY <3>2, <3>3
  <2> QED
    BY <2>1, <2>2, <1>b
<1>6. ASSUME NEW k \in 1 .. Len(w), NEW l \in 1 .. Len(w), k < l,
             NEW i \in 1 .. m, NEW j \in 1 .. m, s[i] = w[k][1], s[j] = w[l][1]
      PROVE  i < j
  <2>0. i \in 1 .. Len(s) /\ j \in 1 .. Len(s)
    BY <1>0
  <2>1. CASE l \in 1 .. Len(u)
    <3>0. k \in 1 .. Len(u)
      BY <2>1, <1>0, <1>6
    <3>1. w[k] = u[k] /\ w[l] = u[l]
      BY <3>0, <2>1, <1>1
    <3>2. i \in 1 .. n
      BY <3>0, <3>1, <2>0, <1>d, <1>6
    <3>3. j \in 1 .. n
      BY <2>1, <3>1, <2>0, <1>d, <1>6
    <3> QED
      BY <3>0, <3>1, <3>2, <3>3, <2>1, <1>6, <1>f
  <2>2. CASE k \in 1 .. Len(u) /\ l - Len(u) \in 1 .. Len(v)
    <3>1. w[k] = u[k] /\ w[l] = v[l - Len(u)]
      BY <2>2, <1>1, <1>c
    <3>2. i \in 1 .. n
      BY <2>2, <3>1, <2>0, <1>d, <1>6
    <3>3. j \in n + 1 .. m
      BY <2>2, <3>1, <2>0, <1>e, <1>6
    <3> QED
      BY <3>2, <3>3, <1>0
  <2>3. CASE k - Len(u) \in 1 .. Len(v) /\ l - Len(u) \in 1 .. Len(v)
    <3>1. w[k] = v[k - Len(u)] /\ w[l] = v[l - Len(u)]
      BY <2>3, <1>c
    <3>2. i \in n + 1 .. m
      BY <2>3, <3>1, <2>0, <1>e, <1>6
    <3>3. j \in n + 1 .. m
      BY <2>3, <3>1, <2>0, <1>e, <1>6
    <3>4. /\ i - n \in 1 .. Len(t) /\ t[i - n] = v[k - Len(u)][1]
          /\ j - n \in 1 .. Len(t) /\ t[j - n] = v[l - Len(u)][1]
      BY <3>1, <3>2, <3>3, <1>a, <1>6
    <3>5. k - Len(u) < l - Len(u)
      BY <1>0, <1>6
    <3>6. i - n < j - n
      BY <3>4, <3>5, <2>3, <1>f
    <3> QED
      BY <3>2, <3>3, <3>6, <1>0
  <2> QED
    BY <2>1, <2>2, <2>3, <1>0, <1>1, <1>b, <1>6
<1>7. ASSUME NEW i \in 1 .. m
      PROVE  \E k \in 1 .. Len(w) : w[k][1] = s[i]
  <2>1. CASE i \in 1 .. n
    <3>1. PICK k \in 1 .. Len(u) : u[k][1] = s[i]
      BY <2>1 DEF MessagesIn
    <3>2. k \in 1 .. Len(w)
      BY <1>0, <1>1
    <3> QED
      BY <3>1, <3>2, <1>1
  <2>2. CASE i \in n + 1 .. m
    <3>1. PICK k \in 1 .. Len(v) : v[k][1] = t[i - n]
      BY <2>2, <1>a DEF MessagesIn
    <3>2. Len(u) + k \in 1 .. Len(w)
      BY <1>0, <1>1
    <3> QED
      BY <3>1, <3>2, <2>2, <1>1, <1>a
  <2> QED
    BY <2>1, <2>2, <1>0
<1>8. MessagesIn(w, s, m)
  BY <1>5, <1>6, <1>7 DEF MessagesIn
<1> QED
  BY <1>8 DEF w, m
=============================================================================
