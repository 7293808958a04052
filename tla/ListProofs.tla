----------------------------- MODULE ListProofs -----------------------------
(***************************************************************************)
(* Facts that the other proofs need: about the lists that the server keeps *)
(* (TileSeq, FtList), about sequences of sequences, about sums, and the    *)
(* induction that these rest on.                                           *)
(***************************************************************************)
EXTENDS TileSeq, FtList, SequenceTheorems, FunctionTheorems, FiniteSetTheorems, TLAPS

\* A set of natural numbers that is not empty has a lowest one, and Min is it.
LEMMA MinIsLowest ==
  ASSUME NEW S \in SUBSET Nat, S # {}
  PROVE  Min(S) \in S /\ \A n \in S : Min(S) <= n
<1> DEFINE T == {0 .. n : n \in S}
<1>1. \A n \in S : n \in Nat /\ 0 .. n \in SUBSET Nat /\ IsFiniteSet(0 .. n)
  <2> TAKE n \in S
  <2> QED
    BY FS_Interval
<1>2. T \subseteq FiniteSubsetsOf(Nat) /\ T # {}
  BY <1>1 DEF FiniteSubsetsOf
<1>3. \E x \in T : \A y \in T : <<y, x>> \notin StrictSubsetOrdering(Nat)
  BY <1>2, FS_StrictSubsetOrderingWellFounded, WFMin
<1>4. PICK m \in S : \A n \in S : <<0 .. n, 0 .. m>> \notin StrictSubsetOrdering(Nat)
  BY <1>3
<1>5. \A n \in S : m <= n
  <2> SUFFICES ASSUME NEW n \in S, n < m PROVE FALSE
    BY <1>1
  <2>1. 0 .. n \subseteq 0 .. m /\ m \in 0 .. m /\ m \notin 0 .. n
    BY <1>1
  <2>2. <<0 .. n, 0 .. m>> \in StrictSubsetOrdering(Nat)
    BY <1>1, <2>1 DEF StrictSubsetOrdering
  <2> QED
    BY <1>4, <2>2
<1> QED
  BY <1>5 DEF Min

\* Induction: a set of numbers that has 0, and with each number the next, has them all.
LEMMA AllNumbers ==
  ASSUME NEW S \in SUBSET Nat, 0 \in S, \A n \in S : n + 1 \in S
  PROVE  \A n \in Nat : n \in S
<1> SUFFICES ASSUME Nat \ S # {} PROVE FALSE
  OBVIOUS
<1>1. PICK n : n = Min(Nat \ S)
  OBVIOUS
<1>2. n \in Nat \ S /\ \A m \in Nat \ S : n <= m
  BY <1>1, MinIsLowest
<1>3. n - 1 \in S
  BY <1>2
<1> QED
  BY <1>2, <1>3

\* A walk over a list of descriptors meets only what is on the list.
LEMMA WalkedIsListed ==
  ASSUME NEW S, NEW list \in Seq(S)
  PROVE  ToSet(Walked(list)) \subseteq ToSet(list) /\ ToSet(list) \subseteq S
<1> DEFINE first == ft_list_get_first(list)
<1>1. /\ Len(list) \in Nat /\ DOMAIN list = 1 .. Len(list) /\ first \in {1, 2}
      /\ \A i \in 1 .. Len(list) : list[i] \in S
  BY DEF ft_list_get_first
<1> HIDE DEF first
<1>2. \A i \in first .. Len(list) : list[i] \in S
  BY <1>1
<1>3. /\ SubSeq(list, first, Len(list)) \in Seq(S)
      /\ \A i \in 1 .. Len(SubSeq(list, first, Len(list))) :
            /\ SubSeq(list, first, Len(list))[i] = list[first + i - 1]
            /\ first + i - 1 \in 1 .. Len(list)
  BY <1>1, <1>2, SubSeqProperties
<1>4. ToSet(SubSeq(list, first, Len(list))) \subseteq ToSet(list)
  BY <1>1, <1>3 DEF ToSet
<1> QED
  BY <1>1, <1>4 DEF Walked, ToSet, first

\* The orders in which the elements of a finite set may be listed are sequences of them.
LEMMA OrdersAreLists ==
  ASSUME NEW S, NEW T \in SUBSET S, IsFiniteSet(T), NEW order \in SetToSeqs(T)
  PROVE  order \in Seq(S)
<1>1. order \in [1 .. Cardinality(T) -> T] /\ Cardinality(T) \in Nat
  BY FS_CardinalityType DEF SetToSeqs
<1> QED
  BY <1>1

----------------------------------------------------------------------------
(* The players of a tile *)

\* Nobody is on a list twice.
NoRepeats(s) == \A i, j \in DOMAIN s : s[i] = s[j] => i = j

\* What m_game_add_player_to_tile makes of a list.
LEMMA PushFrontList ==
  ASSUME NEW S, NEW s \in Seq(S), NEW p \in S
  PROVE  /\ PushFront(s, p) \in Seq(S)
         /\ Len(PushFront(s, p)) = Len(s) + 1
         /\ DOMAIN PushFront(s, p) = 1 .. Len(s) + 1
         /\ \A i \in 1 .. Len(s) + 1 : PushFront(s, p)[i] = IF i = 1 THEN p ELSE s[i - 1]
BY DEF PushFront

\* The player is on the list then, with those that were, and still nobody is twice.
LEMMA PushFrontPlayers ==
  ASSUME NEW S, NEW s \in Seq(S), NEW p \in S
  PROVE  /\ \A q : OnTile(PushFront(s, p), q) <=> q = p \/ OnTile(s, q)
         /\ NoRepeats(s) /\ ~OnTile(s, p) => NoRepeats(PushFront(s, p))
<1> DEFINE new == PushFront(s, p)
<1>1. /\ Len(s) \in Nat /\ DOMAIN s = 1 .. Len(s) /\ DOMAIN new = 1 .. Len(s) + 1
      /\ \A i \in 1 .. Len(s) + 1 : new[i] = IF i = 1 THEN p ELSE s[i - 1]
  BY DEF PushFront
<1> HIDE DEF new
<1>2. /\ \A i \in DOMAIN s : i + 1 \in DOMAIN new /\ new[i + 1] = s[i]
      /\ 1 \in DOMAIN new /\ new[1] = p
      /\ \A i \in DOMAIN new : i = 1 \/ (i - 1 \in DOMAIN s /\ new[i] = s[i - 1])
  BY <1>1
<1>3. \A q : OnTile(new, q) <=> q = p \/ OnTile(s, q)
  BY <1>2 DEF OnTile
<1>4. NoRepeats(s) /\ ~OnTile(s, p) => NoRepeats(new)
  BY <1>1, <1>2 DEF OnTile, NoRepeats
<1> QED
  BY <1>3, <1>4 DEF new

\* Taking a player off a tile on which it is not changes nothing.
LEMMA WithoutAbsent ==
  ASSUME NEW s, NEW p, ~OnTile(s, p)
  PROVE  Without(s, p) = s
BY DEF Without, OnTile

\* What m_game_remove_player_from_tile makes of a list with the player at place k.
LEMMA WithoutList ==
  ASSUME NEW S, NEW s \in Seq(S), NoRepeats(s), NEW k \in DOMAIN s
  PROVE  /\ Without(s, s[k]) \in Seq(S)
         /\ Len(Without(s, s[k])) = Len(s) - 1
         /\ DOMAIN Without(s, s[k]) = 1 .. Len(s) - 1
         /\ \A i \in 1 .. Len(s) - 1 : Without(s, s[k])[i] = IF i < k THEN s[i] ELSE s[i + 1]
<1>1. k = CHOOSE i \in DOMAIN s : s[i] = s[k]
  BY DEF NoRepeats
<1>2. Without(s, s[k]) = [i \in 1 .. Len(s) - 1 |-> IF i < k THEN s[i] ELSE s[i + 1]]
  BY <1>1 DEF Without
<1>3. Len(s) \in Nat /\ DOMAIN s = 1 .. Len(s) /\ Len(s) - 1 \in Nat /\ \A i \in DOMAIN s : s[i] \in S
  OBVIOUS
<1>4. \A i \in 1 .. Len(s) - 1 : (IF i < k THEN s[i] ELSE s[i + 1]) \in S
  BY <1>3
<1> QED
  BY <1>2, <1>3, <1>4

\* The player is no longer on the list, all others are, and still nobody is twice.
LEMMA WithoutPlayers ==
  ASSUME NEW S, NEW s \in Seq(S), NoRepeats(s), NEW p
  PROVE  /\ Without(s, p) \in Seq(S)
         /\ \A q : OnTile(Without(s, p), q) <=> q # p /\ OnTile(s, q)
         /\ NoRepeats(Without(s, p))
<1>1. CASE ~OnTile(s, p)
  BY <1>1, WithoutAbsent DEF OnTile
<1>2. CASE OnTile(s, p)
  <2>1. PICK k \in DOMAIN s : s[k] = p
    BY <1>2 DEF OnTile
  <2> DEFINE new == Without(s, p)
  <2>2. /\ new \in Seq(S) /\ DOMAIN new = 1 .. Len(s) - 1 /\ DOMAIN s = 1 .. Len(s)
        /\ Len(s) \in Nat
        /\ \A i \in 1 .. Len(s) - 1 : new[i] = IF i < k THEN s[i] ELSE s[i + 1]
    <3>1. Len(s) \in Nat /\ DOMAIN s = 1 .. Len(s)
      OBVIOUS
    <3> HIDE DEF new
    <3>2. /\ new \in Seq(S) /\ DOMAIN new = 1 .. Len(s) - 1
          /\ \A i \in 1 .. Len(s) - 1 : new[i] = IF i < k THEN s[i] ELSE s[i + 1]
      BY <2>1, WithoutList DEF new
    <3> QED
      BY <3>1, <3>2
  <2> HIDE DEF new
  <2>3. \A i \in DOMAIN new : \E j \in DOMAIN s \ {k} : new[i] = s[j]
    <3> TAKE i \in DOMAIN new
    <3>1. CASE i < k
      <4>1. i \in DOMAIN s \ {k} /\ new[i] = s[i]
        BY <2>2, <3>1
      <4> QED
        BY <4>1
    <3>2. CASE ~(i < k)
      <4>1. i + 1 \in DOMAIN s \ {k} /\ new[i] = s[i + 1]
        BY <2>2, <3>2
      <4> QED
        BY <4>1
    <3> QED
      BY <3>1, <3>2
  <2>4. \A j \in DOMAIN s \ {k} : \E i \in DOMAIN new : new[i] = s[j]
    <3> TAKE j \in DOMAIN s \ {k}
    <3>1. CASE j < k
      BY <2>2, <3>1
    <3>2. CASE ~(j < k)
      <4>1. j - 1 \in DOMAIN new /\ new[j - 1] = s[j]
        BY <2>2, <3>2
      <4> QED
        BY <4>1
    <3> QED
      BY <3>1, <3>2
  <2>5. \A q : OnTile(new, q) <=> q # p /\ OnTile(s, q)
    BY <2>1, <2>3, <2>4 DEF OnTile, NoRepeats
  <2>6. NoRepeats(new)
    <3>1. PICK from \in [DOMAIN new -> DOMAIN s] :
             \A i \in DOMAIN new : from[i] = IF i < k THEN i ELSE i + 1
      <4>1. [i \in DOMAIN new |-> IF i < k THEN i ELSE i + 1] \in [DOMAIN new -> DOMAIN s]
        BY <2>2
      <4> QED
        BY <4>1
    <3>2. \A i \in DOMAIN new : new[i] = s[from[i]]
      BY <2>2, <3>1
    <3>3. \A i, j \in DOMAIN new : from[i] = from[j] => i = j
      BY <2>2, <3>1
    <3> QED
      BY <3>1, <3>2, <3>3 DEF NoRepeats
  <2> QED
    BY <2>2, <2>5, <2>6 DEF new
<1> QED
  BY <1>1, <1>2

\* The first of the others on a tile is one of them, and all before it are passed over.
LEMMA FirstOtherIsFirst ==
  ASSUME NEW S, NEW s \in Seq(S), NEW self, OthersAt(s, self) # {}
  PROVE  \E k \in DOMAIN s : /\ FirstOther(s, self) = s[k] /\ s[k] \notin self
                            /\ \A i \in DOMAIN s : i < k => s[i] \in self
<1>1. OthersAt(s, self) \in SUBSET Nat
  BY DEF OthersAt
<1>2. PICK k : k = Min(OthersAt(s, self))
  OBVIOUS
<1>3. k \in OthersAt(s, self) /\ \A i \in OthersAt(s, self) : k <= i
  BY <1>1, <1>2, MinIsLowest
<1>4. \A i \in DOMAIN s : i < k => s[i] \in self
  BY <1>3 DEF OthersAt
<1> QED
  BY <1>2, <1>3, <1>4 DEF FirstOther, OthersAt

----------------------------------------------------------------------------
(* Sequences of sequences, flattened *)

\* The steps by which a sequence of sequences is flattened.
LEMMA FlattenSteps ==
  ASSUME NEW T, NEW s \in Seq(Seq(T))
  PROVE  \E f \in [1 .. Len(s) -> Seq(T)] :
            /\ \A i \in 1 .. Len(s) : f[i] = IF i = 1 THEN s[i] ELSE f[i - 1] \o s[i]
            /\ s # <<>> => FlattenSeq(s) = f[Len(s)]
<1> DEFINE Solves(f, n) == \A i \in 1 .. n : f[i] = IF i = 1 THEN s[i] ELSE f[i - 1] \o s[i]
           S == {n \in Nat : n <= Len(s) => \E f \in [1 .. n -> Seq(T)] : Solves(f, n)}
<1>1. Len(s) \in Nat /\ \A i \in 1 .. Len(s) : s[i] \in Seq(T)
  OBVIOUS
<1>2. 0 \in S
  <2>1. [i \in 1 .. 0 |-> <<>>] \in [1 .. 0 -> Seq(T)] /\ \A i \in 1 .. 0 : FALSE
    OBVIOUS
  <2> QED
    BY <2>1
<1>3. ASSUME NEW n \in S PROVE n + 1 \in S
  <2> SUFFICES ASSUME n + 1 <= Len(s)
               PROVE  \E f \in [1 .. n + 1 -> Seq(T)] : Solves(f, n + 1)
    <3> HIDE DEF Solves
    <3>1. n + 1 \in Nat
      OBVIOUS
    <3> QED
      BY <3>1
  <2>1. PICK f \in [1 .. n -> Seq(T)] : Solves(f, n)
    <3>1. n \in Nat /\ n <= Len(s)
      BY <1>1
    <3> HIDE DEF Solves
    <3> QED
      BY <3>1
  <2>2. PICK last : last = IF n = 0 THEN s[1] ELSE f[n] \o s[n + 1]
    OBVIOUS
  <2>3. last \in Seq(T)
    <3>1. s[1] \in Seq(T) /\ s[n + 1] \in Seq(T)
      BY <1>1
    <3>2. CASE n = 0
      BY <2>2, <3>1, <3>2
    <3>3. CASE n # 0
      <4>1. f[n] \in Seq(T)
        BY <3>3
      <4>2. f[n] \o s[n + 1] \in Seq(T)
        BY <3>1, <4>1, ConcatProperties
      <4> QED
        BY <2>2, <3>3, <4>2
    <3> QED
      BY <3>2, <3>3
  <2>4. PICK g : g = [i \in 1 .. n + 1 |-> IF i <= n THEN f[i] ELSE last]
    OBVIOUS
  <2>5. g \in [1 .. n + 1 -> Seq(T)]
    BY <2>3, <2>4
  <2>6. Solves(g, n + 1)
    <3> SUFFICES ASSUME NEW i \in 1 .. n + 1
                 PROVE  g[i] = IF i = 1 THEN s[i] ELSE g[i - 1] \o s[i]
      OBVIOUS
    <3>1. CASE i <= n
      <4>1. f[i] = IF i = 1 THEN s[i] ELSE f[i - 1] \o s[i]
        <5>1. i \in 1 .. n
          BY <3>1
        <5> QED
          BY <2>1, <5>1, Zenon
      <4>2. g[i] = f[i] /\ (i # 1 => g[i - 1] = f[i - 1])
        BY <2>4, <3>1
      <4>3. CASE i = 1
        BY <4>1, <4>2, <4>3
      <4>4. CASE i # 1
        BY <4>1, <4>2, <4>4
      <4> QED
        BY <4>3, <4>4
    <3>2. CASE i = n + 1
      <4>1. g[i] = last /\ (n # 0 => g[n] = f[n])
        BY <2>4, <3>2
      <4>2. CASE n = 0
        BY <2>2, <3>2, <4>1, <4>2
      <4>3. CASE n # 0
        <5>1. i - 1 = n /\ i # 1
          BY <3>2, <4>3
        <5>2. last = f[n] \o s[n + 1]
          BY <2>2, <4>3, Zenon
        <5>3. g[i - 1] = f[n] /\ s[i] = s[n + 1]
          BY <3>2, <4>1, <4>3, <5>1
        <5> QED
          BY <4>1, <5>1, <5>2, <5>3
      <4> QED
        BY <4>2, <4>3
    <3> QED
      BY <3>1, <3>2
  <2> QED
    BY <2>5, <2>6
<1>4. S \in SUBSET Nat
  OBVIOUS
<1>5. Len(s) \in S
  <2> HIDE DEF S
  <2> QED
    BY <1>1, <1>2, <1>3, <1>4, AllNumbers
<1>6. \E f \in [1 .. Len(s) -> Seq(T)] : Solves(f, Len(s))
  BY <1>1, <1>5
<1>7. PICK f : f = CHOOSE g : g = [i \in 1 .. Len(s) |-> IF i = 1 THEN s[i] ELSE g[i - 1] \o s[i]]
  OBVIOUS
<1>8. f = [i \in 1 .. Len(s) |-> IF i = 1 THEN s[i] ELSE f[i - 1] \o s[i]]
  <2>1. PICK g \in [1 .. Len(s) -> Seq(T)] : Solves(g, Len(s))
    BY <1>6
  <2>2. g = [i \in 1 .. Len(s) |-> IF i = 1 THEN s[i] ELSE g[i - 1] \o s[i]]
    BY <2>1
  <2> QED
    BY <1>7, <2>2
<1>9. s # <<>> => FlattenSeq(s) = f[Len(s)]
  BY <1>7 DEF FlattenSeq
<1>10. f \in [1 .. Len(s) -> Seq(T)]
  <2> DEFINE R == {n \in Nat : n <= Len(s) => \A i \in 1 .. n : f[i] \in Seq(T)}
  <2>1. 0 \in R /\ R \in SUBSET Nat
    OBVIOUS
  <2>2. ASSUME NEW n \in R PROVE n + 1 \in R
    <3> SUFFICES ASSUME n + 1 <= Len(s) PROVE f[n + 1] \in Seq(T)
      <4>1. n + 1 \in Nat /\ n \in Nat /\ \A i \in 1 .. n + 1 : i = n + 1 \/ i \in 1 .. n
        OBVIOUS
      <4>2. n + 1 <= Len(s) => \A i \in 1 .. n : f[i] \in Seq(T)
        BY <1>1, <4>1
      <4>3. n + 1 <= Len(s) => \A i \in 1 .. n + 1 : f[i] \in Seq(T)
        BY <4>1, <4>2, Zenon
      <4> QED
        BY <4>1, <4>3, Zenon
    <3>1. f[n + 1] = IF n + 1 = 1 THEN s[n + 1] ELSE f[n] \o s[n + 1]
      <4>1. n + 1 \in 1 .. Len(s) /\ n + 1 - 1 = n
        <5>1. n \in Nat /\ n + 1 <= Len(s)
          OBVIOUS
        <5>2. \A k \in Nat : k + 1 <= Len(s) => k + 1 \in 1 .. Len(s) /\ k + 1 - 1 = k
          BY <1>1
        <5> QED
          BY <5>1, <5>2
      <4>2. \A i \in 1 .. Len(s) : f[i] = IF i = 1 THEN s[i] ELSE f[i - 1] \o s[i]
        BY <1>8, Zenon
      <4>3. PICK m : m = n + 1
        OBVIOUS
      <4>4. m \in 1 .. Len(s)
        BY <4>1, <4>3
      <4>5. f[m] = IF m = 1 THEN s[m] ELSE f[m - 1] \o s[m]
        BY <4>2, <4>4, Zenon
      <4> QED
        BY <4>1, <4>3, <4>5
    <3>2. CASE n = 0
      BY <1>1, <3>1, <3>2
    <3>3. CASE n # 0
      <4>1. f[n] \in Seq(T) /\ s[n + 1] \in Seq(T)
        BY <1>1, <3>3
      <4>2. f[n] \o s[n + 1] \in Seq(T)
        BY <4>1, ConcatProperties
      <4> QED
        BY <3>1, <3>3, <4>2
    <3> QED
      BY <3>2, <3>3
  <2>3. Len(s) \in R
    <3> HIDE DEF R
    <3> QED
      BY <1>1, <2>1, <2>2, AllNumbers
  <2>4. \A i \in 1 .. Len(s) : f[i] \in Seq(T)
    BY <1>1, <2>3
  <2>5. DOMAIN f = 1 .. Len(s) /\ f = [i \in DOMAIN f |-> f[i]]
    BY <1>8
  <2> QED
    BY <2>4, <2>5
<1> QED
  <2>1. \A i \in 1 .. Len(s) : f[i] = IF i = 1 THEN s[i] ELSE f[i - 1] \o s[i]
    BY <1>8
  <2> QED
    BY <1>9, <1>10, <2>1

\* A flattened sequence of sequences is a sequence; one more sequence comes at its end.
LEMMA FlattenPrefixes ==
  ASSUME NEW T, NEW s \in Seq(Seq(T))
  PROVE  /\ FlattenSeq(s) \in Seq(T)
         /\ FlattenSeq(SubSeq(s, 1, 0)) = <<>>
         /\ \A i \in 1 .. Len(s) :
               /\ FlattenSeq(SubSeq(s, 1, i - 1)) \in Seq(T)
               /\ FlattenSeq(SubSeq(s, 1, i)) = FlattenSeq(SubSeq(s, 1, i - 1)) \o s[i]
<1>1. PICK f \in [1 .. Len(s) -> Seq(T)] :
         /\ \A i \in 1 .. Len(s) : f[i] = IF i = 1 THEN s[i] ELSE f[i - 1] \o s[i]
         /\ s # <<>> => FlattenSeq(s) = f[Len(s)]
  BY FlattenSteps
<1>2. /\ Len(s) \in Nat /\ \A i \in 1 .. Len(s) : s[i] \in Seq(T) /\ f[i] \in Seq(T)
      /\ <<>> \in Seq(T)
  <2>1. \A S : <<>> \in Seq(S)
    OBVIOUS
  <2>2. Len(s) \in Nat /\ \A i \in 1 .. Len(s) : s[i] \in Seq(T)
    OBVIOUS
  <2> QED
    BY <2>1, <2>2, Zenon
<1>3. SubSeq(s, 1, 0) = <<>> /\ FlattenSeq(<<>>) = <<>>
  <2>2. SubSeq(s, 1, 0) = <<>>
    BY SubSeqEmpty
  <2>1. FlattenSeq(<<>>) = <<>>
    <3>1. Len(<<>>) = 0
      OBVIOUS
    <3> QED
      BY <3>1, Zenon DEF FlattenSeq
  <2> QED
    BY <2>1
<1>4. ASSUME NEW i \in 1 .. Len(s) PROVE FlattenSeq(SubSeq(s, 1, i)) = f[i]
  <2>1. PICK t : t = SubSeq(s, 1, i)
    OBVIOUS
  <2>2. t \in Seq(Seq(T)) /\ Len(t) = i /\ \A j \in 1 .. i : t[j] = s[j]
    <3>1. \A j \in 1 .. i : s[j] \in Seq(T)
      BY <1>2
    <3> QED
      BY <2>1, <3>1, SubSeqProperties
  <2>3. PICK g \in [1 .. Len(t) -> Seq(T)] :
           /\ \A j \in 1 .. Len(t) : g[j] = IF j = 1 THEN t[j] ELSE g[j - 1] \o t[j]
           /\ t # <<>> => FlattenSeq(t) = g[Len(t)]
    BY <2>2, FlattenSteps
  <2> DEFINE S == {n \in Nat : n \in 1 .. i => g[n] = f[n]}
  <2>4. 0 \in S /\ S \in SUBSET Nat
    OBVIOUS
  <2>5. ASSUME NEW n \in S PROVE n + 1 \in S
    <3>1. PICK m \in Nat : m = n + 1
      OBVIOUS
    <3> SUFFICES ASSUME m \in 1 .. i PROVE g[m] = f[m]
      BY <3>1
    <3>2. m \in 1 .. Len(s) /\ m \in 1 .. Len(t)
      BY <2>2
    <3>3. f[m] = IF m = 1 THEN s[m] ELSE f[m - 1] \o s[m]
      BY <1>1, <3>2, Zenon
    <3>4. g[m] = IF m = 1 THEN t[m] ELSE g[m - 1] \o t[m]
      BY <2>3, <3>2, Zenon
    <3>5. t[m] = s[m] /\ (m # 1 => g[m - 1] = f[m - 1])
      BY <2>2, <3>1, SMTT(30)
    <3>6. CASE m = 1
      BY <3>3, <3>4, <3>5, <3>6
    <3>7. CASE m # 1
      BY <3>3, <3>4, <3>5, <3>7
    <3> QED
      BY <3>6, <3>7
  <2>6. i \in S
    <3> HIDE DEF S
    <3>1. \A n \in Nat : n \in S
      BY <2>4, <2>5, AllNumbers
    <3>2. i \in Nat
      BY <1>2
    <3> QED
      BY <3>1, <3>2
  <2>7. t # <<>>
    BY <2>2
  <2> QED
    BY <2>1, <2>2, <2>3, <2>6, <2>7
<1>5. FlattenSeq(s) \in Seq(T)
  <2>1. CASE s = <<>>
    BY <1>2, <1>3, <2>1
  <2>2. CASE s # <<>>
    BY <1>1, <1>2, <2>2
  <2> QED
    BY <2>1, <2>2
<1>6. ASSUME NEW i \in 1 .. Len(s)
      PROVE  /\ FlattenSeq(SubSeq(s, 1, i - 1)) \in Seq(T)
             /\ FlattenSeq(SubSeq(s, 1, i)) = FlattenSeq(SubSeq(s, 1, i - 1)) \o s[i]
  <2>1. FlattenSeq(SubSeq(s, 1, i)) = f[i] /\ s[i] \in Seq(T)
    BY <1>2, <1>4
  <2>2. f[i] = IF i = 1 THEN s[i] ELSE f[i - 1] \o s[i]
    BY <1>1, Zenon
  <2>3. CASE i = 1
    <3>1. SubSeq(s, 1, i - 1) = <<>> /\ FlattenSeq(SubSeq(s, 1, i)) = s[i]
      BY <1>3, <2>1, <2>2, <2>3
    <3>2. <<>> \o s[i] = s[i]
      BY <2>1, ConcatEmptySeq
    <3> QED
      BY <1>2, <1>3, <3>1, <3>2
  <2>4. CASE i # 1
    <3>1. i - 1 \in 1 .. Len(s)
      BY <2>4
    <3>2. FlattenSeq(SubSeq(s, 1, i - 1)) = f[i - 1]
      BY <1>4, <3>1
    <3> QED
      BY <1>2, <2>1, <2>2, <2>4, <3>1, <3>2
  <2> QED
    BY <2>3, <2>4
<1> QED
  BY <1>3, <1>5, <1>6

\* The flattened beginnings of a sequence of sequences, which grow by one sequence after the other.
LEMMA FlattenGrows ==
  ASSUME NEW T, NEW s \in Seq(Seq(T))
  PROVE  \E fl \in [0 .. Len(s) -> Seq(T)] :
            /\ \A i \in 0 .. Len(s) : fl[i] = FlattenSeq(SubSeq(s, 1, i))
            /\ fl[0] = <<>> /\ fl[Len(s)] = FlattenSeq(s)
            /\ \A i \in 1 .. Len(s) : fl[i] = fl[i - 1] \o s[i]
<1>1. Len(s) \in Nat /\ \A i \in 1 .. Len(s) : s[i] \in Seq(T)
  OBVIOUS
<1>2. PICK fl : fl = [i \in 0 .. Len(s) |-> FlattenSeq(SubSeq(s, 1, i))]
  OBVIOUS
<1>3. fl[0] = <<>> /\ <<>> \in Seq(T)
  <2>1. \A S : <<>> \in Seq(S)
    OBVIOUS
  <2>2. FlattenSeq(SubSeq(s, 1, 0)) = <<>>
    BY FlattenPrefixes
  <2> QED
    BY <1>1, <1>2, <2>1, <2>2
<1>4. fl[Len(s)] = FlattenSeq(s)
  BY <1>1, <1>2, SubSeqFull
<1>5. ASSUME NEW i \in 1 .. Len(s)
      PROVE  fl[i - 1] \in Seq(T) /\ fl[i] = fl[i - 1] \o s[i]
  <2>1. i \in 0 .. Len(s) /\ i - 1 \in 0 .. Len(s)
    BY <1>1
  <2>2. /\ FlattenSeq(SubSeq(s, 1, i - 1)) \in Seq(T)
        /\ FlattenSeq(SubSeq(s, 1, i)) = FlattenSeq(SubSeq(s, 1, i - 1)) \o s[i]
    BY FlattenPrefixes
  <2> QED
    BY <1>2, <2>1, <2>2
<1>6. \A i \in 0 .. Len(s) : fl[i] \in Seq(T)
  <2> SUFFICES ASSUME NEW i \in 0 .. Len(s) PROVE fl[i] \in Seq(T)
    OBVIOUS
  <2>1. CASE i = Len(s)
    BY <1>4, <2>1, FlattenPrefixes
  <2>2. CASE i # Len(s)
    <3>1. PICK j : j = i + 1
      OBVIOUS
    <3>2. j \in 1 .. Len(s) /\ j - 1 = i
      BY <1>1, <2>2, <3>1
    <3>3. fl[j - 1] \in Seq(T)
      BY <1>5, <3>2, Zenon
    <3> QED
      BY <3>2, <3>3
  <2> QED
    BY <2>1, <2>2
<1> QED
  <2>1. fl \in [0 .. Len(s) -> Seq(T)] /\ \A i \in 0 .. Len(s) : fl[i] = FlattenSeq(SubSeq(s, 1, i))
    BY <1>2, <1>6
  <2> QED
    BY <1>3, <1>4, <1>5, <2>1

\* One more sequence comes at the end.
LEMMA FlattenAppend ==
  ASSUME NEW T, NEW s \in Seq(Seq(T)), NEW x \in Seq(T)
  PROVE  FlattenSeq(Append(s, x)) = FlattenSeq(s) \o x
<1>1. PICK t \in Seq(Seq(T)) : t = Append(s, x)
  <2>1. PICK U : U = Seq(T)
    OBVIOUS
  <2>2. Append(s, x) \in Seq(U)
    BY <2>1
  <2> QED
    BY <2>1, <2>2
<1>2. Len(s) \in Nat /\ Len(t) = Len(s) + 1 /\ t[Len(t)] = x /\ \A i \in 1 .. Len(s) : t[i] = s[i]
  BY <1>1
<1>3. SubSeq(t, 1, Len(t)) = t
  BY SubSeqFull
<1>4. SubSeq(t, 1, Len(t) - 1) = s
  <2>1. PICK u : u = SubSeq(t, 1, Len(s))
    OBVIOUS
  <2>2. u \in Seq(Seq(T)) /\ Len(u) = Len(s) /\ \A i \in 1 .. Len(s) : u[i] = t[i]
    <3>1. \A i \in 1 .. Len(s) : t[i] \in Seq(T)
      BY <1>2
    <3> QED
      BY <1>2, <2>1, <3>1, SubSeqProperties
  <2>3. u = s
    <3>1. Len(u) = Len(s) /\ \A i \in 1 .. Len(u) : u[i] = s[i]
      BY <1>2, <2>2
    <3> QED
      BY <2>2, <3>1, SeqEqual
  <2> QED
    BY <1>2, <2>1, <2>3
<1>5. FlattenSeq(SubSeq(t, 1, Len(t))) = FlattenSeq(SubSeq(t, 1, Len(t) - 1)) \o t[Len(t)]
  <2>1. PICK i \in 1 .. Len(t) : i = Len(t)
    BY <1>2
  <2>2. FlattenSeq(SubSeq(t, 1, i)) = FlattenSeq(SubSeq(t, 1, i - 1)) \o t[i]
    BY FlattenPrefixes
  <2> QED
    BY <2>1, <2>2
<1> QED
  BY <1>1, <1>2, <1>3, <1>4, <1>5

LEMMA ConcatIsAssociative ==
  \A T, X : X = Seq(T) => \A a, b, c \in X : (a \o b) \o c = a \o (b \o c)
<1> TAKE T, X
<1> HAVE X = Seq(T)
<1> TAKE a, b, c \in X
<1>1. a \in Seq(T) /\ b \in Seq(T) /\ c \in Seq(T)
  OBVIOUS
<1> QED
  BY <1>1, ConcatAssociative

\* The first sequence comes first.
LEMMA FlattenTail ==
  ASSUME NEW T, NEW s \in Seq(Seq(T)), s # <<>>
  PROVE  FlattenSeq(s) = Head(s) \o FlattenSeq(Tail(s))
<1>0. PICK X : X = Seq(T) /\ \A a, b, c \in X : (a \o b) \o c = a \o (b \o c)
  <2>1. PICK X : X = Seq(T)
    OBVIOUS
  <2> QED
    BY <2>1, ConcatIsAssociative, SMTT(30)
<1>1. PICK t \in Seq(Seq(T)) : t = Tail(s)
  BY HeadTailProperties
<1>2. PICK h \in Seq(T) : h = Head(s)
  BY HeadTailProperties
<1>3. /\ Len(s) \in Nat /\ Len(t) \in Nat /\ Len(s) = Len(t) + 1 /\ s[1] = h
      /\ \A i \in 1 .. Len(t) : t[i] = s[i + 1] /\ t[i] \in Seq(T)
  BY <1>1, <1>2
<1>4. PICK sl \in [0 .. Len(s) -> Seq(T)] :
         /\ sl[0] = <<>> /\ sl[Len(s)] = FlattenSeq(s)
         /\ \A i \in 1 .. Len(s) : sl[i] = sl[i - 1] \o s[i]
  BY FlattenGrows
<1>5. PICK tl \in [0 .. Len(t) -> Seq(T)] :
         /\ tl[0] = <<>> /\ tl[Len(t)] = FlattenSeq(t)
         /\ \A i \in 1 .. Len(t) : tl[i] = tl[i - 1] \o t[i]
  BY FlattenGrows
<1> DEFINE S == {n \in Nat : n <= Len(t) => sl[n + 1] = h \o tl[n]}
<1>6. S \in SUBSET Nat /\ 0 \in S
  <2>1. sl[1] = sl[0] \o h
    <3>1. 1 \in 1 .. Len(s) /\ 1 - 1 = 0
      BY <1>3
    <3>2. sl[1] = sl[1 - 1] \o s[1]
      BY <1>4, <3>1
    <3> QED
      BY <1>3, <3>1, <3>2
  <2>2. sl[1] = h \o tl[0]
    BY <1>2, <1>4, <1>5, <2>1, ConcatEmptySeq
  <2> QED
    BY <2>2
<1>7. ASSUME NEW n \in S PROVE n + 1 \in S
  <2>1. PICK m \in Nat : m = n + 1
    OBVIOUS
  <2> SUFFICES ASSUME m <= Len(t) PROVE sl[m + 1] = h \o tl[m]
    BY <2>1
  <2>2. sl[m] = h \o tl[n]
    BY <2>1
  <2>3. m + 1 \in 1 .. Len(s) /\ m + 1 - 1 = m /\ m \in 1 .. Len(t) /\ m - 1 = n /\ n \in 0 .. Len(t)
    <3>1. n \in Nat
      OBVIOUS
    <3>2. n + 1 \in 1 .. Len(t) /\ m + 1 \in 1 .. Len(s)
      BY <1>3, <2>1, <3>1
    <3> QED
      BY <2>1, <3>1, <3>2
  <2>4. sl[m + 1] = sl[m] \o s[m + 1]
    <3>1. PICK i \in 1 .. Len(s) : i = m + 1
      BY <2>3
    <3>2. sl[i] = sl[i - 1] \o s[i]
      BY <1>4, Zenon
    <3>3. i - 1 = m
      BY <2>3, <3>1, SMTT(30)
    <3> QED
      BY <3>1, <3>2, <3>3, Zenon
  <2>5. tl[m] = tl[n] \o t[m] /\ tl[n] \in Seq(T) /\ t[m] \in Seq(T) /\ t[m] = s[m + 1]
    BY <1>3, <1>5, <2>3
  <2>6. (h \o tl[n]) \o t[m] = h \o (tl[n] \o t[m])
    <3>1. PICK a \in X : a = tl[n]
      BY <1>0, <2>5
    <3>2. PICK b \in X : b = t[m]
      BY <1>0, <2>5
    <3>3. h \in X /\ a \in X /\ b \in X
      BY <1>0
    <3>4. (h \o a) \o b = h \o (a \o b)
      <4> DEFINE Cat(u, v) == u \o v
      <4>1. \A x, y, z \in X : Cat(Cat(x, y), z) = Cat(x, Cat(y, z))
        BY <1>0, Zenon
      <4>2. Cat(Cat(h, a), b) = Cat(h, Cat(a, b))
        <5> HIDE DEF Cat
        <5> QED
          BY <3>3, <4>1, Zenon
      <4> QED
        BY <4>2, Zenon
    <3> QED
      BY <3>1, <3>2, <3>4, Zenon
  <2> QED
    BY <2>2, <2>4, <2>5, <2>6
<1>8. Len(t) \in S
  <2> HIDE DEF S
  <2> QED
    BY <1>3, <1>6, <1>7, AllNumbers
<1>9. sl[Len(s)] = h \o tl[Len(t)]
  BY <1>3, <1>8
<1> QED
  BY <1>1, <1>2, <1>4, <1>5, <1>9

\* fl are the flattened beginnings of s, and the sequences of s are one after the other in the whole.
LaidOut(s, fl) ==
    /\ fl[0] = <<>> /\ fl[Len(s)] = FlattenSeq(s)
    /\ \A i \in 0 .. Len(s) :
          /\ fl[i] = FlattenSeq(SubSeq(s, 1, i))
          /\ Len(fl[i]) <= Len(FlattenSeq(s))
          /\ \A j \in 1 .. Len(fl[i]) : FlattenSeq(s)[j] = fl[i][j]
    /\ \A i \in 1 .. Len(s) :
          /\ Len(fl[i]) = Len(fl[i - 1]) + Len(s[i])
          /\ \A j \in 1 .. Len(s[i]) : FlattenSeq(s)[Len(fl[i - 1]) + j] = s[i][j]

LEMMA FlattenPlaces ==
  ASSUME NEW T, NEW s \in Seq(Seq(T))
  PROVE  \E fl \in [0 .. Len(s) -> Seq(T)] : LaidOut(s, fl)
<1>1. Len(s) \in Nat /\ \A i \in 1 .. Len(s) : s[i] \in Seq(T)
  OBVIOUS
<1>2. PICK fl \in [0 .. Len(s) -> Seq(T)] :
         /\ \A i \in 0 .. Len(s) : fl[i] = FlattenSeq(SubSeq(s, 1, i))
         /\ fl[0] = <<>> /\ fl[Len(s)] = FlattenSeq(s)
         /\ \A i \in 1 .. Len(s) : fl[i] = fl[i - 1] \o s[i]
  BY FlattenGrows
<1> DEFINE Begins(a, b) == Len(a) <= Len(b) /\ \A j \in 1 .. Len(a) : b[j] = a[j]
<1>3. ASSUME NEW i \in 0 .. Len(s) PROVE Begins(fl[i], fl[Len(s)])
  <2> DEFINE S == {n \in Nat : i <= n /\ n <= Len(s) => Begins(fl[i], fl[n])}
  <2>1. S \in SUBSET Nat /\ 0 \in S
    <3>1. Begins(fl[i], fl[i]) /\ i \in Nat
      BY <1>1
    <3>2. i <= 0 => i = 0
      BY <3>1
    <3> HIDE DEF Begins
    <3> QED
      BY <3>1, <3>2
  <2>2. ASSUME NEW n \in S PROVE n + 1 \in S
    <3>1. PICK m \in Nat : m = n + 1
      OBVIOUS
    <3> SUFFICES ASSUME i <= m, m <= Len(s) PROVE Begins(fl[i], fl[m])
      BY <3>1
    <3>2. CASE i = m
      BY <1>1, <3>2
    <3>3. CASE i # m
      <4>1. n \in 0 .. Len(s) /\ i <= n /\ m \in 1 .. Len(s) /\ m - 1 = n
        BY <3>1, <3>3
      <4>2. Begins(fl[i], fl[n])
        <5> HIDE DEF Begins
        <5> QED
          BY <4>1
      <4>3. fl[m] = fl[n] \o s[m] /\ fl[n] \in Seq(T) /\ s[m] \in Seq(T) /\ fl[i] \in Seq(T)
        BY <1>1, <1>2, <4>1
      <4>4. PICK a \in Seq(T) : a = fl[i]
        BY <4>3
      <4>5. PICK b \in Seq(T) : b = fl[n]
        BY <4>3
      <4>6. PICK c \in Seq(T) : c = s[m]
        BY <4>3
      <4>7. Begins(a, b)
        BY <4>2, <4>4, <4>5, Zenon
      <4>8. Begins(a, b \o c)
        BY <4>7
      <4> HIDE DEF Begins
      <4> QED
        BY <4>3, <4>4, <4>5, <4>6, <4>8
    <3> QED
      BY <3>2, <3>3
  <2>3. Len(s) \in S
    <3> HIDE DEF S
    <3> QED
      BY <1>1, <2>1, <2>2, AllNumbers
  <2> HIDE DEF Begins
  <2> QED
    BY <1>1, <2>3
<1>4. ASSUME NEW i \in 1 .. Len(s)
      PROVE  /\ Len(fl[i]) = Len(fl[i - 1]) + Len(s[i])
             /\ \A j \in 1 .. Len(s[i]) : FlattenSeq(s)[Len(fl[i - 1]) + j] = s[i][j]
  <2>1. PICK a \in Seq(T) : a = fl[i - 1]
    <3>1. i - 1 \in 0 .. Len(s)
      BY <1>1
    <3> QED
      BY <3>1
  <2>2. PICK b \in Seq(T) : b = s[i]
    BY <1>1
  <2>3. fl[i] = a \o b /\ i \in 0 .. Len(s)
    <3>1. fl[i] = fl[i - 1] \o s[i]
      BY <1>2, Zenon
    <3>2. i \in 0 .. Len(s)
      BY <1>1
    <3> QED
      BY <2>1, <2>2, <3>1, <3>2, Zenon
  <2>4. Begins(a \o b, FlattenSeq(s))
    <3>1. Begins(fl[i], fl[Len(s)])
      BY <1>3, <2>3, Zenon
    <3> QED
      BY <1>2, <2>3, <3>1, Zenon
  <2>5. Len(a \o b) = Len(a) + Len(b) /\ Len(a) \in Nat /\ Len(b) \in Nat
    OBVIOUS
  <2>6. \A j \in 1 .. Len(b) : (a \o b)[Len(a) + j] = b[j] /\ Len(a) + j \in 1 .. Len(a \o b)
    OBVIOUS
  <2>7. \A j \in 1 .. Len(b) : FlattenSeq(s)[Len(a) + j] = b[j]
    BY <2>4, <2>6
  <2> QED
    BY <2>1, <2>2, <2>3, <2>5, <2>7
<1> QED
  <2>1. \A i \in 0 .. Len(s) : Begins(fl[i], FlattenSeq(s))
    BY <1>2, <1>3, Zenon
  <2>2. \A i \in 0 .. Len(s) :
           /\ Len(fl[i]) <= Len(FlattenSeq(s))
           /\ \A j \in 1 .. Len(fl[i]) : FlattenSeq(s)[j] = fl[i][j]
    BY <2>1, Zenon
  <2>3. LaidOut(s, fl)
    BY <1>2, <1>4, <2>2, Zenon DEF LaidOut
  <2> QED
    BY <2>3, Zenon

----------------------------------------------------------------------------
(* Sums over finite sets *)

\* The element that a sum takes first.
OneOf(T) == CHOOSE x \in T : TRUE

\* s holds the sums of f over the sets of places, as SumFunction takes them.
SumsOf(f, s) ==
    s = [T \in SUBSET DOMAIN f |-> IF T = {} THEN 0 ELSE f[OneOf(T)] + s[T \ {OneOf(T)}]]

LEMMA SumUnfolds ==
  ASSUME NEW f
  PROVE  SumFunction(f) = (CHOOSE s : SumsOf(f, s))[DOMAIN f]
BY DEF SumFunction, SumFunctionOnSet, FoldFunctionOnSet, MapThenFoldSet, SumsOf, OneOf

\* Induction: what holds of the empty set, and of a set without its first element and so of
\* the set, holds of every subset of a finite set.
LEMMA AllSubsets ==
  ASSUME NEW S, IsFiniteSet(S), NEW Q \in SUBSET (SUBSET S), {} \in Q,
         \A T \in SUBSET S : T # {} /\ T \ {OneOf(T)} \in Q => T \in Q
  PROVE  \A T \in SUBSET S : T \in Q
<1> SUFFICES ASSUME NEW T0 \in SUBSET S, T0 \notin Q PROVE FALSE
  OBVIOUS
<1> DEFINE Bad == {T \in SUBSET S : T \notin Q}
<1>1. Bad \subseteq FiniteSubsetsOf(S) /\ Bad # {}
  BY FS_Subset DEF FiniteSubsetsOf
<1>2. \A T : T \in Bad <=> T \in SUBSET S /\ T \notin Q
  OBVIOUS
<1> HIDE DEF Bad
<1>3. PICK T \in Bad : \A U \in Bad : <<U, T>> \notin StrictSubsetOrdering(S)
  BY <1>1, FS_StrictSubsetOrderingWellFounded, WFMin
<1>4. T # {} /\ T \in SUBSET S
  BY <1>2, <1>3
<1>5. OneOf(T) \in T
  BY <1>4 DEF OneOf
<1>6. T \ {OneOf(T)} \in SUBSET S /\ T \ {OneOf(T)} # T /\ T \ {OneOf(T)} \subseteq T
  BY <1>4, <1>5
<1>7. T \ {OneOf(T)} \notin Bad
  BY <1>3, <1>4, <1>6 DEF StrictSubsetOrdering
<1> QED
  BY <1>2, <1>3, <1>4, <1>6, <1>7

\* A finite set of places has the sums that SumFunction takes, and they are numbers.
LEMMA SumsExist ==
  ASSUME NEW S, IsFiniteSet(S), NEW f \in [S -> Nat]
  PROVE  \E s \in [SUBSET S -> Nat] : SumsOf(f, s)
<1> DEFINE Solves(s, n) ==
      \A T \in SUBSET S : Cardinality(T) <= n =>
          s[T] = IF T = {} THEN 0 ELSE f[OneOf(T)] + s[T \ {OneOf(T)}]
<1> DEFINE N == {n \in Nat : \E s \in [SUBSET S -> Nat] : Solves(s, n)}
<1>1. ASSUME NEW T \in SUBSET S
      PROVE  /\ Cardinality(T) \in Nat
             /\ Cardinality(T) = 0 <=> T = {}
             /\ T # {} => /\ OneOf(T) \in T /\ f[OneOf(T)] \in Nat
                          /\ T \ {OneOf(T)} \in SUBSET S
                          /\ Cardinality(T \ {OneOf(T)}) = Cardinality(T) - 1
  <2>1. IsFiniteSet(T)
    BY FS_Subset
  <2>2. Cardinality(T) \in Nat /\ (Cardinality(T) = 0 <=> T = {})
    BY <2>1, FS_CardinalityType, FS_EmptySet
  <2>3. T # {} => OneOf(T) \in T
    BY DEF OneOf
  <2>4. T # {} => Cardinality(T \ {OneOf(T)}) = Cardinality(T) - 1
    BY <2>1, <2>3, FS_RemoveElement
  <2> QED
    BY <2>2, <2>3, <2>4
<1>2. 0 \in N
  <2> DEFINE s0 == [T \in SUBSET S |-> 0]
  <2>1. s0 \in [SUBSET S -> Nat]
    OBVIOUS
  <2>2. ASSUME NEW T \in SUBSET S, Cardinality(T) <= 0
        PROVE  s0[T] = IF T = {} THEN 0 ELSE f[OneOf(T)] + s0[T \ {OneOf(T)}]
    <3>1. Cardinality(T) \in Nat /\ (Cardinality(T) = 0 <=> T = {})
      BY <1>1, Zenon
    <3>2. T = {}
      BY <2>2, <3>1
    <3> QED
      BY <3>2
  <2> HIDE DEF s0
  <2>3. Solves(s0, 0)
    BY <2>2
  <2> QED
    BY <2>1, <2>3
<1>3. ASSUME NEW n \in N PROVE n + 1 \in N
  <2>1. n \in Nat /\ \E s \in [SUBSET S -> Nat] : Solves(s, n)
    BY <1>3
  <2>2. PICK s \in [SUBSET S -> Nat] : Solves(s, n)
    BY <2>1
  <2> DEFINE u == [T \in SUBSET S |-> IF Cardinality(T) <= n \/ T = {} THEN s[T]
                                      ELSE f[OneOf(T)] + s[T \ {OneOf(T)}]]
  <2>3. \A T \in SUBSET S : u[T] \in Nat
    BY <1>1
  <2>4. u \in [SUBSET S -> Nat]
    BY <2>3
  <2>5. ASSUME NEW T \in SUBSET S, Cardinality(T) <= n + 1
        PROVE  u[T] = IF T = {} THEN 0 ELSE f[OneOf(T)] + u[T \ {OneOf(T)}]
    <3>1. CASE T = {}
      <4>1. Cardinality(T) = 0
        BY <1>1, <3>1, Zenon
      <4>2. Cardinality(T) <= n
        BY <2>1, <4>1
      <4> QED
        BY <2>2, <3>1, <4>2
    <3>2. CASE T # {}
      <4>1. Cardinality(T \ {OneOf(T)}) <= n /\ T \ {OneOf(T)} \in SUBSET S
        BY <1>1, <2>1, <2>5, <3>2
      <4>2. u[T \ {OneOf(T)}] = s[T \ {OneOf(T)}]
        BY <4>1
      <4>3. Cardinality(T) <= n => s[T] = f[OneOf(T)] + s[T \ {OneOf(T)}]
        BY <2>2, <3>2
      <4>4. u[T] = f[OneOf(T)] + s[T \ {OneOf(T)}]
        BY <3>2, <4>3
      <4> QED
        BY <3>2, <4>2, <4>4
    <3> QED
      BY <3>1, <3>2
  <2> HIDE DEF u
  <2>6. Solves(u, n + 1)
    BY <2>5, Zenon
  <2> HIDE DEF Solves
  <2>7. n + 1 \in Nat /\ \E w \in [SUBSET S -> Nat] : Solves(w, n + 1)
    BY <2>1, <2>4, <2>6
  <2> QED
    BY <2>7
<1> HIDE DEF N
<1>4. N \in SUBSET Nat
  BY DEF N
<1>5. Cardinality(S) \in N
  BY <1>1, <1>2, <1>3, <1>4, AllNumbers
<1>6. PICK s \in [SUBSET S -> Nat] : Solves(s, Cardinality(S))
  BY <1>5 DEF N
<1>7. \A T \in SUBSET S : Cardinality(T) <= Cardinality(S)
  BY FS_Subset
<1>8. \A T \in SUBSET S : s[T] = IF T = {} THEN 0 ELSE f[OneOf(T)] + s[T \ {OneOf(T)}]
  BY <1>6, <1>7
<1>9. s = [T \in SUBSET S |-> IF T = {} THEN 0 ELSE f[OneOf(T)] + s[T \ {OneOf(T)}]]
  BY <1>8
<1> QED
  BY <1>9 DEF SumsOf

\* s holds the sums of f over the subsets of S: 0, and one element after the other.
AddsUp(f, S, s) ==
    /\ s \in [SUBSET S -> Nat] /\ SumFunction(f) = s[S] /\ s[{}] = 0
    /\ \A T \in SUBSET S : T # {} => /\ OneOf(T) \in T
                                     /\ s[T] = f[OneOf(T)] + s[T \ {OneOf(T)}]

LEMMA SumSteps ==
  ASSUME NEW S, IsFiniteSet(S), NEW f \in [S -> Nat]
  PROVE  \E s : AddsUp(f, S, s)
<1>1. PICK s : s = CHOOSE u : SumsOf(f, u)
  OBVIOUS
<1>2. PICK u \in [SUBSET S -> Nat] : SumsOf(f, u)
  BY SumsExist
<1>3. SumsOf(f, s)
  BY <1>1, <1>2
<1>4. SumFunction(f) = s[S]
  BY <1>1, SumUnfolds
<1>5. \A T \in SUBSET S : T # {} => OneOf(T) \in T
  BY DEF OneOf
<1>6. /\ DOMAIN s = SUBSET S /\ s = [T \in SUBSET S |-> s[T]]
      /\ \A T \in SUBSET S : s[T] = IF T = {} THEN 0 ELSE f[OneOf(T)] + s[T \ {OneOf(T)}]
  BY <1>3 DEF SumsOf
<1>7. \A T \in SUBSET S : s[T] \in Nat
  <2> DEFINE Q == {T \in SUBSET S : s[T] \in Nat}
  <2>1. {} \in Q
    <3>1. s[{}] = IF {} = {} THEN 0 ELSE f[OneOf({})] + s[{} \ {OneOf({})}]
      BY <1>6
    <3> QED
      BY <3>1
  <2>2. ASSUME NEW T \in SUBSET S, T # {}, T \ {OneOf(T)} \in Q PROVE T \in Q
    <3>1. f[OneOf(T)] \in Nat /\ s[T \ {OneOf(T)}] \in Nat
      BY <1>5, <2>2
    <3>2. s[T] = f[OneOf(T)] + s[T \ {OneOf(T)}]
      BY <1>6, <2>2
    <3>3. s[T] \in Nat
      BY <3>1, <3>2
    <3> QED
      BY <3>3
  <2>3. Q \in SUBSET (SUBSET S)
    OBVIOUS
  <2> HIDE DEF Q
  <2>4. \A T \in SUBSET S : T \in Q
    BY <2>1, <2>2, <2>3, AllSubsets
  <2> QED
    BY <2>4 DEF Q
<1>8. s \in [SUBSET S -> Nat]
  BY <1>6, <1>7
<1>9. s[{}] = 0 /\ \A T \in SUBSET S : T # {} => s[T] = f[OneOf(T)] + s[T \ {OneOf(T)}]
  BY <1>6
<1> QED
  BY <1>4, <1>5, <1>8, <1>9 DEF AddsUp

LEMMA SumIsNumber ==
  ASSUME NEW S, IsFiniteSet(S), NEW f \in [S -> Nat]
  PROVE  SumFunction(f) \in Nat
<1>1. PICK s : AddsUp(f, S, s)
  BY SumSteps
<1> QED
  BY <1>1 DEF AddsUp

\* A sum of which no part grows does not grow.
LEMMA SumGrows ==
  ASSUME NEW S, IsFiniteSet(S), NEW f \in [S -> Nat], NEW g \in [S -> Nat],
         \A x \in S : f[x] <= g[x]
  PROVE  SumFunction(f) <= SumFunction(g)
<1>1. PICK s : AddsUp(f, S, s)
  BY SumSteps
<1>2. PICK u : AddsUp(g, S, u)
  BY SumSteps
<1> DEFINE Q == {T \in SUBSET S : s[T] <= u[T]}
<1>3. {} \in Q
  BY <1>1, <1>2 DEF AddsUp
<1>4. ASSUME NEW T \in SUBSET S, T # {}, T \ {OneOf(T)} \in Q PROVE T \in Q
  <2> DEFINE x == OneOf(T)
  <2>1. x \in S /\ T \ {x} \in SUBSET S
    BY <1>1, <1>4 DEF AddsUp
  <2>2. s[T] = f[x] + s[T \ {x}] /\ u[T] = g[x] + u[T \ {x}]
    BY <1>1, <1>2, <1>4 DEF AddsUp
  <2>3. /\ s[T \ {x}] <= u[T \ {x}] /\ f[x] <= g[x]
        /\ s[T \ {x}] \in Nat /\ u[T \ {x}] \in Nat /\ f[x] \in Nat /\ g[x] \in Nat
    BY <1>1, <1>2, <1>4, <2>1 DEF AddsUp
  <2> HIDE DEF x
  <2>4. s[T] <= u[T]
    BY <2>2, <2>3
  <2> QED
    BY <2>4
<1>5. Q \in SUBSET (SUBSET S)
  OBVIOUS
<1> HIDE DEF Q
<1>6. S \in Q
  BY <1>3, <1>4, <1>5, AllSubsets
<1> QED
  BY <1>1, <1>2, <1>6 DEF Q, AddsUp

\* A sum of which one part changes changes by as much.
LEMMA SumChanges ==
  ASSUME NEW S, IsFiniteSet(S), NEW f \in [S -> Nat], NEW g \in [S -> Nat],
         NEW x0 \in S, NEW d \in Int, g[x0] = f[x0] + d,
         \A x \in S : x # x0 => g[x] = f[x]
  PROVE  SumFunction(g) = SumFunction(f) + d
<1>1. PICK s : AddsUp(f, S, s)
  BY SumSteps
<1>2. PICK u : AddsUp(g, S, u)
  BY SumSteps
<1> DEFINE Q == {T \in SUBSET S : u[T] = s[T] + (IF x0 \in T THEN d ELSE 0)}
<1>3. {} \in Q
  BY <1>1, <1>2 DEF AddsUp
<1>4. ASSUME NEW T \in SUBSET S, T # {}, T \ {OneOf(T)} \in Q PROVE T \in Q
  <2> DEFINE x == OneOf(T)
  <2>1. x \in T /\ x \in S /\ T \ {x} \in SUBSET S
    BY <1>1, <1>4 DEF AddsUp
  <2>2. s[T] = f[x] + s[T \ {x}] /\ u[T] = g[x] + u[T \ {x}]
    BY <1>1, <1>2, <1>4 DEF AddsUp
  <2>3. /\ u[T \ {x}] = s[T \ {x}] + (IF x0 \in T \ {x} THEN d ELSE 0)
        /\ s[T \ {x}] \in Nat /\ u[T \ {x}] \in Nat /\ f[x] \in Nat /\ g[x] \in Nat
    BY <1>1, <1>2, <1>4, <2>1 DEF AddsUp
  <2>4. CASE x = x0
    <3>1. x0 \in T /\ x0 \notin T \ {x} /\ g[x] = f[x] + d
      BY <2>1, <2>4
    <3> HIDE DEF x
    <3>2. u[T] = s[T] + d
      BY <2>2, <2>3, <3>1
    <3> QED
      BY <3>1, <3>2
  <2>5. CASE x # x0
    <3>1. (x0 \in T \ {x} <=> x0 \in T) /\ g[x] = f[x]
      BY <2>1, <2>5
    <3> HIDE DEF x
    <3>2. u[T] = s[T] + (IF x0 \in T THEN d ELSE 0)
      BY <2>2, <2>3, <3>1
    <3> QED
      BY <3>2
  <2> QED
    BY <2>4, <2>5
<1>5. Q \in SUBSET (SUBSET S)
  OBVIOUS
<1> HIDE DEF Q
<1>6. S \in Q
  BY <1>3, <1>4, <1>5, AllSubsets
<1> QED
  BY <1>1, <1>2, <1>6 DEF Q, AddsUp

=============================================================================
