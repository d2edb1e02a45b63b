---------------------------- MODULE OrderedProofs ----------------------------
(***************************************************************************)
(* What InOrder and Picked return, for every finite set of numbers and     *)
(* every sequence: a set in order is an ascending sequence of its members, *)
(* each once, and adding a number above all others appends it.             *)
(***************************************************************************)
EXTENDS Ordered, FiniteSetTheorems, SequenceTheorems, WellFoundedInduction,
        TLAPS

-----------------------------------------------------------------------------
(* Least numbers. *)

LEMMA LessIsWellFounded ==
    IsWellFoundedOn({r \in Nat \X Nat : r[1] < r[2]}, Nat)
  BY NatLessThanWellFounded DEF OpToRel

\* A set of naturals that is not empty has a least member.
LEMMA LeastMember ==
  ASSUME NEW T, T \subseteq Nat, T # {}
  PROVE  \E x \in T : \A y \in T : x <= y
<1>1. PICK x \in T : \A y \in T : ~ (<<y, x>> \in {r \in Nat \X Nat : r[1] < r[2]})
  BY LessIsWellFounded, WFMin
<1>2. ASSUME NEW y \in T PROVE x <= y
  <2>1. <<y, x>> \in Nat \X Nat
    OBVIOUS
  <2>2. ~ (<<y, x>>[1] < <<y, x>>[2])
    BY <1>1, <2>1
  <2> QED BY <2>2
<1> QED BY <1>2

-----------------------------------------------------------------------------
(* Rank. *)

\* A rank counts at least the number itself, and at most the whole set.
LEMMA RankType ==
  ASSUME NEW W, W \subseteq Int, IsFiniteSet(W), NEW k \in W
  PROVE  /\ Rank(W, k) \in 1 .. Cardinality(W)
         /\ IsFiniteSet({m \in W : m <= k})
<1> DEFINE below == {m \in W : m <= k}
<1>1. below \in SUBSET W /\ k \in below
  OBVIOUS
<1>2. IsFiniteSet(below) /\ Cardinality(below) <= Cardinality(W)
  BY <1>1, FS_Subset
<1>3. Cardinality(below) \in Nat /\ Cardinality(W) \in Nat
  BY <1>2, FS_CardinalityType
<1>4. Cardinality(below) # 0
  BY <1>1, <1>2, FS_EmptySet
<1> HIDE DEF below
<1>5. Cardinality(below) \in 1 .. Cardinality(W)
  BY <1>2, <1>3, <1>4
<1> QED BY <1>2, <1>5 DEF Rank, below

\* A greater number has the greater rank.
LEMMA RankMonotone ==
  ASSUME NEW W, W \subseteq Int, IsFiniteSet(W), NEW k \in W, NEW m \in W, k < m
  PROVE  Rank(W, k) < Rank(W, m)
<1> DEFINE low == {n \in W : n <= k}
<1> DEFINE high == {n \in W : n <= m}
<1>1. low \in SUBSET high /\ m \in high /\ m \notin low
  <2>1. \A n \in W : n \in Int
    OBVIOUS
  <2>2. \A n \in low : n \in high
    BY <2>1
  <2>3. m \in high /\ ~ (m <= k)
    BY <2>1
  <2> HIDE DEF high
  <2> QED BY <2>2, <2>3
<1>2. IsFiniteSet(high) /\ IsFiniteSet(low)
  BY RankType
<1>3. Cardinality(low) <= Cardinality(high) /\ Cardinality(low) # Cardinality(high)
  BY <1>1, <1>2, FS_Subset
<1>4. Cardinality(low) \in Nat /\ Cardinality(high) \in Nat
  BY <1>2, FS_CardinalityType
<1> HIDE DEF low, high
<1>5. Cardinality(low) < Cardinality(high)
  BY <1>3, <1>4
<1> QED BY <1>5 DEF Rank, low, high

\* So ranks order the numbers, and tell them apart.
LEMMA RankOrders ==
  ASSUME NEW W, W \subseteq Int, IsFiniteSet(W), NEW k \in W, NEW m \in W
  PROVE  /\ Rank(W, k) < Rank(W, m) <=> k < m
         /\ Rank(W, k) = Rank(W, m) <=> k = m
<1>1. Rank(W, k) \in Int /\ Rank(W, m) \in Int
  <2>1. Rank(W, k) \in 1 .. Cardinality(W) /\ Rank(W, m) \in 1 .. Cardinality(W)
    BY RankType
  <2> QED BY <2>1
<1>2. k < m => Rank(W, k) < Rank(W, m)
  BY RankMonotone
<1>3. m < k => Rank(W, m) < Rank(W, k)
  BY RankMonotone
<1>4. k \in Int /\ m \in Int
  OBVIOUS
<1> QED BY <1>1, <1>2, <1>3, <1>4

\* Every place up to the size of the set is the rank of some member: the ranks
\* are as many as the members.
LEMMA RankOnto ==
  ASSUME NEW W, W \subseteq Int, IsFiniteSet(W), NEW j \in 1 .. Cardinality(W)
  PROVE  \E k \in W : Rank(W, k) = j
<1> DEFINE rank == [k \in W |-> Rank(W, k)]
<1> DEFINE places == 1 .. Cardinality(W)
<1>1. Cardinality(W) \in Nat
  BY FS_CardinalityType
<1>2. IsFiniteSet(places) /\ Cardinality(places) = Cardinality(W)
  BY <1>1, FS_Interval
<1>3. rank \in [W -> places]
  BY RankType
<1>4. \A k, m \in W : rank[k] = rank[m] => k = m
  BY RankOrders
<1>5. rank \in Injection(W, places)
  BY <1>3, <1>4 DEF Injection, IsInjective
<1>6. rank \in Surjection(W, places)
  BY <1>2, <1>5, FS_Injection
<1>7. \E k \in W : rank[k] = j
  BY <1>6 DEF Surjection
<1> QED BY <1>7

-----------------------------------------------------------------------------
(* Sequences. *)

\* A function on 1 .. n is a sequence of length n.
LEMMA SequenceOfLength ==
  ASSUME NEW S, NEW n \in Nat, NEW s \in [1 .. n -> S]
  PROVE  s \in Seq(S) /\ Len(s) = n
<1>1. s \in Seq(S)
  BY SeqDef
<1>2. DOMAIN s = 1 .. n /\ DOMAIN s = 1 .. Len(s) /\ Len(s) \in Nat
  BY <1>1, LenProperties
<1>3. Len(s) = n
  BY <1>2
<1> QED BY <1>1, <1>3

-----------------------------------------------------------------------------
(* InOrder. *)

\* A finite set in order is a sequence of its members, as long as the set.
LEMMA InOrderType ==
  ASSUME NEW W, W \subseteq Int, IsFiniteSet(W)
  PROVE  /\ InOrder(W) \in Seq(W)
         /\ Len(InOrder(W)) = Cardinality(W)
         /\ Len(InOrder(W)) \in Nat
         /\ \A j \in 1 .. Cardinality(W) :
                InOrder(W)[j] \in W /\ Rank(W, InOrder(W)[j]) = j
<1>1. Cardinality(W) \in Nat
  BY FS_CardinalityType
<1>2. \A j \in 1 .. Cardinality(W) :
          InOrder(W)[j] \in W /\ Rank(W, InOrder(W)[j]) = j
  <2> TAKE j \in 1 .. Cardinality(W)
  <2>1. \E k \in W : Rank(W, k) = j
    BY RankOnto
  <2>2. InOrder(W)[j] = CHOOSE k \in W : Rank(W, k) = j
    BY DEF InOrder
  <2> QED BY <2>1, <2>2
<1>3. InOrder(W) \in [1 .. Cardinality(W) -> W]
  BY <1>2 DEF InOrder
<1>4. InOrder(W) \in Seq(W) /\ Len(InOrder(W)) = Cardinality(W)
  BY <1>1, <1>3, SequenceOfLength
<1> QED BY <1>1, <1>2, <1>4

\* A later place holds a greater number.
LEMMA InOrderAscends ==
  ASSUME NEW W, W \subseteq Int, IsFiniteSet(W),
         NEW i \in 1 .. Len(InOrder(W)), NEW j \in 1 .. Len(InOrder(W))
  PROVE  /\ InOrder(W)[i] \in W
         /\ InOrder(W)[i] < InOrder(W)[j] <=> i < j
         /\ InOrder(W)[i] = InOrder(W)[j] <=> i = j
<1>0. i \in 1 .. Cardinality(W) /\ j \in 1 .. Cardinality(W)
  BY InOrderType
<1>1. /\ InOrder(W)[i] \in W /\ Rank(W, InOrder(W)[i]) = i
      /\ InOrder(W)[j] \in W /\ Rank(W, InOrder(W)[j]) = j
  BY <1>0, InOrderType
<1> DEFINE a == InOrder(W)[i]
<1> DEFINE b == InOrder(W)[j]
<1>2. a \in W /\ b \in W /\ Rank(W, a) = i /\ Rank(W, b) = j
  BY <1>1
<1> HIDE DEF a, b
<1>3. (Rank(W, a) < Rank(W, b) <=> a < b) /\ (Rank(W, a) = Rank(W, b) <=> a = b)
  BY <1>2, RankOrders
<1>4. a \in W /\ (a < b <=> i < j) /\ (a = b <=> i = j)
  BY <1>2, <1>3
<1> QED BY <1>4 DEF a, b

\* Every member is at some place.
LEMMA InOrderOnto ==
  ASSUME NEW W, W \subseteq Int, IsFiniteSet(W), NEW k \in W
  PROVE  /\ Rank(W, k) \in 1 .. Len(InOrder(W))
         /\ InOrder(W)[Rank(W, k)] = k
<1>1. Rank(W, k) \in 1 .. Cardinality(W) /\ Len(InOrder(W)) = Cardinality(W)
  BY RankType, InOrderType
<1>2. /\ InOrder(W)[Rank(W, k)] \in W
      /\ Rank(W, InOrder(W)[Rank(W, k)]) = Rank(W, k)
  BY <1>1, InOrderType
<1>3. InOrder(W)[Rank(W, k)] = k
  BY <1>2, RankOrders
<1> QED BY <1>1, <1>3

\* No member, no place.
LEMMA InOrderEmpty == InOrder({}) = <<>>
<1>1. IsFiniteSet({}) /\ Cardinality({}) = 0
  BY FS_EmptySet
<1>2. InOrder({}) \in Seq({}) /\ Len(InOrder({})) = 0
  BY <1>1, InOrderType
<1> QED BY <1>2, EmptySeq

\* A number above all others comes last.
LEMMA InOrderAppend ==
  ASSUME NEW W, W \subseteq Int, IsFiniteSet(W),
         NEW n \in Int, \A k \in W : k < n
  PROVE  InOrder(W \cup {n}) = Append(InOrder(W), n)
<1> DEFINE V == W \cup {n}
<1>1. n \notin W
  OBVIOUS
<1>2. IsFiniteSet(V) /\ Cardinality(V) = Cardinality(W) + 1 /\ V \subseteq Int
  BY <1>1, FS_AddElement
<1>3. Cardinality(W) \in Nat
  BY FS_CardinalityType
<1>4. \A k \in W : Rank(V, k) = Rank(W, k)
  <2> TAKE k \in W
  <2>1. {m \in V : m <= k} = {m \in W : m <= k}
    OBVIOUS
  <2> QED BY <2>1 DEF Rank
<1>5. Rank(V, n) = Cardinality(W) + 1
  <2>0. \A m \in V : m \in Int /\ m <= n
    OBVIOUS
  <2>1. {m \in V : m <= n} = V
    BY <2>0
  <2> QED BY <1>2, <2>1 DEF Rank
<1> HIDE DEF V
<1>6. /\ InOrder(W) \in Seq(W) /\ Len(InOrder(W)) = Cardinality(W)
      /\ InOrder(V) \in Seq(V) /\ Len(InOrder(V)) = Cardinality(W) + 1
  BY <1>2, InOrderType
<1>7. n \in V /\ W \subseteq V
  BY DEF V
<1>8. ASSUME NEW j \in 1 .. Cardinality(W) + 1
      PROVE  InOrder(V)[j] = Append(InOrder(W), n)[j]
  <2>1. CASE j = Cardinality(W) + 1
    <3>1. InOrder(V)[j] = n
      BY <1>2, <1>5, <1>7, <2>1, InOrderOnto
    <3>2. Append(InOrder(W), n)[j] = n
      BY <1>3, <1>6, <2>1, AppendProperties
    <3> QED BY <3>1, <3>2
  <2>2. CASE j \in 1 .. Cardinality(W)
    <3>1. InOrder(W)[j] \in W /\ Rank(W, InOrder(W)[j]) = j
      BY <2>2, InOrderType
    <3>2. InOrder(W)[j] \in V /\ Rank(V, InOrder(W)[j]) = j
      BY <1>4, <1>7, <3>1
    <3>3. InOrder(V)[Rank(V, InOrder(W)[j])] = InOrder(W)[j]
      BY <1>2, <3>2, InOrderOnto
    <3>4. Append(InOrder(W), n)[j] = InOrder(W)[j]
      BY <1>3, <1>6, <2>2, AppendProperties
    <3> QED BY <3>2, <3>3, <3>4
  <2>3. j = Cardinality(W) + 1 \/ j \in 1 .. Cardinality(W)
    BY <1>3
  <2> QED BY <2>1, <2>2, <2>3
<1>9. Append(InOrder(W), n) \in Seq(V) /\ Len(Append(InOrder(W), n)) = Cardinality(W) + 1
  <2>1. InOrder(W) \in Seq(V)
    BY <1>6, <1>7, SeqMonotonic
  <2> QED BY <1>6, <1>7, <2>1, AppendProperties
<1>10. InOrder(V) = Append(InOrder(W), n)
  BY <1>6, <1>8, <1>9, SeqEqual
<1> QED BY <1>10 DEF V

-----------------------------------------------------------------------------
(* Picked. *)

\* Places of a sequence are a finite set of numbers.
LEMMA PlacesFinite ==
  ASSUME NEW n \in Nat, NEW K, K \subseteq 1 .. n
  PROVE  K \subseteq Int /\ IsFiniteSet(K)
<1>1. IsFiniteSet(1 .. n)
  BY FS_Interval
<1>2. IsFiniteSet(K)
  BY <1>1, FS_Subset
<1> QED BY <1>2

\* What is picked of a sequence is a sequence of its members, one for each
\* place.
LEMMA PickedType ==
  ASSUME NEW S, NEW s \in Seq(S), NEW K, K \subseteq 1 .. Len(s)
  PROVE  /\ Picked(s, K) \in Seq(S)
         /\ Len(Picked(s, K)) = Len(InOrder(K))
         /\ Len(Picked(s, K)) = Cardinality(K)
<1> DEFINE places == InOrder(K)
<1> DEFINE p == Picked(s, K)
<1>0. Len(s) \in Nat
  BY LenProperties
<1>1. K \subseteq Int /\ IsFiniteSet(K)
  BY <1>0, PlacesFinite
<1>2. places \in Seq(K) /\ Len(places) \in Nat /\ Len(places) = Cardinality(K)
  BY <1>1, InOrderType
<1>3. p = [j \in 1 .. Len(places) |-> s[places[j]]]
  BY DEF Picked
<1> HIDE DEF places, p
<1>4. \A j \in 1 .. Len(places) : places[j] \in K /\ s[places[j]] \in S
  BY <1>2, ElementOfSeq
<1>5. p \in [1 .. Len(places) -> S]
  BY <1>3, <1>4
<1>6. p \in Seq(S) /\ Len(p) = Len(places)
  BY <1>2, <1>5, SequenceOfLength
<1> QED BY <1>2, <1>6 DEF places, p

LEMMA PickedAt ==
  ASSUME NEW K, K \subseteq Int, IsFiniteSet(K),
         NEW j \in 1 .. Len(InOrder(K)), NEW s
  PROVE  InOrder(K)[j] \in K /\ Picked(s, K)[j] = s[InOrder(K)[j]]
<1>1. InOrder(K) \in Seq(K)
  BY InOrderType
<1>2. InOrder(K)[j] \in K
  BY <1>1, ElementOfSeq
<1>3. Picked(s, K)[j] = s[InOrder(K)[j]]
  BY DEF Picked
<1> QED BY <1>2, <1>3

\* Every place is picked.
LEMMA PickedOnto ==
  ASSUME NEW S, NEW s \in Seq(S), NEW K, K \subseteq 1 .. Len(s), NEW k \in K
  PROVE  \E j \in 1 .. Len(Picked(s, K)) : Picked(s, K)[j] = s[k]
<1>0. Len(s) \in Nat
  BY LenProperties
<1>1. K \subseteq Int /\ IsFiniteSet(K)
  BY <1>0, PlacesFinite
<1>2. Rank(K, k) \in 1 .. Len(InOrder(K)) /\ InOrder(K)[Rank(K, k)] = k
  BY <1>1, InOrderOnto
<1>3. Len(Picked(s, K)) = Len(InOrder(K))
  BY PickedType
<1>4. Picked(s, K)[Rank(K, k)] = s[InOrder(K)[Rank(K, k)]]
  BY <1>1, <1>2, PickedAt
<1> QED BY <1>2, <1>3, <1>4

\* Nothing is picked of no places.
LEMMA PickedEmpty ==
  ASSUME NEW S, NEW s \in Seq(S)
  PROVE  Picked(s, {}) = <<>>
<1>1. IsFiniteSet({}) /\ Cardinality({}) = 0
  BY FS_EmptySet
<1>2. Picked(s, {}) \in Seq(S) /\ Len(Picked(s, {})) = 0
  BY <1>1, PickedType
<1> QED BY <1>2, EmptySeq

\* Only the members at the places count.
LEMMA PickedSame ==
  ASSUME NEW S, NEW s \in Seq(S), NEW t \in Seq(S),
         NEW K, K \subseteq 1 .. Len(s), K \subseteq 1 .. Len(t),
         \A k \in K : s[k] = t[k]
  PROVE  Picked(s, K) = Picked(t, K)
<1>0. Len(s) \in Nat
  BY LenProperties
<1>1a. K \subseteq Int /\ IsFiniteSet(K)
  BY <1>0, PlacesFinite
<1>1. /\ Picked(s, K) \in Seq(S) /\ Picked(t, K) \in Seq(S)
      /\ Len(Picked(s, K)) = Len(InOrder(K))
      /\ Len(Picked(t, K)) = Len(InOrder(K))
  BY PickedType
<1>2. \A j \in 1 .. Len(Picked(s, K)) : Picked(s, K)[j] = Picked(t, K)[j]
  <2> TAKE j \in 1 .. Len(Picked(s, K))
  <2>0. j \in 1 .. Len(InOrder(K))
    BY <1>1
  <2>1. InOrder(K)[j] \in K /\ Picked(s, K)[j] = s[InOrder(K)[j]]
    BY <1>1a, <2>0, PickedAt
  <2>2. Picked(t, K)[j] = t[InOrder(K)[j]]
    BY <1>1a, <2>0, PickedAt
  <2> QED BY <2>1, <2>2
<1> QED BY <1>1, <1>2, SeqEqual

\* A member at a place after all others is picked last.
LEMMA PickedLater ==
  ASSUME NEW S, NEW s \in Seq(S), NEW K, K \subseteq 1 .. Len(s),
         NEW n \in 1 .. Len(s), \A k \in K : k < n
  PROVE  Picked(s, K \cup {n}) = Append(Picked(s, K), s[n])
<1> DEFINE V == K \cup {n}
<1> DEFINE c == Len(InOrder(K))
<1>0. Len(s) \in Nat
  BY LenProperties
<1>1. K \subseteq Int /\ IsFiniteSet(K) /\ n \in Int
  BY <1>0, PlacesFinite
<1>2. InOrder(V) = Append(InOrder(K), n)
  BY <1>1, InOrderAppend
<1>3. V \subseteq 1 .. Len(s) /\ K \subseteq V /\ n \in V
  OBVIOUS
<1> HIDE DEF V
<1>4. InOrder(K) \in Seq(K) /\ c \in Nat
  BY <1>1, InOrderType
<1>5. InOrder(K) \in Seq(V)
  BY <1>3, <1>4, SeqMonotonic
<1>6. /\ Len(InOrder(V)) = c + 1
      /\ \A j \in 1 .. c : InOrder(V)[j] = InOrder(K)[j]
      /\ InOrder(V)[c + 1] = n
  BY <1>2, <1>3, <1>5, AppendProperties
<1>7. /\ Picked(s, V) \in Seq(S) /\ Len(Picked(s, V)) = c + 1
      /\ \A j \in 1 .. c + 1 : Picked(s, V)[j] = s[InOrder(V)[j]]
  <2>1. V \subseteq Int /\ IsFiniteSet(V)
    BY <1>0, <1>3, PlacesFinite
  <2>2. Picked(s, V) \in Seq(S) /\ Len(Picked(s, V)) = Len(InOrder(V))
    BY <1>3, PickedType
  <2>3. \A j \in 1 .. Len(InOrder(V)) : Picked(s, V)[j] = s[InOrder(V)[j]]
    BY <2>1, PickedAt
  <2> QED BY <1>6, <2>2, <2>3
<1>8. /\ Picked(s, K) \in Seq(S) /\ Len(Picked(s, K)) = c
      /\ \A j \in 1 .. c : Picked(s, K)[j] = s[InOrder(K)[j]]
  BY <1>1, PickedType, PickedAt
<1>9. s[n] \in S
  BY ElementOfSeq
<1> DEFINE a == Append(Picked(s, K), s[n])
<1>10. /\ a \in Seq(S) /\ Len(a) = c + 1 /\ a[c + 1] = s[n]
       /\ \A j \in 1 .. c : a[j] = Picked(s, K)[j]
  BY <1>8, <1>9, AppendProperties
<1> HIDE DEF a, c
<1>11. ASSUME NEW j \in 1 .. c + 1
       PROVE  Picked(s, V)[j] = a[j]
  <2>1. CASE j \in 1 .. c
    <3>1. Picked(s, V)[j] = s[InOrder(V)[j]] /\ InOrder(V)[j] = InOrder(K)[j]
      BY <1>6, <1>7, <2>1
    <3>2. a[j] = s[InOrder(K)[j]]
      BY <1>8, <1>10, <2>1
    <3> QED BY <3>1, <3>2
  <2>2. CASE j = c + 1
    <3>1. Picked(s, V)[j] = s[InOrder(V)[j]]
      BY <1>7
    <3> QED BY <1>6, <1>10, <2>2, <3>1
  <2>3. j \in 1 .. c \/ j = c + 1
    BY <1>4
  <2> QED BY <2>1, <2>2, <2>3
<1>12. Picked(s, V) = a
  BY <1>7, <1>10, <1>11, SeqEqual
<1> QED BY <1>12 DEF a, V

-----------------------------------------------------------------------------
(* Parts of sequences. *)

\* What is left of a sequence after its first n members.
LEMMA SuffixProperties ==
  ASSUME NEW S, NEW s \in Seq(S), NEW n \in 0 .. Len(s)
  PROVE  /\ SubSeq(s, n + 1, Len(s)) \in Seq(S)
         /\ Len(SubSeq(s, n + 1, Len(s))) = Len(s) - n
         /\ \A a \in 1 .. Len(s) - n : SubSeq(s, n + 1, Len(s))[a] = s[n + a]
<1>1. Len(s) \in Nat /\ \A a \in 1 .. Len(s) : s[a] \in S
  BY LenProperties, ElementOfSeq
<1> DEFINE u == n + 1
<1> DEFINE v == Len(s)
<1>2. u \in Int /\ v \in Int /\ \A a \in u .. v : s[a] \in S
  BY <1>1
<1>3. /\ v - u + 1 = v - n /\ \A a \in Int : u + a - 1 = n + a
      /\ u <= v => v - u + 1 = v - n
      /\ ~ (u <= v) => v - n = 0
  BY <1>1
<1> HIDE DEF u, v
<1>4. /\ SubSeq(s, u, v) \in Seq(S)
      /\ Len(SubSeq(s, u, v)) = IF u <= v THEN v - u + 1 ELSE 0
      /\ \A a \in 1 .. v - u + 1 : SubSeq(s, u, v)[a] = s[u + a - 1]
  BY <1>2, SubSeqProperties
<1>5. Len(SubSeq(s, u, v)) = v - n
  BY <1>3, <1>4
<1>6. \A a \in 1 .. v - n : SubSeq(s, u, v)[a] = s[n + a]
  BY <1>3, <1>4
<1> QED BY <1>4, <1>5, <1>6 DEF u, v

\* Its first n members.
LEMMA PrefixProperties ==
  ASSUME NEW S, NEW s \in Seq(S), NEW n \in Nat, n <= Len(s)
  PROVE  /\ SubSeq(s, 1, n) \in Seq(S)
         /\ Len(SubSeq(s, 1, n)) = n
         /\ \A a \in 1 .. n : SubSeq(s, 1, n)[a] = s[a]
<1>1. Len(s) \in Nat /\ \A a \in 1 .. Len(s) : s[a] \in S
  BY LenProperties, ElementOfSeq
<1>2. \A a \in 1 .. n : s[a] \in S
  BY <1>1
<1> DEFINE u == 1
<1>3. u \in Int /\ n \in Int /\ \A a \in u .. n : s[a] \in S
  BY <1>2
<1>4. /\ n - u + 1 = n /\ \A a \in Int : u + a - 1 = a
      /\ u <= n => n - u + 1 = n
      /\ ~ (u <= n) => n = 0
  OBVIOUS
<1> HIDE DEF u
<1>5. /\ SubSeq(s, u, n) \in Seq(S)
      /\ Len(SubSeq(s, u, n)) = IF u <= n THEN n - u + 1 ELSE 0
      /\ \A a \in 1 .. n - u + 1 : SubSeq(s, u, n)[a] = s[u + a - 1]
  BY <1>3, SubSeqProperties
<1>6. Len(SubSeq(s, u, n)) = n
  BY <1>4, <1>5
<1>7. ASSUME NEW a \in 1 .. n PROVE SubSeq(s, u, n)[a] = s[a]
  <2>1. a \in 1 .. n - u + 1
    <3>1. n - u + 1 = n
      BY <1>4
    <3> QED BY <3>1
  <2>2. SubSeq(s, u, n)[a] = s[u + a - 1]
    BY <1>5, <2>1
  <2>3. u + a - 1 = a
    <3>1. a \in Int
      OBVIOUS
    <3> QED BY <1>4, <3>1
  <2> QED BY <2>2, <2>3
<1> QED BY <1>5, <1>6, <1>7 DEF u

\* Two sequences, one after the other.
LEMMA JoinProperties ==
  ASSUME NEW S, NEW s \in Seq(S), NEW t \in Seq(S)
  PROVE  /\ s \o t \in Seq(S)
         /\ Len(s \o t) = Len(s) + Len(t)
         /\ Len(s) \in Nat /\ Len(t) \in Nat
BY ConcatProperties, LenProperties

LEMMA JoinFirst ==
  ASSUME NEW S, NEW s \in Seq(S), NEW t \in Seq(S), NEW k \in 1 .. Len(s)
  PROVE  (s \o t)[k] = s[k]
<1>1. Len(s) \in Nat /\ Len(t) \in Nat
  BY LenProperties
<1>2. k \in 1 .. Len(s) + Len(t) /\ k <= Len(s)
  BY <1>1
<1> QED BY <1>2, ConcatProperties

LEMMA JoinSecond ==
  ASSUME NEW S, NEW s \in Seq(S), NEW t \in Seq(S), NEW k \in 1 .. Len(t)
  PROVE  (s \o t)[Len(s) + k] = t[k]
<1> DEFINE m == Len(s) + k
<1>1. Len(s) \in Nat /\ Len(t) \in Nat
  BY LenProperties
<1>2. m \in 1 .. Len(s) + Len(t) /\ ~ (m <= Len(s)) /\ m - Len(s) = k
  BY <1>1
<1> HIDE DEF m
<1>3. (s \o t)[m] = t[k]
  BY <1>2, ConcatProperties
<1> QED BY <1>3 DEF m

-----------------------------------------------------------------------------
(* Ascending sequences. *)

Ascending(s) == \A i, j \in DOMAIN s : i < j => s[i] < s[j]

\* Every member of s is a member of t.
Within(s, t) == \A i \in DOMAIN s : \E k \in DOMAIN t : s[i] = t[k]

\* Where two ascending sequences first differ, neither is the smaller one if
\* it holds only members of the other.
LEMMA FirstDifference ==
  ASSUME NEW s \in Seq(Int), NEW t \in Seq(Int), Ascending(s), Ascending(t),
         Within(s, t), NEW n \in DOMAIN s, n <= Len(t),
         \A j \in 1 .. n - 1 : s[j] = t[j]
  PROVE  t[n] <= s[n]
<1>1. /\ DOMAIN s = 1 .. Len(s) /\ DOMAIN t = 1 .. Len(t)
      /\ Len(s) \in Nat /\ Len(t) \in Nat
  BY LenProperties
<1>2. PICK k \in DOMAIN t : s[n] = t[k]
  BY DEF Within
<1>3. n \in DOMAIN t /\ n \in Nat /\ k \in Nat
  BY <1>1
<1>4. s[n] \in Int /\ t[n] \in Int
  BY <1>1, <1>3, ElementOfSeq
<1>5. CASE k < n
  <2>1. k \in 1 .. n - 1 /\ k \in DOMAIN s
    BY <1>1, <1>3, <1>5
  <2>2. s[k] = t[k] /\ s[k] < s[n]
    BY <1>5, <2>1 DEF Ascending
  <2> QED BY <1>2, <1>4, <2>2
<1>6. CASE n < k
  <2>1. t[n] < t[k]
    BY <1>3, <1>6 DEF Ascending
  <2> QED BY <1>2, <1>4, <2>1
<1>7. CASE k = n
  BY <1>2, <1>4, <1>7
<1> QED BY <1>3, <1>5, <1>6, <1>7

\* An ascending sequence is not longer than one it agrees with, and whose
\* members it shares.
LEMMA NotLonger ==
  ASSUME NEW s \in Seq(Int), NEW t \in Seq(Int), Ascending(s), Within(s, t),
         \A j \in DOMAIN s : j <= Len(t) => s[j] = t[j]
  PROVE  Len(s) <= Len(t)
<1>1. /\ DOMAIN s = 1 .. Len(s) /\ DOMAIN t = 1 .. Len(t)
      /\ Len(s) \in Nat /\ Len(t) \in Nat
  BY LenProperties
<1> SUFFICES ASSUME Len(t) < Len(s) PROVE FALSE
  BY <1>1
<1> DEFINE n == Len(t) + 1
<1>2. n \in DOMAIN s
  BY <1>1
<1>3. PICK k \in DOMAIN t : s[n] = t[k]
  BY <1>2 DEF Within
<1>4. k \in DOMAIN s /\ k < n /\ k <= Len(t)
  BY <1>1
<1>5. s[k] = t[k] /\ s[k] < s[n]
  <2>1. s[k] = t[k]
    BY <1>4
  <2> HIDE DEF n
  <2>2. s[k] < s[n]
    BY <1>2, <1>4 DEF Ascending
  <2> QED BY <2>1, <2>2
<1>6. s[n] \in Int
  BY <1>1, <1>2, ElementOfSeq
<1> QED BY <1>3, <1>5, <1>6

\* Two ascending sequences with the same members are the same.
LEMMA AscendingSame ==
  ASSUME NEW s \in Seq(Int), NEW t \in Seq(Int), Ascending(s), Ascending(t),
         Within(s, t), Within(t, s)
  PROVE  s = t
<1>1. /\ DOMAIN s = 1 .. Len(s) /\ DOMAIN t = 1 .. Len(t)
      /\ Len(s) \in Nat /\ Len(t) \in Nat
  BY LenProperties
<1> DEFINE bad == {j \in 1 .. Len(s) : j <= Len(t) /\ s[j] # t[j]}
<1>2. bad = {}
  <2> SUFFICES ASSUME bad # {} PROVE FALSE
    OBVIOUS
  <2>1. bad \subseteq Nat
    BY <1>1
  <2>2. \A j : j \in bad <=> j \in 1 .. Len(s) /\ j <= Len(t) /\ s[j] # t[j]
    OBVIOUS
  <2> HIDE DEF bad
  <2>3. PICK n \in bad : \A y \in bad : n <= y
    BY <2>1, LeastMember
  <2>4. /\ n \in 1 .. Len(s) /\ n \in Nat /\ n <= Len(t) /\ n <= Len(s) /\ s[n] # t[n]
        /\ n \in DOMAIN s /\ n \in DOMAIN t
    BY <1>1, <2>2
  <2>5. ASSUME NEW j \in 1 .. n - 1 PROVE s[j] = t[j]
    <3>1. j \in Nat /\ j < n /\ 1 <= j
      BY <2>4
    <3>2. j <= Len(s) /\ j <= Len(t) /\ ~ (n <= j)
      BY <1>1, <2>4, <3>1
    <3>3. j \in 1 .. Len(s)
      BY <1>1, <3>1, <3>2
    <3> QED BY <2>2, <2>3, <3>2, <3>3
  <2>6. t[n] <= s[n]
    BY <2>4, <2>5, FirstDifference
  <2>7. s[n] <= t[n]
    <3>1. \A j \in 1 .. n - 1 : t[j] = s[j]
      BY <2>5
    <3> QED BY <2>4, <3>1, FirstDifference
  <2>8. s[n] \in Int /\ t[n] \in Int
    BY <1>1, <2>4, ElementOfSeq
  <2> QED BY <2>4, <2>6, <2>7, <2>8
<1>3. ASSUME NEW j \in 1 .. Len(s), j <= Len(t) PROVE s[j] = t[j]
  BY <1>2, <1>3
<1> HIDE DEF bad
<1>4. Len(s) <= Len(t)
  BY <1>1, <1>3, NotLonger
<1>5. Len(t) <= Len(s)
  <2>1. ASSUME NEW j \in DOMAIN t, j <= Len(s) PROVE t[j] = s[j]
    <3>1. j \in 1 .. Len(s) /\ j <= Len(t)
      BY <1>1, <2>1
    <3> QED BY <1>3, <3>1
  <2> QED BY <2>1, NotLonger
<1>6. Len(s) = Len(t)
  <2>1. Len(s) \in Nat /\ Len(t) \in Nat
    BY <1>1
  <2> QED BY <1>4, <1>5, <2>1
<1>7. ASSUME NEW j \in 1 .. Len(s) PROVE s[j] = t[j]
  <2>1. j <= Len(t)
    BY <1>1, <1>6
  <2> QED BY <1>3, <2>1
<1> QED BY <1>6, <1>7, SeqEqual

AscendingAt(s, K) == \A k, m \in K : k < m => s[k] < s[m]

\* What is picked of a sequence that ascends at the places ascends.
LEMMA PickedAscends ==
  ASSUME NEW s \in Seq(Int), NEW K, K \subseteq 1 .. Len(s), AscendingAt(s, K)
  PROVE  Ascending(Picked(s, K))
<1>0. Len(s) \in Nat
  BY LenProperties
<1>1. K \subseteq Int /\ IsFiniteSet(K)
  BY <1>0, PlacesFinite
<1>2. /\ Picked(s, K) \in Seq(Int) /\ Len(Picked(s, K)) = Len(InOrder(K))
      /\ DOMAIN Picked(s, K) = 1 .. Len(Picked(s, K))
  BY PickedType, LenProperties
<1>3. ASSUME NEW i \in 1 .. Len(InOrder(K)), NEW j \in 1 .. Len(InOrder(K)), i < j
      PROVE  Picked(s, K)[i] < Picked(s, K)[j]
  <2> DEFINE k == InOrder(K)[i]
             m == InOrder(K)[j]
  <2>1. /\ k \in K /\ Picked(s, K)[i] = s[k]
        /\ m \in K /\ Picked(s, K)[j] = s[m]
    BY <1>1, PickedAt
  <2>2. k < m
    BY <1>1, <1>3, InOrderAscends
  <2> HIDE DEF k, m
  <2> QED BY <2>1, <2>2 DEF AscendingAt
<1> QED BY <1>2, <1>3 DEF Ascending

\* The members of t are those of s at the places in K.
SameMembers(t, s, K) == {t[i] : i \in DOMAIN t} = {s[k] : k \in K}

\* So the ascending sequence with the same members is what is picked.
LEMMA PickedAscending ==
  ASSUME NEW s \in Seq(Int), NEW K, K \subseteq 1 .. Len(s),
         AscendingAt(s, K), NEW t \in Seq(Int), Ascending(t), SameMembers(t, s, K)
  PROVE  t = Picked(s, K)
<1>0. Len(s) \in Nat
  BY LenProperties
<1>1. /\ Picked(s, K) \in Seq(Int) /\ Len(Picked(s, K)) = Len(InOrder(K))
      /\ DOMAIN Picked(s, K) = 1 .. Len(Picked(s, K))
  BY PickedType, LenProperties
<1>2. Ascending(Picked(s, K))
  BY PickedAscends
<1>3. Within(t, Picked(s, K))
  <2>1. ASSUME NEW i \in DOMAIN t PROVE \E j \in DOMAIN Picked(s, K) : t[i] = Picked(s, K)[j]
    <3>1. PICK k \in K : t[i] = s[k]
      BY DEF SameMembers
    <3>2. \E j \in 1 .. Len(Picked(s, K)) : Picked(s, K)[j] = s[k]
      BY PickedOnto
    <3> QED BY <1>1, <3>1, <3>2
  <2> QED BY <2>1 DEF Within
<1>4. Within(Picked(s, K), t)
  <2>1. ASSUME NEW j \in 1 .. Len(InOrder(K)) PROVE \E i \in DOMAIN t : Picked(s, K)[j] = t[i]
    <3>0. K \subseteq Int /\ IsFiniteSet(K)
      BY <1>0, PlacesFinite
    <3>1. InOrder(K)[j] \in K /\ Picked(s, K)[j] = s[InOrder(K)[j]]
      BY <3>0, PickedAt
    <3>2. \E i \in DOMAIN t : s[InOrder(K)[j]] = t[i]
      BY <3>1 DEF SameMembers
    <3> QED BY <3>1, <3>2
  <2> QED BY <1>1, <2>1 DEF Within
<1> QED BY <1>1, <1>2, <1>3, <1>4, AscendingSame
=============================================================================
