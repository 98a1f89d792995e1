---------------------------- MODULE ParserProofs ----------------------------
(***************************************************************************)
(* Theorems about ps_literal, for every set of tokens, every text of them,  *)
(* and every capacity of the string it builds.                             *)
(***************************************************************************)
EXTENDS ParserProperties, AStringLemmas, FiniteSetTheorems

-----------------------------------------------------------------------------
(* Which characters are escapes.                                            *)

(* The last character before the k-th that is no backslash, or 0.            *)
IsLastOther(t, k, n) ==
  /\ n \in 0 .. k - 1
  /\ n = 0 \/ t[n] # Backslash
  /\ \A m \in n + 1 .. k - 1 : t[m] = Backslash

LEMMA LastOtherExists ==
  ASSUME NEW t, NEW k \in Nat \ {0}
  PROVE  \E n \in 0 .. k - 1 : IsLastOther(t, k, n)
<1> DEFINE T == {n \in 0 .. k - 1 : n = 0 \/ t[n] # Backslash}
<1>1. k - 1 \in Nat /\ T \subseteq 0 .. k - 1 /\ T # {}
  <2>1. 0 \in T
    OBVIOUS
  <2> QED  BY <2>1
<1>2. PICK x \in T : \A y \in T : y <= x
  BY <1>1, GreatestElement
<1>3. ASSUME NEW m \in x + 1 .. k - 1 PROVE t[m] = Backslash
  <2>1. m \in 0 .. k - 1 /\ ~ (m <= x) /\ m # 0
    BY <1>1
  <2> QED  BY <1>2, <2>1
<1> QED  BY <1>3 DEF IsLastOther

LEMMA BackslashesAre ==
  ASSUME NEW t, NEW k \in Nat \ {0}, NEW n, IsLastOther(t, k, n)
  PROVE  BackslashesBefore(t, k) = (k - 1) - n /\ n \in Nat
<1> DEFINE c == CHOOSE m \in 0 .. k - 1 :
                  /\ m = 0 \/ t[m] # Backslash
                  /\ \A l \in m + 1 .. k - 1 : t[l] = Backslash
<1>1. /\ c \in 0 .. k - 1 /\ (c = 0 \/ t[c] # Backslash)
      /\ \A l \in c + 1 .. k - 1 : t[l] = Backslash
  BY DEF IsLastOther
<1>2. BackslashesBefore(t, k) = (k - 1) - c
  BY DEF BackslashesBefore
<1> HIDE DEF c
<1>3. ~ (c < n)
  <2> SUFFICES ASSUME c < n PROVE FALSE
    OBVIOUS
  <2>1. n \in c + 1 .. k - 1 /\ n # 0
    BY <1>1 DEF IsLastOther
  <2> QED  BY <1>1, <2>1 DEF IsLastOther
<1>4. ~ (n < c)
  <2> SUFFICES ASSUME n < c PROVE FALSE
    OBVIOUS
  <2>1. c \in n + 1 .. k - 1 /\ c # 0
    BY <1>1 DEF IsLastOther
  <2> QED  BY <1>1, <2>1 DEF IsLastOther
<1>5. c = n /\ n \in Nat
  BY <1>1, <1>3, <1>4 DEF IsLastOther
<1> QED  BY <1>2, <1>5

LEMMA OneMoreIsOdd ==
  ASSUME NEW n \in Nat PROVE (n + 1) % 2 = 1 <=> n % 2 # 1
BY SMT

(* A character is replaced if and only if the one before it is an escape.    *)
LEMMA ReplacedIs ==
  ASSUME NEW t, NEW k \in Nat \ {0}
  PROVE  ~IsReplaced(t, 1) /\ (IsReplaced(t, k + 1) <=> IsEscape(t, k))
<1>1. PICK n \in 0 .. k - 1 : IsLastOther(t, k, n)
  BY LastOtherExists
<1>2. BackslashesBefore(t, k) = (k - 1) - n /\ (k - 1) - n \in Nat
  BY <1>1, BackslashesAre
<1>3. ~IsReplaced(t, 1)
  <2>1. IsLastOther(t, 1, 0)
    BY DEF IsLastOther
  <2>2. BackslashesBefore(t, 1) = (1 - 1) - 0
    BY <2>1, BackslashesAre
  <2>3. BackslashesBefore(t, 1) = 0
    BY <2>2
  <2>4. 0 % 2 # 1
    BY SMT
  <2> QED  BY <2>3, <2>4 DEF IsReplaced
<1>4. CASE t[k] = Backslash
  <2>1. IsLastOther(t, k + 1, n)
    <3>1. n \in 0 .. (k + 1) - 1 /\ (n = 0 \/ t[n] # Backslash)
      BY <1>1 DEF IsLastOther
    <3>2. \A m \in n + 1 .. (k + 1) - 1 : m = k \/ m \in n + 1 .. k - 1
      OBVIOUS
    <3> QED  BY <1>1, <1>4, <3>1, <3>2 DEF IsLastOther
  <2>2. BackslashesBefore(t, k + 1) = ((k + 1) - 1) - n
    BY <2>1, BackslashesAre
  <2>3. BackslashesBefore(t, k + 1) = ((k - 1) - n) + 1
    BY <2>2
  <2> QED  BY <1>2, <1>3, <1>4, <2>3, OneMoreIsOdd DEF IsReplaced, IsEscape
<1>5. CASE t[k] # Backslash
  <2>1. IsLastOther(t, k + 1, k)
    BY <1>5 DEF IsLastOther
  <2>2. BackslashesBefore(t, k + 1) = ((k + 1) - 1) - k
    BY <2>1, BackslashesAre
  <2>3. BackslashesBefore(t, k + 1) = 0
    BY <2>2
  <2>4. 0 % 2 # 1
    BY SMT
  <2> QED  BY <1>3, <1>5, <2>3, <2>4 DEF IsReplaced, IsEscape
<1> QED  BY <1>4, <1>5

(* Whether a character is replaced depends on those before it only.          *)
LEMMA PrefixReads ==
  ASSUME NEW t, NEW u, NEW m \in Nat, \A k \in 1 .. m : t[k] = u[k]
  PROVE  /\ \A k \in 1 .. m + 1 : IsReplaced(t, k) <=> IsReplaced(u, k)
         /\ \A k \in 1 .. m : IsEscape(t, k) <=> IsEscape(u, k)
<1>1. ASSUME NEW k \in 1 .. m + 1 PROVE IsReplaced(t, k) <=> IsReplaced(u, k)
  <2>0. k \in Nat \ {0} /\ \A n \in 1 .. k - 1 : n \in 1 .. m
    OBVIOUS
  <2>1. PICK n \in 0 .. k - 1 : IsLastOther(t, k, n)
    BY <2>0, LastOtherExists
  <2>2. IsLastOther(u, k, n)
    <3>1. n # 0 => n \in 1 .. k - 1
      BY <2>0
    <3>2. \A l \in n + 1 .. k - 1 : l \in 1 .. k - 1
      BY <2>0
    <3> QED  BY <2>0, <2>1, <3>1, <3>2 DEF IsLastOther
  <2>3. BackslashesBefore(t, k) = (k - 1) - n
    BY <2>0, <2>1, BackslashesAre
  <2>4. BackslashesBefore(u, k) = (k - 1) - n
    BY <2>0, <2>2, BackslashesAre
  <2> QED  BY <2>3, <2>4 DEF IsReplaced
<1>2. \A k \in 1 .. m : k \in 1 .. m + 1
  OBVIOUS
<1> QED  BY <1>1, <1>2 DEF IsEscape

-----------------------------------------------------------------------------
(* Ranks, in a set of numbers.                                               *)

Rank(S, k) == Cardinality({l \in S : l <= k})

LEMMA NumbersAreFinite ==
  ASSUME NEW m \in Nat, NEW S, S \subseteq 1 .. m
  PROVE  IsFiniteSet(S) /\ Cardinality(S) \in Nat
<1>1. IsFiniteSet(1 .. m)
  BY FS_Interval
<1>2. IsFiniteSet(S)
  BY <1>1, FS_Subset
<1> QED  BY <1>2, FS_CardinalityType

(* A number that comes after all others has the last rank, and leaves theirs. *)
LEMMA RankGrows ==
  ASSUME NEW m \in Nat, NEW S, S \subseteq 1 .. m
  PROVE  /\ Cardinality(S \cup {m + 1}) = Cardinality(S) + 1 /\ Cardinality(S) \in Nat
         /\ Rank(S \cup {m + 1}, m + 1) = Cardinality(S) + 1
         /\ \A k \in S : Rank(S \cup {m + 1}, k) = Rank(S, k)
<1> DEFINE T == S \cup {m + 1}
<1>1. IsFiniteSet(S) /\ Cardinality(S) \in Nat
  BY NumbersAreFinite
<1>2. \A k \in S : k \in Int /\ k <= m + 1 /\ k # m + 1 /\ ~ (m + 1 <= k)
  OBVIOUS
<1>3. Cardinality(T) = Cardinality(S) + 1
  BY <1>1, <1>2, FS_AddElement
<1>4. {l \in T : l <= m + 1} = T
  <2>1. m + 1 <= m + 1
    OBVIOUS
  <2> QED  BY <1>2, <2>1
<1>5. ASSUME NEW k \in S PROVE {l \in T : l <= k} = {l \in S : l <= k}
  <2>1. ~ (m + 1 <= k)
    BY <1>2
  <2> QED  BY <2>1
<1>6. Rank(T, m + 1) = Cardinality(T)
  BY <1>4 DEF Rank
<1>7. \A k \in S : Rank(T, k) = Rank(S, k)
  BY <1>5 DEF Rank
<1> QED  BY <1>1, <1>3, <1>6, <1>7

(* Every rank is taken.                                                      *)
RanksOf(S) == \A n \in 1 .. Cardinality(S) : \E k \in S : Rank(S, k) = n

LEMMA RankIsOnto ==
  ASSUME NEW m \in Nat, NEW S, S \subseteq 1 .. m PROVE RanksOf(S)
<1> DEFINE T == {n \in Nat : \A R \in SUBSET (1 .. n) : RanksOf(R)}
<1>1. 0 \in T
  <2>1. ASSUME NEW R \in SUBSET (1 .. 0) PROVE RanksOf(R)
    <3>1. R = {}
      OBVIOUS
    <3>2. Cardinality(R) = 0
      BY <3>1, FS_EmptySet
    <3> QED  BY <3>2 DEF RanksOf
  <2> QED  BY <2>1
<1>2. ASSUME NEW n \in T PROVE n + 1 \in T
  <2>1. ASSUME NEW R \in SUBSET (1 .. n + 1) PROVE RanksOf(R)
    <3> DEFINE Q == R \ {n + 1}
    <3>1. Q \subseteq 1 .. n /\ n \in Nat
      OBVIOUS
    <3>2. RanksOf(Q)
      BY <3>1
    <3>3. CASE n + 1 \notin R
      <4>1. R = Q
        BY <3>3
      <4> QED  BY <3>2, <4>1
    <3>4. CASE n + 1 \in R
      <4>1. R = Q \cup {n + 1}
        BY <3>4
      <4> HIDE DEF Q
      <4>2. /\ Cardinality(R) = Cardinality(Q) + 1 /\ Cardinality(Q) \in Nat
            /\ Rank(R, n + 1) = Cardinality(Q) + 1
            /\ \A k \in Q : Rank(R, k) = Rank(Q, k)
        <5>1. /\ Cardinality(Q \cup {n + 1}) = Cardinality(Q) + 1 /\ Cardinality(Q) \in Nat
              /\ Rank(Q \cup {n + 1}, n + 1) = Cardinality(Q) + 1
              /\ \A k \in Q : Rank(Q \cup {n + 1}, k) = Rank(Q, k)
          BY <3>1, RankGrows
        <5> QED  BY <4>1, <5>1
      <4>3. \A c \in Nat : \A r \in 1 .. c + 1 : r \in 1 .. c \/ r = c + 1
        OBVIOUS
      <4>4. \A r \in 1 .. Cardinality(R) : r \in 1 .. Cardinality(Q) \/ r = Cardinality(R)
        BY <4>2, <4>3
      <4> QED  BY <3>2, <4>1, <4>2, <4>4 DEF RanksOf
    <3> QED  BY <3>3, <3>4
  <2> QED  BY <2>1
<1>3. T = Nat
  <2> HIDE DEF T
  <2>1. T \subseteq Nat
    BY DEF T
  <2> QED  BY <1>1, <1>2, <2>1, AllNumbers
<1> QED  BY <1>3

(* No two numbers have the same rank.                                        *)
LEMMA RankIsOwn ==
  ASSUME NEW m \in Nat, NEW S, S \subseteq 1 .. m, NEW k \in S, NEW l \in S,
         Rank(S, k) = Rank(S, l)
  PROVE  k = l
<1>1. ASSUME NEW a \in S, NEW b \in S, a < b PROVE Rank(S, a) # Rank(S, b)
  <2> DEFINE A == {n \in S : n <= a}  B == {n \in S : n <= b}
  <2>0. a \in Int /\ b \in Int /\ \A n \in S : n \in Int
    OBVIOUS
  <2>1. A \subseteq B /\ b \in B /\ b \notin A
    <3>1. \A n \in S : n <= a => n <= b
      BY <1>1, <2>0
    <3>2. b <= b /\ ~ (b <= a)
      BY <1>1, <2>0
    <3> QED  BY <3>1, <3>2
  <2>2. IsFiniteSet(B)
    <3>1. B \subseteq 1 .. m
      OBVIOUS
    <3> QED  BY <3>1, NumbersAreFinite
  <2>3. Cardinality(B) = Cardinality(A) => B = A
    BY <2>1, <2>2, FS_Subset
  <2> QED  BY <2>1, <2>3 DEF Rank
<1>2. k \in Int /\ l \in Int
  OBVIOUS
<1>3. k < l \/ l < k \/ k = l
  BY <1>2
<1> QED  BY <1>1, <1>3

LEMMA RankIsIndex ==
  ASSUME NEW m \in Nat, NEW S, S \subseteq 1 .. m, NEW k \in S
  PROVE  Rank(S, k) \in 1 .. Cardinality(S)
<1> DEFINE B == {n \in S : n <= k}
<1>1. IsFiniteSet(S) /\ Cardinality(S) \in Nat
  BY NumbersAreFinite
<1>2. B \in SUBSET S /\ k \in B /\ B \subseteq 1 .. m
  <2>1. k \in Int /\ k <= k
    OBVIOUS
  <2> QED  BY <2>1
<1>3. IsFiniteSet(B) /\ Cardinality(B) \in Nat /\ Cardinality(B) <= Cardinality(S)
  BY <1>1, <1>2, FS_Subset, NumbersAreFinite
<1>4. Cardinality(B) # 0
  BY <1>2, <1>3, FS_EmptySet
<1>5. Rank(S, k) = Cardinality(B)
  BY DEF Rank
<1> HIDE DEF B
<1> QED  BY <1>1, <1>3, <1>4, <1>5

-----------------------------------------------------------------------------
(* What a text means, element by element.                                   *)

Kept(t) == {k \in 1 .. Len(t) : ~IsEscape(t, k)}
Decoded(t, k) == IF IsReplaced(t, k) THEN Escaped[t[k]] ELSE t[k]
Readable(t) == \A k \in 1 .. Len(t) : IsReplaced(t, k) => t[k] \in DOMAIN Escaped

LEMMA DecodedIsByte ==
  ASSUME NEW t \in Seq(Byte), Readable(t), NEW k \in 1 .. Len(t)
  PROVE  Decoded(t, k) \in Byte
BY ParserAssumption DEF Decoded, Readable, Byte

LEMMA MeaningIs ==
  ASSUME NEW t \in Seq(Byte), Readable(t)
  PROVE  /\ Meaning(t) \in Seq(Byte) /\ Len(Meaning(t)) = Cardinality(Kept(t))
         /\ \A k \in Kept(t) : Meaning(t)[Rank(Kept(t), k)] = Decoded(t, k)
<1> DEFINE K == Kept(t)
           nth(n) == CHOOSE k \in K : Rank(K, k) = n
           N == Cardinality(K)
<1>1. Len(t) \in Nat /\ K \subseteq 1 .. Len(t)
  BY DEF Kept
<1>2. Meaning(t) = [n \in 1 .. N |-> Decoded(t, nth(n))]
  BY DEF Meaning, Kept, Rank, Decoded
<1>3. N \in Nat /\ RanksOf(K)
  BY <1>1, NumbersAreFinite, RankIsOnto
<1>4. \A n \in 1 .. N : nth(n) \in K /\ Rank(K, nth(n)) = n
  BY <1>3 DEF RanksOf
<1>5. \A k \in K : Rank(K, k) \in 1 .. N /\ nth(Rank(K, k)) = k
  <2> TAKE k \in K
  <2>1. Rank(K, k) \in 1 .. N
    BY <1>1, RankIsIndex
  <2>2. nth(Rank(K, k)) \in K /\ Rank(K, nth(Rank(K, k))) = Rank(K, k)
    BY <1>4, <2>1
  <2> QED  BY <1>1, <2>1, <2>2, RankIsOwn
<1> HIDE DEF nth, K, N
<1>6. \A n \in 1 .. N : Decoded(t, nth(n)) \in Byte
  BY <1>1, <1>4, DecodedIsByte
<1>7. Meaning(t) \in [1 .. N -> Byte]
  BY <1>2, <1>6
<1>8. Meaning(t) \in Seq(Byte)
  BY <1>3, <1>7, SeqDef
<1>9. Len(Meaning(t)) = N
  BY <1>3, <1>7, <1>8, LenProperties
<1>10. \A k \in K : Meaning(t)[Rank(K, k)] = Decoded(t, k)
  BY <1>2, <1>5
<1> QED  BY <1>8, <1>9, <1>10 DEF K, N

(* A character more: an escape adds nothing, any other what it stands for.    *)
LEMMA MeaningGrows ==
  ASSUME NEW t \in Seq(Byte), NEW c \in Byte, Readable(Append(t, c))
  PROVE  /\ Readable(t)
         /\ IsEscape(Append(t, c), Len(t) + 1) => Meaning(Append(t, c)) = Meaning(t)
         /\ ~IsEscape(Append(t, c), Len(t) + 1) =>
              Meaning(Append(t, c)) = Append(Meaning(t), Decoded(Append(t, c), Len(t) + 1))
<1> DEFINE u == Append(t, c)
           n == Len(t)
           K == Kept(t)
           N == Cardinality(K)
           x == Decoded(u, n + 1)
<1>1. /\ u \in Seq(Byte) /\ n \in Nat /\ Len(u) = n + 1 /\ u[n + 1] = c
      /\ \A k \in 1 .. n : t[k] = u[k]
  BY AppendProperties
<1> HIDE DEF u, n
<1>2. /\ \A k \in 1 .. n : IsReplaced(t, k) <=> IsReplaced(u, k)
      /\ \A k \in 1 .. n : IsEscape(t, k) <=> IsEscape(u, k)
  <2>1. \A k \in 1 .. n : k \in 1 .. n + 1
    BY <1>1
  <2> QED  BY <1>1, <2>1, PrefixReads
<1>3. Readable(u)
  BY DEF u
<1>4. Readable(t)
  <2>1. \A k \in 1 .. n : k \in 1 .. Len(u)
    BY <1>1
  <2> QED  BY <1>1, <1>2, <1>3, <2>1 DEF Readable, n
<1>5. \A k \in 1 .. n : Decoded(u, k) = Decoded(t, k)
  BY <1>1, <1>2 DEF Decoded
<1>6. \A k : k \in 1 .. n + 1 <=> k \in 1 .. n \/ k = n + 1
  BY <1>1
<1>7. Kept(u) = IF IsEscape(u, n + 1) THEN K ELSE K \cup {n + 1}
  BY <1>1, <1>2, <1>6 DEF Kept, n
<1>8. /\ Meaning(t) \in Seq(Byte) /\ Len(Meaning(t)) = N
      /\ \A k \in K : Meaning(t)[Rank(K, k)] = Decoded(t, k)
  BY <1>4, MeaningIs
<1>9. /\ Meaning(u) \in Seq(Byte) /\ Len(Meaning(u)) = Cardinality(Kept(u))
      /\ \A k \in Kept(u) : Meaning(u)[Rank(Kept(u), k)] = Decoded(u, k)
  BY <1>1, <1>3, MeaningIs
<1>10. K \subseteq 1 .. n /\ RanksOf(K) /\ N \in Nat /\ \A k \in K : Rank(K, k) \in 1 .. N
  <2>1. K \subseteq 1 .. n
    BY DEF Kept, n
  <2> QED  BY <1>1, <2>1, RankIsOnto, RankIsIndex, NumbersAreFinite
<1> HIDE DEF K, N
<1>11. ASSUME IsEscape(u, n + 1) PROVE Meaning(u) = Meaning(t)
  <2>1. Kept(u) = K
    BY <1>7, <1>11
  <2>2. ASSUME NEW r \in 1 .. N PROVE Meaning(u)[r] = Meaning(t)[r]
    <3>1. PICK k \in K : Rank(K, k) = r
      BY <1>10 DEF RanksOf, N
    <3> QED  BY <1>5, <1>8, <1>9, <1>10, <2>1, <3>1
  <2>3. Len(Meaning(u)) = N
    BY <1>9, <2>1 DEF N
  <2> QED  BY <1>8, <1>9, <2>2, <2>3, SeqEqual
<1>12. ASSUME ~IsEscape(u, n + 1) PROVE Meaning(u) = Append(Meaning(t), x)
  <2>1. Kept(u) = K \cup {n + 1}
    BY <1>7, <1>12
  <2>2. /\ Cardinality(Kept(u)) = N + 1 /\ Rank(Kept(u), n + 1) = N + 1
        /\ \A k \in K : Rank(Kept(u), k) = Rank(K, k)
    <3>1. /\ Cardinality(K \cup {n + 1}) = Cardinality(K) + 1
          /\ Rank(K \cup {n + 1}, n + 1) = Cardinality(K) + 1
          /\ \A k \in K : Rank(K \cup {n + 1}, k) = Rank(K, k)
      BY <1>1, <1>10, RankGrows
    <3> QED  BY <2>1, <3>1 DEF N
  <2>3. x \in Byte
    <3>1. n + 1 \in 1 .. Len(u)
      BY <1>1
    <3> QED  BY <1>1, <1>3, <3>1, DecodedIsByte
  <2> HIDE DEF x
  <2>4. /\ Append(Meaning(t), x) \in Seq(Byte) /\ Len(Append(Meaning(t), x)) = N + 1
        /\ Append(Meaning(t), x)[N + 1] = x
        /\ \A r \in 1 .. N : Append(Meaning(t), x)[r] = Meaning(t)[r]
    BY <1>8, <2>3, AppendProperties
  <2>5. ASSUME NEW r \in 1 .. N + 1 PROVE Meaning(u)[r] = Append(Meaning(t), x)[r]
    <3>1. CASE r = N + 1
      <4>1. Meaning(u)[Rank(Kept(u), n + 1)] = Decoded(u, n + 1)
        BY <1>9, <2>1
      <4> QED  BY <2>2, <2>4, <3>1, <4>1 DEF x
    <3>2. CASE r \in 1 .. N
      <4>1. PICK k \in K : Rank(K, k) = r
        BY <1>10, <3>2 DEF RanksOf, N
      <4>2. Meaning(u)[r] = Decoded(u, k) /\ Meaning(t)[r] = Decoded(t, k)
        BY <1>8, <1>9, <2>1, <2>2, <4>1
      <4> QED  BY <1>5, <1>10, <2>4, <3>2, <4>1, <4>2
    <3>3. r = N + 1 \/ r \in 1 .. N
      BY <1>10
    <3> QED  BY <3>1, <3>2, <3>3
  <2>6. Len(Meaning(u)) = N + 1
    BY <1>9, <2>2
  <2> QED  BY <1>9, <2>4, <2>5, <2>6, SeqEqual
<1> QED  BY <1>4, <1>11, <1>12 DEF u, n, x

-----------------------------------------------------------------------------
(* Numbers.                                                                  *)

LEMMA LongestExists ==
  ASSUME NEW m \in Nat, NEW G
  PROVE  \E n \in 0 .. m : (n = 0 \/ n \in G) /\ \A k \in n + 1 .. m : k \notin G
<1> DEFINE T == {n \in 0 .. m : n = 0 \/ n \in G}
<1>1. T \subseteq 0 .. m /\ T # {}
  <2>1. 0 \in T
    OBVIOUS
  <2> QED  BY <2>1
<1>2. PICK n \in T : \A y \in T : y <= n
  BY <1>1, GreatestElement
<1>3. ASSUME NEW k \in n + 1 .. m PROVE k \notin G
  <2>1. k \in 0 .. m /\ ~ (k <= n)
    OBVIOUS
  <2> QED  BY <1>2, <2>1
<1> QED  BY <1>2, <1>3

(* strtoll stops at the first character that is no digit of the base.        *)
LEMMA strtollReads ==
  ASSUME NEW s \in Seq(Byte)
  PROVE  /\ strtollEnd(s) \in 0 .. Len(s)
         /\ \A k \in 1 .. strtollEnd(s) : s[k] \in DigitsOf(Base(s))
<1> DEFINE IsNumeral(t) == \A k \in 1 .. Len(t) : t[k] \in DigitsOf(Base(s))
           G == {n \in 0 .. Len(s) : IsNumeral(SubSeq(s, 1, n))}
           e == CHOOSE n \in 0 .. Len(s) :
                  /\ n = 0 \/ IsNumeral(SubSeq(s, 1, n))
                  /\ \A m \in n + 1 .. Len(s) : ~IsNumeral(SubSeq(s, 1, m))
<1>1. strtollEnd(s) = e
  BY DEF strtollEnd, Longest
<1>2. Len(s) \in Nat
  OBVIOUS
<1>3. PICK n \in 0 .. Len(s) :
        (n = 0 \/ n \in G) /\ \A k \in n + 1 .. Len(s) : k \notin G
  BY <1>2, LongestExists
<1>4. \A k \in n + 1 .. Len(s) : k \in 0 .. Len(s)
  BY <1>2
<1>5. e \in 0 .. Len(s) /\ (e = 0 \/ IsNumeral(SubSeq(s, 1, e)))
  <2> HIDE DEF IsNumeral
  <2> QED  BY <1>3, <1>4
<1> HIDE DEF e
<1>6. ASSUME NEW k \in 1 .. e PROVE s[k] \in DigitsOf(Base(s))
  <2>1. e # 0
    BY <1>5
  <2>2. Len(SubSeq(s, 1, e)) = e /\ SubSeq(s, 1, e)[k] = s[k]
    BY <1>2, <1>5
  <2> QED  BY <1>5, <2>1, <2>2
<1> QED  BY <1>1, <1>5, <1>6

(* strtod reads a text to its end only if it is digits and a dot.            *)
LEMMA strtodReads ==
  ASSUME NEW s \in Seq(Byte), strtodEnd(s) = Len(s), NEW k \in 1 .. Len(s)
  PROVE  s[k] \in Digits \cup {"."}
<1> DEFINE G == {n \in 0 .. Len(s) : IsDecimal(SubSeq(s, 1, n))}
           e == CHOOSE n \in 0 .. Len(s) :
                  /\ n = 0 \/ IsDecimal(SubSeq(s, 1, n))
                  /\ \A m \in n + 1 .. Len(s) : ~IsDecimal(SubSeq(s, 1, m))
<1>1. strtodEnd(s) = e
  BY DEF strtodEnd, Longest
<1>2. Len(s) \in Nat
  OBVIOUS
<1>3. PICK n \in 0 .. Len(s) :
        (n = 0 \/ n \in G) /\ \A m \in n + 1 .. Len(s) : m \notin G
  BY <1>2, LongestExists
<1>4. \A m \in n + 1 .. Len(s) : m \in 0 .. Len(s)
  BY <1>2
<1>5. e \in 0 .. Len(s) /\ (e = 0 \/ IsDecimal(SubSeq(s, 1, e)))
  BY <1>3, <1>4
<1> HIDE DEF e
<1>6. SubSeq(s, 1, Len(s)) = s
  OBVIOUS
<1>7. IsDecimal(s)
  <2>1. e = Len(s) /\ e # 0
    BY <1>1, <1>2
  <2> QED  BY <1>5, <1>6, <2>1
<1> QED  BY <1>7 DEF IsDecimal

LEMMA BaseIs ==
  ASSUME NEW s
  PROVE  /\ Base(s) \in {8, 10} /\ DigitsOf(Base(s)) \subseteq Digits
         /\ \A c \in Digits : DigitValue(c) \in Nat
<1>1. Base(s) \in {8, 10}
  BY DEF Base
<1>2. DigitsOf(Base(s)) \subseteq Digits
  <2>1. 1 .. Base(s) \subseteq 1 .. 10
    BY <1>1
  <2> QED  BY <2>1 DEF DigitsOf, Digits
<1>3. ASSUME NEW c \in Digits PROVE DigitValue(c) \in Nat
  <2>1. \E k \in 1 .. 10 : DigitsInOrder[k] = c
    BY DEF Digits
  <2> DEFINE x == CHOOSE k \in 1 .. 10 : DigitsInOrder[k] = c
  <2>2. x \in 1 .. 10 /\ DigitValue(c) = x - 1
    BY <2>1 DEF DigitValue
  <2> HIDE DEF x
  <2> QED  BY <2>2
<1> QED  BY <1>1, <1>2, <1>3

(* A number is built digit by digit.                                         *)
IsValue(f, n, b, d) == \A k \in 0 .. n : f[k] = IF k = 0 THEN 0 ELSE b * f[k - 1] + d[k]

LEMMA OneDigitMore ==
  ASSUME NEW x \in Nat, NEW y \in Nat, NEW b \in {8, 10}
  PROVE  b * x + y \in Nat
<1>1. 8 * x \in Nat /\ 10 * x \in Nat
  OBVIOUS
<1>2. b * x \in Nat
  BY <1>1
<1> QED BY <1>2

LEMMA ValueExists ==
  ASSUME NEW n \in Nat, NEW b \in {8, 10}, NEW d \in [1 .. n -> Nat]
  PROVE  \E f \in [0 .. n -> Nat] : IsValue(f, n, b, d)
<1> DEFINE T == {m \in Nat : m <= n => \E f \in [0 .. m -> Nat] : IsValue(f, m, b, d)}
<1>1. 0 \in T
  <2> DEFINE f == [k \in 0 .. 0 |-> 0]
  <2>1. f \in [0 .. 0 -> Nat] /\ \A k \in 0 .. 0 : k = 0 /\ f[k] = 0
    OBVIOUS
  <2>2. IsValue(f, 0, b, d)
    BY <2>1 DEF IsValue
  <2> QED  BY <2>1, <2>2
<1>2. ASSUME NEW m \in T PROVE m + 1 \in T
  <2>1. CASE ~ (m + 1 <= n)
    BY <2>1
  <2>2. CASE m + 1 <= n
    <3>1. m \in Nat /\ m <= n /\ m + 1 \in 1 .. n /\ d[m + 1] \in Nat
      BY <2>2
    <3>2. PICK f \in [0 .. m -> Nat] : IsValue(f, m, b, d)
      BY <3>1
    <3> DEFINE x == b * f[m] + d[m + 1]
               g == [k \in 0 .. m + 1 |-> IF k = m + 1 THEN x ELSE f[k]]
    <3>3. x \in Nat
      <4>1. f[m] \in Nat
        BY <3>1
      <4>2. d[m + 1] \in Nat
        BY <3>1
      <4> QED  BY <4>1, <4>2, OneDigitMore
    <3> HIDE DEF x
    <3>4. \A k \in 0 .. m + 1 : k # m + 1 => k \in 0 .. m
      BY <3>1
    <3>5. g \in [0 .. m + 1 -> Nat]
      BY <3>3, <3>4
    <3>6. ASSUME NEW k \in 0 .. m + 1
          PROVE  g[k] = IF k = 0 THEN 0 ELSE b * g[k - 1] + d[k]
      <4>1. CASE k = m + 1
        <5>1. k - 1 = m /\ m \in 0 .. m + 1 /\ m # m + 1 /\ k # 0
          BY <3>1, <4>1
        <5>2. g[k] = x /\ g[k - 1] = f[m]
          BY <4>1, <5>1
        <5> QED  BY <4>1, <5>1, <5>2 DEF x
      <4>2. CASE k # m + 1
        <5>1. k \in 0 .. m /\ (k # 0 => k - 1 \in 0 .. m + 1 /\ k - 1 # m + 1)
          BY <3>1, <4>2
        <5>2. g[k] = f[k] /\ (k # 0 => g[k - 1] = f[k - 1])
          BY <4>2, <5>1
        <5>3. f[k] = IF k = 0 THEN 0 ELSE b * f[k - 1] + d[k]
          BY <3>2, <5>1 DEF IsValue
        <5> QED  BY <5>2, <5>3
      <4> QED  BY <4>1, <4>2
    <3>7. IsValue(g, m + 1, b, d)
      BY <3>6 DEF IsValue
    <3> HIDE DEF g
    <3>8. \E h \in [0 .. m + 1 -> Nat] : IsValue(h, m + 1, b, d)
      BY <3>5, <3>7
    <3>9. m + 1 \in Nat
      BY <3>1
    <3> QED  BY <3>8, <3>9
  <2> QED  BY <2>1, <2>2
<1>3. T = Nat
  <2> HIDE DEF T
  <2>1. T \subseteq Nat
    BY DEF T
  <2> QED  BY <1>1, <1>2, <2>1, AllNumbers
<1>4. n <= n
  OBVIOUS
<1> QED  BY <1>3, <1>4

(* What strtoll returns is a number, and never beyond the largest.            *)
LEMMA strtollInRange ==
  ASSUME NEW s \in Seq(Byte) PROVE strtoll(s) \in 0 .. IntMax
<1> DEFINE e == strtollEnd(s)
           b == Base(s)
           d == [k \in 1 .. e |-> DigitValue(s[k])]
           P(f) == f = [n \in 0 .. e |-> IF n = 0 THEN 0
                                         ELSE Base(s) * f[n - 1] + DigitValue(s[n])]
           value == CHOOSE f : P(f)
<1>1. e \in Nat /\ b \in {8, 10} /\ d \in [1 .. e -> Nat]
  <2>1. e \in 0 .. Len(s) /\ Len(s) \in Nat /\ \A k \in 1 .. e : s[k] \in DigitsOf(b)
    BY strtollReads
  <2>2. \A k \in 1 .. e : DigitValue(s[k]) \in Nat
    BY <2>1, BaseIs
  <2> QED  BY <2>1, <2>2, BaseIs
<1>2. \E f : P(f)
  <2>1. PICK f \in [0 .. e -> Nat] : IsValue(f, e, b, d)
    BY <1>1, ValueExists
  <2>2. \A n \in 0 .. e : f[n] = IF n = 0 THEN 0 ELSE Base(s) * f[n - 1] + DigitValue(s[n])
    <3>1. \A n \in 0 .. e : f[n] = IF n = 0 THEN 0 ELSE b * f[n - 1] + d[n]
      BY <2>1 DEF IsValue
    <3>2. \A n \in 0 .. e : n # 0 => n \in 1 .. e
      BY <1>1
    <3>3. \A n \in 1 .. e : d[n] = DigitValue(s[n])
      OBVIOUS
    <3> HIDE DEF d, e
    <3> QED  BY <3>1, <3>2, <3>3
  <2>3. f = [n \in 0 .. e |-> f[n]]
    OBVIOUS
  <2>4. f = [n \in 0 .. e |-> IF n = 0 THEN 0 ELSE Base(s) * f[n - 1] + DigitValue(s[n])]
    BY <2>2, <2>3
  <2> QED  BY <2>4
<1>3. P(value)
  <2> HIDE DEF P
  <2> QED  BY <1>2
<1>4. Numeral(s) = value[e]
  BY DEF Numeral
<1> HIDE DEF value
<1>5. \A n \in 0 .. e : value[n] = IF n = 0 THEN 0
                                 ELSE Base(s) * value[n - 1] + DigitValue(s[n])
  BY <1>3
<1>6. \A n \in 0 .. e : value[n] \in Nat
  <2> DEFINE T == {n \in Nat : n <= e => value[n] \in Nat}
  <2>1. 0 \in T
    BY <1>1, <1>5
  <2>2. ASSUME NEW n \in T PROVE n + 1 \in T
    <3>1. CASE ~ (n + 1 <= e)
      BY <3>1
    <3>2. CASE n + 1 <= e
      <4>1. n + 1 \in 0 .. e /\ n + 1 \in 1 .. e /\ n <= e /\ (n + 1) - 1 = n /\ n + 1 # 0
        BY <1>1, <3>2
      <4>2. value[n + 1] = b * value[n] + d[n + 1]
        BY <1>5, <4>1
      <4>3. value[n] \in Nat /\ d[n + 1] \in Nat
        BY <1>1, <4>1
      <4> HIDE DEF b, d
      <4>4. b \in {8, 10}
        BY <1>1
      <4>5. b * value[n] + d[n + 1] \in Nat
        BY <4>3, <4>4, OneDigitMore
      <4> QED  BY <4>2, <4>5
    <3> QED  BY <3>1, <3>2
  <2>3. T = Nat
    <3> HIDE DEF T
    <3>1. T \subseteq Nat
      BY DEF T
    <3> QED  BY <2>1, <2>2, <3>1, AllNumbers
  <2> QED  BY <1>1, <2>3
<1>7. Numeral(s) \in Nat
  BY <1>1, <1>4, <1>6
<1> QED  BY <1>7, ParserAssumption DEF strtoll

-----------------------------------------------------------------------------
(* The invariant.                                                            *)

(* In the loop: the characters passed are read, none of them is an escape     *)
(* whose character is to come, and what follows a NUL is NUL.                 *)
NulsAreLast(s) == \A j, k \in 1 .. s.len : k <= j /\ s.data[k] = NUL => s.data[j] = NUL
SomeNul(s) == \E j \in 1 .. s.len : s.data[j] = NUL
Translated(t, n, s) ==
  /\ n <= Len(t) /\ Good(s) /\ as_valid(s)
  /\ Readable(SubSeq(t, 1, n)) /\ ~IsReplaced(t, n + 1)
  /\ Value(s) = Meaning(SubSeq(t, 1, n))
  /\ NulsAreLast(s) /\ (SomeNul(s) => n > 0 /\ t[n] = NUL)
Loop == at = "string" => tok.kind = "LITERAL_STRING" /\ Translated(text, i, res)
Unjudged == at \in {"peek", "string"} => diag = NoDiag /\ expr = NoExpr

(* What a token may be; those that the program makes are no other.           *)
Fit(t) ==
  /\ t.text \in Seq(Byte)
  /\ t.kind = "LITERAL_NUMBER" => t.text # <<>>
  /\ \A k, l \in 1 .. Len(t.text) : k <= l /\ t.text[k] = NUL => t.text[l] = NUL

PsInv ==
  /\ ParserInv /\ Fit(tok) /\ Loop /\ Unjudged
  /\ StringsAreTranslated /\ RefusedIsReported /\ NumbersAreWhole

LEMMA TokenFacts ==
  ASSUME PsInv
  PROVE  /\ text \in Seq(Byte) /\ Len(text) \in Nat
         /\ tok.kind = "LITERAL_NUMBER" => Len(text) > 0
         /\ \A k, l \in 1 .. Len(text) : k <= l /\ text[k] = NUL => text[l] = NUL
<1>1. Fit(tok)
  BY DEF PsInv
<1>2. text \in Seq(Byte) /\ (tok.kind = "LITERAL_NUMBER" => text # <<>>)
  BY <1>1 DEF Fit, text
<1>3. \A k, l \in 1 .. Len(text) : k <= l /\ text[k] = NUL => text[l] = NUL
  BY <1>1 DEF Fit, text
<1> QED  BY <1>2, <1>3

(* A token judged at once, with no loop.                                     *)
LEMMA JudgedKeeps ==
  ASSUME PsInv, at = "peek", UNCHANGED <<tok, i, res>>, at' \in Ended,
         tok.kind # "LITERAL_STRING", expr'.type # "string",
         diag' \in Diagnostics \cup {NoDiag}, ExprOK', RefusedIsReported', NumbersAreWhole'
  PROVE  PsInv'
<1>1. at' # "peek" /\ at' # "string" /\ text' = text
  BY DEF Ended, text
<1>2. ParserInv'
  BY <1>1 DEF PsInv, ParserInv, PsTypeOK, NothingLeaks
<1>3. Loop' /\ Unjudged'
  BY <1>1 DEF Loop, Unjudged
<1>4. StringsAreTranslated'
  BY <1>1 DEF StringsAreTranslated, StringIsTranslated, StringsAreJudgedWhole
<1> QED  BY <1>2, <1>3, <1>4 DEF PsInv

LEMMA LiteralIs ==
  ASSUME NEW type, NEW value
  PROVE  Literal(type, value).type = type /\ Literal(type, value).value = value
BY DEF Literal

(* A token refused with a diagnostic, or taken without one.                   *)
LEMMA RefuseKeeps ==
  ASSUME PsInv, at = "peek", tok.kind # "LITERAL_STRING", UNCHANGED <<tok, i, res>>,
         NEW d \in Diagnostics, Refuse(d)
  PROVE  PsInv'
<1>1. expr = NoExpr /\ diag = NoDiag
  BY DEF PsInv, Unjudged
<1>2. expr' = expr /\ diag' = d /\ at' = "none" /\ d # NoDiag
  BY DEF Refuse, Diagnostics, NoDiag
<1>3. expr'.type = "none"
  BY <1>1, <1>2, LiteralIs DEF NoExpr
<1>4. ExprOK' /\ NumbersAreWhole'
  BY <1>3 DEF ExprOK, NumbersAreWhole
<1>5. RefusedIsReported'
  BY <1>2, <1>3 DEF RefusedIsReported
<1> QED  BY <1>2, <1>3, <1>4, <1>5, JudgedKeeps DEF Ended

LEMMA ReturnKeeps ==
  ASSUME PsInv, at = "peek", tok.kind # "LITERAL_STRING", UNCHANGED <<tok, i, res>>,
         NEW type \in {"null", "bool", "char", "int", "float"}, NEW value,
         Have(type, value), diag' = NoDiag \/ diag' = "too long",
         type = "char" => value \in Byte,
         type = "int" => value \in 0 .. IntMax,
         type = "bool" => value \in BOOLEAN,
         NumbersAreWhole'
  PROVE  PsInv'
<1>1. at' = "have" /\ expr'.type = type /\ expr'.value = value
  BY LiteralIs DEF Have
<1>2. ExprOK'
  BY <1>1 DEF ExprOK
<1>3. RefusedIsReported'
  BY <1>1 DEF RefusedIsReported
<1>4. diag' \in Diagnostics \cup {NoDiag}
  BY DEF Diagnostics
<1> QED  BY <1>1, <1>2, <1>3, <1>4, JudgedKeeps DEF Ended

LEMMA NoNumberYet ==
  ASSUME NEW type, type \notin {"int", "float"}, NEW value, Have(type, value)
  PROVE  NumbersAreWhole'
BY LiteralIs DEF NumbersAreWhole, Have

LEMMA SimpleStep ==
  ASSUME PsInv, NoLiteral \/ NullLiteral \/ BoolLiteral PROVE PsInv'
<1>0. diag = NoDiag \/ at \notin {"peek", "string"}
  BY DEF PsInv, Unjudged
<1>1. CASE NoLiteral
  <2>1. /\ at = "peek" /\ tok.kind \notin LiteralKinds /\ at' = "none"
        /\ UNCHANGED <<tok, i, res, expr, diag>>
    BY <1>1 DEF NoLiteral
  <2>2. expr = NoExpr /\ expr.type = "none"
    BY <2>1, LiteralIs DEF PsInv, Unjudged, NoExpr
  <2>3. ExprOK' /\ NumbersAreWhole'
    BY <2>1, <2>2 DEF ExprOK, NumbersAreWhole
  <2>4. RefusedIsReported'
    BY <2>1 DEF RefusedIsReported
  <2> QED
    BY <1>0, <2>1, <2>2, <2>3, <2>4, JudgedKeeps DEF Ended, LiteralKinds
<1>2. CASE NullLiteral
  <2>1. /\ at = "peek" /\ tok.kind = "NULL" /\ Have("null", "null") /\ diag' = diag
        /\ UNCHANGED <<tok, i, res>>
    BY <1>2 DEF NullLiteral, Peek, Return
  <2> QED  BY <1>0, <2>1, NoNumberYet, ReturnKeeps
<1>3. CASE BoolLiteral
  <2> DEFINE value == text = <<"t", "r", "u", "e">>
  <2>1. /\ at = "peek" /\ tok.kind = "LITERAL_BOOLEAN" /\ Have("bool", value)
        /\ diag' = diag /\ UNCHANGED <<tok, i, res>> /\ value \in BOOLEAN
    BY <1>3 DEF BoolLiteral, Peek, Return
  <2> HIDE DEF value
  <2> QED  BY <1>0, <2>1, NoNumberYet, ReturnKeeps
<1> QED  BY <1>1, <1>2, <1>3

LEMMA CharStep == ASSUME PsInv, CharLiteral PROVE PsInv'
<1>1. /\ at = "peek" /\ tok.kind = "LITERAL_CHAR" /\ UNCHANGED <<tok, i, res>>
      /\ diag = NoDiag
  BY DEF CharLiteral, Peek, PsInv, Unjudged
<1>2. ASSUME NEW d \in Diagnostics, Refuse(d) PROVE PsInv'
  BY <1>1, <1>2, RefuseKeeps
<1>3. ASSUME NEW c \in Byte, Have("char", c), diag' = diag \/ diag' = "too long"
      PROVE  PsInv'
  BY <1>1, <1>3, NoNumberYet, ReturnKeeps
<1>4. text # <<>> => text[1] \in Byte
  BY TokenFacts
<1>5. \A c \in DOMAIN Escaped : Escaped[c] \in Byte
  BY ParserAssumption DEF Byte
<1>6. {"too short", "bad escape"} \subseteq Diagnostics
  BY DEF Diagnostics
<1> QED  BY <1>2, <1>3, <1>4, <1>5, <1>6 DEF CharLiteral, Return

LEMMA NumberStep == ASSUME PsInv, NumberLiteral PROVE PsInv'
<1>1. /\ at = "peek" /\ tok.kind = "LITERAL_NUMBER" /\ UNCHANGED <<tok, i, res>>
      /\ diag = NoDiag /\ text' = text
  BY DEF NumberLiteral, Peek, PsInv, Unjudged, text
<1>2. ASSUME NEW d \in Diagnostics, Refuse(d) PROVE PsInv'
  BY <1>1, <1>2, RefuseKeeps
<1>3. ASSUME Return("float", text), strtodEnd(text) = Len(text) PROVE PsInv'
  <2>1. Have("float", text) /\ diag' = NoDiag
    BY <1>1, <1>3 DEF Return
  <2>2. expr'.type = "float"
    BY <2>1, LiteralIs DEF Have
  <2>3. \A k \in 1 .. Len(text) : text[k] \in Digits \cup {"."}
    BY <1>3, TokenFacts, strtodReads
  <2>4. NumbersAreWhole'
    BY <1>1, <2>2, <2>3 DEF NumbersAreWhole
  <2> QED  BY <1>1, <2>1, <2>4, ReturnKeeps
<1>4. ASSUME Return("int", strtoll(text)), strtollEnd(text) = Len(text) PROVE PsInv'
  <2>1. Have("int", strtoll(text)) /\ diag' = NoDiag
    BY <1>1, <1>4 DEF Return
  <2>2. expr'.type = "int"
    BY <2>1, LiteralIs DEF Have
  <2>3. \A k \in 1 .. Len(text) : text[k] \in DigitsOf(IF text[1] = "0" THEN 8 ELSE 10)
    BY <1>4, TokenFacts, strtollReads DEF Base
  <2>4. NumbersAreWhole'
    BY <1>1, <2>2, <2>3 DEF NumbersAreWhole
  <2>5. strtoll(text) \in 0 .. IntMax
    BY TokenFacts, strtollInRange
  <2> QED  BY <1>1, <2>1, <2>4, <2>5, ReturnKeeps
<1>5. {"float range", "float invalid", "int range", "int invalid", "number invalid"}
        \subseteq Diagnostics
  BY DEF Diagnostics
<1> QED  BY <1>2, <1>3, <1>4, <1>5 DEF NumberLiteral

-----------------------------------------------------------------------------
(* The loop, for a text and the string built from it.                        *)

LEMMA PrefixIs ==
  ASSUME NEW t \in Seq(Byte), NEW n \in Nat, n <= Len(t)
  PROVE  /\ SubSeq(t, 1, n) \in Seq(Byte) /\ Len(SubSeq(t, 1, n)) = n
         /\ \A k \in 1 .. n : SubSeq(t, 1, n)[k] = t[k]
OBVIOUS

LEMMA PrefixGrows ==
  ASSUME NEW t \in Seq(Byte), NEW n \in Nat, n < Len(t)
  PROVE  /\ SubSeq(t, 1, n + 1) = Append(SubSeq(t, 1, n), t[n + 1])
         /\ t[n + 1] \in Byte
<1> DEFINE u == SubSeq(t, 1, n)
           v == SubSeq(t, 1, n + 1)
<1>1. n \in Nat /\ n + 1 \in Nat /\ n <= Len(t) /\ n + 1 <= Len(t) /\ Len(t) \in Nat
  OBVIOUS
<1>2. u \in Seq(Byte) /\ Len(u) = n /\ \A k \in 1 .. n : u[k] = t[k]
  BY <1>1, PrefixIs
<1>3. v \in Seq(Byte) /\ Len(v) = n + 1 /\ \A k \in 1 .. n + 1 : v[k] = t[k]
  BY <1>1, PrefixIs
<1>4. t[n + 1] \in Byte
  BY <1>1
<1> HIDE DEF u, v
<1>5. /\ Append(u, t[n + 1]) \in Seq(Byte) /\ Len(Append(u, t[n + 1])) = n + 1
      /\ Append(u, t[n + 1])[n + 1] = t[n + 1]
      /\ \A k \in 1 .. n : Append(u, t[n + 1])[k] = u[k]
  BY <1>2, <1>4, AppendProperties
<1>6. \A k \in 1 .. n + 1 : k \in 1 .. n \/ k = n + 1
  BY <1>1
<1>7. \A k \in 1 .. n + 1 : v[k] = Append(u, t[n + 1])[k]
  BY <1>2, <1>3, <1>5, <1>6
<1>8. v = Append(u, t[n + 1])
  BY <1>1, <1>3, <1>5, <1>7, SeqEqual
<1> QED  BY <1>4, <1>8 DEF u, v

(* The characters of the text passed are escapes, and replaced, as in it.     *)
LEMMA PrefixMeans ==
  ASSUME NEW t \in Seq(Byte), NEW n \in Nat, n <= Len(t)
  PROVE  /\ \A k \in 1 .. n : IsEscape(SubSeq(t, 1, n), k) <=> IsEscape(t, k)
         /\ \A k \in 1 .. n : IsReplaced(SubSeq(t, 1, n), k) <=> IsReplaced(t, k)
         /\ \A k \in 1 .. n : Decoded(SubSeq(t, 1, n), k) = Decoded(t, k)
<1> DEFINE u == SubSeq(t, 1, n)
<1>1. \A k \in 1 .. n : u[k] = t[k]
  BY PrefixIs
<1> HIDE DEF u
<1>2. /\ \A k \in 1 .. n + 1 : IsReplaced(u, k) <=> IsReplaced(t, k)
      /\ \A k \in 1 .. n : IsEscape(u, k) <=> IsEscape(t, k)
  BY <1>1, PrefixReads
<1>3. \A k \in 1 .. n : k \in 1 .. n + 1
  OBVIOUS
<1>4. \A k \in 1 .. n : Decoded(u, k) = Decoded(t, k)
  BY <1>1, <1>2, <1>3 DEF Decoded
<1> QED  BY <1>2, <1>3, <1>4 DEF u

(* What one character more adds to the meaning of what was passed.            *)
LEMMA PrefixMeaningGrows ==
  ASSUME NEW t \in Seq(Byte), NEW n \in Nat, n < Len(t), Readable(SubSeq(t, 1, n)),
         IsReplaced(t, n + 1) => t[n + 1] \in DOMAIN Escaped
  PROVE  /\ Readable(SubSeq(t, 1, n + 1))
         /\ IsEscape(t, n + 1) => Meaning(SubSeq(t, 1, n + 1)) = Meaning(SubSeq(t, 1, n))
         /\ ~IsEscape(t, n + 1) =>
              Meaning(SubSeq(t, 1, n + 1)) = Append(Meaning(SubSeq(t, 1, n)), Decoded(t, n + 1))
<1> DEFINE u == SubSeq(t, 1, n)
           v == SubSeq(t, 1, n + 1)
           c == t[n + 1]
<1>1. /\ n + 1 \in Nat /\ n + 1 <= Len(t) /\ n <= Len(t) /\ n + 1 \in 1 .. n + 1
      /\ \A k \in 1 .. n + 1 : k \in 1 .. n \/ k = n + 1
  OBVIOUS
<1>2. u \in Seq(Byte) /\ Len(u) = n /\ \A k \in 1 .. n : u[k] = t[k]
  BY <1>1, PrefixIs
<1>3. v \in Seq(Byte) /\ Len(v) = n + 1 /\ \A k \in 1 .. n + 1 : v[k] = t[k]
  BY <1>1, PrefixIs
<1>4. v = Append(u, c) /\ c \in Byte
  BY PrefixGrows
<1>5. /\ \A k \in 1 .. n : IsReplaced(u, k) <=> IsReplaced(t, k)
  BY <1>1, PrefixMeans
<1>6. /\ \A k \in 1 .. n + 1 : IsEscape(v, k) <=> IsEscape(t, k)
      /\ \A k \in 1 .. n + 1 : IsReplaced(v, k) <=> IsReplaced(t, k)
      /\ \A k \in 1 .. n + 1 : Decoded(v, k) = Decoded(t, k)
  BY <1>1, PrefixMeans
<1>7. Readable(u)
  OBVIOUS
<1> HIDE DEF u, v, c
<1>8. Readable(v)
  <2>1. ASSUME NEW k \in 1 .. n + 1, IsReplaced(v, k) PROVE v[k] \in DOMAIN Escaped
    <3>1. IsReplaced(t, k) /\ v[k] = t[k]
      BY <1>3, <1>6, <2>1
    <3>2. CASE k = n + 1
      BY <3>1, <3>2
    <3>3. CASE k \in 1 .. n
      BY <1>2, <1>5, <1>7, <3>1, <3>3 DEF Readable
    <3> QED  BY <1>1, <3>2, <3>3
  <2> QED  BY <1>3, <2>1 DEF Readable
<1>9. /\ IsEscape(v, n + 1) => Meaning(v) = Meaning(u)
      /\ ~IsEscape(v, n + 1) => Meaning(v) = Append(Meaning(u), Decoded(v, n + 1))
  <2>1. Readable(Append(u, c)) /\ Len(u) = n
    BY <1>2, <1>4, <1>8
  <2>2. /\ IsEscape(Append(u, c), Len(u) + 1) => Meaning(Append(u, c)) = Meaning(u)
        /\ ~IsEscape(Append(u, c), Len(u) + 1) =>
             Meaning(Append(u, c)) = Append(Meaning(u), Decoded(Append(u, c), Len(u) + 1))
    BY <1>2, <1>4, <2>1, MeaningGrows
  <2> QED  BY <1>4, <2>1, <2>2
<1> QED  BY <1>1, <1>6, <1>8, <1>9 DEF u, v

LEMMA BackslashIsNoNul == Backslash # NUL
BY DEF Backslash, NUL

(* What a text means that has nothing but NULs behind its m-th character: the *)
(* NULs follow what comes before them, and there is none earlier.             *)
Trailing(v, u, n) ==
  /\ v \in Seq(Byte) /\ u \in Seq(Byte) /\ Len(v) = Len(u) + n
  /\ \A k \in 1 .. Len(u) : v[k] = u[k]
  /\ \A k \in Len(u) + 1 .. Len(v) : v[k] = NUL

LEMMA TrailingGrows ==
  ASSUME NEW v, NEW u, NEW n \in Nat, Trailing(v, u, n)
  PROVE  Trailing(Append(v, NUL), u, n + 1)
<1> DEFINE w == Append(v, NUL)
<1>1. /\ v \in Seq(Byte) /\ u \in Seq(Byte) /\ Len(v) = Len(u) + n
      /\ \A k \in 1 .. Len(u) : v[k] = u[k]
      /\ \A k \in Len(u) + 1 .. Len(v) : v[k] = NUL
  BY DEF Trailing
<1>2. Len(v) \in Nat /\ Len(u) \in Nat /\ NUL \in Byte
  BY <1>1, LenProperties DEF Byte
<1>3. /\ w \in Seq(Byte) /\ Len(w) = Len(v) + 1 /\ w[Len(v) + 1] = NUL
      /\ \A k \in 1 .. Len(v) : w[k] = v[k]
  BY <1>1, <1>2, AppendProperties
<1> HIDE DEF w
<1>4. Len(w) = Len(u) + (n + 1)
  BY <1>1, <1>2, <1>3
<1>5. ASSUME NEW k \in 1 .. Len(u) PROVE w[k] = u[k]
  <2>1. k \in 1 .. Len(v)
    BY <1>1, <1>2
  <2> QED BY <1>1, <1>3, <2>1
<1>6. ASSUME NEW k \in Len(u) + 1 .. Len(w) PROVE w[k] = NUL
  <2>1. k = Len(v) + 1 \/ (k \in 1 .. Len(v) /\ k \in Len(u) + 1 .. Len(v))
    BY <1>2, <1>3
  <2> QED BY <1>1, <1>3, <2>1
<1> QED BY <1>1, <1>3, <1>4, <1>5, <1>6 DEF Trailing, w

LEMMA ReadablePrefix ==
  ASSUME NEW t \in Seq(Byte), WellFormed(t), NEW n \in Nat, n <= Len(t)
  PROVE  Readable(SubSeq(t, 1, n))
<1> DEFINE u == SubSeq(t, 1, n)
<1>1. Len(u) = n /\ \A k \in 1 .. n : u[k] = t[k]
  BY PrefixIs
<1>2. \A k \in 1 .. n : IsReplaced(u, k) <=> IsReplaced(t, k)
  BY PrefixMeans
<1>3. \A k \in 1 .. n : k \in 1 .. Len(t)
  OBVIOUS
<1> HIDE DEF u
<1>4. \A k \in 1 .. n : IsReplaced(u, k) => u[k] \in DOMAIN Escaped
  BY <1>1, <1>2, <1>3 DEF WellFormed
<1> QED BY <1>1, <1>4 DEF Readable, u

LEMMA NulMeansNul ==
  ASSUME NEW t \in Seq(Byte), WellFormed(t), NEW k \in 1 .. Len(t), t[k] = NUL
  PROVE  ~IsEscape(t, k) /\ Decoded(t, k) = NUL
<1>1. NUL \notin DOMAIN Escaped
  BY DEF Escaped, NUL
<1>2. ~IsReplaced(t, k)
  BY <1>1 DEF WellFormed
<1> QED BY <1>2, BackslashIsNoNul DEF IsEscape, Decoded

LEMMA MeaningWithNuls ==
  ASSUME NEW t \in Seq(Byte), WellFormed(t), NEW m \in Nat, m <= Len(t),
         \A k \in m + 1 .. Len(t) : t[k] = NUL
  PROVE  Trailing(Meaning(t), Meaning(SubSeq(t, 1, m)), Len(t) - m)
<1> DEFINE u == Meaning(SubSeq(t, 1, m))
           T == {n \in Nat : m + n <= Len(t) => Trailing(Meaning(SubSeq(t, 1, m + n)), u, n)}
<1>1. Len(t) \in Nat /\ Len(t) - m \in Nat /\ m + (Len(t) - m) = Len(t) /\ m + 0 = m
  BY LenProperties
<1>2. u \in Seq(Byte)
  BY ReadablePrefix, PrefixIs, MeaningIs
<1>3. 0 \in T
  <2>1. Len(u) = Len(u) + 0 /\ Len(u) + 1 .. Len(u) = {}
    BY <1>2, LenProperties
  <2>2. Trailing(u, u, 0)
    <3> HIDE DEF u
    <3> QED BY <1>2, <2>1 DEF Trailing
  <2> QED BY <1>1, <2>2
<1>4. ASSUME NEW n \in T PROVE n + 1 \in T
  <2>1. n \in Nat /\ n + 1 \in Nat /\ m + n \in Nat /\ m + (n + 1) = (m + n) + 1
    OBVIOUS
  <2>2. SUFFICES ASSUME m + (n + 1) <= Len(t)
                 PROVE  Trailing(Meaning(SubSeq(t, 1, m + (n + 1))), u, n + 1)
    BY <2>1
  <2> DEFINE j == m + n
  <2>3. j \in Nat /\ j < Len(t) /\ j <= Len(t) /\ j + 1 \in m + 1 .. Len(t)
        /\ j + 1 \in 1 .. Len(t)
    BY <1>1, <2>1, <2>2
  <2>4. Trailing(Meaning(SubSeq(t, 1, j)), u, n)
    BY <2>3
  <2> HIDE DEF j, u
  <2>5. t[j + 1] = NUL
    BY <2>3
  <2>6. ~IsEscape(t, j + 1) /\ Decoded(t, j + 1) = NUL
    BY <2>3, <2>5, NulMeansNul
  <2>7. IsReplaced(t, j + 1) => t[j + 1] \in DOMAIN Escaped
    BY <2>3 DEF WellFormed
  <2>8. Readable(SubSeq(t, 1, j))
    BY <2>3, ReadablePrefix
  <2>9. Meaning(SubSeq(t, 1, j + 1)) = Append(Meaning(SubSeq(t, 1, j)), NUL)
    BY <2>3, <2>6, <2>7, <2>8, PrefixMeaningGrows
  <2>10. Trailing(Meaning(SubSeq(t, 1, j + 1)), u, n + 1)
    BY <2>1, <2>4, <2>9, TrailingGrows
  <2> QED BY <2>1, <2>10 DEF j
<1>5. T = Nat
  <2>1. T \subseteq Nat
    OBVIOUS
  <2> HIDE DEF T
  <2> QED BY <1>3, <1>4, <2>1, AllNumbers
<1>6. Trailing(Meaning(SubSeq(t, 1, Len(t))), u, Len(t) - m)
  <2>1. Len(t) - m \in T
    BY <1>1, <1>5
  <2> HIDE DEF u
  <2> QED BY <1>1, <2>1
<1>7. SubSeq(t, 1, Len(t)) = t
  OBVIOUS
<1> QED BY <1>6, <1>7

LEMMA MeaningHasNoNul ==
  ASSUME NEW t \in Seq(Byte), WellFormed(t), NEW m \in Nat, m <= Len(t),
         \A k \in 1 .. m : t[k] # NUL
  PROVE  LET u == Meaning(SubSeq(t, 1, m)) IN \A k \in 1 .. Len(u) : u[k] # NUL
<1> DEFINE v(n) == Meaning(SubSeq(t, 1, n))
           T == {n \in Nat : n <= m => \A k \in 1 .. Len(v(n)) : v(n)[k] # NUL}
<1>1. \A n \in Nat : n <= m => Readable(SubSeq(t, 1, n)) /\ v(n) \in Seq(Byte)
  <2> TAKE n \in Nat
  <2>1. SUFFICES ASSUME n <= m PROVE Readable(SubSeq(t, 1, n)) /\ v(n) \in Seq(Byte)
    OBVIOUS
  <2>2. n <= Len(t)
    BY <2>1, LenProperties
  <2> QED BY <2>2, ReadablePrefix, PrefixIs, MeaningIs
<1>2. 0 \in T
  <2>1. SubSeq(t, 1, 0) \in Seq(Byte) /\ Len(SubSeq(t, 1, 0)) = 0
    BY PrefixIs, LenProperties
  <2>2. Kept(SubSeq(t, 1, 0)) = {}
    BY <2>1 DEF Kept
  <2>3. Readable(SubSeq(t, 1, 0))
    BY <1>1
  <2>4. Len(v(0)) = Cardinality(Kept(SubSeq(t, 1, 0)))
    BY <2>1, <2>3, MeaningIs
  <2>5. Len(v(0)) = 0
    BY <2>2, <2>4, FS_EmptySet
  <2> HIDE DEF v
  <2> QED BY <2>5
<1>3. ASSUME NEW n \in T PROVE n + 1 \in T
  <2>1. SUFFICES ASSUME n + 1 <= m
                 PROVE  \A k \in 1 .. Len(v(n + 1)) : v(n + 1)[k] # NUL
    BY DEF T
  <2>2. /\ n \in Nat /\ n + 1 \in Nat /\ n <= m /\ n < Len(t)
        /\ n + 1 \in 1 .. m /\ n + 1 \in 1 .. Len(t)
    BY <2>1, LenProperties
  <2>3. /\ v(n) \in Seq(Byte) /\ Readable(SubSeq(t, 1, n))
        /\ \A k \in 1 .. Len(v(n)) : v(n)[k] # NUL
    BY <1>1, <2>2
  <2>4. IsReplaced(t, n + 1) => t[n + 1] \in DOMAIN Escaped
    BY <2>2 DEF WellFormed
  <2>5. Decoded(t, n + 1) \in Byte \ {NUL}
    <3>1. CASE IsReplaced(t, n + 1)
      <4>1. Decoded(t, n + 1) = Escaped[t[n + 1]] /\ Escaped[t[n + 1]] \in Char
        BY <2>4, <3>1, ParserAssumption DEF Decoded
      <4> QED BY <4>1, AStringAssumption DEF Byte
    <3>2. CASE ~IsReplaced(t, n + 1)
      <4>1. Decoded(t, n + 1) = t[n + 1] /\ t[n + 1] # NUL /\ t[n + 1] \in Byte
        BY <2>2, <3>2 DEF Decoded
      <4> QED BY <4>1
    <3> QED BY <3>1, <3>2
  <2>6. v(n + 1) = v(n) \/ v(n + 1) = Append(v(n), Decoded(t, n + 1))
    BY <2>2, <2>3, <2>4, PrefixMeaningGrows
  <2> HIDE DEF v
  <2> DEFINE c == Decoded(t, n + 1)  w == Append(v(n), c)
  <2>7. /\ w \in Seq(Byte) /\ Len(w) = Len(v(n)) + 1 /\ w[Len(v(n)) + 1] = c
        /\ \A k \in 1 .. Len(v(n)) : w[k] = v(n)[k]
    <3>1. c \in Byte
      BY <2>5
    <3> HIDE DEF c
    <3> QED BY <2>3, <3>1, AppendProperties
  <2>8. c # NUL
    BY <2>5
  <2> HIDE DEF c, w
  <2>9. \A k \in 1 .. Len(w) : k \in 1 .. Len(v(n)) \/ k = Len(v(n)) + 1
    BY <2>3, <2>7, LenProperties
  <2>10. \A k \in 1 .. Len(w) : w[k] # NUL
    BY <2>3, <2>7, <2>8, <2>9
  <2> QED BY <2>3, <2>6, <2>10 DEF c, w
<1>4. T = Nat
  <2>1. T \subseteq Nat
    BY DEF T
  <2> HIDE DEF T
  <2> QED BY <1>2, <1>3, <2>1, AllNumbers
<1>5. m \in T
  BY <1>4
<1> QED BY <1>5

(* A character after the text, which is NUL if there was one before.          *)
LEMMA NulsStayLast ==
  ASSUME NEW s, Good(s), as_valid(s), NulsAreLast(s), NEW c \in Byte,
         SomeNul(s) => c = NUL
  PROVE  LET r == as_append_char(s, c)
         IN  /\ Good(r) /\ as_valid(r) /\ Value(r) = Append(Value(s), c)
             /\ NulsAreLast(r) /\ (SomeNul(r) => c = NUL)
<1> DEFINE r == as_append_char(s, c)
<1>1. /\ Good(r) /\ as_valid(r) /\ r.len = s.len + 1 /\ r.data[s.len + 1] = c
      /\ \A j \in 1 .. s.len : r.data[j] = s.data[j]
  BY append_charGood
<1>2. Value(r) = Append(Value(s), c)
  BY append_charValue
<1>3. s.len \in Nat
  BY DEF Good, AStrings
<1> HIDE DEF r
<1>4. \A j \in 1 .. r.len : j \in 1 .. s.len \/ j = s.len + 1
  BY <1>1, <1>3
<1>5. SomeNul(r) => c = NUL
  BY <1>1, <1>4 DEF SomeNul
<1>6. NulsAreLast(r)
  <2>1. ASSUME NEW j \in 1 .. r.len, NEW k \in 1 .. r.len, k <= j, r.data[k] = NUL
        PROVE  r.data[j] = NUL
    <3>1. c = NUL
      BY <1>5, <2>1 DEF SomeNul
    <3>2. CASE j = s.len + 1
      BY <1>1, <3>1, <3>2
    <3>3. CASE j \in 1 .. s.len
      <4>1. k \in 1 .. s.len
        BY <1>3, <1>4, <2>1, <3>3
      <4> QED  BY <1>1, <2>1, <3>3, <4>1 DEF NulsAreLast
    <3> QED  BY <1>4, <3>2, <3>3
  <2> QED  BY <2>1 DEF NulsAreLast
<1> QED  BY <1>1, <1>2, <1>5, <1>6 DEF r

(* Where a NUL may stand in the string, the text has one, and goes on with it. *)
LEMMA PlainCharTranslates ==
  ASSUME NEW t \in Seq(Byte), NEW n \in Nat, n < Len(t), NEW s, Translated(t, n, s),
         \A k, l \in 1 .. Len(t) : k <= l /\ t[k] = NUL => t[l] = NUL,
         t[n + 1] # Backslash
  PROVE  Translated(t, n + 1, as_append_char(s, t[n + 1]))
<1> DEFINE c == t[n + 1]
           r == as_append_char(s, c)
           V == Meaning(SubSeq(t, 1, n))
           W == Meaning(SubSeq(t, 1, n + 1))
<1>1. /\ Good(s) /\ as_valid(s) /\ Readable(SubSeq(t, 1, n)) /\ ~IsReplaced(t, n + 1)
      /\ Value(s) = V /\ NulsAreLast(s) /\ (SomeNul(s) => n > 0 /\ t[n] = NUL)
  BY DEF Translated
<1>2. c \in Byte
  BY PrefixGrows
<1>3. SomeNul(s) => c = NUL
  <2>1. n > 0 => n \in 1 .. Len(t) /\ n + 1 \in 1 .. Len(t) /\ n <= n + 1
    OBVIOUS
  <2> QED  BY <1>1, <2>1
<1>4. ~IsEscape(t, n + 1) /\ Decoded(t, n + 1) = c
  BY <1>1 DEF IsEscape, Decoded
<1>5. Readable(SubSeq(t, 1, n + 1)) /\ W = Append(V, c)
  BY <1>1, <1>4, PrefixMeaningGrows
<1>6. ~IsReplaced(t, (n + 1) + 1)
  <2>1. n + 1 \in Nat \ {0}
    OBVIOUS
  <2> QED  BY <1>4, <2>1, ReplacedIs
<1> HIDE DEF c, V, W
<1>7. /\ Good(r) /\ as_valid(r) /\ Value(r) = Append(Value(s), c)
      /\ NulsAreLast(r) /\ (SomeNul(r) => c = NUL)
  BY <1>1, <1>2, <1>3, NulsStayLast
<1> HIDE DEF r
<1>8. n + 1 <= Len(t) /\ n + 1 > 0
  OBVIOUS
<1>9. Value(r) = W
  BY <1>1, <1>5, <1>7
<1> QED  BY <1>5, <1>6, <1>7, <1>8, <1>9 DEF Translated, r, c, W

LEMMA EscapedCharTranslates ==
  ASSUME NEW t \in Seq(Byte), NEW n \in Nat, n < Len(t) - 1, NEW s, Translated(t, n, s),
         \A k, l \in 1 .. Len(t) : k <= l /\ t[k] = NUL => t[l] = NUL,
         t[n + 1] = Backslash, t[n + 2] \in DOMAIN Escaped
  PROVE  Translated(t, n + 2, as_append_char(s, Escaped[t[n + 2]]))
<1> DEFINE c == Escaped[t[n + 2]]
           r == as_append_char(s, c)
           U == Meaning(SubSeq(t, 1, n))
           V == Meaning(SubSeq(t, 1, n + 1))
           W == Meaning(SubSeq(t, 1, n + 2))
<1>1. /\ Good(s) /\ as_valid(s) /\ Readable(SubSeq(t, 1, n)) /\ ~IsReplaced(t, n + 1)
      /\ Value(s) = U /\ NulsAreLast(s) /\ (SomeNul(s) => n > 0 /\ t[n] = NUL)
  BY DEF Translated
<1>2. c \in Byte /\ c # NUL
  BY ParserAssumption, AStringAssumption DEF Byte
<1>3. ~SomeNul(s)
  <2>1. n > 0 => n \in 1 .. Len(t) /\ n + 1 \in 1 .. Len(t) /\ n <= n + 1
    OBVIOUS
  <2> QED  BY <1>1, <2>1, BackslashIsNoNul
<1>4. /\ n < Len(t) /\ n + 1 < Len(t) /\ n + 1 \in Nat \ {0} /\ n + 2 \in Nat \ {0}
      /\ (n + 1) + 1 = n + 2 /\ (n + 2) + 1 = (n + 2) + 1 /\ n + 2 <= Len(t) /\ n + 2 > 0
  OBVIOUS
<1>5. IsEscape(t, n + 1) /\ IsReplaced(t, n + 2) /\ ~IsEscape(t, n + 2)
  <2>1. IsEscape(t, n + 1)
    BY <1>1 DEF IsEscape
  <2>2. IsReplaced(t, (n + 1) + 1) <=> IsEscape(t, n + 1)
    BY <1>4, ReplacedIs
  <2> QED  BY <1>4, <2>1, <2>2 DEF IsEscape
<1>6. Decoded(t, n + 2) = c
  BY <1>5 DEF Decoded
<1>7. Readable(SubSeq(t, 1, n + 1)) /\ V = U
  BY <1>1, <1>4, <1>5, PrefixMeaningGrows
<1>8. Readable(SubSeq(t, 1, n + 2)) /\ W = Append(V, c)
  <2>1. /\ Readable(SubSeq(t, 1, (n + 1) + 1))
        /\ ~IsEscape(t, (n + 1) + 1) =>
             Meaning(SubSeq(t, 1, (n + 1) + 1)) = Append(V, Decoded(t, (n + 1) + 1))
    BY <1>4, <1>7, PrefixMeaningGrows
  <2> QED  BY <1>4, <1>5, <1>6, <2>1
<1>9. ~IsReplaced(t, (n + 2) + 1)
  BY <1>4, <1>5, ReplacedIs
<1> HIDE DEF c, U, V, W
<1>10. /\ Good(r) /\ as_valid(r) /\ Value(r) = Append(Value(s), c)
       /\ NulsAreLast(r) /\ (SomeNul(r) => c = NUL)
  BY <1>1, <1>2, <1>3, NulsStayLast
<1> HIDE DEF r
<1>11. Value(r) = W
  BY <1>1, <1>7, <1>8, <1>10
<1> QED  BY <1>2, <1>4, <1>8, <1>9, <1>10, <1>11 DEF Translated, r, c, W

LEMMA NothingTranslates ==
  ASSUME NEW t \in Seq(Byte) PROVE Translated(t, 0, as_new)
<1> DEFINE u == SubSeq(t, 1, 0)
           s == as_new
<1>1. u \in Seq(Byte) /\ Len(u) = 0 /\ 0 <= Len(t)
  OBVIOUS
<1>2. Good(s) /\ s.len = 0 /\ as_valid(s)
  <2>1. Fine(s)
    BY newFine
  <2>2. s.len = 0
    BY DEF as_new, as_with_capacity
  <2>3. s.data # <<>>
    BY <2>1, <2>2 DEF Fine, Good, Terminated, Cap, AStrings
  <2> QED  BY <2>1, <2>2, <2>3 DEF Fine, as_valid
<1> HIDE DEF u, s
<1>3. Readable(u) /\ Kept(u) = {}
  BY <1>1 DEF Readable, Kept
<1>4. Meaning(u) \in Seq(Byte) /\ Len(Meaning(u)) = 0
  BY <1>1, <1>3, MeaningIs, FS_EmptySet
<1>5. Value(s) \in Seq(Byte) /\ Len(Value(s)) = 0
  BY <1>2, ValueOfGood
<1>6. Value(s) = Meaning(u)
  BY <1>4, <1>5, SeqEqual
<1>7. NulsAreLast(s) /\ ~SomeNul(s)
  BY <1>2 DEF NulsAreLast, SomeNul
<1>8. ~IsReplaced(t, 0 + 1)
  <2>1. 1 \in Nat \ {0} /\ 0 + 1 = 1
    OBVIOUS
  <2> QED  BY <2>1, ReplacedIs
<1> QED  BY <1>1, <1>2, <1>3, <1>6, <1>7, <1>8 DEF Translated, u, s

(* All of the text passed: the string is what it means.                       *)
LEMMA EndTranslates ==
  ASSUME NEW t \in Seq(Byte), NEW n \in Nat, n >= Len(t), NEW s, Translated(t, n, s)
  PROVE  /\ as_dupe(s) \in AStrings /\ Value(as_dupe(s)) = Meaning(t)
         /\ WellFormed(t)
<1>1. n = Len(t) /\ SubSeq(t, 1, n) = t
  BY DEF Translated
<1>2. /\ Good(s) /\ Readable(t) /\ ~IsReplaced(t, n + 1) /\ Value(s) = Meaning(t)
      /\ NulsAreLast(s)
  BY <1>1 DEF Translated
<1>3. Value(as_dupe(s)) = Value(s)
  BY <1>2, dupeValue DEF NulsAreLast
<1>4. as_dupe(s) \in AStrings
  BY <1>2, dupeGood DEF Good
<1>5. t # <<>> => n \in Nat \ {0}
  BY <1>1
<1>6. t # <<>> => ~IsEscape(t, n)
  BY <1>2, <1>5, ReplacedIs
<1>7. WellFormed(t)
  BY <1>1, <1>2, <1>6 DEF WellFormed, Readable
<1> QED  BY <1>2, <1>3, <1>4, <1>7

LEMMA BadEscapeIsIllFormed ==
  ASSUME NEW t \in Seq(Byte), NEW n \in Nat, n < Len(t), NEW s, Translated(t, n, s),
         t[n + 1] = Backslash, n = Len(t) - 1 \/ t[n + 2] \notin DOMAIN Escaped
  PROVE  ~WellFormed(t)
<1>1. IsEscape(t, n + 1)
  BY DEF IsEscape, Translated
<1>2. CASE n = Len(t) - 1
  <2>1. n + 1 = Len(t) /\ t # <<>>
    BY <1>2
  <2> QED  BY <1>1, <2>1 DEF WellFormed
<1>3. CASE n # Len(t) - 1 /\ t[n + 2] \notin DOMAIN Escaped
  <2>1. n + 1 \in Nat \ {0} /\ (n + 1) + 1 = n + 2 /\ n + 2 \in 1 .. Len(t)
    BY <1>3
  <2>2. IsReplaced(t, (n + 1) + 1)
    BY <1>1, <2>1, ReplacedIs
  <2> QED  BY <1>3, <2>1, <2>2 DEF WellFormed
<1> QED  BY <1>2, <1>3

-----------------------------------------------------------------------------
(* The steps of the loop.                                                    *)

LEMMA StillInLoop ==
  ASSUME PsInv, at = "peek" \/ at = "string", tok.kind = "LITERAL_STRING",
         at' = "string", UNCHANGED <<tok, expr, diag>>,
         i' \in Nat, Translated(text, i', res')
  PROVE  PsInv'
<1>1. text' = text /\ diag = NoDiag /\ expr = NoExpr /\ expr.type = "none"
  BY LiteralIs DEF text, PsInv, Unjudged, NoExpr
<1>2. /\ i' <= Len(text) /\ Good(res') /\ as_valid(res')
      /\ Value(res') = Meaning(SubSeq(text, 1, i'))
  BY DEF Translated
<1>3. ExprOK' /\ NumbersAreWhole'
  BY <1>1 DEF ExprOK, NumbersAreWhole
<1>4. PsTypeOK'
  BY <1>1, <1>2, <1>3 DEF PsInv, ParserInv, PsTypeOK, Good
<1>5. NothingLeaks'
  BY <1>2 DEF NothingLeaks
<1>6. Loop' /\ Unjudged'
  BY <1>1 DEF Loop, Unjudged
<1>7. StringsAreTranslated'
  BY <1>1, <1>2 DEF StringsAreTranslated, StringIsTranslated, StringsAreJudgedWhole, Ended
<1>8. RefusedIsReported'
  BY DEF RefusedIsReported, Ended
<1> QED  BY <1>3, <1>4, <1>5, <1>6, <1>7, <1>8 DEF PsInv, ParserInv

(* Out of the loop, with the string freed.                                    *)
LEMMA OutOfLoop ==
  ASSUME PsInv, at = "string", UNCHANGED <<tok, i>>, res' = Invalid, at' \in Ended,
         at' = "have" => /\ expr'.type = "string" /\ diag' = NoDiag
                         /\ expr'.value \in AStrings /\ Value(expr'.value) = Meaning(text)
                         /\ WellFormed(text),
         at' = "none" => expr'.type = "none" /\ diag' \in Diagnostics /\ ~WellFormed(text)
  PROVE  PsInv'
<1>1. text' = text /\ at' # "peek" /\ at' # "string" /\ (at' = "have" \/ at' = "none")
  BY DEF text, Ended
<1>2. tok.kind = "LITERAL_STRING"
  BY DEF PsInv, Loop
<1>3. ExprOK' /\ NumbersAreWhole'
  BY <1>1 DEF ExprOK, NumbersAreWhole
<1>4. res' \in AStrings /\ ~as_valid(res')
  BY DEF Invalid, AStrings, as_valid
<1>5. PsTypeOK'
  BY <1>1, <1>3, <1>4 DEF PsInv, ParserInv, PsTypeOK
<1>6. NothingLeaks' /\ Loop' /\ Unjudged'
  BY <1>1, <1>4 DEF NothingLeaks, Loop, Unjudged
<1>7. StringsAreTranslated'
  BY <1>1 DEF StringsAreTranslated, StringIsTranslated, StringsAreJudgedWhole
<1>8. RefusedIsReported'
  <2>1. NoDiag \notin Diagnostics
    BY DEF NoDiag, Diagnostics
  <2> QED  BY <1>1, <2>1 DEF RefusedIsReported
<1> QED  BY <1>1, <1>3, <1>5, <1>6, <1>7, <1>8 DEF PsInv, ParserInv

LEMMA StringStep == ASSUME PsInv, String PROVE PsInv'
<1>1. /\ text \in Seq(Byte) /\ Len(text) \in Nat /\ i \in Nat
      /\ \A k, l \in 1 .. Len(text) : k <= l /\ text[k] = NUL => text[l] = NUL
  BY TokenFacts DEF PsInv, ParserInv, PsTypeOK
<1>2. at = "string" => tok.kind = "LITERAL_STRING" /\ Translated(text, i, res)
  BY DEF PsInv, Loop
<1>3. CASE BeginString
  <2>1. /\ at = "peek" /\ tok.kind = "LITERAL_STRING" /\ at' = "string"
        /\ UNCHANGED <<tok, expr, diag>> /\ i' = 0 /\ res' = as_new
    BY <1>3 DEF BeginString, Peek
  <2>2. Translated(text, 0, as_new)
    BY <1>1, NothingTranslates
  <2> QED  BY <2>1, <2>2, StillInLoop
<1>4. CASE PlainChar
  <2>1. /\ at = "string" /\ i < Len(text) /\ text[i + 1] # Backslash /\ at' = "string"
        /\ UNCHANGED <<tok, expr, diag>> /\ i' = i + 1
        /\ res' = as_append_char(res, text[i + 1])
    BY <1>4 DEF PlainChar, InString, Char_i
  <2>2. Translated(text, i + 1, as_append_char(res, text[i + 1]))
    BY <1>1, <1>2, <2>1, PlainCharTranslates
  <2>3. i + 1 \in Nat
    BY <1>1
  <2> QED  BY <1>2, <2>1, <2>2, <2>3, StillInLoop
<1>5. CASE EscapedChar
  <2>1. /\ at = "string" /\ i < Len(text) - 1 /\ text[i + 1] = Backslash /\ at' = "string"
        /\ text[i + 2] \in DOMAIN Escaped
        /\ UNCHANGED <<tok, expr, diag>> /\ i' = i + 2
        /\ res' = as_append_char(res, Escaped[text[i + 2]])
    BY <1>5 DEF EscapedChar, InString, Char_i
  <2>2. Translated(text, i + 2, as_append_char(res, Escaped[text[i + 2]]))
    BY <1>1, <1>2, <2>1, EscapedCharTranslates
  <2>3. i + 2 \in Nat
    BY <1>1
  <2> QED  BY <1>2, <2>1, <2>2, <2>3, StillInLoop
<1>6. CASE UnknownEscape
  <2>1. /\ at = "string" /\ i < Len(text) /\ text[i + 1] = Backslash
        /\ i = Len(text) - 1 \/ text[i + 2] \notin DOMAIN Escaped
        /\ Refuse("last is escape") \/ Refuse("bad escape")
        /\ res' = Invalid /\ UNCHANGED <<tok, i>>
    BY <1>6 DEF UnknownEscape, InString, Char_i
  <2>2. at' = "none" /\ expr' = expr /\ diag' \in Diagnostics
    BY <2>1 DEF Refuse, Diagnostics
  <2>3. expr.type = "none"
    BY <2>1, LiteralIs DEF PsInv, Unjudged, NoExpr
  <2>4. ~WellFormed(text)
    BY <1>1, <1>2, <2>1, BadEscapeIsIllFormed
  <2> QED  BY <2>1, <2>2, <2>3, <2>4, OutOfLoop DEF Ended
<1>7. CASE EndString
  <2>1. /\ at = "string" /\ i >= Len(text) /\ res' = Invalid /\ UNCHANGED <<tok, i>>
        /\ Have("string", as_dupe(res)) /\ diag' = diag
    BY <1>7 DEF EndString, Return
  <2>2. at' = "have" /\ expr'.type = "string" /\ expr'.value = as_dupe(res)
    BY <2>1, LiteralIs DEF Have
  <2>3. diag' = NoDiag
    BY <2>1 DEF PsInv, Unjudged
  <2>4. /\ as_dupe(res) \in AStrings /\ Value(as_dupe(res)) = Meaning(text)
        /\ WellFormed(text)
    BY <1>1, <1>2, <2>1, EndTranslates
  <2> QED  BY <2>1, <2>2, <2>3, <2>4, OutOfLoop DEF Ended
<1> QED  BY <1>3, <1>4, <1>5, <1>6, <1>7 DEF String

-----------------------------------------------------------------------------
(* What a node tells of the token it was made of.                           *)

NodeIsOfToken ==
  /\ expr.type = "string" => tok.kind = "LITERAL_STRING" /\ Good(expr.value)
  /\ expr.type = "bool" => /\ tok.kind = "LITERAL_BOOLEAN"
                           /\ expr.value = (text = <<"t", "r", "u", "e">>)
  /\ expr.type = "null" => tok.kind = "NULL"

LEMMA NodeStep == ASSUME PsInv, NodeIsOfToken, PsNext PROVE NodeIsOfToken'
<1>1. ASSUME UNCHANGED <<tok, expr>> PROVE NodeIsOfToken'
  BY <1>1 DEF NodeIsOfToken, text
<1>2. ASSUME NEW d, Refuse(d), tok' = tok PROVE NodeIsOfToken'
  BY <1>1, <1>2 DEF Refuse
<1>3. ASSUME NEW type, type \notin {"string", "bool", "null"}, NEW value, Have(type, value)
      PROVE  NodeIsOfToken'
  <2>1. expr'.type = type
    BY <1>3, LiteralIs DEF Have
  <2> QED BY <1>3, <2>1 DEF NodeIsOfToken
<1>4. CASE NoLiteral \/ BeginString \/ PlainChar \/ EscapedChar
  BY <1>1, <1>4 DEF NoLiteral, BeginString, PlainChar, EscapedChar
<1>5. CASE NullLiteral
  <2>1. tok' = tok /\ tok.kind = "NULL" /\ expr'.type = "null"
    BY <1>5, LiteralIs DEF NullLiteral, Peek, Return, Have
  <2> QED BY <2>1 DEF NodeIsOfToken
<1>6. CASE BoolLiteral
  <2>1. /\ tok' = tok /\ tok.kind = "LITERAL_BOOLEAN" /\ expr'.type = "bool"
        /\ expr'.value = (text = <<"t", "r", "u", "e">>)
    BY <1>6, LiteralIs, Zenon DEF BoolLiteral, Peek, Return, Have
  <2> QED BY <2>1 DEF NodeIsOfToken, text
<1>7. CASE CharLiteral
  <2>1. tok' = tok
        /\ \/ Refuse("too short") \/ Refuse("bad escape")
           \/ \E c : Have("char", c)
    BY <1>7 DEF CharLiteral, Return
  <2> QED BY <1>2, <1>3, <2>1
<1>8. CASE NumberLiteral
  <2>1. tok' = tok
        /\ \/ \E d : Refuse(d)
           \/ Have("float", text) \/ Have("int", strtoll(text))
    BY <1>8 DEF NumberLiteral, Return
  <2> QED BY <1>2, <1>3, <2>1
<1>9. CASE UnknownEscape
  BY <1>2, <1>9 DEF UnknownEscape
<1>10. CASE EndString
  <2>1. tok' = tok /\ expr'.type = "string" /\ expr'.value = as_dupe(res)
    BY <1>10, LiteralIs DEF EndString, Return, Have
  <2>2. tok.kind = "LITERAL_STRING" /\ Good(res)
    BY <1>10 DEF EndString, PsInv, Loop, Translated
  <2> QED BY <2>1, <2>2, dupeGood DEF NodeIsOfToken
<1> QED BY <1>4, <1>5, <1>6, <1>7, <1>8, <1>9, <1>10 DEF PsNext, String

-----------------------------------------------------------------------------
(* The theorems.                                                             *)

(* A token that was peeked at, and nothing else yet.                          *)
Peeked ==
  /\ Fit(tok) /\ at = "peek" /\ i \in Nat
  /\ res = Invalid /\ expr = NoExpr /\ diag = NoDiag

LEMMA PeekedIsJudged == Peeked => PsInv
<1> SUFFICES ASSUME Peeked PROVE PsInv
  OBVIOUS
<1>1. /\ Fit(tok) /\ at = "peek" /\ i \in Nat /\ res = Invalid /\ expr = NoExpr
      /\ diag = NoDiag
  BY DEF Peeked
<1>2. expr.type = "none" /\ text \in Seq(Byte)
  BY <1>1, LiteralIs DEF NoExpr, text, Fit
<1>3. ExprOK /\ NumbersAreWhole
  BY <1>2 DEF ExprOK, NumbersAreWhole
<1>4. res \in AStrings /\ ~as_valid(res)
  BY <1>1 DEF Invalid, AStrings, as_valid
<1>5. ParserInv
  BY <1>1, <1>2, <1>3, <1>4 DEF ParserInv, PsTypeOK, NothingLeaks, text
<1>6. Loop /\ Unjudged
  BY <1>1 DEF Loop, Unjudged
<1>7. StringsAreTranslated /\ RefusedIsReported
  BY <1>1, <1>2 DEF StringsAreTranslated, StringIsTranslated, StringsAreJudgedWhole,
                    RefusedIsReported, Ended
<1> QED  BY <1>1, <1>3, <1>5, <1>6, <1>7 DEF PsInv

LEMMA PsInvInit == PsInit => PsInv
<1> SUFFICES ASSUME PsInit PROVE Peeked
  BY PeekedIsJudged
<1>1. tok \in Tokens
  BY DEF PsInit
<1>2. tok.text \in Seq(Byte) /\ (tok.kind = "LITERAL_NUMBER" => tok.text # <<>>)
  BY <1>1, ParserAssumption
<1>3. \A k, l \in 1 .. Len(tok.text) :
        k <= l /\ tok.text[k] = NUL => tok.text[l] = NUL
  BY <1>1, ParserAssumption
<1> QED  BY <1>2, <1>3 DEF PsInit, Peeked, Fit

LEMMA PsInvStutters == PsInv /\ UNCHANGED psVars => PsInv'
<1> SUFFICES ASSUME PsInv, UNCHANGED psVars PROVE PsInv'
  OBVIOUS
<1>1. UNCHANGED <<tok, at, i, res, expr, diag, text>>
  BY DEF psVars, text
<1>2. ParserInv' /\ Fit(tok)'
  BY <1>1 DEF PsInv, ParserInv, PsTypeOK, ExprOK, NothingLeaks
<1>3. Loop' /\ Unjudged'
  BY <1>1 DEF PsInv, Loop, Unjudged
<1>4. StringsAreTranslated'
  BY <1>1 DEF PsInv, StringsAreTranslated, StringIsTranslated, StringsAreJudgedWhole
<1>5. RefusedIsReported' /\ NumbersAreWhole'
  BY <1>1 DEF PsInv, RefusedIsReported, NumbersAreWhole
<1> QED  BY <1>2, <1>3, <1>4, <1>5 DEF PsInv

(* Wherever ps_literal is, it is in step with its text: in the loop, what has *)
(* been appended is the meaning of what has been read, and before a verdict   *)
(* there is neither a node nor a diagnostic.                                  *)
THEOREM PsInvHolds == PsSpec => []PsInv
<1>1. PsInv /\ [PsNext]_psVars => PsInv'
  BY SimpleStep, CharStep, NumberStep, StringStep, PsInvStutters DEF PsNext
<1> QED  BY <1>1, PsInvInit, PTL DEF PsSpec

(* The node, the half-made string and the place in the loop are in step, and  *)
(* the string is freed on every way out of ps_literal.                        *)
THEOREM ParserInvariant == PsSpec => []ParserInv
<1>1. PsInv => ParserInv
  BY DEF PsInv
<1> QED  BY <1>1, PsInvHolds, PTL

(* Whatever a string's text and however often its block has grown: the        *)
(* literal is what the text means, and there is one if and only if it means   *)
(* something.                                                                 *)
THEOREM StringsAreTranslatedAlways == PsSpec => []StringsAreTranslated
<1>1. PsInv => StringsAreTranslated
  BY DEF PsInv
<1> QED  BY <1>1, PsInvHolds, PTL

(* No literal is refused in silence, and none both refused and returned.      *)
THEOREM RefusedIsReportedAlways == PsSpec => []RefusedIsReported
<1>1. PsInv => RefusedIsReported
  BY DEF PsInv
<1> QED  BY <1>1, PsInvHolds, PTL

(* No number leaves a digit of its text unread.                               *)
THEOREM NumbersAreWholeAlways == PsSpec => []NumbersAreWhole
<1>1. PsInv => NumbersAreWhole
  BY DEF PsInv
<1> QED  BY <1>1, PsInvHolds, PTL
=============================================================================
