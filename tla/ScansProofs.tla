---------------------------- MODULE ScansProofs -----------------------------
(***************************************************************************)
(* Proof that forward scans are exact: the range and prefix scans of a     *)
(* table and the merge of a prefix scan with the staged cells of a branch. *)
(* It rests on the byte order of keys being a total order in which the     *)
(* keys with a given prefix are consecutive.                               *)
(***************************************************************************)
EXTENDS Scans, FiniteSetTheorems, SequenceTheorems, WellFoundedInduction, TLAPS

(* What the provers need to know of a byte string. *)
LEMMA StringFacts ==
    ASSUME NEW a \in Seq(Bytes)
    PROVE  /\ Len(a) \in Nat /\ DOMAIN a = 1..Len(a)
           /\ \A i \in 1..Len(a) : a[i] \in Nat /\ a[i] \in Int /\ a[i] <= MaxByte
  BY ScansAssumption DEF Bytes

(* Naturals are well ordered. *)
LEMMA LeastNatural ==
    ASSUME NEW T, T \subseteq Nat, T # {}
    PROVE  \E n \in T : \A m \in T : n <= m
  <1> DEFINE R == OpToRel(<, Nat)
  <1>1. IsWellFoundedOn(R, Nat)
    BY NatLessThanWellFounded
  <1>2. \A x, y \in Nat : x < y => <<x, y>> \in R
    BY DEF OpToRel
  <1> HIDE DEF R
  <1>3. PICK n \in T : \A m \in T : ~(<<m, n>> \in R)
    BY Zenon, <1>1, WFMin
  <1>4. ASSUME NEW m \in T PROVE n <= m
    <2>1. n \in Nat /\ m \in Nat
      OBVIOUS
    <2>2. ~(m < n)
      BY Zenon, <1>2, <1>3, <2>1
    <2> QED BY <2>1, <2>2
  <1> QED BY <1>4

-----------------------------------------------------------------------------
(* The order of byte strings. *)

(* Two byte strings agree up to some length, where one of them ends or their
   bytes differ. *)
LEMMA Divergence ==
    ASSUME NEW a \in Seq(Bytes), NEW b \in Seq(Bytes)
    PROVE  \E n \in Nat :
              /\ n <= Len(a) /\ n <= Len(b)
              /\ \A i \in 1..n : a[i] = b[i]
              /\ n = Len(a) \/ n = Len(b) \/ a[n + 1] # b[n + 1]
  <1> DEFINE Parts(n) == n = Len(a) \/ n = Len(b) \/ a[n + 1] # b[n + 1]
             T == {n \in Nat : Parts(n)}
  <1>1. Len(a) \in Nat /\ Len(b) \in Nat
    BY StringFacts
  <1>2. T \subseteq Nat /\ Len(a) \in T /\ Len(b) \in T
    BY <1>1
  <1>3. PICK n \in T : \A m \in T : n <= m
    BY Zenon, <1>2, LeastNatural
  <1>4. n \in Nat /\ n <= Len(a) /\ n <= Len(b) /\ Parts(n)
    BY <1>2, <1>3
  <1>5. ASSUME NEW i \in 1..n PROVE a[i] = b[i]
    <2>1. i - 1 \in Nat /\ ~(n <= i - 1) /\ (i - 1) + 1 = i
      BY <1>4
    <2>2. i - 1 \notin T
      BY <1>3, <2>1
    <2>3. ~Parts(i - 1)
      BY <2>1, <2>2
    <2> QED BY <2>1, <2>3
  <1> QED BY <1>4, <1>5

LEMMA LessTotal ==
    ASSUME NEW a \in Seq(Bytes), NEW b \in Seq(Bytes), ~Less(a, b), ~Less(b, a)
    PROVE  a = b
  <1>1. PICK n \in Nat :
           /\ n <= Len(a) /\ n <= Len(b)
           /\ \A i \in 1..n : a[i] = b[i]
           /\ n = Len(a) \/ n = Len(b) \/ a[n + 1] # b[n + 1]
    BY Zenon, Divergence
  <1>2. /\ Len(a) \in Nat /\ Len(b) \in Nat
        /\ \A i \in 1..Len(a) : a[i] \in Int
        /\ \A i \in 1..Len(b) : b[i] \in Int
    BY StringFacts
  <1>3. n \in 0..Len(a) /\ n \in 0..Len(b)
    BY <1>1, <1>2
  <1>4. n < Len(b) => n < Len(a) /\ ~(a[n + 1] < b[n + 1])
    BY <1>1, <1>3 DEF Less
  <1>5. n < Len(a) => n < Len(b) /\ ~(b[n + 1] < a[n + 1])
    BY <1>1, <1>3 DEF Less
  <1>6. n = Len(a) /\ n = Len(b)
    <2>1. CASE n < Len(a) /\ n < Len(b)
      <3>1. n + 1 \in 1..Len(a) /\ n + 1 \in 1..Len(b)
        BY <1>2, <2>1
      <3>2. a[n + 1] \in Int /\ b[n + 1] \in Int
        BY <1>2, <3>1
      <3>3. a[n + 1] = b[n + 1]
        BY <1>4, <1>5, <2>1, <3>2
      <3> QED BY <1>1, <2>1, <3>3
    <2> QED BY <1>1, <1>2, <1>4, <1>5, <2>1
  <1> QED BY Zenon, <1>1, <1>6, SeqEqual

LEMMA LessAsymmetric ==
    ASSUME NEW a \in Seq(Bytes), NEW b \in Seq(Bytes), Less(a, b)
    PROVE  ~Less(b, a)
  <1> SUFFICES ASSUME Less(b, a) PROVE FALSE
    OBVIOUS
  <1>1. /\ Len(a) \in Nat /\ Len(b) \in Nat
        /\ \A i \in 1..Len(a) : a[i] \in Int
        /\ \A i \in 1..Len(b) : b[i] \in Int
    BY StringFacts
  <1>2. PICK n \in 0..Len(a) : /\ n < Len(b) /\ \A i \in 1..n : a[i] = b[i]
                               /\ n < Len(a) => a[n + 1] < b[n + 1]
    BY DEF Less
  <1>3. PICK m \in 0..Len(b) : /\ m < Len(a) /\ \A i \in 1..m : b[i] = a[i]
                               /\ m < Len(b) => b[m + 1] < a[m + 1]
    BY DEF Less
  <1>4. n \in Nat /\ m \in Nat
    BY <1>1, <1>2, <1>3
  <1>5. CASE n < m
    <2>1. n + 1 \in 1..m /\ n < Len(a) /\ n + 1 \in 1..Len(a) /\ n + 1 \in 1..Len(b)
      BY <1>1, <1>2, <1>3, <1>4, <1>5
    <2>2. a[n + 1] < b[n + 1] /\ b[n + 1] = a[n + 1] /\ a[n + 1] \in Int
      BY <1>1, <1>2, <1>3, <2>1
    <2> QED BY <2>2
  <1>6. CASE m < n
    <2>1. m + 1 \in 1..n /\ m < Len(b) /\ m + 1 \in 1..Len(a) /\ m + 1 \in 1..Len(b)
      BY <1>1, <1>2, <1>3, <1>4, <1>6
    <2>2. b[m + 1] < a[m + 1] /\ b[m + 1] = a[m + 1] /\ a[m + 1] \in Int
      BY <1>1, <1>2, <1>3, <2>1
    <2> QED BY <2>2
  <1>7. CASE n = m
    <2>1. n + 1 \in 1..Len(a) /\ n + 1 \in 1..Len(b)
      BY <1>1, <1>2, <1>3, <1>4, <1>7
    <2>2. a[n + 1] < b[n + 1] /\ b[n + 1] < a[n + 1] /\ a[n + 1] \in Int /\ b[n + 1] \in Int
      BY <1>1, <1>2, <1>3, <1>7, <2>1
    <2> QED BY <2>2
  <1> QED BY <1>4, <1>5, <1>6, <1>7

LEMMA LessTransitive ==
    ASSUME NEW a \in Seq(Bytes), NEW b \in Seq(Bytes), NEW c \in Seq(Bytes),
           Less(a, b), Less(b, c)
    PROVE  Less(a, c)
  <1>1. /\ Len(a) \in Nat /\ Len(b) \in Nat /\ Len(c) \in Nat
        /\ \A i \in 1..Len(a) : a[i] \in Int
        /\ \A i \in 1..Len(b) : b[i] \in Int
        /\ \A i \in 1..Len(c) : c[i] \in Int
    BY StringFacts
  <1>2. PICK n \in 0..Len(a) : /\ n < Len(b) /\ \A i \in 1..n : a[i] = b[i]
                               /\ n < Len(a) => a[n + 1] < b[n + 1]
    BY DEF Less
  <1>3. PICK m \in 0..Len(b) : /\ m < Len(c) /\ \A i \in 1..m : b[i] = c[i]
                               /\ m < Len(b) => b[m + 1] < c[m + 1]
    BY DEF Less
  <1>4. n \in Nat /\ m \in Nat /\ n <= Len(a) /\ m <= Len(b)
    BY <1>1, <1>2, <1>3
  <1>5. CASE n <= m
    <2>1. n < Len(c) /\ \A i \in 1..n : a[i] = c[i]
      BY <1>1, <1>2, <1>3, <1>4, <1>5
    <2>2. ASSUME n < Len(a) PROVE a[n + 1] < c[n + 1]
      <3>1. n + 1 \in 1..Len(a) /\ n + 1 \in 1..Len(b) /\ n + 1 \in 1..Len(c)
        BY <1>1, <1>2, <1>3, <1>4, <1>5, <2>1, <2>2
      <3>2. a[n + 1] < b[n + 1] /\ a[n + 1] \in Int /\ b[n + 1] \in Int /\ c[n + 1] \in Int
        BY <1>1, <1>2, <2>2, <3>1
      <3>3. b[n + 1] <= c[n + 1]
        <4>1. CASE n = m
          BY <1>2, <1>3, <3>2, <4>1
        <4>2. CASE n # m
          <5>1. n + 1 \in 1..m
            BY <1>4, <1>5, <4>2
          <5> QED BY <1>3, <3>2, <5>1
        <4> QED BY <4>1, <4>2
      <3> QED BY <3>2, <3>3
    <2> QED BY <1>2, <2>1, <2>2 DEF Less
  <1>6. CASE m < n
    <2>1. m \in 0..Len(a) /\ m < Len(a) /\ m < Len(b) /\ m + 1 \in 1..n
      BY <1>1, <1>2, <1>3, <1>4, <1>6
    <2>2. \A i \in 1..m : a[i] = c[i]
      BY <1>2, <1>3, <1>4, <1>6
    <2>3. a[m + 1] < c[m + 1]
      BY <1>2, <1>3, <2>1
    <2> QED BY <1>3, <2>1, <2>2, <2>3 DEF Less
  <1> QED BY <1>4, <1>5, <1>6

(* The forms in which the proofs below use the order. *)
LEMMA Order ==
    ASSUME NEW a \in Seq(Bytes), NEW b \in Seq(Bytes), NEW c \in Seq(Bytes)
    PROVE  /\ ~Less(a, a)
           /\ Less(a, b) => AtLeast(b, a) /\ a # b
           /\ AtLeast(b, a) /\ a # b => Less(a, b)
           /\ Less(a, b) /\ AtLeast(c, b) => Less(a, c)
           /\ AtLeast(b, a) /\ Less(b, c) => Less(a, c)
           /\ AtLeast(b, a) /\ AtLeast(c, b) => AtLeast(c, a)
  BY LessTotal, LessAsymmetric, LessTransitive DEF AtLeast

(* Some of finitely many keys is the first of them. *)
LEMMA LeastExists ==
    ASSUME NEW S \in SUBSET EncodedKeys, S # {}
    PROVE  \E k \in S : \A j \in S : AtLeast(j, k)
  <1> DEFINE HasLeast(K) == \E k \in K : \A j \in K : AtLeast(j, k)
             Bad(n) == \E K \in SUBSET EncodedKeys :
                          K # {} /\ Cardinality(K) = n /\ ~HasLeast(K)
             T == {n \in Nat : Bad(n)}
  <1>1. \A K \in SUBSET EncodedKeys : IsFiniteSet(K) /\ Cardinality(K) \in Nat
    BY ScansAssumption, FS_Subset, FS_CardinalityType
  <1>2. T = {}
    <2> SUFFICES ASSUME T # {} PROVE FALSE
      OBVIOUS
    <2>1. PICK n \in T : \A m \in T : n <= m
      BY Zenon, LeastNatural
    <2>2. n \in Nat /\ Bad(n)
      OBVIOUS
    <2>3. PICK K \in SUBSET EncodedKeys : K # {} /\ Cardinality(K) = n /\ ~HasLeast(K)
      BY <2>2
    <2>4. PICK x \in K : TRUE
      BY <2>3
    <2> DEFINE L == K \ {x}
    <2>5. x \in Seq(Bytes) /\ K \subseteq Seq(Bytes) /\ AtLeast(x, x)
      BY ScansAssumption, Order DEF AtLeast
    <2>6. L # {}
      <3> SUFFICES ASSUME L = {} PROVE FALSE
        OBVIOUS
      <3>1. \A j \in K : j = x
        OBVIOUS
      <3>2. \A j \in K : AtLeast(j, x)
        BY <2>5, <3>1
      <3>3. HasLeast(K)
        BY <3>2
      <3> QED BY <2>3, <3>3
    <2>7. L \in SUBSET EncodedKeys /\ Cardinality(L) = n - 1 /\ n - 1 \in Nat
      <3>1. IsFiniteSet(K) /\ Cardinality(K) = n
        BY <1>1, <2>3
      <3>2. Cardinality(L) = n - 1
        BY Zenon, <3>1, FS_RemoveElement
      <3>3. Cardinality(L) \in Nat
        BY <1>1
      <3> QED BY <3>2, <3>3
    <2>8. n - 1 \notin T
      BY <2>1, <2>2, <2>7
    <2>9. HasLeast(L)
      BY <2>6, <2>7, <2>8
    <2>10. PICK y \in L : \A j \in L : AtLeast(j, y)
      BY <2>9
    <2>11. CASE AtLeast(x, y)
      BY <2>3, <2>10, <2>11
    <2>12. CASE ~AtLeast(x, y)
      <3>1. y \in Seq(Bytes) /\ AtLeast(y, x)
        BY <2>5, <2>12, Order DEF AtLeast
      <3>2. \A j \in L : AtLeast(j, x)
        BY <2>5, <2>10, <3>1, Order
      <3> QED BY <2>3, <2>5, <3>2
    <2> QED BY <2>11, <2>12
  <1>3. Cardinality(S) \in Nat /\ Cardinality(S) \notin T
    BY <1>1, <1>2
  <1> QED BY <1>3

LEMMA LeastIs ==
    ASSUME NEW S \in SUBSET EncodedKeys, S # {}
    PROVE  /\ Least(S) \in S /\ Least(S) \in Seq(Bytes)
           /\ \A j \in S : AtLeast(j, Least(S))
           /\ \A j \in S \ {Least(S)} : Less(Least(S), j)
  <1>1. Least(S) \in S /\ \A j \in S : AtLeast(j, Least(S))
    BY LeastExists DEF Least
  <1>2. S \subseteq Seq(Bytes)
    BY ScansAssumption
  <1> QED BY <1>1, <1>2, Order

-----------------------------------------------------------------------------
(* Prefixes. *)

(* Keys with a prefix are not before it. *)
LEMMA PrefixFirst ==
    ASSUME NEW k \in Seq(Bytes), NEW p \in Seq(Bytes), HasPrefix(k, p)
    PROVE  AtLeast(k, p)
  <1> SUFFICES ASSUME Less(k, p) PROVE FALSE
    BY DEF AtLeast
  <1>1. /\ Len(k) \in Nat /\ Len(p) \in Nat /\ Len(p) <= Len(k)
        /\ \A i \in 1..Len(p) : k[i] = p[i] /\ p[i] \in Int
    BY StringFacts DEF HasPrefix
  <1>2. PICK n \in 0..Len(k) : /\ n < Len(p) /\ \A i \in 1..n : k[i] = p[i]
                               /\ n < Len(k) => k[n + 1] < p[n + 1]
    BY DEF Less
  <1>3. n + 1 \in 1..Len(p) /\ n < Len(k)
    BY <1>1, <1>2
  <1> QED BY <1>1, <1>2, <1>3

(* A key at or after p that does not have the prefix p is after all that do. *)
LEMMA BeyondPrefix ==
    ASSUME NEW j \in Seq(Bytes), NEW p \in Seq(Bytes), AtLeast(j, p), ~HasPrefix(j, p)
    PROVE  \E n \in Nat : /\ n < Len(p) /\ n < Len(j) /\ p[n + 1] < j[n + 1]
                          /\ \A i \in 1..n : j[i] = p[i]
  <1>1. PICK n \in Nat :
           /\ n <= Len(j) /\ n <= Len(p)
           /\ \A i \in 1..n : j[i] = p[i]
           /\ n = Len(j) \/ n = Len(p) \/ j[n + 1] # p[n + 1]
    BY Divergence
  <1>2. /\ Len(j) \in Nat /\ Len(p) \in Nat
        /\ \A i \in 1..Len(j) : j[i] \in Int
        /\ \A i \in 1..Len(p) : p[i] \in Int
    BY StringFacts
  <1>3. n < Len(p)
    <2> SUFFICES ASSUME n = Len(p) PROVE FALSE
      BY <1>1, <1>2
    <2>1. Len(p) <= Len(j) /\ \A i \in DOMAIN p : j[i] = p[i]
      BY <1>1, StringFacts
    <2> QED BY <2>1 DEF HasPrefix
  <1>4. n < Len(j) /\ ~(j[n + 1] < p[n + 1])
    <2>1. n \in 0..Len(j)
      BY <1>1, <1>2
    <2>2. ~Less(j, p)
      BY DEF AtLeast
    <2>3. ~(n < Len(j) => j[n + 1] < p[n + 1])
      BY <1>1, <1>3, <2>1, <2>2 DEF Less
    <2> QED BY <2>3
  <1>5. n + 1 \in 1..Len(j) /\ n + 1 \in 1..Len(p)
    BY <1>2, <1>3, <1>4
  <1>6. j[n + 1] # p[n + 1] /\ j[n + 1] \in Int /\ p[n + 1] \in Int
    BY <1>1, <1>2, <1>3, <1>4, <1>5
  <1>7. p[n + 1] < j[n + 1]
    BY <1>4, <1>6
  <1> QED BY <1>1, <1>3, <1>4, <1>7

(* The keys with a prefix are consecutive. *)
LEMMA PrefixConsecutive ==
    ASSUME NEW j \in Seq(Bytes), NEW k \in Seq(Bytes), NEW p \in Seq(Bytes),
           AtLeast(j, p), AtLeast(k, j), HasPrefix(k, p)
    PROVE  HasPrefix(j, p)
  <1> SUFFICES ASSUME ~HasPrefix(j, p) PROVE FALSE
    OBVIOUS
  <1>1. PICK n \in Nat : /\ n < Len(p) /\ n < Len(j) /\ p[n + 1] < j[n + 1]
                         /\ \A i \in 1..n : j[i] = p[i]
    BY BeyondPrefix
  <1>2. /\ Len(k) \in Nat /\ Len(p) \in Nat /\ Len(p) <= Len(k)
        /\ \A i \in 1..Len(p) : k[i] = p[i]
    BY StringFacts DEF HasPrefix
  <1>3. n \in 0..Len(k) /\ n < Len(k) /\ n + 1 \in 1..Len(p) /\ 1..n \subseteq 1..Len(p)
    BY <1>1, <1>2
  <1>4. k[n + 1] < j[n + 1] /\ \A i \in 1..n : k[i] = j[i]
    BY <1>1, <1>2, <1>3
  <1>5. Less(k, j)
    BY <1>1, <1>3, <1>4 DEF Less
  <1> QED BY <1>5 DEF AtLeast

(* Padding with zeros: keys have IdLength bytes at least. *)
LEMMA LowerKeyIs ==
    ASSUME NEW b \in Seq(Bytes)
    PROVE  /\ LowerKey(b) \in Seq(Bytes)
           /\ Len(LowerKey(b)) = IF Len(b) < IdLength THEN IdLength ELSE Len(b)
           /\ \A i \in 1..Len(b) : LowerKey(b)[i] = b[i]
           /\ \A i \in 1..Len(LowerKey(b)) : i > Len(b) => LowerKey(b)[i] = 0
  <1> DEFINE m == IF Len(b) < IdLength THEN IdLength - Len(b) ELSE 0
             pad == [i \in 1..m |-> 0]
  <1>1. Len(b) \in Nat /\ IdLength \in Nat /\ 0 \in Bytes
    BY StringFacts, ScansAssumption DEF Bytes
  <1>2. m \in Nat /\ Len(b) + m = IF Len(b) < IdLength THEN IdLength ELSE Len(b)
    BY <1>1
  <1> HIDE DEF m
  <1>3. pad \in Seq(Bytes) /\ Len(pad) = m /\ \A i \in 1..m : pad[i] = 0
    BY <1>1, <1>2
  <1>4. LowerKey(b) = b \o pad
    BY DEF LowerKey, m
  <1> HIDE DEF pad
  <1>5. /\ b \o pad \in Seq(Bytes) /\ Len(b \o pad) = Len(b) + m
        /\ \A i \in 1..(Len(b) + m) :
              (b \o pad)[i] = IF i <= Len(b) THEN b[i] ELSE pad[i - Len(b)]
    BY Zenon, <1>3, ConcatProperties
  <1>6. \A i \in 1..Len(b) : (b \o pad)[i] = b[i]
    BY <1>1, <1>2, <1>5
  <1>7. ASSUME NEW i \in 1..(Len(b) + m), i > Len(b) PROVE (b \o pad)[i] = 0
    <2>1. i - Len(b) \in 1..m /\ ~(i <= Len(b))
      BY <1>1, <1>2, <1>7
    <2> QED BY <1>3, <1>5, <2>1
  <1> QED BY <1>2, <1>4, <1>5, <1>6, <1>7

(* No key is between a byte string and its padded form. *)
LEMMA LowerKeyBound ==
    ASSUME NEW k \in EncodedKeys, NEW b \in Seq(Bytes)
    PROVE  Less(k, LowerKey(b)) <=> Less(k, b)
  <1> DEFINE lower == LowerKey(b)
  <1>1. /\ lower \in Seq(Bytes)
        /\ Len(lower) = IF Len(b) < IdLength THEN IdLength ELSE Len(b)
        /\ \A i \in 1..Len(b) : lower[i] = b[i]
        /\ \A i \in 1..Len(lower) : i > Len(b) => lower[i] = 0
    BY LowerKeyIs
  <1> HIDE DEF lower
  <1>2. k \in Seq(Bytes) /\ Len(k) >= IdLength
    BY ScansAssumption
  <1>3. /\ Len(k) \in Nat /\ Len(b) \in Nat /\ IdLength \in Nat
        /\ \A i \in 1..Len(k) : k[i] \in Nat
    BY <1>2, StringFacts, ScansAssumption
  <1>4. Len(lower) \in Nat /\ Len(lower) >= Len(b)
    BY <1>1, <1>3
  <1>5. ASSUME Less(k, b) PROVE Less(k, lower)
    <2>1. PICK n \in 0..Len(k) : /\ n < Len(b) /\ \A i \in 1..n : k[i] = b[i]
                                 /\ n < Len(k) => k[n + 1] < b[n + 1]
      BY <1>5 DEF Less
    <2>2. n < Len(lower) /\ 1..n \subseteq 1..Len(b) /\ n + 1 \in 1..Len(b)
      BY <1>3, <1>4, <2>1
    <2>3. \A i \in 1..n : k[i] = lower[i]
      BY <1>1, <2>1, <2>2
    <2>4. lower[n + 1] = b[n + 1]
      BY <1>1, <2>2
    <2> QED BY <2>1, <2>2, <2>3, <2>4 DEF Less
  <1>6. ASSUME Less(k, lower) PROVE Less(k, b)
    <2>1. PICK n \in 0..Len(k) : /\ n < Len(lower) /\ \A i \in 1..n : k[i] = lower[i]
                                 /\ n < Len(k) => k[n + 1] < lower[n + 1]
      BY <1>6 DEF Less
    <2>2. n < Len(b)
      <3> SUFFICES ASSUME ~(n < Len(b)) PROVE FALSE
        OBVIOUS
      <3>1. n < Len(k) /\ n + 1 \in 1..Len(k) /\ n + 1 \in 1..Len(lower) /\ n + 1 > Len(b)
        BY <1>1, <1>2, <1>3, <2>1
      <3>2. lower[n + 1] = 0 /\ k[n + 1] \in Nat /\ k[n + 1] < lower[n + 1]
        BY <1>1, <1>3, <2>1, <3>1
      <3> QED BY <3>2
    <2>3. 1..n \subseteq 1..Len(b) /\ n + 1 \in 1..Len(b)
      BY <1>3, <2>1, <2>2
    <2>4. \A i \in 1..n : k[i] = b[i]
      BY <1>1, <2>1, <2>3
    <2>5. lower[n + 1] = b[n + 1]
      BY <1>1, <2>3
    <2> QED BY <2>1, <2>2, <2>4, <2>5 DEF Less
  <1> QED BY <1>5, <1>6 DEF lower

(* The byte string that ends the keys with a prefix: what Successor pads. *)
Bumped(p, i) == Append(SubSeq(p, 1, i - 1), p[i] + 1)

LEMMA BumpedIs ==
    ASSUME NEW p \in Seq(Bytes), NEW i \in 1..Len(p), p[i] # MaxByte
    PROVE  /\ Bumped(p, i) \in Seq(Bytes) /\ Len(Bumped(p, i)) = i
           /\ Bumped(p, i)[i] = p[i] + 1
           /\ \A j \in 1..(i - 1) : Bumped(p, i)[j] = p[j]
  <1> DEFINE front == SubSeq(p, 1, i - 1)
  <1>1. Len(p) \in Nat /\ p[i] \in Nat /\ p[i] <= MaxByte /\ MaxByte \in Nat /\ i \in Nat
    BY StringFacts, ScansAssumption
  <1>2. p[i] + 1 \in Bytes
    BY <1>1 DEF Bytes
  <1>3. front \in Seq(Bytes) /\ Len(front) = i - 1 /\ \A j \in 1..(i - 1) : front[j] = p[j]
    <2>1. \A j \in 1..(i - 1) : p[j] \in Bytes
      BY <1>1
    <2>2. 1 \in Int /\ i - 1 \in Int /\ (i - 1) - 1 + 1 = i - 1
      BY <1>1
    <2>3. /\ front \in Seq(Bytes)
          /\ Len(front) = IF 1 <= i - 1 THEN (i - 1) - 1 + 1 ELSE 0
          /\ \A j \in 1..((i - 1) - 1 + 1) : front[j] = p[1 + j - 1]
      BY <2>1, <2>2, SubSeqProperties
    <2> QED BY <1>1, <2>2, <2>3
  <1> HIDE DEF front
  <1>4. Bumped(p, i) = Append(front, p[i] + 1)
    BY DEF Bumped, front
  <1> QED BY <1>1, <1>2, <1>3, <1>4

LEMMA BumpedEndsPrefix ==
    ASSUME NEW k \in Seq(Bytes), NEW p \in Seq(Bytes), NEW i \in 1..Len(p), p[i] # MaxByte,
           \A j \in 1..Len(p) : p[j] # MaxByte => j <= i
    PROVE  HasPrefix(k, p) <=> AtLeast(k, p) /\ Less(k, Bumped(p, i))
  <1> DEFINE end == Bumped(p, i)
  <1>1. /\ end \in Seq(Bytes) /\ Len(end) = i /\ end[i] = p[i] + 1
        /\ \A j \in 1..(i - 1) : end[j] = p[j]
    BY BumpedIs
  <1> HIDE DEF end
  <1>2. /\ Len(k) \in Nat /\ Len(p) \in Nat /\ i \in Nat /\ i <= Len(p) /\ i >= 1
        /\ \A j \in 1..Len(p) : p[j] \in Nat /\ p[j] <= MaxByte
        /\ \A j \in 1..Len(k) : k[j] \in Nat /\ k[j] <= MaxByte
    BY StringFacts
  <1>3. ASSUME HasPrefix(k, p) PROVE AtLeast(k, p) /\ Less(k, end)
    <2>1. Len(p) <= Len(k) /\ \A j \in 1..Len(p) : k[j] = p[j]
      BY <1>3, StringFacts DEF HasPrefix
    <2>2. i - 1 \in 0..Len(k) /\ i - 1 < Len(end) /\ (i - 1) + 1 = i
      BY <1>1, <1>2, <2>1
    <2>3. \A j \in 1..(i - 1) : k[j] = end[j]
      BY <1>1, <1>2, <2>1
    <2>4. k[i] < end[i]
      BY <1>1, <1>2, <2>1
    <2>5. Less(k, end)
      BY <2>2, <2>3, <2>4 DEF Less
    <2> QED BY <1>3, <2>5, PrefixFirst
  <1>4. ASSUME AtLeast(k, p), Less(k, end), ~HasPrefix(k, p) PROVE FALSE
    <2>1. PICK n \in Nat : /\ n < Len(p) /\ n < Len(k) /\ p[n + 1] < k[n + 1]
                           /\ \A j \in 1..n : k[j] = p[j]
      BY <1>4, BeyondPrefix
    <2>2. n + 1 \in 1..Len(p) /\ n + 1 \in 1..Len(k)
      BY <1>2, <2>1
    <2>3. k[n + 1] \in Nat /\ p[n + 1] \in Nat /\ k[n + 1] <= MaxByte /\ MaxByte \in Nat
      BY <1>2, <2>2, ScansAssumption
    <2>4. p[n + 1] # MaxByte
      BY <2>1, <2>3
    <2>5. n + 1 <= i
      BY <2>2, <2>4
    <2>6. n \in 0..Len(end) /\ n < Len(k) /\ n < Len(end) /\ 1..n \subseteq 1..(i - 1)
      BY <1>1, <1>2, <2>1, <2>5
    <2>7. \A j \in 1..n : end[j] = k[j]
      BY <1>1, <2>1, <2>6
    <2>8. CASE end[n + 1] < k[n + 1]
      <3>1. Less(end, k)
        BY <2>6, <2>7, <2>8 DEF Less
      <3> QED BY <1>1, <1>4, <3>1, LessAsymmetric
    <2>9. CASE ~(end[n + 1] < k[n + 1])
      <3>1. n + 1 = i
        <4> SUFFICES ASSUME n + 1 # i PROVE FALSE
          OBVIOUS
        <4>1. n + 1 \in 1..(i - 1)
          BY <1>2, <2>1, <2>5
        <4> QED BY <1>1, <2>1, <2>9, <4>1
      <3>2. end[i] = k[i]
        BY <1>1, <2>1, <2>3, <2>9, <3>1
      <3>3. Len(end) <= Len(k)
        BY <1>1, <2>2, <3>1
      <3>4. \A j \in 1..Len(end) : k[j] = end[j]
        BY <1>1, <1>2, <2>7, <3>1, <3>2
      <3>5. HasPrefix(k, end)
        BY <1>1, <3>3, <3>4, StringFacts DEF HasPrefix
      <3> QED BY <1>1, <1>4, <3>5, PrefixFirst DEF AtLeast
    <2> QED BY <2>8, <2>9
  <1> QED BY <1>3, <1>4 DEF end

(* Without a byte that can be incremented nothing follows the prefix. *)
LEMMA NothingBeyond ==
    ASSUME NEW k \in Seq(Bytes), NEW p \in Seq(Bytes), \A j \in 1..Len(p) : p[j] = MaxByte
    PROVE  HasPrefix(k, p) <=> AtLeast(k, p)
  <1> SUFFICES ASSUME AtLeast(k, p), ~HasPrefix(k, p) PROVE FALSE
    BY PrefixFirst
  <1>1. PICK n \in Nat : n < Len(p) /\ n < Len(k) /\ p[n + 1] < k[n + 1]
    BY BeyondPrefix
  <1>2. n + 1 \in 1..Len(p) /\ n + 1 \in 1..Len(k)
    BY <1>1, StringFacts
  <1>3. k[n + 1] \in Nat /\ k[n + 1] <= MaxByte /\ MaxByte \in Nat
    BY <1>2, StringFacts, ScansAssumption
  <1> QED BY <1>1, <1>2, <1>3

(* CellScan::new: the range of the staged cells is that of the prefix. *)
LEMMA OverlayExact ==
    ASSUME NEW p \in PrefixSet, DOMAIN entries \subseteq EncodedKeys
    PROVE  OverlayRange(p) = {k \in DOMAIN entries : HasPrefix(k, p)}
  <1> DEFINE smaller == {j \in DOMAIN p : p[j] # MaxByte}
  <1>1. p \in Seq(Bytes) /\ Len(p) \in Nat /\ DOMAIN p = 1..Len(p)
    BY StringFacts, ScansAssumption
  <1>2. \A k \in EncodedKeys : k \in Seq(Bytes) /\ (AtLeast(k, LowerKey(p)) <=> AtLeast(k, p))
    BY <1>1, LowerKeyBound, ScansAssumption DEF AtLeast
  <1>3. CASE smaller = {}
    <2>1. Successor(p) = NoKey
      BY <1>3 DEF Successor
    <2>2. \A j \in 1..Len(p) : p[j] = MaxByte
      BY <1>1, <1>3
    <2>3. \A k \in EncodedKeys : HasPrefix(k, p) <=> AtLeast(k, p)
      BY <1>1, <1>2, <2>2, NothingBeyond
    <2> QED BY <1>2, <2>1, <2>3 DEF OverlayRange
  <1>4. CASE smaller # {}
    <2> DEFINE i == Max(smaller)
    <2>1. i \in smaller /\ \A j \in smaller : j <= i
      <3> DEFINE T == {Len(p) - j : j \in smaller}
      <3>1. T \subseteq Nat /\ T # {}
        BY <1>1, <1>4
      <3>2. PICK n \in T : \A m \in T : n <= m
        BY Zenon, <3>1, LeastNatural
      <3>3. PICK x \in smaller : n = Len(p) - x
        BY <3>2
      <3>4. ASSUME NEW j \in smaller PROVE x >= j
        <4>1. Len(p) - j \in T /\ j \in Int /\ x \in Int
          BY <1>1, <3>3
        <4>2. n <= Len(p) - j
          BY <3>2, <4>1
        <4>3. Len(p) \in Int
          BY <1>1
        <4> QED BY <3>3, <4>1, <4>2, <4>3
      <3>5. \E y \in smaller : \A j \in smaller : y >= j
        BY <3>4
      <3>6. i \in smaller /\ \A j \in smaller : i >= j
        BY <3>5 DEF Max
      <3>7. smaller \subseteq Int
        BY <1>1
      <3> QED BY <3>6, <3>7
    <2> HIDE DEF i
    <2>2. i \in 1..Len(p) /\ p[i] # MaxByte /\ \A j \in 1..Len(p) : p[j] # MaxByte => j <= i
      BY <1>1, <2>1
    <2>3. Bumped(p, i) \in Seq(Bytes)
      BY <1>1, <2>2, BumpedIs
    <2>4. Successor(p) = LowerKey(Bumped(p, i))
      BY <1>4 DEF Successor, Bumped, i
    <2>5. Successor(p) # NoKey
      BY <2>3, <2>4, LowerKeyIs, ScansAssumption
    <2>6. \A k \in EncodedKeys : Less(k, Successor(p)) <=> Less(k, Bumped(p, i))
      BY <2>3, <2>4, LowerKeyBound
    <2>7. \A k \in EncodedKeys : HasPrefix(k, p) <=> AtLeast(k, p) /\ Less(k, Bumped(p, i))
      BY <1>1, <1>2, <2>2, BumpedEndsPrefix
    <2> QED BY <1>2, <2>5, <2>6, <2>7 DEF OverlayRange
  <1> QED BY <1>3, <1>4

-----------------------------------------------------------------------------
(* storage::Scan. *)

LEMMA BelowDown ==
    ASSUME NEW k \in Seq(Bytes), NEW l \in Seq(Bytes), NEW u \in Bounds,
           AtLeast(k, l), Below(k, u)
    PROVE  Below(l, u)
  <1>1. CASE u = NoKey
    BY <1>1 DEF Below
  <1>2. CASE u # NoKey
    <2>1. u.key \in Seq(Bytes)
      BY <1>2, ScansAssumption DEF Bounds
    <2>2. CASE Less(k, u.key)
      BY <2>1, <2>2, Order DEF Below
    <2>3. CASE u.included /\ k = u.key
      BY <2>1, <2>3, Order DEF Below
    <2> QED BY <1>2, <2>2, <2>3 DEF Below
  <1> QED BY <1>1, <1>2

(* What holds of every scan of a table, range or prefix. *)
ScanOK(s) ==
    /\ s \in [rest : SUBSET EncodedKeys, excluded : Seq(Bytes) \cup {NoKey}, upper : Bounds,
              prefix : Seq(Bytes), done : BOOLEAN]
    /\ \A k \in s.rest : AtLeast(k, s.prefix)
    /\ s.excluded # NoKey => \A k \in s.rest : AtLeast(k, s.excluded)

(* The rows it has still to yield. *)
Pending(s) ==
    {k \in s.rest : /\ ~s.done /\ k # s.excluded
                    /\ Below(k, s.upper) /\ HasPrefix(k, s.prefix)}

LEMMA AdvanceIs ==
    ASSUME NEW s, ScanOK(s)
    PROVE  Advance(s) = {k \in s.rest : k # s.excluded}
  <1>1. s.rest \in SUBSET EncodedKeys /\ s.rest \subseteq Seq(Bytes) /\ NoKey \notin s.rest
    BY ScansAssumption DEF ScanOK
  <1>2. CASE s.excluded = NoKey
    BY <1>1, <1>2 DEF Advance
  <1>3. CASE s.excluded # NoKey /\ s.excluded \in s.rest
    <2>1. s.rest # {} /\ s.excluded \in Seq(Bytes) /\ \A k \in s.rest : AtLeast(k, s.excluded)
      BY <1>1, <1>3 DEF ScanOK
    <2>2. /\ Least(s.rest) \in s.rest /\ Least(s.rest) \in Seq(Bytes)
          /\ AtLeast(s.excluded, Least(s.rest))
      BY <1>1, <1>3, <2>1, LeastIs
    <2>3. AtLeast(Least(s.rest), s.excluded)
      BY <2>1, <2>2
    <2>4. Least(s.rest) = s.excluded
      BY <2>1, <2>2, <2>3, LessTotal DEF AtLeast
    <2>5. Advance(s) = s.rest \ {s.excluded}
      BY <1>3, <2>1, <2>4 DEF Advance
    <2> QED BY <2>5
  <1>4. CASE s.excluded \notin s.rest
    <2>1. s.rest # {} => Least(s.rest) \in s.rest
      BY <1>1, LeastIs
    <2>2. Advance(s) = s.rest
      BY <1>4, <2>1 DEF Advance
    <2> QED BY <1>4, <2>2
  <1> QED BY <1>2, <1>3, <1>4

(* Scan::next yields the first pending row and leaves the others; without one it
   ends, and stays so. *)
LEMMA NextIs ==
    ASSUME NEW s, ScanOK(s)
    PROVE  /\ ScanOK(ScanNext(s).scan)
           /\ Pending(s) = {} => ScanNext(s).row = NoKey /\ Pending(ScanNext(s).scan) = {}
           /\ Pending(s) # {} =>
                 /\ ScanNext(s).row \in Pending(s)
                 /\ \A k \in Pending(s) \ {ScanNext(s).row} : Less(ScanNext(s).row, k)
                 /\ Pending(ScanNext(s).scan) = Pending(s) \ {ScanNext(s).row}
  <1> DEFINE rest == Advance(s)
             first == Least(rest)
             ends == \/ s.done \/ rest = {}
                     \/ ~Below(first, s.upper) \/ ~HasPrefix(first, s.prefix)
             over == [s EXCEPT !.done = TRUE]
             after == [s EXCEPT !.rest = rest \ {first}, !.excluded = NoKey]
  <1>1. /\ s \in [rest : SUBSET EncodedKeys, excluded : Seq(Bytes) \cup {NoKey}, upper : Bounds,
                   prefix : Seq(Bytes), done : BOOLEAN]
        /\ s.rest \in SUBSET EncodedKeys /\ s.upper \in Bounds /\ s.prefix \in Seq(Bytes)
        /\ \A k \in s.rest : AtLeast(k, s.prefix)
        /\ s.rest \subseteq Seq(Bytes) /\ NoKey \notin s.rest
    BY ScansAssumption DEF ScanOK
  <1>2. rest = {k \in s.rest : k # s.excluded}
    BY AdvanceIs
  <1>3. ScanNext(s) = IF ends THEN [scan |-> over, row |-> NoKey]
                      ELSE [scan |-> after, row |-> first]
    BY DEF ScanNext
  <1>4. rest # {} => /\ first \in rest /\ first \in Seq(Bytes)
                     /\ \A k \in rest : AtLeast(k, first)
                     /\ \A k \in rest \ {first} : Less(first, k)
    BY Zenon, <1>1, <1>2, LeastIs
  <1>5. Pending(s) = {k \in rest : ~s.done /\ Below(k, s.upper) /\ HasPrefix(k, s.prefix)}
    BY <1>2 DEF Pending
  <1>6. /\ over.rest = s.rest /\ over.excluded = s.excluded /\ over.upper = s.upper
        /\ over.prefix = s.prefix /\ over.done
        /\ over \in [rest : SUBSET EncodedKeys, excluded : Seq(Bytes) \cup {NoKey},
                     upper : Bounds, prefix : Seq(Bytes), done : BOOLEAN]
    BY Zenon, <1>1
  <1>7. /\ after.rest = rest \ {first} /\ after.excluded = NoKey /\ after.upper = s.upper
        /\ after.prefix = s.prefix /\ after.done = s.done
        /\ after \in [rest : SUBSET EncodedKeys, excluded : Seq(Bytes) \cup {NoKey},
                      upper : Bounds, prefix : Seq(Bytes), done : BOOLEAN]
    BY Zenon, <1>1, <1>2
  <1> HIDE DEF rest, first, over, after
  <1>8. CASE ends
    <2>1. Pending(s) = {}
      <3> SUFFICES ASSUME NEW k \in Pending(s) PROVE FALSE
        OBVIOUS
      <3>1. k \in rest /\ ~s.done /\ Below(k, s.upper) /\ HasPrefix(k, s.prefix)
        BY <1>5
      <3>2. /\ first \in Seq(Bytes) /\ k \in Seq(Bytes) /\ AtLeast(k, first)
            /\ AtLeast(first, s.prefix)
        BY <1>1, <1>2, <1>4, <3>1
      <3>3. Below(first, s.upper)
        BY <1>1, <3>1, <3>2, BelowDown
      <3>4. HasPrefix(first, s.prefix)
        BY <1>1, <3>1, <3>2, PrefixConsecutive
      <3> QED BY <1>8, <3>1, <3>3, <3>4
    <2>2. ScanNext(s).scan = over /\ ScanNext(s).row = NoKey
      BY <1>3, <1>8
    <2>3. ScanOK(over)
      BY <1>6 DEF ScanOK
    <2>4. Pending(over) = {}
      BY <1>6 DEF Pending
    <2> QED BY <2>1, <2>2, <2>3, <2>4
  <1>9. CASE ~ends
    <2>1. ScanNext(s).scan = after /\ ScanNext(s).row = first
      BY <1>3, <1>9
    <2>2. first \in Pending(s)
      BY <1>4, <1>5, <1>9
    <2>3. \A k \in Pending(s) \ {first} : Less(first, k)
      BY <1>4, <1>5, <1>9
    <2>4. ScanOK(after)
      <3>1. \A k \in after.rest : AtLeast(k, after.prefix)
        BY <1>1, <1>2, <1>7
      <3> QED BY <1>7, <3>1 DEF ScanOK
    <2>5. Pending(after) = Pending(s) \ {first}
      BY Zenon, <1>1, <1>2, <1>5, <1>7 DEF Pending
    <2> QED BY <2>1, <2>2, <2>3, <2>4, <2>5
  <1> QED BY Zenon, <1>8, <1>9

-----------------------------------------------------------------------------
(* The invariant: what is wanted has been yielded or is still ahead. *)

Wanted == IF query.kind = "range" THEN InRange
          ELSE {k \in Shown : HasPrefix(k, query.prefix)}

Yielded == {out[i] : i \in DOMAIN out}

(* Keys the scan has still to meet, and of these the ones it will yield. *)
Ahead == Pending(scan) \cup overlay

Visible(k) == k \in DOMAIN entries => entries[k]

ScanInv ==
    /\ query.kind \in {"range", "prefix"}
    /\ rows \subseteq EncodedKeys /\ DOMAIN entries \subseteq EncodedKeys
    /\ ScanOK(scan)
    /\ overlay \subseteq DOMAIN entries
    /\ \A k \in Pending(scan) : k \in DOMAIN entries => k \in overlay
    /\ query.kind = "range" => overlay = {}
    /\ out \in Seq(EncodedKeys)
    /\ \A i, j \in 1..Len(out) : i < j => Less(out[i], out[j])
    /\ \A i \in 1..Len(out) : \A k \in Ahead : Less(out[i], k)
    /\ Wanted = Yielded \cup {k \in Ahead : Visible(k)}
    /\ done = "None" => Ahead = {}

LEMMA InvImpliesExact == ScanInv => ScansAreExact
  <1> SUFFICES ASSUME ScanInv PROVE YieldsExactly(Wanted)
    BY DEF ScansAreExact, Wanted, ScanInv
  <1>1. out \in Seq(EncodedKeys) /\ DOMAIN out = 1..Len(out)
    BY DEF ScanInv
  <1>2. \A i, j \in DOMAIN out : i < j => Less(out[i], out[j])
    BY <1>1 DEF ScanInv
  <1>3. Yielded \subseteq Wanted /\ \A k \in Wanted \ Yielded : k \in Ahead
    BY DEF ScanInv
  <1>4. \A k \in Wanted \ Yielded : \A i \in DOMAIN out : Less(out[i], k)
    BY <1>1, <1>3 DEF ScanInv
  <1>5. done = "None" => Yielded = Wanted
    BY <1>3 DEF ScanInv
  <1> QED BY <1>2, <1>3, <1>4, <1>5 DEF YieldsExactly, Yielded

(* A scan of a table meets the rows in its bounds and with its prefix. *)
LEMMA RangeOpens ==
    ASSUME rows \subseteq EncodedKeys, NEW lower \in Bounds, NEW upper \in Bounds,
           NEW s, s = OpenRange(rows, lower, upper)
    PROVE  ScanOK(s) /\ Pending(s) = {k \in rows : Above(k, lower) /\ Below(k, upper)}
  <1>1. rows \subseteq Seq(Bytes) /\ NoKey \notin rows /\ <<>> \in Seq(Bytes)
    BY ScansAssumption
  <1>2. lower # NoKey => lower.key \in Seq(Bytes) /\ lower.included \in BOOLEAN
    BY ScansAssumption DEF Bounds
  <1>3. upper # NoKey => upper.key \in Seq(Bytes) /\ upper.included \in BOOLEAN
    BY ScansAssumption DEF Bounds
  <1>4. \A k \in rows : HasPrefix(k, <<>>) /\ AtLeast(k, <<>>)
    <2> TAKE k \in rows
    <2>1. k \in Seq(Bytes) /\ Len(k) \in Nat
      BY <1>1, StringFacts
    <2>2. HasPrefix(k, <<>>)
      BY <2>1 DEF HasPrefix
    <2> QED BY Zenon, <1>1, <2>1, <2>2, PrefixFirst
  <1>5. /\ s.rest = {k \in rows : lower = NoKey \/ AtLeast(k, lower.key)}
        /\ s.excluded = IF lower # NoKey /\ ~lower.included THEN lower.key ELSE NoKey
        /\ s.upper = upper /\ s.prefix = <<>>
        /\ s.done <=> /\ lower # NoKey /\ upper # NoKey /\ lower.key = upper.key
                      /\ ~(lower.included /\ upper.included)
    BY DEF OpenRange
  <1>6. s \in [rest : SUBSET EncodedKeys, excluded : Seq(Bytes) \cup {NoKey}, upper : Bounds,
               prefix : Seq(Bytes), done : BOOLEAN]
    BY <1>1, <1>2 DEF OpenRange
  <1>7. s.excluded # NoKey => \A k \in s.rest : AtLeast(k, s.excluded)
    BY <1>5
  <1>8. ScanOK(s)
    BY <1>4, <1>5, <1>6, <1>7 DEF ScanOK
  <1>9. ASSUME NEW k \in rows PROVE k \in Pending(s) <=> Above(k, lower) /\ Below(k, upper)
    <2>1. k \in Pending(s) <=> /\ lower = NoKey \/ AtLeast(k, lower.key)
                               /\ ~s.done /\ k # s.excluded /\ Below(k, upper)
      BY <1>4, <1>5 DEF Pending
    <2>2. Above(k, lower) <=> (lower = NoKey \/ AtLeast(k, lower.key)) /\ k # s.excluded
      <3>1. CASE lower = NoKey
        BY <1>1, <1>5, <3>1 DEF Above
      <3>2. CASE lower # NoKey
        <4>1. /\ Less(lower.key, k) => AtLeast(k, lower.key) /\ k # lower.key
              /\ AtLeast(k, lower.key) /\ k # lower.key => Less(lower.key, k)
              /\ k = lower.key => AtLeast(k, lower.key)
          BY Zenon, <1>1, <1>2, <3>2, Order DEF AtLeast
        <4>2. lower.included => s.excluded = NoKey
          BY <1>5
        <4>3. ~lower.included => s.excluded = lower.key
          BY <1>5, <3>2
        <4> QED BY <1>1, <3>2, <4>1, <4>2, <4>3 DEF Above
      <3> QED BY <3>1, <3>2
    <2>3. Above(k, lower) /\ Below(k, upper) => ~s.done
      <3> SUFFICES ASSUME Above(k, lower), Below(k, upper), s.done PROVE FALSE
        OBVIOUS
      <3>1. /\ lower # NoKey /\ upper # NoKey /\ lower.key = upper.key
            /\ ~(lower.included /\ upper.included)
        BY Zenon, <1>5
      <3>2. /\ Less(lower.key, k) \/ (lower.included /\ k = lower.key)
            /\ Less(k, lower.key) \/ (upper.included /\ k = lower.key)
        BY Zenon, <3>1 DEF Above, Below
      <3>3. ~Less(k, k) /\ ~(Less(lower.key, k) /\ Less(k, lower.key))
        BY <1>1, <1>2, <3>1, Order, LessAsymmetric
      <3> QED BY <3>1, <3>2, <3>3
    <2> QED BY <2>1, <2>2, <2>3
  <1>10. Pending(s) \subseteq rows
    BY <1>5 DEF Pending
  <1> QED BY <1>8, <1>9, <1>10

LEMMA PrefixOpens ==
    ASSUME rows \subseteq EncodedKeys, NEW p \in PrefixSet, NEW s, s = OpenPrefix(rows, p)
    PROVE  ScanOK(s) /\ Pending(s) = {k \in rows : HasPrefix(k, p)}
  <1>1. rows \subseteq Seq(Bytes) /\ NoKey \notin rows /\ p \in Seq(Bytes)
    BY ScansAssumption
  <1>2. /\ s.rest = {k \in rows : AtLeast(k, p)} /\ s.excluded = NoKey /\ s.upper = NoKey
        /\ s.prefix = p /\ ~s.done
        /\ s \in [rest : SUBSET EncodedKeys, excluded : Seq(Bytes) \cup {NoKey}, upper : Bounds,
                  prefix : Seq(Bytes), done : BOOLEAN]
    BY <1>1 DEF OpenPrefix, Bounds
  <1>3. ScanOK(s)
    BY <1>2 DEF ScanOK
  <1>4. \A k \in rows : HasPrefix(k, p) => AtLeast(k, p)
    BY <1>1, PrefixFirst
  <1>5. Pending(s) = {k \in rows : HasPrefix(k, p)}
    BY <1>1, <1>2, <1>4 DEF Pending, Below
  <1> QED BY <1>3, <1>5

LEMMA InvInit == ScanInit => ScanInv
  <1> SUFFICES ASSUME ScanInit PROVE ScanInv
    OBVIOUS
  <1>1. rows \subseteq EncodedKeys /\ out = <<>> /\ done = "no"
    BY DEF ScanInit
  <1>2. /\ out \in Seq(EncodedKeys) /\ Len(out) = 0 /\ Yielded = {}
        /\ 1..Len(out) = {}
    BY <1>1 DEF Yielded
  <1>3. CASE InitRange
    <2>1. /\ query.kind = "range" /\ query.lower \in Bounds /\ query.upper \in Bounds
          /\ DOMAIN entries = {} /\ overlay = {}
          /\ scan = OpenRange(rows, query.lower, query.upper)
      BY <1>3 DEF InitRange
    <2>2. ScanOK(scan) /\ Pending(scan) = InRange
      BY <1>1, <2>1, RangeOpens DEF InRange
    <2>3. Ahead = InRange /\ Wanted = InRange /\ \A k : Visible(k)
      BY <2>1, <2>2 DEF Ahead, Wanted, Visible
    <2> QED BY Zenon, <1>1, <1>2, <2>1, <2>2, <2>3 DEF ScanInv
  <1>4. CASE InitMerged
    <2>1. /\ query.kind = "prefix" /\ query.prefix \in PrefixSet /\ entries \in Staged
          /\ overlay = OverlayRange(query.prefix)
          /\ scan = OpenPrefix(rows, query.prefix)
      BY <1>4 DEF InitMerged
    <2>2. PICK ks \in SUBSET EncodedKeys : entries \in [ks -> BOOLEAN]
      BY <2>1 DEF Staged
    <2>3. DOMAIN entries \subseteq EncodedKeys
      BY <2>2
    <2>4. ScanOK(scan) /\ Pending(scan) = {k \in rows : HasPrefix(k, query.prefix)}
      BY <1>1, <2>1, PrefixOpens
    <2>5. overlay = {k \in DOMAIN entries : HasPrefix(k, query.prefix)}
      BY <2>1, <2>3, OverlayExact
    <2>6. Wanted = {k \in Ahead : Visible(k)}
      BY <2>1, <2>4, <2>5 DEF Wanted, Shown, Ahead, Visible
    <2>7. \A k \in Pending(scan) : k \in DOMAIN entries => k \in overlay
      BY <2>4, <2>5
    <2> QED BY Zenon, <1>1, <1>2, <2>1, <2>3, <2>4, <2>5, <2>6, <2>7 DEF ScanInv
  <1> QED BY <1>3, <1>4 DEF ScanInit

(* The first key ahead is taken: it is yielded, or was deleted. *)
LEMMA Taken ==
    ASSUME ScanInv, NEW x \in Ahead, \A k \in Ahead \ {x} : Less(x, k),
           UNCHANGED <<rows, entries, query, done>>,
           ScanOK(scan'), overlay' \subseteq overlay,
           \A k \in Pending(scan') : k \in DOMAIN entries => k \in overlay',
           Ahead' = Ahead \ {x},
           \/ Visible(x) /\ out' = Append(out, x)
           \/ ~Visible(x) /\ out' = out
    PROVE  ScanInv'
  <1>1. Wanted' = Wanted /\ \A k : Visible(k)' <=> Visible(k)
    BY DEF Wanted, Visible, InRange, Shown
  <1>2. x \in EncodedKeys
    BY Zenon DEF Ahead, ScanInv, Pending, ScanOK
  <1>3. out \in Seq(EncodedKeys) /\ Len(out) \in Nat
    BY DEF ScanInv
  <1>4. done' # "None"
    BY Zenon DEF ScanInv
  <1>5. /\ ScanOK(scan)'
        /\ (\A k \in Pending(scan) : k \in DOMAIN entries => k \in overlay)'
    BY Zenon DEF ScanOK, Pending
  <1>6. CASE ~Visible(x) /\ out' = out
    <2>1. Yielded' = Yielded
      BY Zenon, <1>6 DEF Yielded
    <2>2. {k \in Ahead' : Visible(k)'} = {k \in Ahead : Visible(k)}
      BY <1>1, <1>6
    <2>3. (Wanted = Yielded \cup {k \in Ahead : Visible(k)})'
      BY <1>1, <2>1, <2>2 DEF ScanInv
    <2>4. \A i \in 1..Len(out') : \A k \in Ahead' : Less(out'[i], k)
      BY Zenon, <1>6 DEF ScanInv
    <2>5. out' \in Seq(EncodedKeys)
      BY <1>3, <1>6
    <2>6. \A i, j \in 1..Len(out') : i < j => Less(out'[i], out'[j])
      BY Zenon, <1>6 DEF ScanInv
    <2> QED BY Zenon, <1>4, <1>5, <2>3, <2>4, <2>5, <2>6 DEF ScanInv, Less
  <1>7. CASE Visible(x) /\ out' = Append(out, x)
    <2>1. /\ out' \in Seq(EncodedKeys) /\ Len(out') = Len(out) + 1 /\ out'[Len(out) + 1] = x
          /\ \A i \in 1..Len(out) : out'[i] = out[i]
      BY <1>2, <1>3, <1>7
    <2>2. \A i \in 1..Len(out') : i \in 1..Len(out) \/ i = Len(out) + 1
      BY <1>3, <2>1
    <2>3. Yielded' = Yielded \cup {x}
      <3>1. DOMAIN out = 1..Len(out) /\ DOMAIN out' = 1..Len(out')
        BY <1>3, <2>1
      <3>2. Len(out) + 1 \in 1..Len(out') /\ 1..Len(out) \subseteq 1..Len(out')
        BY <1>3, <2>1
      <3> QED BY Zenon, <2>1, <2>2, <3>1, <3>2 DEF Yielded
    <2>4. {k \in Ahead : Visible(k)} = {k \in Ahead' : Visible(k)'} \cup {x}
      BY <1>1, <1>7
    <2>5. (Wanted = Yielded \cup {k \in Ahead : Visible(k)})'
      BY Zenon, <1>1, <2>3, <2>4 DEF ScanInv
    <2>6. \A i \in 1..Len(out) : Less(out[i], x) /\ \A k \in Ahead : Less(out[i], k)
      BY DEF ScanInv
    <2>7. \A i \in 1..Len(out') : \A k \in Ahead' : Less(out'[i], k)
      BY <2>1, <2>2, <2>6
    <2>8. ASSUME NEW i \in 1..Len(out'), NEW j \in 1..Len(out'), i < j
          PROVE  Less(out'[i], out'[j])
      <3>1. i \in 1..Len(out)
        BY <1>3, <2>1, <2>8
      <3>2. CASE j = Len(out) + 1
        BY <2>1, <2>6, <3>1, <3>2
      <3>3. CASE j \in 1..Len(out)
        BY Zenon, <2>1, <2>8, <3>1, <3>3 DEF ScanInv
      <3> QED BY <2>2, <3>2, <3>3
    <2> QED BY ZenonT(30), <1>4, <1>5, <2>1, <2>5, <2>7, <2>8 DEF ScanInv, Less
  <1> QED BY <1>6, <1>7

(* Nothing is ahead: the scan ends. *)
LEMMA Ended ==
    ASSUME ScanInv, Ahead = {}, Ahead' = {}, ScanOK(scan'),
           UNCHANGED <<rows, entries, query, out>>, overlay' = {}
    PROVE  ScanInv'
  <1>1. Wanted' = Wanted /\ Yielded' = Yielded /\ \A k : Visible(k)' <=> Visible(k)
    BY Zenon DEF Wanted, Visible, InRange, Shown, Yielded
  <1>2. Pending(scan)' = {}
    BY DEF Ahead
  <1>3. ScanOK(scan)'
    BY DEF ScanOK
  <1>4. (Wanted = Yielded \cup {k \in Ahead : Visible(k)})'
    BY <1>1 DEF ScanInv
  <1>5. /\ (query.kind \in {"range", "prefix"})'
        /\ (rows \subseteq EncodedKeys /\ DOMAIN entries \subseteq EncodedKeys)'
        /\ (out \in Seq(EncodedKeys))'
        /\ (\A i, j \in 1..Len(out) : i < j => Less(out[i], out[j]))'
    BY DEF ScanInv, Less
  <1>6. /\ (overlay \subseteq DOMAIN entries)'
        /\ (\A k \in Pending(scan) : k \in DOMAIN entries => k \in overlay)'
        /\ (query.kind = "range" => overlay = {})'
    BY Zenon, <1>2
  <1>7. (\A i \in 1..Len(out) : \A k \in Ahead : Less(out[i], k))'
    BY Zenon
  <1> QED BY Zenon, <1>3, <1>4, <1>5, <1>6, <1>7 DEF ScanInv

LEMMA NextRowStep == ASSUME ScanInv, NextRow PROVE ScanInv'
  <1> DEFINE under == ScanNext(scan)
  <1>1. /\ scan' = under.scan /\ overlay' = overlay /\ overlay = {}
        /\ UNCHANGED <<rows, entries, query>>
        /\ out' = IF under.row = NoKey THEN out ELSE Append(out, under.row)
        /\ done' = IF under.row = NoKey THEN "None" ELSE done
    BY Zenon DEF NextRow, Yield, ScanInv
  <1>2. /\ ScanOK(scan')
        /\ Pending(scan) = {} => under.row = NoKey /\ Pending(scan') = {}
        /\ Pending(scan) # {} => /\ under.row \in Pending(scan)
                                 /\ \A k \in Pending(scan) \ {under.row} : Less(under.row, k)
                                 /\ Pending(scan') = Pending(scan) \ {under.row}
    BY Zenon, <1>1, NextIs DEF ScanInv
  <1> HIDE DEF under
  <1>3. Ahead = Pending(scan) /\ Ahead' = Pending(scan')
    BY Zenon, <1>1 DEF Ahead, Pending
  <1>4. CASE Pending(scan) = {}
    BY <1>1, <1>2, <1>3, <1>4, Ended
  <1>5. CASE Pending(scan) # {}
    <2>0. under.row \in Pending(scan)
      BY <1>2, <1>5
    <2>a. under.row \in EncodedKeys
      BY Zenon, <2>0 DEF ScanInv, Pending, ScanOK
    <2>b. under.row \notin DOMAIN entries
      BY Zenon, <1>1, <2>0 DEF ScanInv
    <2>1. under.row \in Ahead /\ under.row # NoKey /\ Visible(under.row)
      BY Zenon, <1>3, <2>0, <2>a, <2>b, ScansAssumption DEF Visible
    <2>2. done' = done /\ out' = Append(out, under.row)
      BY <1>1, <2>1
    <2>3. \A k \in Pending(scan') : k \in DOMAIN entries => k \in overlay'
      BY Zenon, <1>1, <1>2, <1>5 DEF ScanInv
    <2> QED BY ZenonT(30), <1>1, <1>2, <1>3, <1>5, <2>1, <2>2, <2>3, Taken
  <1> QED BY <1>4, <1>5

LEMMA NextCellStep == ASSUME ScanInv, NextCell PROVE ScanInv'
  <1> DEFINE under == ScanNext(scan)
             near == Least(overlay)
             first == overlay # {} /\ (under.row = NoKey \/ AtLeast(under.row, near))
  <1>1. /\ scan' = IF first /\ under.row # near THEN scan ELSE under.scan
        /\ overlay' = IF first THEN overlay \ {near} ELSE overlay
        /\ UNCHANGED <<rows, entries, query>> /\ done = "no"
    BY Zenon DEF NextCell, Yield
  <1>2. /\ first /\ ~entries[near] => out' = out /\ done' = done
        /\ first /\ entries[near] /\ near # NoKey => out' = Append(out, near) /\ done' = done
        /\ ~first /\ under.row # NoKey => out' = Append(out, under.row) /\ done' = done
        /\ ~first /\ under.row = NoKey => out' = out /\ done' = "None"
    BY Zenon DEF NextCell, Yield
  <1>3. /\ ScanOK(under.scan)
        /\ Pending(scan) = {} => under.row = NoKey /\ Pending(under.scan) = {}
        /\ Pending(scan) # {} => /\ under.row \in Pending(scan)
                                 /\ \A k \in Pending(scan) \ {under.row} : Less(under.row, k)
                                 /\ Pending(under.scan) = Pending(scan) \ {under.row}
    BY Zenon, NextIs DEF ScanInv
  <1>4. /\ Pending(scan) \subseteq EncodedKeys /\ overlay \in SUBSET EncodedKeys
        /\ EncodedKeys \subseteq Seq(Bytes) /\ NoKey \notin EncodedKeys
    BY Zenon, ScansAssumption DEF ScanInv, Pending, ScanOK
  <1>5. overlay # {} => /\ near \in overlay /\ near \in Seq(Bytes)
                        /\ \A j \in overlay : AtLeast(j, near)
                        /\ \A j \in overlay \ {near} : Less(near, j)
    BY <1>4, LeastIs
  <1>6. Pending(scan)' = Pending(scan')
    BY DEF Pending
  <1>7. \A k \in Pending(scan) : k \in DOMAIN entries => k \in overlay
    BY DEF ScanInv
  <1>8. overlay \subseteq DOMAIN entries /\ ScanOK(scan)
    BY DEF ScanInv
  <1> HIDE DEF under, near
  <1>9. CASE first
    <2>1. near \in Ahead /\ near # NoKey /\ near \in DOMAIN entries
      BY <1>4, <1>5, <1>8, <1>9 DEF Ahead
    <2>2. \/ Visible(near) /\ out' = Append(out, near) /\ done' = done
          \/ ~Visible(near) /\ out' = out /\ done' = done
      BY Zenon, <1>2, <1>9, <2>1 DEF Visible
    <2>3. \A k \in Pending(scan) \ {near} : Less(near, k)
      <3> SUFFICES ASSUME NEW k \in Pending(scan), k # near PROVE Less(near, k)
        OBVIOUS
      <3>1. /\ under.row \in Seq(Bytes) /\ k \in Seq(Bytes) /\ near \in Seq(Bytes)
            /\ AtLeast(under.row, near)
        BY <1>3, <1>4, <1>5, <1>9
      <3>2. CASE k = under.row
        BY <3>1, <3>2, Order
      <3>3. CASE k # under.row
        BY <1>3, <3>1, <3>3, Order
      <3> QED BY <3>2, <3>3
    <2>4. \A k \in Ahead \ {near} : Less(near, k)
      BY <1>5, <1>9, <2>3 DEF Ahead
    <2>5. overlay' = overlay \ {near}
      BY <1>1, <1>9
    <2>6. CASE under.row # near
      <3>1. scan' = scan /\ ScanOK(scan')
        BY <1>1, <1>8, <1>9, <2>6
      <3>2. near \notin Pending(scan)
        <4> SUFFICES ASSUME near \in Pending(scan) PROVE FALSE
          OBVIOUS
        <4>1. Less(under.row, near) /\ under.row \in Seq(Bytes) /\ near \in Seq(Bytes)
          BY <1>3, <1>4, <2>6
        <4>2. AtLeast(under.row, near)
          BY <1>4, <1>9, <4>1, ScansAssumption
        <4> QED BY <4>1, <4>2 DEF AtLeast
      <3>3. Pending(scan') = Pending(scan)
        BY <3>1
      <3>4. Ahead' = Ahead \ {near}
        BY <1>6, <2>5, <3>2, <3>3 DEF Ahead
      <3>5. \A k \in Pending(scan') : k \in DOMAIN entries => k \in overlay'
        BY <1>7, <2>5, <3>2, <3>3
      <3> QED BY ZenonT(30), <1>1, <2>1, <2>2, <2>4, <2>5, <3>1, <3>4, <3>5, Taken
    <2>7. CASE under.row = near
      <3>1. scan' = under.scan /\ ScanOK(scan')
        BY <1>1, <1>3, <2>7
      <3>2. Pending(scan') = Pending(scan) \ {near}
        BY Zenon, <1>3, <2>1, <2>7, <3>1
      <3>3. Ahead' = Ahead \ {near}
        BY <1>6, <2>5, <3>2 DEF Ahead
      <3>4. \A k \in Pending(scan') : k \in DOMAIN entries => k \in overlay'
        BY <1>7, <2>5, <3>2
      <3> QED BY ZenonT(30), <1>1, <2>1, <2>2, <2>4, <2>5, <3>1, <3>3, <3>4, Taken
    <2> QED BY <2>6, <2>7
  <1>10. CASE ~first /\ under.row = NoKey
    <2>1. Pending(scan) = {} /\ overlay = {}
      BY <1>3, <1>4, <1>10
    <2>2. scan' = under.scan /\ overlay' = {} /\ out' = out
      BY Zenon, <1>1, <1>2, <1>10, <2>1
    <2>3. Ahead = {} /\ Ahead' = {} /\ ScanOK(scan')
      BY <1>3, <1>6, <2>1, <2>2 DEF Ahead
    <2> QED BY <1>1, <2>2, <2>3, Ended
  <1>11. CASE ~first /\ under.row # NoKey
    <2>1. under.row \in Pending(scan) /\ under.row \in Seq(Bytes)
      BY <1>3, <1>4, <1>11
    <2>2. \A k \in overlay : Less(under.row, k)
      <3> SUFFICES ASSUME NEW k \in overlay PROVE Less(under.row, k)
        OBVIOUS
      <3>1. Less(under.row, near) /\ AtLeast(k, near) /\ near \in Seq(Bytes) /\ k \in Seq(Bytes)
        BY <1>4, <1>5, <1>11 DEF AtLeast
      <3> QED BY <2>1, <3>1, Order
    <2>3. \A k \in Ahead \ {under.row} : Less(under.row, k)
      BY <1>3, <2>1, <2>2 DEF Ahead
    <2>4. under.row \notin overlay
      BY <2>1, <2>2, Order
    <2>5. under.row \in Ahead /\ Visible(under.row)
      BY <1>7, <2>1, <2>4 DEF Ahead, Visible
    <2>6. scan' = under.scan /\ overlay' = overlay
      BY <1>1, <1>11
    <2>7. out' = Append(out, under.row) /\ done' = done
      BY Zenon, <1>2, <1>11
    <2>8. ScanOK(scan') /\ Pending(scan') = Pending(scan) \ {under.row}
      BY <1>3, <2>1, <2>6
    <2>9. Ahead' = Ahead \ {under.row}
      BY <1>6, <2>4, <2>6, <2>8 DEF Ahead
    <2>10. \A k \in Pending(scan') : k \in DOMAIN entries => k \in overlay'
      BY <1>7, <2>6, <2>8
    <2> QED BY ZenonT(30), <1>1, <2>3, <2>5, <2>6, <2>7, <2>8, <2>9, <2>10, Taken
  <1> QED BY <1>9, <1>10, <1>11

LEMMA InvStep == ScanInv /\ [ScanStep]_scanVars => ScanInv'
  <1> SUFFICES ASSUME ScanInv, [ScanStep]_scanVars PROVE ScanInv'
    OBVIOUS
  <1>1. ASSUME UNCHANGED <<rows, entries, query, scan, overlay, out>>, done' \in {done, "Error"}
        PROVE  ScanInv'
    <2>1. Wanted' = Wanted /\ Yielded' = Yielded /\ Ahead' = Ahead /\ \A k : Visible(k)' <=> Visible(k)
      BY Zenon, <1>1 DEF Wanted, Visible, InRange, Shown, Yielded, Ahead, Pending
    <2>2. ScanOK(scan)' /\ Pending(scan)' = Pending(scan)
      BY Zenon, <1>1 DEF ScanInv, ScanOK, Pending
    <2> QED BY <1>1, <2>1, <2>2 DEF ScanInv, Less
  <1>2. CASE NextFails
    BY <1>1, <1>2 DEF NextFails
  <1>3. CASE NextFused \/ UNCHANGED scanVars
    BY <1>1, <1>3 DEF NextFused, scanVars
  <1> QED BY <1>2, <1>3, NextRowStep, NextCellStep DEF ScanStep

(* Whatever the rows, the staged cells and the bounds or the prefix: a range scan
   (storage/src/scan.rs) yields the rows in its range and the scan of a branch
   (branch/src/scan.rs) the cells it shows under the prefix, in order, each once
   and with none left out. *)
THEOREM ScansExact == ScanSpec => []ScansAreExact
  <1>1. ScanSpec => []ScanInv
    BY InvInit, InvStep, PTL DEF ScanSpec
  <1> QED BY <1>1, InvImpliesExact, PTL
=============================================================================
