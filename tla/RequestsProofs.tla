----------------------------- MODULE RequestsProofs ------------------------------
(***************************************************************************)
(* Proofs about Requests: what flattening, filtering and cutting do to the *)
(* places of a list's items, and from that the invariant of a request.     *)
(***************************************************************************)
EXTENDS Requests, SequenceTheorems, FiniteSetTheorems, WellFoundedInduction, TLAPS

(***************************************************************************)
(* Lists.                                                                  *)
(***************************************************************************)

\* Induction over the natural numbers, for a set.
LEMMA NatSetInduction ==
  ASSUME NEW S, 0 \in S, \A n \in Nat : n \in S => n + 1 \in S
  PROVE  \A n \in Nat : n \in S
<1>1. SUFFICES ASSUME Nat \ S # {} PROVE FALSE
  OBVIOUS
<1>2. PICK x \in Nat \ S : \A y \in Nat \ S : ~ (<<y, x>> \in OpToRel(<, Nat))
  <2> DEFINE R == OpToRel(<, Nat)
  <2>1. IsWellFoundedOn(R, Nat)
    BY NatLessThanWellFounded
  <2> HIDE DEF R
  <2>2. \E x \in Nat \ S : \A y \in Nat \ S : ~ (<<y, x>> \in R)
    BY <1>1, <2>1, WFMin
  <2> QED
    BY <2>2 DEF R
<1>3. x \in Nat /\ x \notin S
  OBVIOUS
<1>4. x - 1 \in Nat /\ (x - 1) + 1 = x /\ x - 1 < x
  BY <1>3
<1>5. x - 1 \notin S
  BY <1>3, <1>4
<1>6. <<x - 1, x>> \in OpToRel(<, Nat)
  BY <1>3, <1>4 DEF OpToRel
<1> QED
  BY <1>2, <1>4, <1>5, <1>6

\* What FlattenSeq computes with: the lists up to the i-th, one behind the other.
IsFlatten(f, s) == f = [i \in 1 .. Len(s) |-> IF i = 1 THEN s[i] ELSE f[i - 1] \o s[i]]

LEMMA FlattenExists ==
  ASSUME NEW s, Len(s) \in Nat
  PROVE  \E f : IsFlatten(f, s)
<1> DEFINE Up(n, f) == f = [i \in 1 .. n |-> IF i = 1 THEN s[i] ELSE f[i - 1] \o s[i]]
           S == {n \in Nat : \E f : Up(n, f)}
<1>1. 0 \in S
  <2>1. Up(0, [i \in 1 .. 0 |-> s])
    OBVIOUS
  <2> QED
    BY <2>1
<1>2. ASSUME NEW n \in Nat, n \in S PROVE n + 1 \in S
  <2>1. PICK f : Up(n, f)
    BY <1>2
  <2> DEFINE g == [i \in 1 .. n + 1 |-> IF i = n + 1 THEN (IF i = 1 THEN s[i] ELSE f[i - 1] \o s[i]) ELSE f[i]]
  <2>2. \A i \in 1 .. n : f[i] = IF i = 1 THEN s[i] ELSE f[i - 1] \o s[i]
    BY <2>1
  <2>3. \A i \in 1 .. n + 1 : g[i] = IF i = 1 THEN s[i] ELSE g[i - 1] \o s[i]
    <3> TAKE i \in 1 .. n + 1
    <3>1. CASE i = n + 1
      <4>1. g[i] = IF i = 1 THEN s[i] ELSE f[i - 1] \o s[i]
        BY <3>1
      <4>2. i # 1 => i - 1 \in 1 .. n + 1 /\ i - 1 # n + 1
        BY <3>1
      <4>3. i # 1 => g[i - 1] = f[i - 1]
        BY <4>2
      <4> HIDE DEF g
      <4> QED
        BY <4>1, <4>3
    <3>2. CASE i # n + 1
      <4>1. i \in 1 .. n
        BY <3>2
      <4>2. g[i] = f[i]
        BY <3>2
      <4>3. i # 1 => i - 1 \in 1 .. n + 1 /\ i - 1 # n + 1
        BY <4>1
      <4>4. i # 1 => g[i - 1] = f[i - 1]
        BY <4>3
      <4> HIDE DEF g
      <4> QED
        BY <2>2, <4>1, <4>2, <4>4
    <3> QED
      BY <3>1, <3>2
  <2>4. g = [i \in 1 .. n + 1 |-> g[i]]
    OBVIOUS
  <2> HIDE DEF g
  <2>5. Up(n + 1, g)
    BY <2>3, <2>4
  <2>6. n + 1 \in Nat
    OBVIOUS
  <2> HIDE DEF Up
  <2> QED
    BY <2>5, <2>6
<1> HIDE DEF S
<1>3. Len(s) \in S
  BY <1>1, <1>2, NatSetInduction
<1> QED
  BY <1>3 DEF S, IsFlatten

LEMMA FlatIs ==
  ASSUME NEW s, Len(s) \in Nat \ {0}
  PROVE  \E f : Flat(s) = f[Len(s)] /\ \A i \in 1 .. Len(s) : f[i] = IF i = 1 THEN s[i] ELSE f[i - 1] \o s[i]
<1> DEFINE f == CHOOSE g : IsFlatten(g, s)
<1>1. Len(s) # 0
  OBVIOUS
<1>2. Flat(s) = f[Len(s)]
  BY <1>1, Zenon DEF Flat, SE!FlattenSeq, IsFlatten
<1>3. IsFlatten(f, s)
  BY FlattenExists, Zenon
<1> HIDE DEF f
<1>4. \A i \in 1 .. Len(s) : f[i] = IF i = 1 THEN s[i] ELSE f[i - 1] \o s[i]
  BY <1>3 DEF IsFlatten
<1> QED
  BY <1>2, <1>4

LEMMA FlatOfNone ==
  ASSUME NEW T, NEW s \in Seq(Seq(T)), Len(s) = 0
  PROVE  Flat(s) = <<>> /\ Flat(s) \in Seq(T) /\ Len(Flat(s)) = 0
<1>1. s = <<>>
  BY EmptySeq
<1>2. Flat(s) = s
  BY DEF Flat, SE!FlattenSeq
<1> QED
  BY <1>1, <1>2, EmptySeq

\* Flattening keeps what is in the lists, and adds nothing.
LEMMA FlatContent ==
  ASSUME NEW T, NEW s \in Seq(Seq(T))
  PROVE  /\ Flat(s) \in Seq(T)
         /\ \A k \in 1 .. Len(Flat(s)) : \E i \in 1 .. Len(s) : \E j \in 1 .. Len(s[i]) : Flat(s)[k] = s[i][j]
         /\ \A i \in 1 .. Len(s) : \A j \in 1 .. Len(s[i]) :
              \E k \in 1 .. Len(Flat(s)) : Flat(s)[k] = s[i][j]
<1> DEFINE Comes(list, n) == \A k \in 1 .. Len(list) : \E i \in 1 .. n : \E j \in 1 .. Len(s[i]) : list[k] = s[i][j]
           Stays(list, n) == \A i \in 1 .. n : \A j \in 1 .. Len(s[i]) : \E k \in 1 .. Len(list) : list[k] = s[i][j]
           Good(list, n) == list \in Seq(T) /\ Comes(list, n) /\ Stays(list, n)
<1>1. CASE Len(s) = 0
  <2>1. \A k \in 1 .. 0 : FALSE
    OBVIOUS
  <2>2. Flat(s) \in Seq(T) /\ Len(Flat(s)) = 0
    BY <1>1, FlatOfNone
  <2> QED
    BY <1>1, <2>1, <2>2
<1>2. CASE Len(s) # 0
  <2>1. Len(s) \in Nat \ {0} /\ \A i \in 1 .. Len(s) : s[i] \in Seq(T)
    BY <1>2
  <2>2. PICK f : Flat(s) = f[Len(s)] /\ \A i \in 1 .. Len(s) : f[i] = IF i = 1 THEN s[i] ELSE f[i - 1] \o s[i]
    BY <2>1, FlatIs
  <2> DEFINE S == {n \in Nat : n + 1 \in 1 .. Len(s) => Good(f[n + 1], n + 1)}
  <2>3. 0 \in S
    <3>1. 1 \in 1 .. Len(s) /\ f[1] = s[1] /\ s[1] \in Seq(T)
      BY <2>1, <2>2
    <3>2. Comes(s[1], 1)
      <4>1. \A k \in 1 .. Len(s[1]) : s[1][k] = s[1][k] /\ 1 \in 1 .. 1
        OBVIOUS
      <4> QED
        BY <4>1
    <3>3. Stays(s[1], 1)
      OBVIOUS
    <3> HIDE DEF Comes, Stays
    <3> QED
      BY <3>1, <3>2, <3>3
  <2>4. ASSUME NEW n \in Nat, n \in S PROVE n + 1 \in S
    <3>1. SUFFICES ASSUME n + 2 \in 1 .. Len(s) PROVE Good(f[n + 2], n + 2)
      <4>1. (n + 1) + 1 = n + 2 /\ n + 1 \in Nat
        OBVIOUS
      <4> HIDE DEF Good
      <4> QED
        BY <4>1
    <3> DEFINE a == f[n + 1]  b == s[n + 2]
    <3>2. n + 1 \in 1 .. Len(s) /\ (n + 2) - 1 = n + 1 /\ n + 2 # 1
      BY <3>1, <2>1
    <3>3. f[n + 2] = a \o b
      BY <2>2, <3>1, <3>2
    <3>4. Good(a, n + 1)
      <4> HIDE DEF Good
      <4> QED
        BY <2>4, <3>2
    <3>5. a \in Seq(T) /\ b \in Seq(T)
      BY <3>4, <2>1, <3>1
    <3> HIDE DEF a
    <3> DEFINE ab == a \o b
    <3>6. /\ ab \in Seq(T) /\ Len(ab) = Len(a) + Len(b) /\ Len(a) \in Nat /\ Len(b) \in Nat
          /\ \A k \in 1 .. Len(a) + Len(b) : ab[k] = IF k <= Len(a) THEN a[k] ELSE b[k - Len(a)]
      BY <3>5, ConcatProperties
    <3> HIDE DEF ab
    <3>7. Comes(ab, n + 2)
      <4> TAKE k \in 1 .. Len(ab)
      <4>1. CASE k <= Len(a)
        <5>1. k \in 1 .. Len(a) /\ ab[k] = a[k]
          <6> HIDE DEF b, S
          <6>1. k \in 1 .. Len(a) + Len(b) /\ Len(a) \in Nat
            BY <3>6
          <6>2. ab[k] = IF k <= Len(a) THEN a[k] ELSE b[k - Len(a)]
            BY <6>1, <3>6
          <6> QED
            BY <4>1, <6>1, <6>2
        <5>2. \E i \in 1 .. n + 1 : \E j \in 1 .. Len(s[i]) : a[k] = s[i][j]
          BY <3>4, <5>1
        <5>3. \A i \in 1 .. n + 1 : i \in 1 .. n + 2
          OBVIOUS
        <5> QED
          BY <5>1, <5>2, <5>3
      <4>2. CASE ~ (k <= Len(a))
        <5>1. k - Len(a) \in 1 .. Len(b) /\ ab[k] = b[k - Len(a)]
          BY <4>2, <3>6
        <5>2. n + 2 \in 1 .. n + 2
          OBVIOUS
        <5> QED
          BY <5>1, <5>2
      <4> QED
        BY <4>1, <4>2
    <3>8. Stays(ab, n + 2)
      <4> TAKE i \in 1 .. n + 2
      <4> TAKE j \in 1 .. Len(s[i])
      <4>1. CASE i = n + 2
        <5>1. j \in 1 .. Len(b)
          BY <4>1
        <5>2. Len(a) + j \in 1 .. Len(ab) /\ ab[Len(a) + j] = b[j]
          <6> HIDE DEF b, S
          <6>4. Len(a) \in Nat /\ Len(b) \in Nat /\ j \in 1 .. Len(b)
            BY <5>1, <3>6
          <6>1. Len(a) + j \in 1 .. Len(a) + Len(b) /\ ~ (Len(a) + j <= Len(a)) /\ (Len(a) + j) - Len(a) = j
            BY <6>4
          <6>2. Len(a) + j \in 1 .. Len(ab)
            BY <6>1, <3>6
          <6>3. ab[Len(a) + j] = IF Len(a) + j <= Len(a) THEN a[Len(a) + j]
                                 ELSE b[(Len(a) + j) - Len(a)]
            BY <6>1, <3>6
          <6> QED
            BY <6>1, <6>2, <6>3
        <5> QED
          BY <5>2, <4>1
      <4>2. CASE i # n + 2
        <5>1. i \in 1 .. n + 1
          BY <4>2
        <5>2. PICK k \in 1 .. Len(a) : a[k] = s[i][j]
          BY <5>1, <3>4
        <5>3. k \in 1 .. Len(ab) /\ ab[k] = a[k]
          <6> HIDE DEF b, S
          <6>1. Len(a) \in Nat /\ Len(b) \in Nat /\ Len(ab) = Len(a) + Len(b)
            BY <3>6
          <6>2. k \in 1 .. Len(a) + Len(b) /\ k <= Len(a)
            BY <6>1
          <6>3. ab[k] = IF k <= Len(a) THEN a[k] ELSE b[k - Len(a)]
            BY <6>2, <3>6
          <6> QED
            BY <6>1, <6>2, <6>3
        <5> QED
          BY <5>2, <5>3
      <4> QED
        BY <4>1, <4>2
    <3> HIDE DEF Comes, Stays
    <3> QED
      BY <3>3, <3>6, <3>7, <3>8 DEF ab
  <2> HIDE DEF S
  <2>5. Len(s) - 1 \in S
    <3>1. Len(s) - 1 \in Nat
      BY <2>1
    <3> QED
      BY <3>1, <2>3, <2>4, NatSetInduction
  <2>6. Good(f[Len(s)], Len(s))
    <3>1. (Len(s) - 1) + 1 = Len(s) /\ Len(s) \in 1 .. Len(s)
      BY <2>1
    <3> HIDE DEF Good
    <3> QED
      BY <2>5, <3>1 DEF S
  <2>7. Good(Flat(s), Len(s))
    <3> HIDE DEF Good
    <3> QED
      BY <2>2, <2>6
  <2> QED
    BY <2>7
<1> QED
  BY <1>1, <1>2

\* The places of the i-th of some lists of c items each.
LEMMA PlacesOf ==
  ASSUME NEW n \in Nat, NEW c \in Nat, NEW i \in 1 .. n, NEW j \in 1 .. c
  PROVE  (i - 1) * c + j \in 1 .. n * c /\ (i - 1) * c \in Nat /\ n * c \in Nat /\ i * c \in Nat
         /\ i * c = (i - 1) * c + c /\ i * c <= n * c
<1>1. (i - 1) * c \in Nat /\ (n - i) * c \in Nat /\ n * c \in Nat /\ i * c \in Nat
  BY SMT
<1>2. i * c = (i - 1) * c + c
  BY SMT
<1>3. n * c = i * c + (n - i) * c
  BY SMT
<1> QED
  BY <1>1, <1>2, <1>3

\* In the flat list of lists of one length an item is where its list and its place say.
LEMMA FlatOfEven ==
  ASSUME NEW T, NEW s \in Seq(Seq(T)), NEW c \in Nat, \A i \in 1 .. Len(s) : Len(s[i]) = c
  PROVE  /\ Len(Flat(s)) = Len(s) * c
         /\ \A i \in 1 .. Len(s) : \A j \in 1 .. c : Flat(s)[(i - 1) * c + j] = s[i][j]
<1> DEFINE Even(list, n) == /\ list \in Seq(T) /\ Len(list) = n * c
                            /\ \A i \in 1 .. n : \A j \in 1 .. c : list[(i - 1) * c + j] = s[i][j]
<1>1. CASE Len(s) = 0
  <2>1. \A k \in 1 .. 0 : FALSE
    OBVIOUS
  <2>2. Len(Flat(s)) = 0
    BY <1>1, FlatOfNone
  <2>3. 0 * c = 0
    OBVIOUS
  <2> QED
    BY <1>1, <2>1, <2>2, <2>3
<1>2. CASE Len(s) # 0
  <2>1. Len(s) \in Nat \ {0} /\ \A i \in 1 .. Len(s) : s[i] \in Seq(T)
    BY <1>2
  <2>2. PICK f : Flat(s) = f[Len(s)] /\ \A i \in 1 .. Len(s) : f[i] = IF i = 1 THEN s[i] ELSE f[i - 1] \o s[i]
    BY <2>1, FlatIs
  <2> DEFINE S == {n \in Nat : n + 1 \in 1 .. Len(s) => Even(f[n + 1], n + 1)}
  <2>3. 0 \in S
    <3>1. 1 \in 1 .. Len(s) /\ f[1] = s[1] /\ s[1] \in Seq(T) /\ Len(s[1]) = c
      BY <2>1, <2>2
    <3>2. 1 * c = c /\ \A j \in 1 .. c : (1 - 1) * c + j = j
      OBVIOUS
    <3>3. \A i \in 1 .. 1 : i = 1
      OBVIOUS
    <3>4. Even(s[1], 1)
      BY <3>1, <3>2, <3>3
    <3> HIDE DEF Even
    <3> QED
      BY <3>1, <3>4
  <2>4. ASSUME NEW n \in Nat, n \in S PROVE n + 1 \in S
    <3>1. SUFFICES ASSUME n + 2 \in 1 .. Len(s) PROVE Even(f[n + 2], n + 2)
      <4>1. (n + 1) + 1 = n + 2 /\ n + 1 \in Nat
        OBVIOUS
      <4> HIDE DEF Even
      <4> QED
        BY <4>1
    <3> DEFINE a == f[n + 1]  b == s[n + 2]
    <3>2. n + 1 \in 1 .. Len(s) /\ (n + 2) - 1 = n + 1 /\ n + 2 # 1
      BY <3>1, <2>1
    <3>3. f[n + 2] = a \o b
      BY <2>2, <3>1, <3>2
    <3>4. Even(a, n + 1)
      <4> HIDE DEF Even
      <4> QED
        BY <2>4, <3>2
    <3>5. a \in Seq(T) /\ b \in Seq(T) /\ Len(b) = c
      BY <3>4, <2>1, <3>1
    <3> HIDE DEF a, b
    <3> DEFINE ab == a \o b
    <3>6. /\ ab \in Seq(T) /\ Len(ab) = Len(a) + Len(b) /\ Len(a) \in Nat /\ Len(b) \in Nat
          /\ \A k \in 1 .. Len(a) + Len(b) : ab[k] = IF k <= Len(a) THEN a[k] ELSE b[k - Len(a)]
      <4>1. a \in Seq(T) /\ b \in Seq(T)
        BY <3>5
      <4> QED
        BY <4>1, ConcatProperties
    <3> HIDE DEF ab
    <3>7. Len(a) = (n + 1) * c /\ (n + 2) * c = (n + 1) * c + c
      BY <3>4
    <3>b. b = s[n + 2]
      BY DEF b
    <3>8. \A i \in 1 .. n + 2 : \A j \in 1 .. c : ab[(i - 1) * c + j] = s[i][j]
      <4> TAKE i \in 1 .. n + 2
      <4> TAKE j \in 1 .. c
      <4>1. CASE i = n + 2
        <5>1. (i - 1) * c + j = Len(a) + j /\ Len(a) + j \in 1 .. Len(a) + Len(b)
              /\ ~ (Len(a) + j <= Len(a)) /\ (Len(a) + j) - Len(a) = j
          <6> DEFINE m == i - 1
          <6>1. m = n + 1
            BY <4>1
          <6> HIDE DEF m
          <6>3. m * c = Len(a)
            BY <6>1, <3>7
          <6>2. (i - 1) * c = Len(a)
            BY <6>3 DEF m
          <6>4. (i - 1) * c + j = Len(a) + j
            BY <6>2
          <6>5. Len(a) + j \in 1 .. Len(a) + Len(b) /\ ~ (Len(a) + j <= Len(a)) /\ (Len(a) + j) - Len(a) = j
            BY <3>5, <3>6
          <6> QED
            BY <6>4, <6>5
        <5>2. ab[Len(a) + j] = b[j]
          BY <5>1, <3>6
        <5> QED
          BY <5>1, <5>2, <4>1, <3>b
      <4>2. CASE i # n + 2
        <5>1. i \in 1 .. n + 1 /\ n + 1 \in Nat
          BY <4>2
        <5>2. (i - 1) * c + j \in 1 .. (n + 1) * c
          BY <5>1, PlacesOf
        <5>3. a[(i - 1) * c + j] = s[i][j]
          BY <5>1, <3>4
        <5> DEFINE k == (i - 1) * c + j
        <5>4. k \in 1 .. Len(a) /\ a[k] = s[i][j]
          BY <5>2, <5>3, <3>7
        <5> HIDE DEF k
        <5>5. ab[k] = s[i][j]
          <6>1. k \in 1 .. Len(a) + Len(b) /\ k <= Len(a)
            BY <5>4, <3>6
          <6> QED
            BY <6>1, <5>4, <3>6
        <5> QED
          BY <5>5 DEF k
      <4> QED
        BY <4>1, <4>2
    <3>9. Len(ab) = (n + 2) * c
      BY <3>5, <3>6, <3>7
    <3> QED
      BY <3>3, <3>6, <3>8, <3>9 DEF ab, a, b
  <2> HIDE DEF S
  <2>5. Len(s) - 1 \in S
    <3>1. Len(s) - 1 \in Nat
      BY <2>1
    <3> QED
      BY <3>1, <2>3, <2>4, NatSetInduction
  <2>6. Even(f[Len(s)], Len(s))
    <3>1. (Len(s) - 1) + 1 = Len(s) /\ Len(s) \in 1 .. Len(s)
      BY <2>1
    <3> HIDE DEF Even
    <3> QED
      BY <2>5, <3>1 DEF S
  <2>7. Even(Flat(s), Len(s))
    <3> HIDE DEF Even
    <3> QED
      BY <2>2, <2>6
  <2> QED
    BY <2>7
<1> QED
  BY <1>1, <1>2

LEMMA ListIs ==
  ASSUME NEW T, NEW s \in Seq(T)
  PROVE  IsList(s) /\ Len(s) \in Nat /\ DOMAIN s = 1 .. Len(s) /\ \A i \in DOMAIN s : s[i] \in T
<1>1. Len(s) \in Nat /\ DOMAIN s = 1 .. Len(s) /\ s \in [1 .. Len(s) -> T]
  BY LenProperties
<1> DEFINE R == {s[i] : i \in DOMAIN s}
<1>2. s \in [1 .. Len(s) -> R]
  BY <1>1
<1>3. s \in Seq(R)
  BY <1>1, <1>2, SeqDef
<1> QED
  BY <1>1, <1>3 DEF IsList

LEMMA ListHas ==
  ASSUME NEW s, IsList(s)
  PROVE  /\ s \in Seq({s[i] : i \in DOMAIN s})
         /\ Len(s) \in Nat /\ DOMAIN s = 1 .. Len(s)
         /\ \A T : (\A i \in DOMAIN s : s[i] \in T) => s \in Seq(T)
<1> DEFINE R == {s[i] : i \in DOMAIN s}
<1>1. s \in Seq(R)
  BY DEF IsList
<1>2. Len(s) \in Nat /\ DOMAIN s = 1 .. Len(s)
  BY <1>1, ListIs
<1>3. ASSUME NEW T, \A i \in DOMAIN s : s[i] \in T PROVE s \in Seq(T)
  <2>1. R \subseteq T
    BY <1>3
  <2> HIDE DEF R
  <2> QED
    BY <1>1, <2>1, SeqMonotonic
<1> QED
  BY <1>1, <1>2, <1>3

LEMMA ListFrom ==
  ASSUME NEW s, NEW n \in Nat, s = [i \in 1 .. n |-> s[i]]
  PROVE  IsList(s) /\ Len(s) = n /\ DOMAIN s = 1 .. n
<1> DEFINE R == {s[i] : i \in 1 .. n}
<1>1. s \in [1 .. n -> R]
  OBVIOUS
<1>2. s \in Seq(R)
  BY <1>1, SeqDef
<1>3. DOMAIN s = 1 .. n
  BY <1>1
<1>4. Len(s) = n
  BY <1>2, <1>3, ListIs
<1> HIDE DEF R
<1> QED
  BY <1>2, <1>3, <1>4, ListIs

LEMMA ListOfLists ==
  ASSUME NEW s, IsList(s), \A i \in DOMAIN s : IsList(s[i])
  PROVE  \E T : s \in Seq(Seq(T))
<1> DEFINE T == UNION {{s[i][j] : j \in DOMAIN s[i]} : i \in DOMAIN s}
<1>1. ASSUME NEW i \in DOMAIN s PROVE s[i] \in Seq(T)
  <2>1. \A j \in DOMAIN s[i] : s[i][j] \in T
    OBVIOUS
  <2> HIDE DEF T
  <2> QED
    BY <2>1, ListHas
<1> HIDE DEF T
<1>2. s \in Seq(Seq(T))
  BY <1>1, ListHas
<1> QED
  BY <1>2

LEMMA Flattened ==
  ASSUME NEW s, IsList(s), \A i \in DOMAIN s : IsList(s[i])
  PROVE  /\ IsList(Flat(s))
         /\ \A k \in DOMAIN Flat(s) : \E i \in DOMAIN s : \E j \in DOMAIN s[i] : Flat(s)[k] = s[i][j]
         /\ \A i \in DOMAIN s : \A j \in DOMAIN s[i] : \E k \in DOMAIN Flat(s) : Flat(s)[k] = s[i][j]
<1>1. PICK T : s \in Seq(Seq(T))
  BY ListOfLists
<1>2. DOMAIN s = 1 .. Len(s) /\ \A i \in DOMAIN s : DOMAIN s[i] = 1 .. Len(s[i])
  BY ListHas
<1>3. Flat(s) \in Seq(T)
  BY <1>1, FlatContent
<1>4. IsList(Flat(s)) /\ DOMAIN Flat(s) = 1 .. Len(Flat(s))
  BY <1>3, ListIs
<1>5. \A k \in 1 .. Len(Flat(s)) : \E i \in 1 .. Len(s) : \E j \in 1 .. Len(s[i]) : Flat(s)[k] = s[i][j]
  BY <1>1, FlatContent
<1>6. \A i \in 1 .. Len(s) : \A j \in 1 .. Len(s[i]) : \E k \in 1 .. Len(Flat(s)) : Flat(s)[k] = s[i][j]
  BY <1>1, FlatContent
<1> DEFINE flat == Flat(s)
<1> HIDE DEF flat
<1>7. ASSUME NEW k \in DOMAIN flat PROVE \E i \in DOMAIN s : \E j \in DOMAIN s[i] : flat[k] = s[i][j]
  <2>1. PICK i \in 1 .. Len(s) : \E j \in 1 .. Len(s[i]) : flat[k] = s[i][j]
    BY <1>4, <1>5 DEF flat
  <2>2. i \in DOMAIN s /\ DOMAIN s[i] = 1 .. Len(s[i])
    BY <1>2
  <2> QED
    BY <2>1, <2>2
<1>8. ASSUME NEW i \in DOMAIN s, NEW j \in DOMAIN s[i] PROVE \E k \in DOMAIN flat : flat[k] = s[i][j]
  <2>1. i \in 1 .. Len(s) /\ j \in 1 .. Len(s[i])
    BY <1>2
  <2> QED
    BY <2>1, <1>4, <1>6 DEF flat
<1>9. IsList(flat)
  BY <1>4 DEF flat
<1> QED
  BY <1>7, <1>8, <1>9 DEF flat

\* Filtering keeps the items at the places, and nothing else.
LEMMA Filtered ==
  ASSUME NEW list, IsList(list), NEW places
  PROVE  /\ IsList(Filter(list, places))
         /\ \A k \in DOMAIN Filter(list, places) : \E i \in places \cap DOMAIN list : Filter(list, places)[k] = list[i]
         /\ \A i \in places \cap DOMAIN list : \E k \in DOMAIN Filter(list, places) : Filter(list, places)[k] = list[i]
<1> DEFINE s == [i \in DOMAIN list |-> IF i \in places THEN <<list[i]>> ELSE <<>>]
<1>1. DOMAIN list = 1 .. Len(list) /\ Len(list) \in Nat
  BY ListHas
<1>2. s = [i \in 1 .. Len(list) |-> s[i]]
  BY <1>1
<1>3. \A i \in DOMAIN list : s[i] = IF i \in places THEN <<list[i]>> ELSE <<>>
  OBVIOUS
<1>4. Filter(list, places) = Flat(s)
  BY DEF Filter
<1> HIDE DEF s
<1>5. IsList(s) /\ DOMAIN s = DOMAIN list
  BY <1>1, <1>2, ListFrom
<1>6. ASSUME NEW i \in DOMAIN list
      PROVE  /\ IsList(s[i])
             /\ i \in places => DOMAIN s[i] = {1} /\ s[i][1] = list[i]
             /\ i \notin places => DOMAIN s[i] = {}
  <2>1. CASE i \in places
    <3>1. s[i] = <<list[i]>>
      BY <1>3, <2>1
    <3>2. <<list[i]>> \in Seq({list[i]})
      OBVIOUS
    <3>3. IsList(<<list[i]>>)
      BY <3>2, ListIs
    <3> QED
      BY <3>1, <3>3, <2>1
  <2>2. CASE i \notin places
    <3>1. s[i] = <<>>
      BY <1>3, <2>2
    <3>2. <<>> \in Seq({})
      OBVIOUS
    <3>3. IsList(<<>>)
      BY <3>2, ListIs
    <3> QED
      BY <3>1, <3>3, <2>2
  <2> QED
    BY <2>1, <2>2
<1>7. /\ IsList(Flat(s))
      /\ \A k \in DOMAIN Flat(s) : \E i \in DOMAIN s : \E j \in DOMAIN s[i] : Flat(s)[k] = s[i][j]
      /\ \A i \in DOMAIN s : \A j \in DOMAIN s[i] : \E k \in DOMAIN Flat(s) : Flat(s)[k] = s[i][j]
  <2>1. ASSUME NEW i \in DOMAIN s PROVE IsList(s[i])
    BY <1>5, <1>6
  <2>2. IsList(s)
    BY <1>5
  <2> QED
    BY ONLY <2>1, <2>2, Flattened, Zenon
<1>8. ASSUME NEW k \in DOMAIN Flat(s) PROVE \E i \in places \cap DOMAIN list : Flat(s)[k] = list[i]
  <2>1. PICK i \in DOMAIN s : \E j \in DOMAIN s[i] : Flat(s)[k] = s[i][j]
    BY <1>7
  <2>2. PICK j \in DOMAIN s[i] : Flat(s)[k] = s[i][j]
    BY <2>1
  <2>3. i \in DOMAIN list /\ i \in places /\ j = 1
    BY <2>2, <1>5, <1>6
  <2> QED
    BY <2>2, <2>3, <1>6
<1>9. ASSUME NEW i \in places \cap DOMAIN list PROVE \E k \in DOMAIN Flat(s) : Flat(s)[k] = list[i]
  <2>1. i \in DOMAIN s /\ 1 \in DOMAIN s[i] /\ s[i][1] = list[i]
    BY <1>5, <1>6
  <2> QED
    BY <2>1, <1>7
<1> QED
  BY <1>4, <1>7, <1>8, <1>9

\* A page has rows of what was found; without a limit it has them all.
LEMMA Paged ==
  ASSUME NEW rows, IsList(rows), NEW query \in [page : Nat, limit : Nat, skipItems : Nat]
  PROVE  /\ IsList(Page(rows, query))
         /\ \A k \in DOMAIN Page(rows, query) : \E i \in DOMAIN rows : Page(rows, query)[k] = rows[i]
         /\ IsEmptyQuery(query) => Page(rows, query) = rows
<1> DEFINE R == {rows[i] : i \in DOMAIN rows}
<1>1. rows \in Seq(R) /\ Len(rows) \in Nat /\ DOMAIN rows = 1 .. Len(rows)
  BY ListHas
<1>2. query.skipItems \in Nat /\ query.limit \in Nat
  OBVIOUS
<1>3. \E to \in Nat : to <= Len(rows) /\ Page(rows, query) = SubSeq(rows, query.skipItems + 1, to)
  <2>1. CASE query.limit = 0
    <3>1. Page(rows, query) = SubSeq(rows, query.skipItems + 1, Len(rows))
      BY <2>1 DEF Page
    <3>2. Len(rows) \in Nat /\ Len(rows) <= Len(rows)
      BY <1>1
    <3> QED
      BY <3>1, <3>2
  <2>2. CASE query.limit # 0
    <3> DEFINE last == query.skipItems + query.limit
    <3>1. last \in Nat
      BY <1>2
    <3>2. Page(rows, query) = SubSeq(rows, query.skipItems + 1, IF last < Len(rows) THEN last ELSE Len(rows))
      BY <2>2 DEF Page
    <3> HIDE DEF last
    <3> DEFINE to == IF last < Len(rows) THEN last ELSE Len(rows)
    <3>3. to \in Nat /\ to <= Len(rows)
      BY <3>1, <1>1
    <3>4. Page(rows, query) = SubSeq(rows, query.skipItems + 1, to)
      BY <3>2
    <3> HIDE DEF to
    <3> QED
      BY <3>3, <3>4
  <2> QED
    BY <2>1, <2>2
<1>4. PICK to \in Nat : to <= Len(rows) /\ Page(rows, query) = SubSeq(rows, query.skipItems + 1, to)
  BY <1>3
<1>5. \A i \in query.skipItems + 1 .. to : rows[i] \in R
  BY <1>1, <1>2, <1>4
<1> HIDE DEF R
<1>6. Page(rows, query) \in Seq(R)
  BY <1>2, <1>4, <1>5, SubSeqProperties
<1>7. IsList(Page(rows, query)) /\ \A k \in DOMAIN Page(rows, query) : Page(rows, query)[k] \in R
  BY <1>6, ListIs
<1>8. ASSUME IsEmptyQuery(query) PROVE Page(rows, query) = rows
  <2>1. query.limit = 0 /\ query.skipItems = 0
    BY <1>8 DEF IsEmptyQuery, PaginationPipe, AtLeastOne
  <2>2. Page(rows, query) = SubSeq(rows, 1, Len(rows))
    BY <2>1 DEF Page
  <2> QED
    BY <2>2, <1>1, SubSeqFull
<1> QED
  BY <1>7, <1>8 DEF R

\* Cutting a list into pieces of c, when it is as long as n of them.
LEMMA LastOfDivision ==
  ASSUME NEW a \in Nat, NEW c \in Nat \ {0}
  PROVE  a \div c \in Nat /\ (a \div c) * c <= a /\ a < (a \div c) * c + c
  BY SMT

LEMMA PiecesOf == ASSUME NEW n \in Nat, NEW c \in Nat \ {0} PROVE (n * c + c - 1) \div c = n
<1> DEFINE a == n * c + c - 1
           q == a \div c
<1>1. a \in Nat
  <2>1. n * c \in Nat
    OBVIOUS
  <2> QED
    BY <2>1
<1>2. q \in Nat /\ q * c <= a /\ a < q * c + c
  BY <1>1, LastOfDivision
<1>3. a = n * c + c - 1
  OBVIOUS
<1> HIDE DEF a, q
<1>4. ~ (q < n)
  <2>1. SUFFICES ASSUME q < n PROVE FALSE
    OBVIOUS
  <2>2. (n - q - 1) * c \in Nat
    BY <1>2, <2>1
  <2>3. n * c = q * c + c + (n - q - 1) * c
    BY <1>2
  <2> QED
    BY <1>1, <1>2, <1>3, <2>2, <2>3
<1>5. ~ (q > n)
  <2>1. SUFFICES ASSUME q > n PROVE FALSE
    OBVIOUS
  <2>2. (q - n - 1) * c \in Nat
    BY <1>2, <2>1
  <2>3. q * c = n * c + c + (q - n - 1) * c
    BY <1>2
  <2> QED
    BY <1>1, <1>2, <1>3, <2>2, <2>3
<1> QED
  BY <1>2, <1>4, <1>5 DEF q, a

LEMMA CutIs ==
  ASSUME NEW list, IsList(list), NEW n \in Nat, NEW c \in Nat \ {0}, Len(list) = n * c
  PROVE  LET cut == ToSplitWithChunkSize(list, c) IN
           /\ cut = [i \in 1 .. n |-> cut[i]]
           /\ \A i \in 1 .. n :
                /\ IsList(cut[i]) /\ Len(cut[i]) = c /\ DOMAIN cut[i] = 1 .. c
                /\ \A j \in 1 .. c : cut[i][j] = list[(i - 1) * c + j]
<1> DEFINE cut == ToSplitWithChunkSize(list, c)
           R == {list[i] : i \in DOMAIN list}
<1>1. (Len(list) + c - 1) \div c = n
  BY PiecesOf
<1>2. DOMAIN list = 1 .. Len(list) /\ Len(list) \in Nat
  BY ListHas
<1>3. cut = [i \in 1 .. n |-> SubSeq(list, (i - 1) * c + 1, IF i * c < Len(list) THEN i * c ELSE Len(list))]
  BY <1>1 DEF ToSplitWithChunkSize
<1> HIDE DEF cut
<1>4. ASSUME NEW i \in 1 .. n
      PROVE  /\ IsList(cut[i]) /\ Len(cut[i]) = c /\ DOMAIN cut[i] = 1 .. c
             /\ \A j \in 1 .. c : cut[i][j] = list[(i - 1) * c + j]
  <2> DEFINE a == (i - 1) * c  b == i * c
  <2>1. 1 \in 1 .. c
    OBVIOUS
  <2>2. a \in Nat /\ b \in Nat /\ b = a + c /\ b <= Len(list)
    BY <2>1, PlacesOf
  <2>3. (IF b < Len(list) THEN b ELSE Len(list)) = b
    BY <2>2, <1>2
  <2>4. cut[i] = SubSeq(list, a + 1, b)
    BY <1>3, <2>3
  <2> HIDE DEF a, b
  <2>5. \A k \in a + 1 .. b : list[k] \in R
    BY <2>2, <1>2
  <2> HIDE DEF R
  <2>6. /\ SubSeq(list, a + 1, b) \in Seq(R)
        /\ Len(SubSeq(list, a + 1, b)) = IF a + 1 <= b THEN b - (a + 1) + 1 ELSE 0
        /\ \A j \in 1 .. b - (a + 1) + 1 : SubSeq(list, a + 1, b)[j] = list[(a + 1) + j - 1]
    BY <2>2, <2>5, SubSeqProperties
  <2>7. a + 1 <= b /\ b - (a + 1) + 1 = c /\ \A j \in 1 .. c : (a + 1) + j - 1 = a + j
    BY <2>2
  <2>8. Len(cut[i]) = c /\ cut[i] \in Seq(R) /\ \A j \in 1 .. c : cut[i][j] = list[a + j]
    BY <2>4, <2>6, <2>7
  <2> QED
    BY <2>8, ListIs DEF a
<1>5. cut = [i \in 1 .. n |-> cut[i]]
  BY <1>3
<1> QED
  BY <1>4, <1>5 DEF cut

LEMMA FirstIn ==
  ASSUME NEW S, S \subseteq Nat, S # {}
  PROVE  \E m \in S : \A n \in S : m <= n
<1> DEFINE R == OpToRel(<, Nat)
<1>1. IsWellFoundedOn(R, Nat)
  BY NatLessThanWellFounded
<1> HIDE DEF R
<1>2. PICK m \in S : \A n \in S : ~ (<<n, m>> \in R)
  BY <1>1, WFMin
<1>3. \A n \in S : m <= n
  <2> TAKE n \in S
  <2>1. m \in Nat /\ n \in Nat
    OBVIOUS
  <2>2. ~ (n < m)
    <3>1. n < m => <<n, m>> \in R
      BY <2>1 DEF R, OpToRel
    <3> QED
      BY <1>2, <3>1
  <2> QED
    BY <2>1, <2>2
<1> QED
  BY <1>3

\* A batch is the calls about each row, all of one number: cut again, beside
\* the calls of a row are the replies to them.
LEMMA Batched ==
  ASSUME NEW lists, IsList(lists), NEW c \in Nat \ {0},
         \A i \in DOMAIN lists : IsList(lists[i]) /\ Len(lists[i]) = c,
         NEW replies, IsList(replies), DOMAIN replies = DOMAIN Flat(lists)
  PROVE  /\ IsList(ToSplitWithChunkSize(replies, c))
         /\ DOMAIN ToSplitWithChunkSize(replies, c) = DOMAIN lists
         /\ \A i \in DOMAIN lists :
              /\ IsList(ToSplitWithChunkSize(replies, c)[i])
              /\ Len(ToSplitWithChunkSize(replies, c)[i]) = c
              /\ DOMAIN ToSplitWithChunkSize(replies, c)[i] = DOMAIN lists[i]
              /\ \A n \in DOMAIN lists[i] : \E k \in DOMAIN replies :
                   /\ Flat(lists)[k] = lists[i][n]
                   /\ ToSplitWithChunkSize(replies, c)[i][n] = replies[k]
<1> DEFINE cut == ToSplitWithChunkSize(replies, c)
           flat == Flat(lists)
           m == Len(lists)
<1>1. PICK T : lists \in Seq(Seq(T))
  BY ListOfLists
<1>2. m \in Nat /\ DOMAIN lists = 1 .. m /\ \A i \in DOMAIN lists : DOMAIN lists[i] = 1 .. c
  BY ListHas
<1>3. Len(flat) = m * c /\ \A i \in 1 .. m : \A j \in 1 .. c : flat[(i - 1) * c + j] = lists[i][j]
  <2>1. \A i \in 1 .. Len(lists) : Len(lists[i]) = c
    BY <1>2
  <2> QED
    BY <1>1, <2>1, FlatOfEven
<1>4. IsList(flat) /\ DOMAIN flat = 1 .. Len(flat) /\ Len(flat) \in Nat
  BY Flattened, ListHas
<1>5. Len(replies) = m * c /\ DOMAIN replies = 1 .. m * c
  <2>1. DOMAIN replies = 1 .. Len(replies) /\ Len(replies) \in Nat
    BY ListHas
  <2>2. 1 .. Len(replies) = 1 .. Len(flat)
    BY <2>1, <1>4
  <2> DEFINE a == Len(replies)  b == Len(flat)
  <2>a. a \in Nat /\ b \in Nat /\ 1 .. a = 1 .. b
    BY <2>1, <2>2, <1>4
  <2> HIDE DEF a, b
  <2>b. a = b
    <3>1. ~ (a < b)
      <4>1. a < b => b \in 1 .. b /\ b \notin 1 .. a
        BY <2>a
      <4> QED
        BY <4>1, <2>a
    <3>2. ~ (b < a)
      <4>1. b < a => a \in 1 .. a /\ a \notin 1 .. b
        BY <2>a
      <4> QED
        BY <4>1, <2>a
    <3> QED
      BY <3>1, <3>2, <2>a
  <2>3. Len(replies) = Len(flat)
    BY <2>b DEF a, b
  <2> QED
    BY <2>1, <2>3, <1>3
<1>6. /\ cut = [i \in 1 .. m |-> cut[i]]
      /\ \A i \in 1 .. m : /\ IsList(cut[i]) /\ Len(cut[i]) = c /\ DOMAIN cut[i] = 1 .. c
                           /\ \A j \in 1 .. c : cut[i][j] = replies[(i - 1) * c + j]
  BY <1>2, <1>5, CutIs
<1> HIDE DEF cut, flat, m
<1>7. IsList(cut) /\ DOMAIN cut = 1 .. m
  BY <1>2, <1>6, ListFrom
<1>8. ASSUME NEW i \in DOMAIN lists, NEW n \in DOMAIN lists[i]
      PROVE  \E k \in DOMAIN replies : flat[k] = lists[i][n] /\ cut[i][n] = replies[k]
  <2>1. i \in 1 .. m /\ n \in 1 .. c
    BY <1>2
  <2>2. (i - 1) * c + n \in 1 .. m * c
    BY <2>1, <1>2, PlacesOf
  <2> QED
    BY <2>1, <2>2, <1>3, <1>5, <1>6
<1>9. /\ IsList(cut) /\ DOMAIN cut = DOMAIN lists
      /\ \A i \in DOMAIN lists : IsList(cut[i]) /\ Len(cut[i]) = c /\ DOMAIN cut[i] = DOMAIN lists[i]
  BY <1>2, <1>6, <1>7
<1> QED
  BY <1>8, <1>9 DEF cut, flat

LEMMA DecodeOf == ASSUME NEW x PROVE Decode({x}) = x
  BY DEF Decode

LEMMA ListOfOne ==
  ASSUME NEW x
  PROVE  IsList(<<x>>) /\ DOMAIN <<x>> = {1} /\ Len(<<x>>) = 1
<1>1. <<x>> \in Seq({x})
  OBVIOUS
<1>2. IsList(<<x>>)
  BY <1>1, ListIs
<1>3. DOMAIN <<x>> = {1} /\ Len(<<x>>) = 1
  OBVIOUS
<1> QED
  BY <1>2, <1>3

LEMMA ListOfNone == IsList(<<>>) /\ DOMAIN <<>> = {} /\ Len(<<>>) = 0
<1>1. <<>> \in Seq({})
  OBVIOUS
<1>2. IsList(<<>>)
  BY <1>1, ListIs
<1>3. DOMAIN <<>> = {} /\ Len(<<>>) = 0
  OBVIOUS
<1> QED
  BY <1>2, <1>3

LEMMA ListJoined ==
  ASSUME NEW a, NEW b, IsList(a), IsList(b)
  PROVE  IsList(a \o b)
<1> DEFINE A == {a[i] : i \in DOMAIN a}  B == {b[i] : i \in DOMAIN b}
<1>1. a \in Seq(A) /\ b \in Seq(B)
  BY DEF IsList
<1> HIDE DEF A, B
<1>2. a \in Seq(A \cup B) /\ b \in Seq(A \cup B)
  <2>1. A \subseteq A \cup B /\ B \subseteq A \cup B
    OBVIOUS
  <2> QED
    BY <1>1, <2>1, SeqMonotonic
<1>3. a \o b \in Seq(A \cup B)
  BY <1>2, ConcatProperties
<1> QED
  BY <1>3, ListIs

(***************************************************************************)
(* Farms: what a search finds, and what is asked for its rows.             *)
(***************************************************************************)

LEMMA WithRewards ==
  ASSUME NEW row, DOMAIN row = FarmColumn, NEW x
  PROVE  DOMAIN [row EXCEPT !.rewards = x] = FarmColumn /\ IsRowOf([row EXCEPT !.rewards = x], row)
<1> DEFINE with == [row EXCEPT !.rewards = x]
<1>1. with = [f \in FarmColumn |-> IF f = "rewards" THEN x ELSE row[f]]
  OBVIOUS
<1>2. DOMAIN with = FarmColumn /\ \A f \in FarmColumn : f # "rewards" => with[f] = row[f]
  BY <1>1
<1> HIDE DEF with
<1>3. IsRowOf(with, row)
  BY <1>2 DEF IsRowOf
<1> QED
  BY <1>2, <1>3 DEF with

LEMMA RowOfRow ==
  ASSUME NEW a, NEW b, NEW c, IsRowOf(a, b), IsRowOf(b, c)
  PROVE  IsRowOf(a, c)
  BY DEF IsRowOf

LEMMA RowHas ==
  ASSUME NEW row, NEW farm, IsRowOf(row, farm)
  PROVE  /\ row.name = farm.name /\ row.client = farm.client /\ row.pid = farm.pid
         /\ row.stake = farm.stake /\ row.network = farm.network /\ row.protocol = farm.protocol
         /\ row.address = farm.address /\ row.data = farm.data
  BY DEF IsRowOf, FarmColumn

LEMMA FarmRows ==
  ASSUME NEW names
  PROVE  /\ IsList(FarmSearchQueryBuilder(Farms, names))
         /\ \A k \in DOMAIN FarmSearchQueryBuilder(Farms, names) :
              /\ DOMAIN FarmSearchQueryBuilder(Farms, names)[k] = FarmColumn
              /\ \E i \in DOMAIN Farms : IsRowOf(FarmSearchQueryBuilder(Farms, names)[k], Farms[i])
         /\ \A i \in DOMAIN Farms :
              /\ {Farms[i].name, Farms[i].protocol, Farms[i].network, Farms[i].stake} \subseteq names
              /\ \E n \in DOMAIN Farms[i].rewards : Farms[i].rewards[n] \in names
              => \E k \in DOMAIN FarmSearchQueryBuilder(Farms, names) :
                   IsRowOf(FarmSearchQueryBuilder(Farms, names)[k], Farms[i])
<1> DEFINE Rewards(i) == Filter(Farms[i].rewards, {n \in DOMAIN Farms[i].rewards : Farms[i].rewards[n] \in names})
           IsOn(i) == {Farms[i].name, Farms[i].protocol, Farms[i].network, Farms[i].stake} \subseteq names
           s == [i \in DOMAIN Farms |->
                   IF IsOn(i) THEN [j \in DOMAIN Rewards(i) |-> [Farms[i] EXCEPT !.rewards = <<Rewards(i)[j]>>]]
                   ELSE <<>>]
           rows == FarmSearchQueryBuilder(Farms, names)
<1>1. rows = Flat(s)
  BY DEF FarmSearchQueryBuilder
<1>2. IsList(Farms) /\ DOMAIN Farms = 1 .. Len(Farms) /\ Len(Farms) \in Nat
  <2>1. IsList(Farms)
    BY TablesAssumption DEF IsTable
  <2> QED
    BY <2>1, ListHas
<1>3. \A i \in DOMAIN Farms : DOMAIN Farms[i] = FarmColumn /\ IsList(Farms[i].rewards)
  BY TablesAssumption
<1>4. ASSUME NEW i \in DOMAIN Farms
      PROVE  /\ IsList(Rewards(i)) /\ DOMAIN Rewards(i) = 1 .. Len(Rewards(i)) /\ Len(Rewards(i)) \in Nat
             /\ (\E n \in DOMAIN Farms[i].rewards : Farms[i].rewards[n] \in names) => DOMAIN Rewards(i) # {}
  <2> DEFINE places == {n \in DOMAIN Farms[i].rewards : Farms[i].rewards[n] \in names}
             list == Farms[i].rewards
  <2>1. IsList(list)
    BY <1>3
  <2>2. Rewards(i) = Filter(list, places)
    OBVIOUS
  <2>3. (\E n \in DOMAIN list : list[n] \in names) => \E n \in places : n \in DOMAIN list
    OBVIOUS
  <2> HIDE DEF places, list, Rewards
  <2>4. IsList(Rewards(i)) /\ \A n \in places \cap DOMAIN list : \E k \in DOMAIN Rewards(i) : Rewards(i)[k] = list[n]
    BY <2>1, <2>2, Filtered
  <2>5. DOMAIN Rewards(i) = 1 .. Len(Rewards(i)) /\ Len(Rewards(i)) \in Nat
    BY <2>4, ListHas
  <2> QED
    BY <2>3, <2>4, <2>5 DEF list
<1>5. \A i \in DOMAIN Farms :
        s[i] = IF IsOn(i) THEN [j \in DOMAIN Rewards(i) |-> [Farms[i] EXCEPT !.rewards = <<Rewards(i)[j]>>]] ELSE <<>>
  OBVIOUS
<1>6. s = [i \in 1 .. Len(Farms) |-> s[i]]
  BY <1>2
<1> HIDE DEF s, Rewards, IsOn, rows
<1>7. IsList(s) /\ DOMAIN s = DOMAIN Farms
  BY <1>2, <1>6, ListFrom
<1>8. ASSUME NEW i \in DOMAIN Farms
      PROVE  /\ IsList(s[i])
             /\ \A j \in DOMAIN s[i] : DOMAIN s[i][j] = FarmColumn /\ IsRowOf(s[i][j], Farms[i])
             /\ IsOn(i) /\ (\E n \in DOMAIN Farms[i].rewards : Farms[i].rewards[n] \in names) => DOMAIN s[i] # {}
  <2>1. CASE IsOn(i)
    <3> DEFINE list == [j \in DOMAIN Rewards(i) |-> [Farms[i] EXCEPT !.rewards = <<Rewards(i)[j]>>]]
    <3>1. s[i] = list
      BY <1>5, <2>1
    <3>2. \A j \in DOMAIN Rewards(i) : DOMAIN list[j] = FarmColumn /\ IsRowOf(list[j], Farms[i])
      <4> TAKE j \in DOMAIN Rewards(i)
      <4>1. DOMAIN Farms[i] = FarmColumn
        BY <1>3
      <4>2. list[j] = [Farms[i] EXCEPT !.rewards = <<Rewards(i)[j]>>]
        OBVIOUS
      <4> QED
        BY <4>1, <4>2, WithRewards
    <3>3. list = [j \in 1 .. Len(Rewards(i)) |-> list[j]] /\ Len(Rewards(i)) \in Nat
      BY <1>4
    <3>4. DOMAIN list = DOMAIN Rewards(i)
      OBVIOUS
    <3> HIDE DEF list
    <3>5. IsList(list)
      BY <3>3, ListFrom
    <3> QED
      BY <3>1, <3>2, <3>4, <3>5, <1>4
  <2>2. CASE ~ IsOn(i)
    <3>1. s[i] = <<>>
      BY <1>5, <2>2
    <3> QED
      BY <3>1, <2>2, ListOfNone
  <2> QED
    BY <2>1, <2>2
<1>9. /\ IsList(Flat(s))
      /\ \A k \in DOMAIN Flat(s) : \E i \in DOMAIN s : \E j \in DOMAIN s[i] : Flat(s)[k] = s[i][j]
      /\ \A i \in DOMAIN s : \A j \in DOMAIN s[i] : \E k \in DOMAIN Flat(s) : Flat(s)[k] = s[i][j]
  <2>1. \A i \in DOMAIN s : IsList(s[i])
    BY <1>7, <1>8
  <2>2. IsList(s)
    BY <1>7
  <2> QED
    BY <2>1, <2>2, Flattened
<1>10. ASSUME NEW k \in DOMAIN rows
       PROVE  DOMAIN rows[k] = FarmColumn /\ \E i \in DOMAIN Farms : IsRowOf(rows[k], Farms[i])
  <2>1. PICK i \in DOMAIN s : \E j \in DOMAIN s[i] : rows[k] = s[i][j]
    BY <1>1, <1>9
  <2>2. PICK j \in DOMAIN s[i] : rows[k] = s[i][j]
    BY <2>1
  <2>3. i \in DOMAIN Farms
    BY <1>7
  <2> QED
    BY <2>2, <2>3, <1>8
<1>11. ASSUME NEW i \in DOMAIN Farms, IsOn(i), \E n \in DOMAIN Farms[i].rewards : Farms[i].rewards[n] \in names
       PROVE  \E k \in DOMAIN rows : IsRowOf(rows[k], Farms[i])
  <2>1. PICK j \in DOMAIN s[i] : TRUE
    BY <1>8, <1>11
  <2>2. i \in DOMAIN s
    BY <1>7
  <2>3. PICK k \in DOMAIN Flat(s) : Flat(s)[k] = s[i][j]
    BY <2>1, <2>2, <1>9
  <2>4. IsRowOf(s[i][j], Farms[i])
    BY <2>1, <1>8
  <2> QED
    BY <2>3, <2>4, <1>1
<1>12. IsList(rows)
  BY <1>1, <1>9
<1> QED
  BY <1>10, <1>11, <1>12 DEF rows, IsOn

\* One entity for each name, made of the first of its rows.
LEMMA GotMany ==
  ASSUME NEW rows, IsList(rows), \A i \in DOMAIN rows : DOMAIN rows[i] = FarmColumn
  PROVE  /\ IsList(GetMany(rows))
         /\ \A k \in DOMAIN GetMany(rows) : \E i \in DOMAIN rows : IsRowOf(GetMany(rows)[k], rows[i])
         /\ \A i \in DOMAIN rows : \E k \in DOMAIN GetMany(rows) :
              \E j \in DOMAIN rows : rows[j].name = rows[i].name /\ IsRowOf(GetMany(rows)[k], rows[j])
<1> DEFINE names == [i \in DOMAIN rows |-> rows[i].name]
           all == [i \in DOMAIN rows |-> i]
           places == {i \in DOMAIN rows : \A j \in 1 .. i - 1 : names[j] # names[i]}
           firsts == Filter(all, places)
           Rewards(name) == Flat([i \in DOMAIN rows |-> IF names[i] = name THEN rows[i].rewards ELSE <<>>])
           many == [k \in DOMAIN firsts |-> [rows[firsts[k]] EXCEPT !.rewards = Rewards(names[firsts[k]])]]
<1>1. GetMany(rows) = many
  BY DEF GetMany
<1>2. DOMAIN rows = 1 .. Len(rows) /\ Len(rows) \in Nat
  BY ListHas
<1>3. all = [i \in 1 .. Len(rows) |-> all[i]] /\ \A i \in DOMAIN rows : all[i] = i
  BY <1>2
<1>4. places \subseteq DOMAIN rows /\ \A i \in places : \A j \in 1 .. i - 1 : names[j] # names[i]
  OBVIOUS
<1>5. \A i \in DOMAIN rows : names[i] = rows[i].name
  OBVIOUS
<1>6. \A i \in DOMAIN rows : (\A j \in 1 .. i - 1 : names[j] # names[i]) => i \in places
  OBVIOUS
<1> HIDE DEF all, places, names
<1>7. IsList(all) /\ DOMAIN all = DOMAIN rows
  BY <1>2, <1>3, ListFrom
<1>8. /\ IsList(firsts)
      /\ \A k \in DOMAIN firsts : \E i \in places \cap DOMAIN all : firsts[k] = all[i]
      /\ \A i \in places \cap DOMAIN all : \E k \in DOMAIN firsts : firsts[k] = all[i]
  BY <1>7, Filtered
<1>9. DOMAIN firsts = 1 .. Len(firsts) /\ Len(firsts) \in Nat
  BY <1>8, ListHas
<1> HIDE DEF firsts, Rewards
<1>10. many = [k \in 1 .. Len(firsts) |-> many[k]] /\ DOMAIN many = DOMAIN firsts
  BY <1>9
<1>11. ASSUME NEW k \in DOMAIN firsts PROVE firsts[k] \in places /\ firsts[k] \in DOMAIN rows
  <2>1. PICK i \in places \cap DOMAIN all : firsts[k] = all[i]
    BY <1>8
  <2>2. i \in DOMAIN rows /\ all[i] = i
    BY <1>3, <1>4
  <2> QED
    BY <2>1, <2>2
<1>12. ASSUME NEW k \in DOMAIN firsts PROVE IsRowOf(many[k], rows[firsts[k]])
  <2>1. many[k] = [rows[firsts[k]] EXCEPT !.rewards = Rewards(names[firsts[k]])]
    OBVIOUS
  <2>2. DOMAIN rows[firsts[k]] = FarmColumn
    BY <1>11
  <2> HIDE DEF many
  <2> QED
    BY <2>1, <2>2, WithRewards
<1> HIDE DEF many
<1>13. IsList(many)
  BY <1>9, <1>10, ListFrom
<1>14. ASSUME NEW i \in DOMAIN rows
       PROVE  \E k \in DOMAIN many : \E j \in DOMAIN rows : rows[j].name = rows[i].name /\ IsRowOf(many[k], rows[j])
  <2> DEFINE S == {j \in DOMAIN rows : rows[j].name = rows[i].name}
  <2>1. S \subseteq Nat /\ S # {}
    BY <1>2
  <2>2. PICK j \in S : \A n \in S : j <= n
    BY <2>1, FirstIn
  <2>3. j \in DOMAIN rows /\ rows[j].name = rows[i].name
    OBVIOUS
  <2>4. \A n \in 1 .. j - 1 : names[n] # names[j]
    <3> TAKE n \in 1 .. j - 1
    <3>1. n \in DOMAIN rows /\ ~ (j <= n)
      BY <1>2, <2>3
    <3>2. n \notin S
      BY <2>2, <3>1
    <3> QED
      BY <2>3, <3>1, <3>2, <1>5
  <2>5. j \in places \cap DOMAIN all
    BY <1>6, <1>7, <2>3, <2>4
  <2>6. PICK k \in DOMAIN firsts : firsts[k] = all[j]
    BY <2>5, <1>8
  <2>7. firsts[k] = j
    BY <2>3, <2>6, <1>3
  <2>8. IsRowOf(many[k], rows[j])
    BY <2>7, <1>12
  <2> QED
    BY <2>3, <2>8, <1>10
<1>15. ASSUME NEW k \in DOMAIN many PROVE \E i \in DOMAIN rows : IsRowOf(many[k], rows[i])
  BY <1>10, <1>11, <1>12
<1> QED
  BY <1>1, <1>13, <1>14, <1>15

\* A farm is known by its name.
LEMMA FarmByName ==
  ASSUME NEW i \in DOMAIN Farms, NEW j \in DOMAIN Farms, Farms[i].name = Farms[j].name
  PROVE  i = j
  BY TablesAssumption DEF IsTable

LEMMA FarmsFound ==
  ASSUME NEW names, NEW addresses, NEW query \in [page : Nat, limit : Nat, skipItems : Nat]
  PROVE  /\ IsList(FarmSearch(Farms, names, addresses, query))
         /\ \A k \in DOMAIN FarmSearch(Farms, names, addresses, query) :
              \E i \in DOMAIN Farms : IsRowOf(FarmSearch(Farms, names, addresses, query)[k], Farms[i])
         /\ IsEmptyQuery(query) =>
              \A i \in DOMAIN Farms :
                /\ {Farms[i].name, Farms[i].protocol, Farms[i].network, Farms[i].stake} \subseteq names
                /\ \E n \in DOMAIN Farms[i].rewards : Farms[i].rewards[n] \in names
                /\ Farms[i].address \in addresses
                => \E k \in DOMAIN FarmSearch(Farms, names, addresses, query) :
                     IsRowOf(FarmSearch(Farms, names, addresses, query)[k], Farms[i])
<1> DEFINE rows == FarmSearchQueryBuilder(Farms, names)
           places == {i \in DOMAIN rows : rows[i].address \in addresses}
           some == Filter(rows, places)
           page == Page(some, query)
           found == GetMany(page)
           IsOn(i) == /\ {Farms[i].name, Farms[i].protocol, Farms[i].network, Farms[i].stake} \subseteq names
                      /\ \E n \in DOMAIN Farms[i].rewards : Farms[i].rewards[n] \in names
<1>1. FarmSearch(Farms, names, addresses, query) = found
  BY DEF FarmSearch
<1>2. /\ IsList(rows)
      /\ \A k \in DOMAIN rows : DOMAIN rows[k] = FarmColumn /\ \E i \in DOMAIN Farms : IsRowOf(rows[k], Farms[i])
      /\ \A i \in DOMAIN Farms : IsOn(i) => \E k \in DOMAIN rows : IsRowOf(rows[k], Farms[i])
  BY FarmRows
<1>3. \A i \in DOMAIN rows : i \in places <=> rows[i].address \in addresses
  OBVIOUS
<1> HIDE DEF rows, places, IsOn
<1>a. IsList(rows)
  BY <1>2
<1>4. /\ IsList(some)
      /\ \A k \in DOMAIN some : \E i \in places \cap DOMAIN rows : some[k] = rows[i]
      /\ \A i \in places \cap DOMAIN rows : \E k \in DOMAIN some : some[k] = rows[i]
  BY <1>a, Filtered
<1> HIDE DEF some
<1>5. /\ IsList(page)
      /\ \A k \in DOMAIN page : \E i \in DOMAIN some : page[k] = some[i]
      /\ IsEmptyQuery(query) => page = some
  BY <1>4, Paged
<1> HIDE DEF page
<1>6. ASSUME NEW k \in DOMAIN page
      PROVE  DOMAIN page[k] = FarmColumn /\ \E i \in DOMAIN Farms : IsRowOf(page[k], Farms[i])
  <2>1. PICK m \in DOMAIN some : page[k] = some[m]
    BY <1>5
  <2>2. PICK n \in DOMAIN rows : some[m] = rows[n]
    BY <1>4
  <2> QED
    BY <2>1, <2>2, <1>2
<1>7. /\ IsList(found)
      /\ \A k \in DOMAIN found : \E i \in DOMAIN page : IsRowOf(found[k], page[i])
      /\ \A i \in DOMAIN page : \E k \in DOMAIN found :
           \E j \in DOMAIN page : page[j].name = page[i].name /\ IsRowOf(found[k], page[j])
  BY <1>5, <1>6, GotMany
<1> HIDE DEF found
<1>8. ASSUME NEW k \in DOMAIN found PROVE \E i \in DOMAIN Farms : IsRowOf(found[k], Farms[i])
  <2>1. PICK m \in DOMAIN page : IsRowOf(found[k], page[m])
    BY <1>7
  <2>2. PICK i \in DOMAIN Farms : IsRowOf(page[m], Farms[i])
    BY <1>6
  <2>3. IsRowOf(found[k], Farms[i])
    BY <2>1, <2>2, RowOfRow
  <2> QED
    BY <2>3
<1>9. ASSUME IsEmptyQuery(query), NEW i \in DOMAIN Farms, IsOn(i), Farms[i].address \in addresses
      PROVE  \E k \in DOMAIN found : IsRowOf(found[k], Farms[i])
  <2>1. PICK n \in DOMAIN rows : IsRowOf(rows[n], Farms[i])
    BY <1>2, <1>9
  <2>2. n \in places
    BY <2>1, <1>3, <1>9, RowHas
  <2>3. PICK m \in DOMAIN page : page[m] = rows[n]
    BY <2>2, <1>4, <1>5, <1>9
  <2>4. PICK k \in DOMAIN found : \E j \in DOMAIN page : page[j].name = page[m].name /\ IsRowOf(found[k], page[j])
    BY <1>7
  <2>5. PICK j \in DOMAIN page : page[j].name = page[m].name /\ IsRowOf(found[k], page[j])
    BY <2>4
  <2>6. PICK f \in DOMAIN Farms : IsRowOf(page[j], Farms[f])
    BY <1>6
  <2>7. Farms[f].name = Farms[i].name
    BY <2>1, <2>3, <2>5, <2>6, RowHas
  <2>8. IsRowOf(found[k], Farms[i])
    BY <2>5, <2>6, <2>7, FarmByName, RowOfRow
  <2> QED
    BY <2>8
<1> QED
  BY <1>1, <1>7, <1>8, <1>9 DEF IsOn

\* How many calls a client makes for a farm, and that they are the same for each of its rows.
CallsOf(client) == IF client \in {"ape.matic", "sushi.matic"} THEN 3 ELSE 2

LEMMA FarmCallsAre ==
  ASSUME NEW client \in FarmClient, NEW row, NEW farm
  PROVE  /\ IsList(FarmCalls(client, row)) /\ Len(FarmCalls(client, row)) = CallsOf(client)
         /\ DOMAIN FarmCalls(client, row) = 1 .. CallsOf(client) /\ CallsOf(client) \in {2, 3}
         /\ IsRowOf(row, farm) => FarmCalls(client, row) = FarmCalls(client, farm)
<1>1. ASSUME NEW a, NEW b PROVE IsList(<<a, b>>) /\ Len(<<a, b>>) = 2 /\ DOMAIN <<a, b>> = 1 .. 2
  <2>1. <<a, b>> \in Seq({a, b})
    OBVIOUS
  <2>2. IsList(<<a, b>>)
    BY <2>1, ListIs
  <2>3. Len(<<a, b>>) = 2 /\ DOMAIN <<a, b>> = 1 .. 2
    OBVIOUS
  <2> QED
    BY <2>2, <2>3
<1>2. ASSUME NEW a, NEW b, NEW c PROVE IsList(<<a, b, c>>) /\ Len(<<a, b, c>>) = 3 /\ DOMAIN <<a, b, c>> = 1 .. 3
  <2>1. <<a, b, c>> \in Seq({a, b, c})
    OBVIOUS
  <2>2. IsList(<<a, b, c>>)
    BY <2>1, ListIs
  <2>3. Len(<<a, b, c>>) = 3 /\ DOMAIN <<a, b, c>> = 1 .. 3
    OBVIOUS
  <2> QED
    BY <2>2, <2>3
<1>3. IsRowOf(row, farm) => row.address = farm.address /\ row.pid = farm.pid /\ row.data = farm.data
  BY RowHas
<1>4. CASE client \in {"ape.matic", "sushi.matic"}
  <2>1. CallsOf(client) = 3
    BY <1>4 DEF CallsOf
  <2>2. CASE client = "ape.matic"
    <3>1. \A r : FarmCalls(client, r) = ApeSwapMaticFarmCalls(r)
      BY <2>2 DEF FarmCalls
    <3> QED
      BY <1>2, <1>3, <2>1, <3>1 DEF ApeSwapMaticFarmCalls
  <2>3. CASE client = "sushi.matic"
    <3>1. \A r : FarmCalls(client, r) = SushiSwapMaticFarmCalls(r)
      BY <2>3 DEF FarmCalls
    <3> QED
      BY <1>2, <1>3, <2>1, <3>1 DEF SushiSwapMaticFarmCalls
  <2> QED
    BY <1>4, <2>2, <2>3
<1>5. CASE client \notin {"ape.matic", "sushi.matic"}
  <2>1. CallsOf(client) = 2
    BY <1>5 DEF CallsOf
  <2>2. /\ IsList(FarmCalls(client, row)) /\ Len(FarmCalls(client, row)) = 2
        /\ DOMAIN FarmCalls(client, row) = 1 .. 2
        /\ IsRowOf(row, farm) => FarmCalls(client, row) = FarmCalls(client, farm)
    <3>1. CASE client = "pancake.farm"
      BY <1>1, <1>3, <3>1 DEF FarmCalls, PancakeSwapFarmCalls
    <3>2. CASE client = "pancake.farm2"
      BY <1>1, <1>3, <3>2 DEF FarmCalls, PancakeSwapFarm2Calls
    <3>3. CASE client = "ape.bsc"
      BY <1>1, <1>3, <3>3 DEF FarmCalls, ApeSwapBscFarmCalls
    <3>4. CASE client = "mdex.bsc"
      BY <1>1, <1>3, <3>4 DEF FarmCalls, MdexBscFarmCalls
    <3>5. CASE client = "mdex.heco"
      BY <1>1, <1>3, <3>5 DEF FarmCalls, MdexHecoFarmCalls
    <3>6. CASE client = "bakery"
      BY <1>1, <1>3, <3>6 DEF FarmCalls, BakerySwapFarmCalls
    <3>7. CASE client = "wault"
      BY <1>1, <1>3, <3>7 DEF FarmCalls, WaultSwapFarmCalls
    <3>8. CASE client = "bi"
      BY <1>1, <1>3, <3>8 DEF FarmCalls, BiSwapFarmCalls
    <3>9. CASE client = "auto"
      BY <1>1, <1>3, <3>9 DEF FarmCalls, AutoFarmFarmCalls
    <3> QED
      BY <1>5, <3>1, <3>2, <3>3, <3>4, <3>5, <3>6, <3>7, <3>8, <3>9 DEF FarmClient
  <2> QED
    BY <2>1, <2>2
<1> QED
  BY <1>4, <1>5

(***************************************************************************)
(* What a batch is answered.                                               *)
(***************************************************************************)

LEMMA RepliesAre ==
  ASSUME NEW calls, IsList(calls), NEW missed
  PROVE  /\ IsList(Replies(calls, missed)) /\ DOMAIN Replies(calls, missed) = DOMAIN calls
         /\ \A k \in DOMAIN calls :
              /\ Replies(calls, missed)[k] = IF k \in missed THEN [success |-> FALSE, data |-> {}]
                                            ELSE [success |-> TRUE, data |-> {AmountOf(calls[k])}]
              /\ Amount(Replies(calls, missed)[k]) = IF k \in missed THEN Zero ELSE AmountOf(calls[k])
<1> DEFINE r == [k \in DOMAIN calls |-> IF k \in missed THEN [success |-> FALSE, data |-> {}]
                                       ELSE [success |-> TRUE, data |-> {AmountOf(calls[k])}]]
<1>1. Replies(calls, missed) = r
  <2>1. GetBatchStaticAggregator(r) = {r}
    BY DEF GetBatchStaticAggregator, StaticAggregate
  <2>2. Replies(calls, missed) = Decode(GetBatchStaticAggregator(r))
    BY DEF Replies
  <2> HIDE DEF r
  <2> QED
    BY <2>1, <2>2, DecodeOf
<1>2. DOMAIN calls = 1 .. Len(calls) /\ Len(calls) \in Nat
  BY ListHas
<1>3. r = [k \in 1 .. Len(calls) |-> r[k]] /\ DOMAIN r = DOMAIN calls
  BY <1>2
<1>4. ASSUME NEW k \in DOMAIN calls
      PROVE  /\ r[k] = IF k \in missed THEN [success |-> FALSE, data |-> {}]
                       ELSE [success |-> TRUE, data |-> {AmountOf(calls[k])}]
             /\ Amount(r[k]) = IF k \in missed THEN Zero ELSE AmountOf(calls[k])
  <2>1. CASE k \in missed
    <3>1. r[k] = [success |-> FALSE, data |-> {}]
      BY <2>1
    <3> QED
      BY <2>1, <3>1 DEF Amount, ValidResult
  <2>2. CASE k \notin missed
    <3>1. r[k] = [success |-> TRUE, data |-> {AmountOf(calls[k])}]
      BY <2>2
    <3>2. r[k].success /\ r[k].success = TRUE /\ r[k].data = {AmountOf(calls[k])} /\ ~ IsEmptyBytes(r[k].data)
      BY <3>1 DEF IsEmptyBytes
    <3> HIDE DEF r
    <3>3. Amount(r[k]) = Decode({AmountOf(calls[k])})
      BY <3>2 DEF Amount, ValidResult
    <3> QED
      BY <2>2, <3>1, <3>3, DecodeOf
  <2> QED
    BY <2>1, <2>2
<1> HIDE DEF r
<1>5. IsList(r)
  BY <1>2, <1>3, ListFrom
<1> QED
  BY <1>1, <1>3, <1>4, <1>5

LEMMA RepliesCount ==
  ASSUME NEW calls, IsList(calls), NEW missed, NEW k \in DOMAIN calls
  PROVE  Amount(Replies(calls, missed)[k]) = IF k \in missed THEN Zero ELSE AmountOf(calls[k])
<1>1. \A j \in DOMAIN calls :
        Amount(Replies(calls, missed)[j]) = IF j \in missed THEN Zero ELSE AmountOf(calls[j])
  <2>1. IsList(calls)
    OBVIOUS
  <2> QED
    BY ONLY <2>1, RepliesAre
<1> QED
  BY <1>1

\* What is kept is there.
LEMMA KeptIsThere ==
  ASSUME WorldInv
  PROVE  /\ kept.names \subseteq on /\ kept.interacted \subseteq interacted /\ kept.held \subseteq held
         /\ \A p \in kept.owned : p[1] \in DOMAIN owned /\ \E i \in DOMAIN owned[p[1]] : owned[p[1]][i] = p[2]
<1>1. /\ kept.names \subseteq There.names /\ kept.interacted \subseteq There.interacted
      /\ kept.held \subseteq There.held /\ kept.owned \subseteq There.owned
  BY DEF WorldInv
<1>2. /\ There.names = on /\ There.interacted = interacted /\ There.held = held
      /\ There.owned = UNION {{<<a, owned[a][i]>> : i \in DOMAIN owned[a]} : a \in DOMAIN owned}
  BY DEF There
<1>3. ASSUME NEW p \in kept.owned
      PROVE  p[1] \in DOMAIN owned /\ \E i \in DOMAIN owned[p[1]] : owned[p[1]][i] = p[2]
  <2>1. p \in UNION {{<<a, owned[a][i]>> : i \in DOMAIN owned[a]} : a \in DOMAIN owned}
    BY <1>1, <1>2
  <2>2. PICK a \in DOMAIN owned : p \in {<<a, owned[a][i]>> : i \in DOMAIN owned[a]}
    BY <2>1
  <2>3. PICK i \in DOMAIN owned[a] : p = <<a, owned[a][i]>>
    BY <2>2
  <2> QED
    BY <2>3
<1> QED
  BY <1>1, <1>2, <1>3

\* A reply is told, and is something if what it is about was there all along.
LEMMA Asked ==
  ASSUME WorldInv, NEW calls, NEW missed, Ask(calls, missed), Unwritten, NEW k \in DOMAIN calls,
         NEW amount, amount = IF k \in missed THEN Zero ELSE AmountOf(calls[k])
  PROVE  /\ Told(calls[k], amount)'
         /\ calls[k] \in kept'.held /\ calls[k] \notin lost' => amount # Zero
<1>1. /\ replied' = replied \cup {[call |-> calls[i], amount |-> AmountOf(calls[i])] : i \in DOMAIN calls \ missed}
      /\ lost' = lost \cup {calls[i] : i \in missed}
  BY DEF Ask
<1>2. CASE k \in missed
  BY <1>1, <1>2 DEF Told
<1>3. CASE k \notin missed
  <2>1. k \in DOMAIN calls \ missed /\ amount = AmountOf(calls[k])
    BY <1>3
  <2>2. [call |-> calls[k], amount |-> amount] \in replied'
    BY <1>1, <2>1
  <2>3. ASSUME calls[k] \in kept'.held PROVE amount # Zero
    <3>1. kept' = kept
      BY DEF Unwritten
    <3>2. calls[k] \in held
      BY <2>3, <3>1, KeptIsThere
    <3> QED
      BY <2>1, <3>2 DEF AmountOf, WorldInv
  <2> QED
    BY <2>2, <2>3 DEF Told
<1> QED
  BY <1>2, <1>3

LEMMA FarmBatch ==
  ASSUME WorldInv, NEW client \in FarmClient, NEW rows, IsList(rows),
         NEW calls, calls = WalletInfoEncode(client, rows), NEW missed, Ask(calls, missed), Unwritten,
         NEW replies, replies = Replies(calls, missed)
  PROVE  ResultsAreOwn(client, rows, ToSplitWithChunkSize(replies, CallsOf(client)))'
<1> DEFINE lists == [i \in DOMAIN rows |-> FarmCalls(client, rows[i])]
           c == CallsOf(client)
           cut == ToSplitWithChunkSize(replies, c)
<1>1. calls = Flat(lists)
  BY DEF WalletInfoEncode
<1>2. DOMAIN rows = 1 .. Len(rows) /\ Len(rows) \in Nat
  BY ListHas
<1>3. lists = [i \in 1 .. Len(rows) |-> lists[i]] /\ \A i \in DOMAIN rows : lists[i] = FarmCalls(client, rows[i])
  BY <1>2
<1> HIDE DEF lists
<1>4. IsList(lists) /\ DOMAIN lists = DOMAIN rows
  BY <1>2, <1>3, ListFrom
<1>5. c \in Nat \ {0} /\ \A row : IsList(FarmCalls(client, row)) /\ Len(FarmCalls(client, row)) = c
  BY FarmCallsAre
<1>6. \A i \in DOMAIN lists : IsList(lists[i]) /\ Len(lists[i]) = c
  BY <1>3, <1>4, <1>5
<1>7. IsList(calls)
  <2>1. \A i \in DOMAIN lists : IsList(lists[i])
    BY <1>6
  <2>2. IsList(lists)
    BY <1>4
  <2>3. IsList(Flat(lists))
    BY <2>1, <2>2, Flattened
  <2> QED
    BY <2>3, <1>1
<1>8. /\ IsList(replies) /\ DOMAIN replies = DOMAIN calls
      /\ \A k \in DOMAIN calls : Amount(replies[k]) = IF k \in missed THEN Zero ELSE AmountOf(calls[k])
  <2>1. /\ IsList(Replies(calls, missed)) /\ DOMAIN Replies(calls, missed) = DOMAIN calls
        /\ \A k \in DOMAIN calls :
             Amount(Replies(calls, missed)[k]) = IF k \in missed THEN Zero ELSE AmountOf(calls[k])
    <3>1. IsList(calls)
      BY <1>7
    <3>2. IsList(Replies(calls, missed)) /\ DOMAIN Replies(calls, missed) = DOMAIN calls
      BY ONLY <3>1, RepliesAre
    <3>3. \A k \in DOMAIN calls :
             Amount(Replies(calls, missed)[k]) = IF k \in missed THEN Zero ELSE AmountOf(calls[k])
      BY ONLY <3>1, RepliesAre
    <3> QED
      BY <3>2, <3>3
  <2>2. replies = Replies(calls, missed)
    OBVIOUS
  <2> QED
    BY <2>1, <2>2
<1> HIDE DEF c
<1>9. /\ DOMAIN cut = DOMAIN lists
      /\ \A i \in DOMAIN lists :
           /\ Len(cut[i]) = c /\ DOMAIN cut[i] = DOMAIN lists[i]
           /\ \A n \in DOMAIN lists[i] : \E k \in DOMAIN replies : Flat(lists)[k] = lists[i][n] /\ cut[i][n] = replies[k]
  <2>1. IsList(lists) /\ c \in Nat \ {0} /\ IsList(replies) /\ DOMAIN replies = DOMAIN Flat(lists)
    BY <1>1, <1>4, <1>5, <1>8
  <2> HIDE DEF cut
  <2> QED
    BY <2>1, <1>6, Batched DEF cut
<1> HIDE DEF cut
<1>10. ASSUME NEW i \in DOMAIN rows, NEW n \in DOMAIN FarmCalls(client, rows[i])
       PROVE  /\ Told(FarmCalls(client, rows[i])[n], Amount(cut[i][n]))'
              /\ FarmCalls(client, rows[i])[n] \in kept'.held /\ FarmCalls(client, rows[i])[n] \notin lost'
                 => Amount(cut[i][n]) # Zero
  <2>0. i \in DOMAIN lists /\ n \in DOMAIN lists[i]
    BY <1>3, <1>4
  <2>1. PICK k \in DOMAIN replies : calls[k] = lists[i][n] /\ cut[i][n] = replies[k]
    BY <2>0, <1>1, <1>9
  <2>2. k \in DOMAIN calls /\ calls[k] = FarmCalls(client, rows[i])[n]
    BY <2>1, <1>3, <1>8
  <2>3. Amount(cut[i][n]) = IF k \in missed THEN Zero ELSE AmountOf(calls[k])
    BY <2>1, <2>2, <1>8
  <2> DEFINE amount == Amount(cut[i][n])
  <2> HIDE DEF amount
  <2>4. Told(calls[k], amount)' /\ (calls[k] \in kept'.held /\ calls[k] \notin lost' => amount # Zero)
    BY <2>2, <2>3, Asked DEF amount
  <2> QED
    BY <2>2, <2>4 DEF amount
<1>11. DOMAIN cut = DOMAIN rows /\ \A i \in DOMAIN rows :
         Len(cut[i]) = Len(FarmCalls(client, rows[i])) /\ DOMAIN cut[i] = DOMAIN FarmCalls(client, rows[i])
  BY <1>3, <1>4, <1>5, <1>9
<1> QED
  BY <1>10, <1>11 DEF ResultsAreOwn, Lost, cut, c

LEMMA FarmWalletInfo ==
  ASSUME NEW client \in FarmClient, NEW rows, NEW replies
  PROVE  GetFarmWalletInfo(client, rows, replies)
         = FarmItems(Zip(rows, ToSplitWithChunkSize(replies, CallsOf(client))))
<1>1. CASE client \in {"ape.matic", "sushi.matic"}
  <2>1. CallsOf(client) = 3
    BY <1>1 DEF CallsOf
  <2>2. GetFarmWalletInfo(client, rows, replies) = FarmItems(Zip(rows, ToSplitWithChunkSize(replies, 3)))
    BY <1>1 DEF GetFarmWalletInfo, ApeSwapMaticFarmWalletInfo, SushiSwapMaticFarmWalletInfo
  <2> QED
    BY <2>1, <2>2
<1>2. CASE client \notin {"ape.matic", "sushi.matic"}
  <2>1. CallsOf(client) = 2
    BY <1>2 DEF CallsOf
  <2>2. GetFarmWalletInfo(client, rows, replies) = FarmItems(Zip(rows, ToSplitWithChunkSize(replies, 2)))
    <3>1. CASE client \in {"pancake.farm", "pancake.farm2", "ape.bsc", "mdex.bsc"}
      BY <3>1 DEF GetFarmWalletInfo, PancakeSwapFarmWalletInfo, PancakeSwapFarm2WalletInfo,
                  ApeSwapBscFarmWalletInfo, MdexBscFarmWalletInfo
    <3>2. CASE client \in {"mdex.heco", "bakery", "wault", "bi", "auto"}
      BY <3>2 DEF GetFarmWalletInfo, MdexHecoFarmWalletInfo, BakerySwapFarmWalletInfo,
                  WaultSwapFarmWalletInfo, BiSwapFarmWalletInfo, AutoFarmFarmWalletInfo
    <3> QED
      BY <1>2, <3>1, <3>2 DEF FarmClient
  <2> QED
    BY <2>1, <2>2
<1> QED
  BY <1>1, <1>2

LEMMA FarmOfName ==
  ASSUME NEW n \in DOMAIN Farms, NEW item, item.name = Farms[n].name
  PROVE  FarmOf(item) = Farms[n]
<1> DEFINE m == CHOOSE i \in DOMAIN Farms : Farms[i].name = item.name
<1>1. m \in DOMAIN Farms /\ Farms[m].name = item.name
  OBVIOUS
<1>2. FarmOf(item) = Farms[m]
  BY DEF FarmOf
<1> HIDE DEF m
<1> QED
  BY <1>1, <1>2, FarmByName

\* The items of the rows whose results are their own.
LEMMA FarmAnswer ==
  ASSUME NEW client \in FarmClient, NEW rows, IsList(rows),
         \A i \in DOMAIN rows : \E n \in DOMAIN Farms : Farms[n].client = client /\ IsRowOf(rows[i], Farms[n]),
         NEW results, ResultsAreOwn(client, rows, results)',
         NEW result, result = FarmItems(Zip(rows, results)), result # Reverted
  PROVE  /\ \A k \in DOMAIN Decode(result) : FarmItemIsOwn(Decode(result)[k])'
         /\ \A i \in DOMAIN rows : \A n \in DOMAIN Farms :
              Farms[n].client = client /\ IsRowOf(rows[i], Farms[n]) /\ FarmIsWorth(Farms[n])' =>
                \E k \in DOMAIN Decode(result) : Decode(result)[k].name = Farms[n].name
<1> DEFINE zipped == Zip(rows, results)
           places == {i \in DOMAIN zipped : Staked(zipped[i][2])}
           shown == Filter(zipped, places)
           items == [i \in DOMAIN shown |-> FarmItem(shown[i][1], shown[i][2])]
<1>1. DOMAIN rows = 1 .. Len(rows) /\ Len(rows) \in Nat
  BY ListHas
<1>2. zipped = [i \in 1 .. Len(rows) |-> zipped[i]] /\ \A i \in DOMAIN rows : zipped[i] = <<rows[i], results[i]>>
  BY <1>1 DEF Zip
<1>3. DOMAIN zipped = DOMAIN rows
  BY <1>1, <1>2
<1>4. \A i \in DOMAIN zipped : i \in places <=> Staked(zipped[i][2])
  OBVIOUS
<1>5. Decode(result) = items
  <2>1. result = IF \E i \in DOMAIN shown : Len(shown[i][1].rewards) < Len(shown[i][2]) - 1 THEN Reverted ELSE {items}
    BY DEF FarmItems
  <2>2. result = {items}
    BY <2>1
  <2> HIDE DEF items
  <2> QED
    BY <2>2, DecodeOf
<1> HIDE DEF zipped, places
<1>6. IsList(zipped)
  BY <1>1, <1>2, ListFrom
<1>7. /\ IsList(shown)
      /\ \A k \in DOMAIN shown : \E i \in places \cap DOMAIN zipped : shown[k] = zipped[i]
      /\ \A i \in places \cap DOMAIN zipped : \E k \in DOMAIN shown : shown[k] = zipped[i]
  BY ONLY <1>6, Filtered
<1> HIDE DEF shown
<1>8. DOMAIN items = DOMAIN shown /\ \A k \in DOMAIN shown : items[k] = FarmItem(shown[k][1], shown[k][2])
  OBVIOUS
<1> HIDE DEF items
<1>9. \A i \in DOMAIN rows :
        /\ Len(results[i]) = Len(FarmCalls(client, rows[i])) /\ DOMAIN results[i] = DOMAIN FarmCalls(client, rows[i])
        /\ \A n \in DOMAIN FarmCalls(client, rows[i]) :
             /\ Told(FarmCalls(client, rows[i])[n], Amount(results[i][n]))'
             /\ FarmCalls(client, rows[i])[n] \in kept'.held /\ FarmCalls(client, rows[i])[n] \notin lost'
                => Amount(results[i][n]) # Zero
  BY DEF ResultsAreOwn, Lost
<1>10. ASSUME NEW k \in DOMAIN items PROVE FarmItemIsOwn(items[k])'
  <2>a. k \in DOMAIN shown
    BY <1>8
  <2>b. PICK j \in places \cap DOMAIN zipped : shown[k] = zipped[j]
    BY <2>a, <1>7
  <2>1. PICK i \in DOMAIN rows : shown[k] = <<rows[i], results[i]>>
    <3>1. j \in DOMAIN rows
      BY <1>3
    <3>2. zipped[j] = <<rows[j], results[j]>>
      BY <3>1, <1>2
    <3> QED
      BY <3>1, <3>2, <2>b
  <2>2. PICK n \in DOMAIN Farms : Farms[n].client = client /\ IsRowOf(rows[i], Farms[n])
    OBVIOUS
  <2> DEFINE row == rows[i]
             res == results[i]
             item == items[k]
             calls == FarmCalls(client, row)
             c == CallsOf(client)
  <2>3. item = FarmItem(row, res)
    BY <1>8, <2>1
  <2>4. /\ item.name = row.name /\ item.stake = <<Amount(res[1]), row.stake>>
        /\ item.rewards = [m \in 1 .. Len(res) - 1 |-> <<Amount(res[m + 1]), row.rewards[m]>>]
    BY <2>3 DEF FarmItem, DivideDecimals
  <2>5. Len(calls) = c /\ DOMAIN calls = 1 .. c /\ c \in {2, 3}
        /\ FarmCalls(client, row) = FarmCalls(client, Farms[n])
    BY <2>2, FarmCallsAre
  <2>6. Len(res) = c /\ DOMAIN res = 1 .. c /\ \A m \in 1 .. c : Told(calls[m], Amount(res[m]))'
    BY <1>9, <2>5
  <2>7. row.name = Farms[n].name /\ row.stake = Farms[n].stake
    BY <2>2, RowHas
  <2>8. FarmOf(item) = Farms[n]
    BY <2>4, <2>7, FarmOfName
  <2> DEFINE rewards == item.rewards
  <2> HIDE DEF row, res, item, calls, c
  <2>9. DOMAIN rewards = 1 .. c - 1 /\ \A m \in DOMAIN rewards : rewards[m][1] = Amount(res[m + 1])
    BY <2>4, <2>6
  <2>10. rewards = [m \in 1 .. c - 1 |-> rewards[m]]
    BY <2>4, <2>6
  <2>11. c - 1 \in Nat /\ 1 \in 1 .. c /\ \A m \in 1 .. c - 1 : m + 1 \in 1 .. c
    BY <2>5
  <2> HIDE DEF rewards
  <2>12. Len(rewards) = c - 1
    BY <2>10, <2>11, ListFrom
  <2>13. Told(calls[1], item.stake[1])' /\ item.stake[2] = Farms[n].stake
    BY <2>4, <2>6, <2>7, <2>11
  <2>14. \A m \in DOMAIN rewards : Told(calls[m + 1], rewards[m][1])'
    BY <2>6, <2>9, <2>11
  <2>15. calls = FarmCalls(Farms[n].client, Farms[n])
    BY <2>2, <2>5 DEF calls
  <2>16. FarmItemIsOwn(item)'
    BY <2>5, <2>8, <2>12, <2>13, <2>14, <2>15 DEF FarmItemIsOwn, rewards
  <2> QED
    BY <2>16 DEF item
<1>11. ASSUME NEW i \in DOMAIN rows, NEW n \in DOMAIN Farms, Farms[n].client = client, IsRowOf(rows[i], Farms[n]),
              FarmIsWorth(Farms[n])'
       PROVE  \E k \in DOMAIN items : items[k].name = Farms[n].name
  <2>1. FarmCalls(client, rows[i]) = FarmCalls(client, Farms[n])
    BY <1>11, FarmCallsAre
  <2>2. PICK m \in DOMAIN FarmCalls(client, Farms[n]) :
          FarmCalls(client, Farms[n])[m] \in kept'.held /\ FarmCalls(client, Farms[n])[m] \notin lost'
    BY <1>11 DEF FarmIsWorth, Lost
  <2>3. m \in DOMAIN results[i] /\ Amount(results[i][m]) # Zero
    BY <2>1, <2>2, <1>9
  <2>4. Staked(results[i])
    BY <2>3 DEF Staked
  <2>a. zipped[i] = <<rows[i], results[i]>>
    BY <1>2
  <2>b. zipped[i][2] = results[i]
    BY <2>a
  <2>5. i \in places \cap DOMAIN zipped
    BY <2>4, <2>b, <1>3, <1>4
  <2>c. PICK k \in DOMAIN shown : shown[k] = zipped[i]
    BY <2>5, <1>7
  <2>6. shown[k] = <<rows[i], results[i]>>
    BY <2>a, <2>c
  <2>7. items[k] = FarmItem(rows[i], results[i])
    BY <2>6, <1>8
  <2>8. items[k].name = Farms[n].name
    BY <2>7, <1>11, RowHas DEF FarmItem
  <2> QED
    BY <2>8, <1>8
<1> QED
  BY <1>5, <1>10, <1>11

(***************************************************************************)
(* What is told stays told, and what is worth something later is so now.   *)
(***************************************************************************)
Later ==
  /\ replied \subseteq replied' /\ lost \subseteq lost'
  /\ kept'.names \subseteq kept.names /\ kept'.interacted \subseteq kept.interacted
  /\ kept'.held \subseteq kept.held /\ kept'.owned \subseteq kept.owned

ItemIsOwn(item) ==
  /\ request.kind = "token" => TokenItemIsOwn(item)
  /\ request.kind = "farm" => FarmItemIsOwn(item)
  /\ request.kind = "nft" => NFTokenItemIsOwn(item)
  /\ request.kind = "lending" => LendingItemIsOwn(item)

TaskIs(task) ==
  /\ request.kind = "token" => TokenTask(task)
  /\ request.kind = "farm" => FarmTask(task)
  /\ request.kind = "nft" => NFTTask(task)
  /\ request.kind = "lending" => LendingTask(task)

LEMMA StillTold ==
  ASSUME Later, NEW call, NEW amount, Told(call, amount)
  PROVE  Told(call, amount)'
  BY DEF Later, Told

LEMMA ItemStays ==
  ASSUME Later, request'.kind = request.kind, NEW item, ItemIsOwn(item)
  PROVE  ItemIsOwn(item)'
<1>1. TokenItemIsOwn(item) => TokenItemIsOwn(item)'
  BY StillTold DEF TokenItemIsOwn, TokenOf, BalanceCall, Call
<1>2. FarmItemIsOwn(item) => FarmItemIsOwn(item)'
  <2> DEFINE farm == FarmOf(item)
             calls == FarmCalls(farm.client, farm)
  <2>1. farm' = farm /\ calls' = calls
    BY DEF FarmOf
  <2> HIDE DEF farm, calls
  <2>2. SUFFICES ASSUME FarmItemIsOwn(item) PROVE FarmItemIsOwn(item)'
    OBVIOUS
  <2>3. /\ Told(calls[1], item.stake[1]) /\ item.stake[2] = farm.stake
        /\ Len(item.rewards) = Len(calls) - 1
        /\ \A n \in DOMAIN item.rewards : Told(calls[n + 1], item.rewards[n][1])
    BY <2>2 DEF FarmItemIsOwn, farm, calls
  <2> DEFINE call == calls[1]
  <2>4. \A c, a : Told(c, a) => Told(c, a)'
    BY StillTold
  <2>5. /\ Told(calls[1], item.stake[1])' /\ item.stake[2] = farm'.stake
        /\ Len(item.rewards) = Len(calls') - 1
        /\ \A n \in DOMAIN item.rewards : Told(calls[n + 1], item.rewards[n][1])'
    BY <2>1, <2>3, <2>4 DEF Told
  <2> QED
    BY <2>1, <2>5 DEF FarmItemIsOwn, farm, calls
<1>3. NFTokenItemIsOwn(item) => NFTokenItemIsOwn(item)'
  BY DEF NFTokenItemIsOwn, NFTokenOf, Later
<1>4. LendingItemIsOwn(item) => LendingItemIsOwn(item)'
  BY DEF LendingItemIsOwn, MarketOf, LendingCalls, Told, Later
<1> QED
  BY <1>1, <1>2, <1>3, <1>4 DEF ItemIsOwn

LEMMA ResultsStay ==
  ASSUME Later, NEW client, NEW rows, NEW results, ResultsAreOwn(client, rows, results)
  PROVE  ResultsAreOwn(client, rows, results)'
<1>1. DOMAIN results = DOMAIN rows
  BY DEF ResultsAreOwn
<1>2. ASSUME NEW i \in DOMAIN rows
      PROVE  /\ Len(results[i]) = Len(FarmCalls(client, rows[i])) /\ DOMAIN results[i] = DOMAIN FarmCalls(client, rows[i])
             /\ \A n \in DOMAIN FarmCalls(client, rows[i]) :
                  /\ Told(FarmCalls(client, rows[i])[n], Amount(results[i][n]))'
                  /\ FarmCalls(client, rows[i])[n] \in kept'.held /\ FarmCalls(client, rows[i])[n] \notin lost'
                     => Amount(results[i][n]) # Zero
  <2> DEFINE calls == FarmCalls(client, rows[i])
  <2>1. /\ Len(results[i]) = Len(calls) /\ DOMAIN results[i] = DOMAIN calls
        /\ \A n \in DOMAIN calls :
             /\ Told(calls[n], Amount(results[i][n]))
             /\ calls[n] \in kept.held /\ calls[n] \notin lost => Amount(results[i][n]) # Zero
    BY DEF ResultsAreOwn, Lost
  <2> HIDE DEF calls
  <2>2. ASSUME NEW n \in DOMAIN calls
        PROVE  /\ Told(calls[n], Amount(results[i][n]))'
               /\ calls[n] \in kept'.held /\ calls[n] \notin lost' => Amount(results[i][n]) # Zero
    <3> DEFINE call == calls[n]  amount == Amount(results[i][n])
    <3>1. Told(call, amount) /\ (call \in kept.held /\ call \notin lost => amount # Zero)
      BY <2>1
    <3> HIDE DEF call, amount
    <3>2. Told(call, amount)' /\ (call \in kept'.held /\ call \notin lost' => amount # Zero)
      BY <3>1 DEF Later, Told
    <3> QED
      BY <3>2 DEF call, amount
  <2> QED
    BY <2>1, <2>2 DEF calls
<1> QED
  BY <1>1, <1>2 DEF ResultsAreOwn, Lost

LEMMA TaskStays ==
  ASSUME Later, request'.kind = request.kind, DOMAIN owned' = DOMAIN owned, NEW task, TaskIs(task)
  PROVE  TaskIs(task)'
<1>1. TokenTask(task) => TokenTask(task)'
  BY DEF TokenTask
<1>2. FarmTask(task) => FarmTask(task)'
  <2> DEFINE results == ToSplitWithChunkSize(task.replies, 3)
  <2>1. ResultsAreOwn(task.id, task.rows, results) => ResultsAreOwn(task.id, task.rows, results)'
    <3> DEFINE client == task.id  rows == task.rows
    <3> HIDE DEF results, client, rows
    <3>1. ResultsAreOwn(client, rows, results) => ResultsAreOwn(client, rows, results)'
      BY ResultsStay
    <3> QED
      BY <3>1 DEF client, rows
  <2> HIDE DEF results
  <2> QED
    BY <2>1 DEF FarmTask, results
<1>3. NFTTask(task) => NFTTask(task)'
  BY DEF NFTTask, Later
<1>4. LendingTask(task) => LendingTask(task)'
  BY DEF LendingTask
<1> QED
  BY <1>1, <1>2, <1>3, <1>4 DEF TaskIs

LEMMA WorthBefore ==
  ASSUME Later
  PROVE  /\ \A farm : FarmIsWorth(farm)' => FarmIsWorth(farm)
         /\ \A token : TokenIsWorth(token)' => TokenIsWorth(token)
         /\ \A item : NFTokenIsWorth(item)' => NFTokenIsWorth(item)
         /\ \A market : MarketIsWorth(market)' => MarketIsWorth(market)
<1>1. ASSUME NEW farm, FarmIsWorth(farm)' PROVE FarmIsWorth(farm)
  <2> DEFINE calls == FarmCalls(farm.client, farm)
  <2>1. /\ {farm.name, farm.protocol, farm.network, farm.stake} \subseteq kept'.names
        /\ \E n \in DOMAIN farm.rewards : farm.rewards[n] \in kept'.names
        /\ \E i \in kept'.interacted : i.address = farm.address
        /\ \E n \in DOMAIN calls : calls[n] \in kept'.held /\ calls[n] \notin lost'
    BY <1>1 DEF FarmIsWorth, Interacted, Lost
  <2> HIDE DEF calls
  <2>2. /\ {farm.name, farm.protocol, farm.network, farm.stake} \subseteq kept.names
        /\ \E n \in DOMAIN farm.rewards : farm.rewards[n] \in kept.names
        /\ \E i \in kept.interacted : i.address = farm.address
    BY <2>1 DEF Later
  <2>3. \E n \in DOMAIN calls : calls[n] \in kept.held /\ calls[n] \notin lost
    BY <2>1 DEF Later
  <2> QED
    BY <2>2, <2>3 DEF FarmIsWorth, Interacted, Lost, calls
<1>2. ASSUME NEW token, TokenIsWorth(token)' PROVE TokenIsWorth(token)
  BY <1>2 DEF TokenIsWorth, Interacted, Lost, Later
<1>3. ASSUME NEW item, NFTokenIsWorth(item)' PROVE NFTokenIsWorth(item)
  BY <1>3 DEF NFTokenIsWorth, Later
<1>4. ASSUME NEW market, MarketIsWorth(market)' PROVE MarketIsWorth(market)
  BY <1>4 DEF MarketIsWorth, Lost, Later
<1> QED
  BY <1>1, <1>2, <1>3, <1>4

(***************************************************************************)
(* Steps of a request.                                                     *)
(***************************************************************************)
IsTask(task) == DOMAIN task = {"id", "pc", "rows", "replies"} /\ IsList(task.rows)

LEMMA WorldStays ==
  ASSUME WorldInv, Unwritten, request'.kind = request.kind
  PROVE  WorldInv'
<1>1. /\ held' = held /\ owned' = owned /\ reserves' = reserves /\ on' = on /\ interacted' = interacted
      /\ may' = may /\ kept' = kept
  BY DEF Unwritten, chain, database
<1>2. There' = There
  BY <1>1 DEF There
<1> QED
  BY <1>1, <1>2 DEF WorldInv

\* A request that fails has no tasks and no items any more.
LEMMA Failed ==
  ASSUME RequestsInv, Fails, Unwritten
  PROVE  RequestsInv'
<1>1. RequestShape /\ DOMAIN request = {"kind", "query", "pc", "addresses", "tasks", "items"}
  BY DEF RequestsInv, RequestShape
<1>2. /\ DOMAIN request' = DOMAIN request /\ request'.kind = request.kind /\ request'.query = request.query
      /\ request'.pc = "failed" /\ request'.tasks = {} /\ request'.items = {}
  BY <1>1 DEF Fails
<1>3. WorldInv'
  BY <1>2, WorldStays DEF RequestsInv
<1>4. RequestShape'
  BY <1>1, <1>2 DEF RequestShape
<1>5. TasksInv' /\ ItemsInv'
  BY <1>2 DEF TasksInv, ItemsInv
<1>6. NothingMuchBetterIsHidden'
  BY <1>2 DEF NothingMuchBetterIsHidden, Answered
<1>7. /\ \A farm : FarmOnItsWay(farm)' /\ \A token : TokenOnItsWay(token)'
      /\ \A item : NFTokenOnItsWay(item)' /\ \A market : MarketOnItsWay(market)'
  BY <1>2 DEF FarmOnItsWay, TokenOnItsWay, NFTokenOnItsWay, MarketOnItsWay
<1>8. WayInv'
  BY <1>7 DEF WayInv
<1> QED
  BY <1>3, <1>4, <1>5, <1>6, <1>8 DEF RequestsInv

LEMMA Awaited ==
  ASSUME RequestShape, NEW tasks, NEW items, Await(tasks, items), \A task \in tasks : IsTask(task)
  PROVE  /\ request'.kind = request.kind /\ request'.query = request.query
         /\ request'.addresses = request.addresses
         /\ request'.tasks = tasks /\ request'.items = request.items \cup items
         /\ request'.pc = IF tasks = {} THEN "answered" ELSE "tasks"
         /\ RequestShape'
<1>1. DOMAIN request = {"kind", "query", "pc", "addresses", "tasks", "items"}
  BY DEF RequestShape
<1>2. /\ DOMAIN request' = DOMAIN request /\ request'.kind = request.kind /\ request'.query = request.query
      /\ request'.addresses = request.addresses
      /\ request'.tasks = tasks /\ request'.items = request.items \cup items
      /\ request'.pc = IF tasks = {} THEN "answered" ELSE "tasks"
  BY <1>1 DEF Await
<1>3. RequestShape'
  BY <1>1, <1>2 DEF RequestShape, IsTask
<1> QED
  BY <1>2, <1>3

\* What there is to show of a step that goes from one set of tasks to another.
LEMMA AwaitKeeps ==
  ASSUME RequestsInv, Unwritten, Later, request.kind # "swap",
         NEW tasks, NEW items, Await(tasks, items), \A task \in tasks : IsTask(task),
         \A task \in tasks \ request.tasks : TaskIs(task)',
         \A item \in items : ItemIsOwn(item)',
         WayInv'
  PROVE  RequestsInv'
<1>1. /\ request'.kind = request.kind /\ request'.tasks = tasks /\ request'.items = request.items \cup items
      /\ RequestShape'
  BY Awaited DEF RequestsInv
<1>2. WorldInv'
  BY <1>1, WorldStays DEF RequestsInv
<1>3. DOMAIN owned' = DOMAIN owned
  BY DEF Unwritten, chain
<1>4. ASSUME NEW task \in request.tasks PROVE TaskIs(task)'
  <2>1. TaskIs(task)
    BY DEF RequestsInv, TasksInv, TaskIs
  <2> QED
    BY <1>1, <1>3, <2>1, TaskStays
<1>5. ASSUME NEW item \in request.items PROVE ItemIsOwn(item)'
  <2>1. ItemIsOwn(item)
    BY DEF RequestsInv, ItemsInv, ItemIsOwn
  <2> QED
    BY <1>1, <2>1, ItemStays
<1>6. \A task \in tasks : TaskIs(task)'
  BY <1>4
<1>7. \A item \in request.items \cup items : ItemIsOwn(item)'
  BY <1>5
<1>8. TasksInv'
  <2>1. request'.kind # "swap"
    BY <1>1
  <2> QED
    BY <1>1, <1>6, <2>1 DEF TasksInv, TaskIs
<1>9. ItemsInv'
  BY <1>1, <1>7 DEF ItemsInv, ItemIsOwn
<1>10. NothingMuchBetterIsHidden'
  BY <1>1 DEF NothingMuchBetterIsHidden, Answered
<1> QED
  BY <1>1, <1>2, <1>8, <1>9, <1>10 DEF RequestsInv

LEMMA NothingAsked ==
  ASSUME Unwritten, Unasked
  PROVE  Later
  BY DEF Unwritten, Unasked, Later

LEMMA SomethingAsked ==
  ASSUME Unwritten, NEW calls, NEW missed, Ask(calls, missed)
  PROVE  Later
  BY DEF Unwritten, Ask, Later

\* A step to the next query of the request.
LEMMA GotoKeeps ==
  ASSUME RequestsInv, Unwritten, Unasked, NEW pc, NEW addresses, Goto(pc, addresses),
         pc \in {"interactions", "search", "common"}, request.pc \in {"new", "interactions"},
         \A i \in DOMAIN Farms :
           request.kind = "farm" /\ IsEmptyQuery(request.query) /\ FarmIsWorth(Farms[i]) => Farms[i].address \in addresses,
         \A i \in DOMAIN Tokens :
           request.kind = "token" /\ IsEmptyQuery(request.query) /\ TokenIsWorth(Tokens[i]) => Tokens[i].address \in addresses
  PROVE  RequestsInv'
<1>1. RequestShape /\ DOMAIN request = {"kind", "query", "pc", "addresses", "tasks", "items"}
      /\ request.tasks = {} /\ request.items = {}
  BY DEF RequestsInv, RequestShape
<1>2. /\ DOMAIN request' = DOMAIN request /\ request'.kind = request.kind /\ request'.query = request.query
      /\ request'.pc = pc /\ request'.addresses = addresses /\ request'.tasks = {} /\ request'.items = {}
  BY <1>1 DEF Goto
<1>3. WorldInv'
  BY <1>2, WorldStays DEF RequestsInv
<1>4. RequestShape'
  BY <1>1, <1>2 DEF RequestShape
<1>5. TasksInv' /\ ItemsInv'
  BY <1>2 DEF TasksInv, ItemsInv
<1>6. NothingMuchBetterIsHidden'
  BY <1>2 DEF NothingMuchBetterIsHidden, Answered
<1>7. Later
  BY NothingAsked
<1>8. ASSUME request.kind = "farm", IsEmptyQuery(request.query), NEW i \in DOMAIN Farms, FarmIsWorth(Farms[i])'
      PROVE  FarmOnItsWay(Farms[i])'
  <2>1. FarmIsWorth(Farms[i])
    BY <1>7, <1>8, WorthBefore
  <2> QED
    BY <1>2, <1>8, <2>1 DEF FarmOnItsWay
<1>a. ASSUME request.kind = "token", IsEmptyQuery(request.query), NEW i \in DOMAIN Tokens, TokenIsWorth(Tokens[i])'
      PROVE  TokenOnItsWay(Tokens[i])'
  <2>1. TokenIsWorth(Tokens[i])
    BY <1>7, <1>a, WorthBefore
  <2> QED
    BY <1>2, <1>a, <2>1 DEF TokenOnItsWay
<1>9. /\ \A item : NFTokenOnItsWay(item)'
      /\ \A market : MarketOnItsWay(market)'
  BY <1>2 DEF NFTokenOnItsWay, MarketOnItsWay
<1>10. WayInv'
  BY <1>2, <1>8, <1>a, <1>9 DEF WayInv
<1> QED
  BY <1>3, <1>4, <1>5, <1>6, <1>10 DEF RequestsInv

(***************************************************************************)
(* Farms.                                                                  *)
(***************************************************************************)

\* A farm that is worth something is one the search finds.
LEMMA WorthIsOn ==
  ASSUME WorldInv, NEW i \in DOMAIN Farms, FarmIsWorth(Farms[i])
  PROVE  /\ {Farms[i].name, Farms[i].protocol, Farms[i].network, Farms[i].stake} \subseteq on
         /\ \E n \in DOMAIN Farms[i].rewards : Farms[i].rewards[n] \in on
         /\ \E j \in interacted : j.address = Farms[i].address
<1>1. kept.names \subseteq on /\ kept.interacted \subseteq interacted
  BY KeptIsThere
<1> QED
  BY <1>1 DEF FarmIsWorth, Interacted

LEMMA SearchFarmAddressesKeeps ==
  ASSUME RequestsInv, SearchFarmAddresses
  PROVE  RequestsInv'
<1> DEFINE addresses == FarmSearchDistinctAddress(Farms, on)
           rows == FarmSearchQueryBuilder(Farms, on)
<1>1. /\ request.kind = "farm" /\ request.pc = "new" /\ Goto("interactions", addresses) /\ Unwritten /\ Unasked
  BY DEF SearchFarmAddresses, At
<1>2. addresses = {rows[k].address : k \in DOMAIN rows}
  BY DEF FarmSearchDistinctAddress
<1>3. ASSUME NEW i \in DOMAIN Farms, FarmIsWorth(Farms[i]) PROVE Farms[i].address \in addresses
  <2>1. /\ {Farms[i].name, Farms[i].protocol, Farms[i].network, Farms[i].stake} \subseteq on
        /\ \E n \in DOMAIN Farms[i].rewards : Farms[i].rewards[n] \in on
    BY <1>3, WorthIsOn DEF RequestsInv
  <2>2. PICK k \in DOMAIN rows : IsRowOf(rows[k], Farms[i])
    BY <2>1, FarmRows
  <2>3. rows[k].address = Farms[i].address
    BY <2>2, RowHas
  <2> QED
    BY <1>2, <2>3
<1> HIDE DEF addresses
<1> QED
  BY <1>1, <1>3, GotoKeeps

\* The next step of a farm that is worth something and waits for its addresses.
LEMMA FarmAddressKept ==
  ASSUME RequestsInv, request.kind = "farm", IsEmptyQuery(request.query),
         request.pc \in {"interactions", "search"}, NEW i \in DOMAIN Farms, FarmIsWorth(Farms[i])
  PROVE  Farms[i].address \in request.addresses
  BY DEF RequestsInv, WayInv, FarmOnItsWay

LEMMA FarmFindInteractionsKeeps ==
  ASSUME RequestsInv, FarmFindInteractions
  PROVE  RequestsInv'
<1> DEFINE addresses == {i.address : i \in {j \in interacted : j.address \in request.addresses}}
<1>1. /\ request.kind = "farm" /\ request.pc = "interactions" /\ Unwritten /\ Unasked
      /\ IF addresses = {} THEN Await({}, {}) ELSE Goto("search", addresses)
  BY DEF FarmFindInteractions, At
<1>2. ASSUME NEW i \in DOMAIN Farms, IsEmptyQuery(request.query), FarmIsWorth(Farms[i])
      PROVE  Farms[i].address \in addresses
  <2>1. Farms[i].address \in request.addresses
    BY <1>1, <1>2, FarmAddressKept
  <2>2. PICK j \in interacted : j.address = Farms[i].address
    BY <1>2, WorthIsOn DEF RequestsInv
  <2> QED
    BY <2>1, <2>2
<1> HIDE DEF addresses
<1>3. CASE addresses = {}
  <2>1. Await({}, {})
    BY <1>1, <1>3
  <2>2. Later
    BY <1>1, NothingAsked
  <2>3. request'.kind = "farm" /\ request'.query = request.query
    BY <1>1, <2>1, Awaited DEF RequestsInv
  <2>4. WayInv'
    <3>1. \A i \in DOMAIN Farms : IsEmptyQuery(request.query) => ~ FarmIsWorth(Farms[i])'
      BY <1>2, <1>3, <2>2, WorthBefore
    <3> QED
      BY <2>3, <3>1 DEF WayInv
  <2> QED
    BY <1>1, <2>1, <2>2, <2>4, AwaitKeeps
<1>4. CASE addresses # {}
  BY <1>1, <1>2, <1>4, GotoKeeps
<1> QED
  BY <1>3, <1>4

LEMMA TaskHas ==
  ASSUME NEW id, NEW pc, NEW rows
  PROVE  /\ Task(id, pc, rows).id = id /\ Task(id, pc, rows).pc = pc /\ Task(id, pc, rows).rows = rows
         /\ DOMAIN Task(id, pc, rows) = {"id", "pc", "rows", "replies"}
         /\ IsList(rows) => IsTask(Task(id, pc, rows))
<1> DEFINE task == Task(id, pc, rows)
<1>1. task = [id |-> id, pc |-> pc, rows |-> rows, replies |-> <<>>]
  BY DEF Task
<1>2. task.id = id /\ task.pc = pc /\ task.rows = rows /\ DOMAIN task = {"id", "pc", "rows", "replies"}
  BY <1>1
<1> HIDE DEF task
<1>3. IsList(rows) => IsTask(task)
  BY <1>2 DEF IsTask
<1> QED
  BY <1>2, <1>3 DEF task

LEMMA SearchFarmsKeeps ==
  ASSUME RequestsInv, SearchFarms
  PROVE  RequestsInv'
<1> DEFINE farms == FarmSearch(Farms, on, request.addresses, request.query)
           clients == UNION {GetWalletFarms(farms[i].protocol) : i \in DOMAIN farms}
           Of(c) == Filter(farms, {i \in DOMAIN farms : farms[i].client = c})
           tasks == {Task(c, "info", Of(c)) : c \in clients}
<1>1. /\ request.kind = "farm" /\ request.pc = "search" /\ Unwritten /\ Unasked
      /\ Await(tasks, {})
  BY DEF SearchFarms, At
<1>2. /\ request.query \in [page : Nat, limit : Nat, skipItems : Nat]
      /\ request.tasks = {}
  BY <1>1 DEF RequestsInv, RequestShape
<1>3. /\ IsList(farms)
      /\ \A k \in DOMAIN farms : \E i \in DOMAIN Farms : IsRowOf(farms[k], Farms[i])
      /\ IsEmptyQuery(request.query) =>
           \A i \in DOMAIN Farms :
             /\ {Farms[i].name, Farms[i].protocol, Farms[i].network, Farms[i].stake} \subseteq on
             /\ \E n \in DOMAIN Farms[i].rewards : Farms[i].rewards[n] \in on
             /\ Farms[i].address \in request.addresses
             => \E k \in DOMAIN farms : IsRowOf(farms[k], Farms[i])
  BY <1>2, FarmsFound
<1>4. \A c \in clients : \E i \in DOMAIN farms : c \in GetWalletFarms(farms[i].protocol)
  OBVIOUS
<1>5. \A i \in DOMAIN farms : GetWalletFarms(farms[i].protocol) \subseteq clients
  OBVIOUS
<1> HIDE DEF farms, clients
<1>6. ASSUME NEW c
      PROVE  /\ IsList(Of(c))
             /\ \A k \in DOMAIN Of(c) : \E i \in DOMAIN farms : Of(c)[k] = farms[i] /\ farms[i].client = c
             /\ \A i \in DOMAIN farms : farms[i].client = c => \E k \in DOMAIN Of(c) : Of(c)[k] = farms[i]
  <2> DEFINE places == {i \in DOMAIN farms : farms[i].client = c}
             some == Filter(farms, places)
  <2>1. \A i \in DOMAIN farms : i \in places <=> farms[i].client = c
    OBVIOUS
  <2> HIDE DEF places
  <2>2. IsList(farms)
    BY <1>3
  <2>3. /\ IsList(some)
        /\ \A k \in DOMAIN some : \E i \in places \cap DOMAIN farms : some[k] = farms[i]
        /\ \A i \in places \cap DOMAIN farms : \E k \in DOMAIN some : some[k] = farms[i]
    BY ONLY <2>2, Filtered
  <2> HIDE DEF some
  <2>4. /\ \A k \in DOMAIN some : \E i \in DOMAIN farms : some[k] = farms[i] /\ farms[i].client = c
        /\ \A i \in DOMAIN farms : farms[i].client = c => \E k \in DOMAIN some : some[k] = farms[i]
    BY <2>1, <2>3
  <2> QED
    BY <2>3, <2>4 DEF some, places
<1> HIDE DEF Of
<1>7. \A task \in tasks : \E c \in clients : task = Task(c, "info", Of(c))
  OBVIOUS
<1>8. \A c \in clients : Task(c, "info", Of(c)) \in tasks
  OBVIOUS
<1> HIDE DEF tasks
<1>9. Later
  BY <1>1, NothingAsked
<1>10. \A task \in tasks : IsTask(task)
  BY <1>6, <1>7, TaskHas
<1>11. request'.kind = "farm" /\ request'.query = request.query /\ request'.tasks = tasks
  BY <1>1, <1>10, Awaited DEF RequestsInv
<1>12. ASSUME NEW task \in tasks PROVE TaskIs(task)'
  <2>1. PICK c \in clients : task = Task(c, "info", Of(c))
    BY <1>7
  <2>2. task.id = c /\ task.pc = "info" /\ task.rows = Of(c)
    BY <2>1, TaskHas
  <2>3. c \in FarmClient
    <3>1. PICK k \in DOMAIN farms : c \in GetWalletFarms(farms[k].protocol)
      BY <1>4
    <3>2. PICK i \in DOMAIN Farms : IsRowOf(farms[k], Farms[i])
      BY <1>3
    <3>3. farms[k].protocol = Farms[i].protocol
      BY <3>2, RowHas
    <3>4. GetWalletFarms(Farms[i].protocol) \subseteq FarmClient
      BY TablesAssumption
    <3> QED
      BY <3>1, <3>3, <3>4
  <2>4. ASSUME NEW k \in DOMAIN Of(c) PROVE \E n \in DOMAIN Farms : Farms[n].client = c /\ IsRowOf(Of(c)[k], Farms[n])
    <3>1. PICK i \in DOMAIN farms : Of(c)[k] = farms[i] /\ farms[i].client = c
      BY <1>6
    <3>2. PICK n \in DOMAIN Farms : IsRowOf(farms[i], Farms[n])
      BY <1>3
    <3>3. Farms[n].client = c
      BY <3>1, <3>2, RowHas
    <3> QED
      BY <3>1, <3>2, <3>3
  <2>5. FarmTask(task)'
    BY <2>2, <2>3, <2>4 DEF FarmTask
  <2> QED
    BY <1>11, <2>5 DEF TaskIs
<1>13. ASSUME IsEmptyQuery(request.query), NEW i \in DOMAIN Farms, FarmIsWorth(Farms[i])'
       PROVE  FarmOnItsWay(Farms[i])'
  <2>1. FarmIsWorth(Farms[i])
    BY <1>9, <1>13, WorthBefore
  <2>2. Farms[i].address \in request.addresses
    BY <1>1, <1>13, <2>1, FarmAddressKept
  <2>3. PICK k \in DOMAIN farms : IsRowOf(farms[k], Farms[i])
    BY <1>3, <1>13, <2>1, <2>2, WorthIsOn DEF RequestsInv
  <2> DEFINE c == Farms[i].client
  <2>4. farms[k].client = c /\ farms[k].protocol = Farms[i].protocol
    BY <2>3, RowHas
  <2>5. c \in GetWalletFarms(Farms[i].protocol)
    BY TablesAssumption
  <2>6. c \in clients
    BY <1>5, <2>4, <2>5
  <2> DEFINE task == Task(c, "info", Of(c))
  <2>7. task \in tasks
    BY <1>8, <2>6
  <2>8. task.id = c /\ task.rows = Of(c)
    BY TaskHas
  <2>9. PICK n \in DOMAIN Of(c) : Of(c)[n] = farms[k]
    BY <1>6, <2>4
  <2> HIDE DEF task, c
  <2>10. n \in DOMAIN task.rows /\ IsRowOf(task.rows[n], Farms[i])
    BY <2>3, <2>8, <2>9
  <2>11. request'.pc \notin {"interactions", "search"}
    BY <1>1, <1>10, Awaited DEF RequestsInv
  <2> QED
    BY <1>11, <2>7, <2>8, <2>10, <2>11 DEF FarmOnItsWay, c
<1>14. WayInv'
  BY <1>11, <1>13 DEF WayInv
<1> QED
  BY <1>1, <1>9, <1>10, <1>12, <1>14, AwaitKeeps

LEMMA TasksAre ==
  ASSUME RequestsInv, NEW task \in request.tasks
  PROVE  /\ IsTask(task) /\ TaskIs(task) /\ request.pc = "tasks"
         /\ \A other \in request.tasks : IsTask(other)
  BY DEF RequestsInv, RequestShape, IsTask, TasksInv, TaskIs

LEMMA FarmDone ==
  ASSUME RequestsInv, request.kind = "farm", Unwritten, Later, NEW task \in request.tasks,
         NEW results, ResultsAreOwn(task.id, task.rows, results)',
         DoneOr(task, FarmItems(Zip(task.rows, results)))
  PROVE  RequestsInv'
<1> DEFINE result == FarmItems(Zip(task.rows, results))
           items == {Decode(result)[k] : k \in DOMAIN Decode(result)}
           tasks == request.tasks \ {task}
<1>1. DoneOr(task, result)
  OBVIOUS
<1>2. IsTask(task) /\ FarmTask(task) /\ request.pc = "tasks" /\ \A other \in request.tasks : IsTask(other)
  BY TasksAre DEF TaskIs
<1>3. /\ IsList(task.rows) /\ task.id \in FarmClient
      /\ \A i \in DOMAIN task.rows : \E n \in DOMAIN Farms : Farms[n].client = task.id /\ IsRowOf(task.rows[i], Farms[n])
  BY <1>2 DEF IsTask, FarmTask
<1>4. CASE result = Reverted
  <2>1. Fails
    BY <1>1, <1>4 DEF DoneOr
  <2> QED
    BY <2>1, Failed
<1>5. CASE result # Reverted
  <2>1. Await(tasks, items)
    BY <1>1, <1>5 DEF DoneOr, Done
  <2>2. /\ \A k \in DOMAIN Decode(result) : FarmItemIsOwn(Decode(result)[k])'
        /\ \A i \in DOMAIN task.rows : \A n \in DOMAIN Farms :
             Farms[n].client = task.id /\ IsRowOf(task.rows[i], Farms[n]) /\ FarmIsWorth(Farms[n])' =>
               \E k \in DOMAIN Decode(result) : Decode(result)[k].name = Farms[n].name
    <3> DEFINE client == task.id  rows == task.rows
    <3>1. /\ client \in FarmClient /\ IsList(rows) /\ ResultsAreOwn(client, rows, results)'
          /\ \A i \in DOMAIN rows : \E n \in DOMAIN Farms : Farms[n].client = client /\ IsRowOf(rows[i], Farms[n])
          /\ result = FarmItems(Zip(rows, results)) /\ result # Reverted
      BY <1>3, <1>5
    <3> HIDE DEF client, rows, result
    <3>2. /\ \A k \in DOMAIN Decode(result) : FarmItemIsOwn(Decode(result)[k])'
          /\ \A i \in DOMAIN rows : \A n \in DOMAIN Farms :
             Farms[n].client = client /\ IsRowOf(rows[i], Farms[n]) /\ FarmIsWorth(Farms[n])' =>
               \E k \in DOMAIN Decode(result) : Decode(result)[k].name = Farms[n].name
      BY ONLY <3>1, FarmAnswer
    <3> QED
      BY <3>2 DEF client, rows
  <2> HIDE DEF result
  <2>3. \A k \in DOMAIN Decode(result) : Decode(result)[k] \in items
    OBVIOUS
  <2>4. \A item \in items : \E k \in DOMAIN Decode(result) : item = Decode(result)[k]
    OBVIOUS
  <2> HIDE DEF items
  <2>5. \A other \in tasks : IsTask(other)
    BY <1>2
  <2>6. /\ request'.kind = "farm" /\ request'.query = request.query /\ request'.tasks = tasks
        /\ request'.items = request.items \cup items /\ request'.pc \in {"tasks", "answered"}
    BY <2>1, <2>5, Awaited DEF RequestsInv
  <2>7. \A item \in items : ItemIsOwn(item)'
    BY <2>2, <2>4, <2>6 DEF ItemIsOwn
  <2>8. ASSUME IsEmptyQuery(request.query), NEW n \in DOMAIN Farms, FarmIsWorth(Farms[n])'
        PROVE  FarmOnItsWay(Farms[n])'
    <3>1. FarmIsWorth(Farms[n])
      BY <2>8, WorthBefore
    <3>2. FarmOnItsWay(Farms[n])
      BY <2>8, <3>1 DEF RequestsInv, WayInv
    <3>3. \/ Shown(Farms[n].name)
          \/ \E other \in request.tasks :
               other.id = Farms[n].client /\ \E i \in DOMAIN other.rows : IsRowOf(other.rows[i], Farms[n])
      BY <1>2, <3>2 DEF FarmOnItsWay
    <3>4. \/ \E item \in request'.items : item.name = Farms[n].name
          \/ \E other \in request'.tasks :
               other.id = Farms[n].client /\ \E i \in DOMAIN other.rows : IsRowOf(other.rows[i], Farms[n])
      <4>1. CASE Shown(Farms[n].name)
        BY <2>6, <4>1 DEF Shown
      <4>2. CASE \E other \in tasks :
               other.id = Farms[n].client /\ \E i \in DOMAIN other.rows : IsRowOf(other.rows[i], Farms[n])
        BY <2>6, <4>2
      <4>3. CASE task.id = Farms[n].client /\ \E i \in DOMAIN task.rows : IsRowOf(task.rows[i], Farms[n])
        <5>1. PICK k \in DOMAIN Decode(result) : Decode(result)[k].name = Farms[n].name
          BY <2>2, <2>8, <4>3
        <5> QED
          BY <2>3, <2>6, <5>1
      <4> QED
        BY <3>3, <4>1, <4>2, <4>3
    <3> QED
      BY <2>6, <3>4 DEF FarmOnItsWay, Shown
  <2>9. WayInv'
    BY <2>6, <2>8 DEF WayInv
  <2> QED
    BY <2>1, <2>5, <2>7, <2>9, AwaitKeeps
<1> QED
  BY <1>4, <1>5

LEMMA GetWalletFarmInfosKeeps ==
  ASSUME RequestsInv, GetWalletFarmInfos
  PROVE  RequestsInv'
<1>1. PICK task \in Tasks("farm", "info") :
        \E missed \in Losses(WalletInfoEncode(task.id, task.rows)) :
          LET replies == Replies(WalletInfoEncode(task.id, task.rows), missed)
          IN  /\ Ask(WalletInfoEncode(task.id, task.rows), missed)
              /\ IF AsksRewarder(task.id, replies)
                 THEN Then(task, [task EXCEPT !.pc = "rewarder", !.replies = replies])
                 ELSE DoneOr(task, GetFarmWalletInfo(task.id, task.rows, replies))
  BY DEF GetWalletFarmInfos
<1>2. Unwritten
  BY DEF GetWalletFarmInfos
<1> DEFINE client == task.id
           rows == task.rows
           calls == WalletInfoEncode(client, rows)
<1>3. PICK missed : /\ Ask(calls, missed)
                    /\ IF AsksRewarder(client, Replies(calls, missed))
                       THEN Then(task, [task EXCEPT !.pc = "rewarder", !.replies = Replies(calls, missed)])
                       ELSE DoneOr(task, GetFarmWalletInfo(client, rows, Replies(calls, missed)))
  BY <1>1
<1>4. PICK replies : replies = Replies(calls, missed)
  OBVIOUS
<1>5. task \in request.tasks /\ request.kind = "farm" /\ task.pc = "info"
  BY DEF Tasks
<1>6. IsTask(task) /\ FarmTask(task) /\ request.pc = "tasks" /\ \A other \in request.tasks : IsTask(other)
  BY <1>5, TasksAre DEF TaskIs
<1>7. IsList(rows) /\ client \in FarmClient
  BY <1>6 DEF IsTask, FarmTask
<1>8. Later
  BY <1>2, <1>3, SomethingAsked
<1> DEFINE results == ToSplitWithChunkSize(replies, CallsOf(client))
<1>9. ResultsAreOwn(client, rows, results)'
  <2> HIDE DEF client, rows
  <2>1. WorldInv
    BY DEF RequestsInv
  <2>2. calls = WalletInfoEncode(client, rows)
    OBVIOUS
  <2> HIDE DEF calls
  <2> QED
    BY ONLY <2>1, <2>2, <1>2, <1>3, <1>4, <1>7, FarmBatch
<1>10. CASE AsksRewarder(client, replies)
  <2>1. PICK next : next = [task EXCEPT !.pc = "rewarder", !.replies = replies]
    OBVIOUS
  <2>2. Then(task, next)
    BY <1>3, <1>4, <1>10, <2>1
  <2>3. DOMAIN next = DOMAIN task /\ next.id = client /\ next.rows = rows /\ next.pc = "rewarder" /\ next.replies = replies
    BY <1>6, <2>1 DEF IsTask
  <2> DEFINE tasks == (request.tasks \ {task}) \cup {next}
  <2>4. Await(tasks, {})
    BY <2>2 DEF Then
  <2>5. \A other \in tasks : IsTask(other)
    BY <1>6, <2>3 DEF IsTask
  <2>6. /\ request'.kind = "farm" /\ request'.query = request.query /\ request'.tasks = tasks
        /\ request'.items = request.items /\ request'.pc \in {"tasks", "answered"}
    <3> HIDE DEF tasks
    <3>1. request.items \cup {} = request.items
      OBVIOUS
    <3> QED
      BY <1>5, <2>4, <2>5, <3>1, Awaited DEF RequestsInv
  <2>7. client = "ape.matic"
    BY <1>10 DEF AsksRewarder
  <2>8. CallsOf(client) = 3
    BY <2>7 DEF CallsOf
  <2>9. FarmTask(next)'
    <3>1. ResultsAreOwn(next.id, next.rows, ToSplitWithChunkSize(next.replies, 3))'
      BY <1>9, <2>3, <2>8
    <3> QED
      BY <1>6, <2>3, <2>7, <3>1 DEF FarmTask
  <2>10. TaskIs(next)'
    BY <2>6, <2>9 DEF TaskIs
  <2>11. ASSUME IsEmptyQuery(request.query), NEW n \in DOMAIN Farms, FarmIsWorth(Farms[n])'
        PROVE  FarmOnItsWay(Farms[n])'
    <3>1. FarmIsWorth(Farms[n])
      BY <1>8, <2>11, WorthBefore
    <3>2. FarmOnItsWay(Farms[n])
      BY <1>5, <2>11, <3>1 DEF RequestsInv, WayInv
    <3>3. \/ Shown(Farms[n].name)
          \/ \E other \in request.tasks :
               other.id = Farms[n].client /\ \E i \in DOMAIN other.rows : IsRowOf(other.rows[i], Farms[n])
      BY <1>6, <3>2 DEF FarmOnItsWay
    <3>4. \/ \E item \in request'.items : item.name = Farms[n].name
          \/ \E other \in request'.tasks :
               other.id = Farms[n].client /\ \E i \in DOMAIN other.rows : IsRowOf(other.rows[i], Farms[n])
      BY <2>3, <2>6, <3>3 DEF Shown
    <3> QED
      BY <2>6, <3>4 DEF FarmOnItsWay, Shown
  <2>12. WayInv'
    BY <2>6, <2>11 DEF WayInv
  <2>13. \A other \in tasks \ request.tasks : TaskIs(other)'
    BY <2>10
  <2>14. request.kind # "swap" /\ \A item \in {} : ItemIsOwn(item)'
    BY <1>5
  <2> HIDE DEF tasks
  <2> QED
    BY <1>2, <1>8, <2>4, <2>5, <2>12, <2>13, <2>14, AwaitKeeps
<1>11. CASE ~ AsksRewarder(client, replies)
  <2>1. DoneOr(task, GetFarmWalletInfo(client, rows, replies))
    BY <1>3, <1>4, <1>11
  <2>2. GetFarmWalletInfo(client, rows, replies) = FarmItems(Zip(rows, results))
    BY <1>7, FarmWalletInfo
  <2>3. DoneOr(task, FarmItems(Zip(task.rows, results))) /\ ResultsAreOwn(task.id, task.rows, results)'
    BY <1>9, <2>1, <2>2
  <2> HIDE DEF results
  <2> QED
    BY <1>2, <1>5, <1>8, <2>3, FarmDone
<1> QED
  BY <1>10, <1>11

LEMMA GetFarmRewarderRewardTokenKeeps ==
  ASSUME RequestsInv, GetFarmRewarderRewardToken
  PROVE  RequestsInv'
<1>1. PICK task \in Tasks("farm", "rewarder") :
        DoneOr(task, GetFarmWalletInfo(task.id, task.rows, task.replies)) /\ Unwritten /\ Unasked
  BY DEF GetFarmRewarderRewardToken
<1>2. task \in request.tasks /\ request.kind = "farm" /\ task.pc = "rewarder"
  BY DEF Tasks
<1>3. FarmTask(task)
  BY <1>2, TasksAre DEF TaskIs
<1> DEFINE results == ToSplitWithChunkSize(task.replies, 3)
<1>4. task.id \in FarmClient /\ task.id = "ape.matic" /\ ResultsAreOwn(task.id, task.rows, results)
  BY <1>2, <1>3 DEF FarmTask
<1>5. Later
  BY <1>1, NothingAsked
<1>6. GetFarmWalletInfo(task.id, task.rows, task.replies) = FarmItems(Zip(task.rows, results))
  <2>1. CallsOf(task.id) = 3
    BY <1>4 DEF CallsOf
  <2> QED
    BY <1>4, <2>1, FarmWalletInfo
<1> HIDE DEF results
<1>7. ResultsAreOwn(task.id, task.rows, results)'
  <2> DEFINE client == task.id  rows == task.rows
  <2> HIDE DEF client, rows
  <2>1. ResultsAreOwn(client, rows, results)
    BY <1>4 DEF client, rows
  <2>2. ResultsAreOwn(client, rows, results)'
    BY ONLY <1>5, <2>1, ResultsStay
  <2> QED
    BY <2>2 DEF client, rows
<1> QED
  BY <1>1, <1>2, <1>5, <1>6, <1>7, FarmDone

(***************************************************************************)
(* Tokens.                                                                 *)
(***************************************************************************)

LEMMA TokenFindInteractionsKeeps ==
  ASSUME RequestsInv, TokenFindInteractions
  PROVE  RequestsInv'
<1> DEFINE addresses == {i.address : i \in interacted}
<1>1. /\ request.kind = "token" /\ request.pc = "new" /\ Unwritten /\ Unasked
      /\ IF addresses = {} THEN Await({}, {}) ELSE Goto("search", addresses)
  BY DEF TokenFindInteractions, At
<1>2. ASSUME NEW i \in DOMAIN Tokens, TokenIsWorth(Tokens[i])
      PROVE  Tokens[i].address \in addresses
  <2>1. PICK j \in kept.interacted : j.address = Tokens[i].address
    BY <1>2 DEF TokenIsWorth, Interacted
  <2>2. j \in interacted
    BY KeptIsThere DEF RequestsInv
  <2> QED
    BY <2>1, <2>2
<1> HIDE DEF addresses
<1>3. CASE addresses = {}
  <2>1. Await({}, {})
    BY <1>1, <1>3
  <2>2. Later
    BY <1>1, NothingAsked
  <2>3. request'.kind = "token" /\ request'.query = request.query
    BY <1>1, <2>1, Awaited DEF RequestsInv
  <2>4. WayInv'
    <3>1. \A i \in DOMAIN Tokens : ~ TokenIsWorth(Tokens[i])'
      BY <1>2, <1>3, <2>2, WorthBefore
    <3> QED
      BY <2>3, <3>1 DEF WayInv
  <2> QED
    BY <1>1, <2>1, <2>2, <2>4, AwaitKeeps
<1>4. CASE addresses # {}
  BY <1>1, <1>2, <1>4, GotoKeeps
<1> QED
  BY <1>3, <1>4

LEMMA TokensFound ==
  ASSUME NEW names, NEW addresses, NEW query \in [page : Nat, limit : Nat, skipItems : Nat]
  PROVE  /\ IsList(TokenSearch(Tokens, names, addresses, query))
         /\ \A k \in DOMAIN TokenSearch(Tokens, names, addresses, query) :
              \E i \in DOMAIN Tokens : TokenSearch(Tokens, names, addresses, query)[k] = Tokens[i]
         /\ IsEmptyQuery(query) =>
              \A i \in DOMAIN Tokens :
                {Tokens[i].name, Tokens[i].network} \subseteq names /\ Tokens[i].address \in addresses
                => \E k \in DOMAIN TokenSearch(Tokens, names, addresses, query) :
                     TokenSearch(Tokens, names, addresses, query)[k] = Tokens[i]
<1> DEFINE places == {i \in DOMAIN Tokens : /\ {Tokens[i].name, Tokens[i].network} \subseteq names
                                           /\ Tokens[i].address \in addresses}
           some == Filter(Tokens, places)
           page == Page(some, query)
<1>1. TokenSearch(Tokens, names, addresses, query) = page
  BY DEF TokenSearch
<1>2. IsList(Tokens)
  BY TablesAssumption DEF IsTable
<1>3. \A i \in DOMAIN Tokens :
        {Tokens[i].name, Tokens[i].network} \subseteq names /\ Tokens[i].address \in addresses => i \in places
  OBVIOUS
<1> HIDE DEF places
<1>4. /\ IsList(some)
      /\ \A k \in DOMAIN some : \E i \in places \cap DOMAIN Tokens : some[k] = Tokens[i]
      /\ \A i \in places \cap DOMAIN Tokens : \E k \in DOMAIN some : some[k] = Tokens[i]
  BY ONLY <1>2, Filtered
<1> HIDE DEF some
<1>5. /\ IsList(page)
      /\ \A k \in DOMAIN page : \E i \in DOMAIN some : page[k] = some[i]
      /\ IsEmptyQuery(query) => page = some
  BY <1>4, Paged
<1> HIDE DEF page
<1>6. \A k \in DOMAIN page : \E i \in DOMAIN Tokens : page[k] = Tokens[i]
  BY <1>4, <1>5
<1>7. ASSUME IsEmptyQuery(query), NEW i \in DOMAIN Tokens, i \in places
      PROVE  \E k \in DOMAIN page : page[k] = Tokens[i]
  BY <1>4, <1>5, <1>7
<1> QED
  BY <1>1, <1>3, <1>5, <1>6, <1>7

LEMMA SearchTokensKeeps ==
  ASSUME RequestsInv, SearchTokens
  PROVE  RequestsInv'
<1> DEFINE tokens == TokenSearch(Tokens, on, request.addresses, request.query)
           networks == {tokens[i].network : i \in DOMAIN tokens}
           Of(n) == Filter(tokens, {i \in DOMAIN tokens : tokens[i].network = n})
           tasks == {Task(n, "balances", Of(n)) : n \in networks}
<1>1. /\ request.kind = "token" /\ request.pc = "search" /\ Unwritten /\ Unasked
      /\ Await(tasks, {})
  BY DEF SearchTokens, At
<1>2. /\ request.query \in [page : Nat, limit : Nat, skipItems : Nat]
      /\ request.tasks = {}
  BY <1>1 DEF RequestsInv, RequestShape
<1>3. /\ IsList(tokens)
      /\ \A k \in DOMAIN tokens : \E i \in DOMAIN Tokens : tokens[k] = Tokens[i]
      /\ IsEmptyQuery(request.query) =>
           \A i \in DOMAIN Tokens :
             {Tokens[i].name, Tokens[i].network} \subseteq on /\ Tokens[i].address \in request.addresses
             => \E k \in DOMAIN tokens : tokens[k] = Tokens[i]
  BY <1>2, TokensFound
<1>4. \A k \in DOMAIN tokens : tokens[k].network \in networks
  OBVIOUS
<1> HIDE DEF tokens, networks
<1>5. ASSUME NEW n
      PROVE  /\ IsList(Of(n))
             /\ \A k \in DOMAIN Of(n) : \E i \in DOMAIN tokens : Of(n)[k] = tokens[i] /\ tokens[i].network = n
             /\ \A i \in DOMAIN tokens : tokens[i].network = n => \E k \in DOMAIN Of(n) : Of(n)[k] = tokens[i]
  <2> DEFINE places == {i \in DOMAIN tokens : tokens[i].network = n}
             some == Filter(tokens, places)
  <2>1. \A i \in DOMAIN tokens : i \in places <=> tokens[i].network = n
    OBVIOUS
  <2> HIDE DEF places
  <2>2. IsList(tokens)
    BY <1>3
  <2>3. /\ IsList(some)
        /\ \A k \in DOMAIN some : \E i \in places \cap DOMAIN tokens : some[k] = tokens[i]
        /\ \A i \in places \cap DOMAIN tokens : \E k \in DOMAIN some : some[k] = tokens[i]
    BY ONLY <2>2, Filtered
  <2> HIDE DEF some
  <2>4. /\ \A k \in DOMAIN some : \E i \in DOMAIN tokens : some[k] = tokens[i] /\ tokens[i].network = n
        /\ \A i \in DOMAIN tokens : tokens[i].network = n => \E k \in DOMAIN some : some[k] = tokens[i]
    BY <2>1, <2>3
  <2> QED
    BY <2>3, <2>4 DEF some, places
<1> HIDE DEF Of
<1>6. \A task \in tasks : \E n \in networks : task = Task(n, "balances", Of(n))
  OBVIOUS
<1>7. \A n \in networks : Task(n, "balances", Of(n)) \in tasks
  OBVIOUS
<1> HIDE DEF tasks
<1>8. Later
  BY <1>1, NothingAsked
<1>9. \A task \in tasks : IsTask(task)
  BY <1>5, <1>6, TaskHas
<1>10. request'.kind = "token" /\ request'.query = request.query /\ request'.tasks = tasks
       /\ request'.pc \in {"tasks", "answered"}
  BY <1>1, <1>9, Awaited DEF RequestsInv
<1>11. ASSUME NEW task \in tasks PROVE TaskIs(task)'
  <2>1. PICK n \in networks : task = Task(n, "balances", Of(n))
    BY <1>6
  <2>2. task.id = n /\ task.rows = Of(n)
    BY <2>1, TaskHas
  <2>3. ASSUME NEW k \in DOMAIN Of(n) PROVE Of(n)[k].network = n /\ \E i \in DOMAIN Tokens : Of(n)[k] = Tokens[i]
    <3>1. PICK i \in DOMAIN tokens : Of(n)[k] = tokens[i] /\ tokens[i].network = n
      BY <1>5
    <3> QED
      BY <3>1, <1>3
  <2>4. TokenTask(task)'
    BY <2>2, <2>3 DEF TokenTask
  <2> QED
    BY <1>10, <2>4 DEF TaskIs
<1>12. ASSUME IsEmptyQuery(request.query), NEW i \in DOMAIN Tokens, TokenIsWorth(Tokens[i])'
       PROVE  TokenOnItsWay(Tokens[i])'
  <2>1. TokenIsWorth(Tokens[i])
    BY <1>8, <1>12, WorthBefore
  <2>2. Tokens[i].address \in request.addresses
    BY <1>1, <1>12, <2>1 DEF RequestsInv, WayInv, TokenOnItsWay
  <2>3. {Tokens[i].name, Tokens[i].network} \subseteq on
    <3>1. kept.names \subseteq on
      BY KeptIsThere DEF RequestsInv
    <3> QED
      BY <2>1, <3>1 DEF TokenIsWorth
  <2>4. PICK k \in DOMAIN tokens : tokens[k] = Tokens[i]
    BY <1>3, <1>12, <2>2, <2>3
  <2> DEFINE n == Tokens[i].network
             task == Task(n, "balances", Of(n))
  <2>5. task \in tasks
    BY <1>4, <1>7, <2>4
  <2>6. task.rows = Of(n)
    BY TaskHas
  <2>7. PICK m \in DOMAIN Of(n) : Of(n)[m] = tokens[k]
    BY <1>5, <2>4
  <2> HIDE DEF task, n
  <2>8. m \in DOMAIN task.rows /\ task.rows[m] = Tokens[i]
    BY <2>4, <2>6, <2>7
  <2> QED
    BY <1>10, <2>5, <2>8 DEF TokenOnItsWay
<1>13. WayInv'
  BY <1>10, <1>12 DEF WayInv
<1> QED
  BY <1>1, <1>8, <1>9, <1>11, <1>13, AwaitKeeps

LEMMA WithinOne ==
  ASSUME NEW n \in Nat, NEW k \in 1 .. n
  PROVE  ((k - 1) \div n) + 1 = 1 /\ ((k - 1) % n) + 1 = k
<1>1. (k - 1) \div n = 0
  OBVIOUS
<1>2. (k - 1) % n = k - 1
  OBVIOUS
<1> QED
  BY <1>1, <1>2

LEMMA BalancesAre ==
  ASSUME NEW addresses, IsList(addresses), NEW balanceOf, NEW coins, NEW k \in DOMAIN addresses
  PROVE  GetBatchERC20Balances(<<"wallet">>, addresses, balanceOf, coins)[k]
         = IF addresses[k] # ZeroAddress THEN Safe(balanceOf["wallet"][addresses[k]], 0) ELSE coins["wallet"]
<1> DEFINE n == Len(addresses)
<1>1. n \in Nat /\ k \in 1 .. n
  BY ListHas
<1>2. Len(<<"wallet">>) * n = n /\ <<"wallet">>[1] = "wallet"
  BY <1>1
<1> DEFINE I(m) == ((m - 1) \div n) + 1
           J(m) == ((m - 1) % n) + 1
<1>3. I(k) = 1 /\ J(k) = k
  BY <1>1, WithinOne
<1>4. GetBatchERC20Balances(<<"wallet">>, addresses, balanceOf, coins)
      = [m \in 1 .. Len(<<"wallet">>) * n |->
           IF addresses[J(m)] # ZeroAddress THEN Safe(balanceOf[<<"wallet">>[I(m)]][addresses[J(m)]], 0)
           ELSE coins[<<"wallet">>[I(m)]]]
  BY DEF GetBatchERC20Balances
<1> HIDE DEF n, I, J
<1>5. k \in 1 .. Len(<<"wallet">>) * n
  BY <1>1, <1>2
<1>6. GetBatchERC20Balances(<<"wallet">>, addresses, balanceOf, coins)[k]
      = IF addresses[J(k)] # ZeroAddress THEN Safe(balanceOf[<<"wallet">>[I(k)]][addresses[J(k)]], 0)
        ELSE coins[<<"wallet">>[I(k)]]
  BY <1>4, <1>5
<1> QED
  BY <1>2, <1>3, <1>6

LEMMA TokenOfName ==
  ASSUME NEW n \in DOMAIN Tokens, NEW item, item.name = Tokens[n].name
  PROVE  TokenOf(item) = Tokens[n]
<1> DEFINE m == CHOOSE i \in DOMAIN Tokens : Tokens[i].name = item.name
<1>1. m \in DOMAIN Tokens /\ Tokens[m].name = item.name
  OBVIOUS
<1>2. TokenOf(item) = Tokens[m]
  BY DEF TokenOf
<1> HIDE DEF m
<1>3. m = n
  BY <1>1, TablesAssumption DEF IsTable
<1> QED
  BY <1>2, <1>3

LEMMA SafeIsAmount == ASSUME NEW reply PROVE Safe(reply, 0) = Amount(reply)
  BY DEF Safe, Amount, ValidResult, Zero

LEMMA GetWalletTokenBalancesKeeps ==
  ASSUME RequestsInv, GetWalletTokenBalances
  PROVE  RequestsInv'
<1>1. PICK task \in Tasks("token", "balances") :
    LET tokens == task.rows
        calls == [i \in DOMAIN tokens |-> BalanceCall(tokens[i])]
        addresses == [i \in DOMAIN tokens |-> tokens[i].address]
    IN  \E missed \in Losses(calls) :
          LET replies == Replies(calls, missed)
              Balance(address) == replies[CHOOSE i \in DOMAIN addresses : addresses[i] = address]
              balances == GetBatchERC20Balances(<<"wallet">>, addresses,
                            [user \in {"wallet"} |-> [a \in {addresses[i] : i \in DOMAIN addresses} |-> Balance(a)]],
                            [user \in {"wallet"} |-> AmountOf(Call(task.id, "balanceOf", ZeroAddress))])
              zipped == Zip(tokens, balances)
          IN  /\ \A i \in missed : addresses[i] # ZeroAddress
              /\ Ask(calls, missed)
              /\ Done(task, {[name |-> zipped[i][1].name,
                              balance |-> DivideDecimals(zipped[i][2], zipped[i][1].name)]
                             : i \in {j \in DOMAIN zipped : zipped[j][2] # Zero}})
  BY DEF GetWalletTokenBalances
<1>2. Unwritten
  BY DEF GetWalletTokenBalances
<1>3. task \in request.tasks /\ request.kind = "token"
  BY DEF Tasks
<1> DEFINE tokens == task.rows
<1>4. /\ IsList(tokens) /\ request.pc = "tasks" /\ \A other \in request.tasks : IsTask(other)
      /\ \A i \in DOMAIN tokens : tokens[i].network = task.id /\ \E n \in DOMAIN Tokens : tokens[i] = Tokens[n]
  BY <1>3, TasksAre DEF TaskIs, TokenTask, IsTask
<1> DEFINE calls == [i \in DOMAIN tokens |-> BalanceCall(tokens[i])]
           addresses == [i \in DOMAIN tokens |-> tokens[i].address]
<1>5. calls = [i \in DOMAIN tokens |-> BalanceCall(tokens[i])]
  OBVIOUS
<1>6. addresses = [i \in DOMAIN tokens |-> tokens[i].address]
  OBVIOUS
<1> DEFINE BalanceOf(missed) ==
             [user \in {"wallet"} |-> [a \in {addresses[i] : i \in DOMAIN addresses} |->
                Replies(calls, missed)[CHOOSE i \in DOMAIN addresses : addresses[i] = a]]]
           Coins == [user \in {"wallet"} |-> AmountOf(Call(task.id, "balanceOf", ZeroAddress))]
           Zipped(missed) == Zip(tokens, GetBatchERC20Balances(<<"wallet">>, addresses, BalanceOf(missed), Coins))
<1>7. PICK missed \in Losses(calls) :
                    /\ \A i \in missed : addresses[i] # ZeroAddress
                    /\ Ask(calls, missed)
                    /\ Done(task, {[name |-> Zipped(missed)[i][1].name,
                                    balance |-> DivideDecimals(Zipped(missed)[i][2], Zipped(missed)[i][1].name)]
                                   : i \in {j \in DOMAIN Zipped(missed) : Zipped(missed)[j][2] # Zero}})
  BY <1>1
<1> HIDE DEF calls, addresses
<1>8. PICK balanceOf : balanceOf = BalanceOf(missed)
  OBVIOUS
<1>9. PICK coins : coins = Coins
  OBVIOUS
<1>10. PICK balances : balances = GetBatchERC20Balances(<<"wallet">>, addresses, balanceOf, coins)
  OBVIOUS
<1>11. PICK zipped : zipped = Zip(tokens, balances)
  OBVIOUS
<1> DEFINE items == {[name |-> zipped[i][1].name, balance |-> DivideDecimals(zipped[i][2], zipped[i][1].name)]
                     : i \in {j \in DOMAIN zipped : zipped[j][2] # Zero}}
<1>12. Done(task, items)
  BY <1>7, <1>8, <1>9, <1>10, <1>11
<1>13. DOMAIN zipped = DOMAIN tokens /\ \A i \in DOMAIN tokens : zipped[i] = <<tokens[i], balances[i]>>
  BY <1>11 DEF Zip
<1>14. DOMAIN addresses = DOMAIN tokens /\ \A i \in DOMAIN tokens : balanceOf["wallet"][addresses[i]]
           = Replies(calls, missed)[CHOOSE j \in DOMAIN addresses : addresses[j] = addresses[i]]
  BY <1>6, <1>8
<1>15. coins["wallet"] = AmountOf(Call(task.id, "balanceOf", ZeroAddress))
  BY <1>9
<1> HIDE DEF BalanceOf, Coins, Zipped
\* A balance is what is told of its own token, though it is looked up by address.
<1>16. ASSUME NEW k \in DOMAIN tokens
       PROVE  /\ Told(BalanceCall(tokens[k]), balances[k])'
              /\ BalanceCall(tokens[k]) \in kept'.held /\ BalanceCall(tokens[k]) \notin lost' => balances[k] # Zero
  <2>1. DOMAIN tokens = 1 .. Len(tokens) /\ Len(tokens) \in Nat
    BY <1>4, ListHas
  <2>2. DOMAIN calls = DOMAIN tokens /\ \A i \in DOMAIN tokens : calls[i] = BalanceCall(tokens[i])
    BY <1>5
  <2>3. \A i \in DOMAIN tokens : addresses[i] = tokens[i].address
    BY <1>6
  <2>4. \A i \in DOMAIN tokens : calls[i] = Call(task.id, "balanceOf", addresses[i])
    BY <1>4, <2>2, <2>3 DEF BalanceCall
  <2> HIDE DEF tokens
  <2>5. IsList(calls) /\ IsList(addresses)
    <3>1. calls = [i \in 1 .. Len(tokens) |-> calls[i]] /\ addresses = [i \in 1 .. Len(tokens) |-> addresses[i]]
      BY <1>5, <1>6, <2>1
    <3>2. Len(tokens) \in Nat
      BY <2>1
    <3>3. IsList(calls)
      BY ONLY <3>1, <3>2, ListFrom
    <3>4. IsList(addresses)
      BY ONLY <3>1, <3>2, ListFrom
    <3> QED
      BY <3>3, <3>4
  <2>6. PICK balance : balance = balances[k]
    OBVIOUS
  <2>7. balance = IF addresses[k] # ZeroAddress THEN Safe(balanceOf["wallet"][addresses[k]], 0) ELSE coins["wallet"]
    <3>1. IsList(addresses) /\ k \in DOMAIN addresses
      BY <1>14, <2>5
    <3>2. GetBatchERC20Balances(<<"wallet">>, addresses, balanceOf, coins)[k]
          = IF addresses[k] # ZeroAddress THEN Safe(balanceOf["wallet"][addresses[k]], 0) ELSE coins["wallet"]
      BY ONLY <3>1, BalancesAre
    <3> QED
      BY <1>10, <2>6, <3>2
  <2>8. WorldInv /\ Ask(calls, missed)
    BY <1>7 DEF RequestsInv
  <2>9. ASSUME NEW j \in DOMAIN calls, calls[j] = calls[k], balance = IF j \in missed THEN Zero ELSE AmountOf(calls[j])
        PROVE  Told(calls[k], balance)' /\ (calls[k] \in kept'.held /\ calls[k] \notin lost' => balance # Zero)
    <3>1. Told(calls[j], balance)' /\ (calls[j] \in kept'.held /\ calls[j] \notin lost' => balance # Zero)
      BY ONLY <1>2, <2>8, <2>9, Asked
    <3> QED
      BY <2>9, <3>1
  <2>10. Told(calls[k], balance)' /\ (calls[k] \in kept'.held /\ calls[k] \notin lost' => balance # Zero)
    <3>1. CASE addresses[k] = ZeroAddress
      <4>1. k \notin missed /\ k \in DOMAIN calls
        BY <3>1, <1>7, <2>2
      <4>2. balance = AmountOf(calls[k])
        BY <3>1, <1>15, <2>4, <2>7
      <4> QED
        BY <4>1, <4>2, <2>9
    <3>2. CASE addresses[k] # ZeroAddress
      <4> DEFINE j == CHOOSE i \in DOMAIN addresses : addresses[i] = addresses[k]
      <4>1. j \in DOMAIN addresses /\ addresses[j] = addresses[k]
        BY <1>14
      <4>2. balanceOf["wallet"][addresses[k]] = Replies(calls, missed)[j]
        BY <1>14
      <4> HIDE DEF j
      <4>3. j \in DOMAIN calls /\ calls[j] = calls[k]
        BY <1>14, <2>2, <2>4, <4>1
      <4>4. balance = Amount(Replies(calls, missed)[j])
        BY <3>2, <2>7, <4>2, SafeIsAmount
      <4>5. Amount(Replies(calls, missed)[j]) = IF j \in missed THEN Zero ELSE AmountOf(calls[j])
        <5>1. IsList(calls) /\ j \in DOMAIN calls
          BY <2>5, <4>3
        <5> QED
          BY ONLY <5>1, RepliesCount
      <4> QED
        BY <4>3, <4>4, <4>5, <2>9
    <3> QED
      BY <3>1, <3>2
  <2>11. calls[k] = BalanceCall(tokens[k])
    BY <2>2
  <2> QED
    BY <2>6, <2>10, <2>11
<1>17. \A item \in items : \E i \in DOMAIN zipped :
         item = [name |-> zipped[i][1].name, balance |-> DivideDecimals(zipped[i][2], zipped[i][1].name)]
  OBVIOUS
<1>18. \A i \in DOMAIN zipped : zipped[i][2] # Zero =>
         [name |-> zipped[i][1].name, balance |-> DivideDecimals(zipped[i][2], zipped[i][1].name)] \in items
  OBVIOUS
<1> HIDE DEF items
<1> DEFINE tasks == request.tasks \ {task}
<1>19. Await(tasks, items)
  BY <1>12 DEF Done
<1>20. Later
  BY <1>2, <1>7, SomethingAsked
<1>21. \A other \in tasks : IsTask(other)
  BY <1>4
<1>22. /\ request'.kind = "token" /\ request'.query = request.query /\ request'.tasks = tasks
       /\ request'.items = request.items \cup items /\ request'.pc \in {"tasks", "answered"}
  BY <1>3, <1>19, <1>21, Awaited DEF RequestsInv
<1>23. ASSUME NEW item \in items PROVE ItemIsOwn(item)'
  <2>1. PICK i \in DOMAIN tokens :
          item = [name |-> zipped[i][1].name, balance |-> DivideDecimals(zipped[i][2], zipped[i][1].name)]
    BY <1>13, <1>17
  <2>2. zipped[i][1] = tokens[i] /\ zipped[i][2] = balances[i]
    BY <1>13
  <2>3. item.name = tokens[i].name /\ item.balance[1] = balances[i] /\ item.balance[2] = item.name
    BY <2>1, <2>2 DEF DivideDecimals
  <2>4. PICK n \in DOMAIN Tokens : tokens[i] = Tokens[n]
    BY <1>4
  <2>5. TokenOf(item) = tokens[i]
    BY <2>3, <2>4, TokenOfName
  <2>6. Told(BalanceCall(tokens[i]), balances[i])'
    BY <1>16
  <2> HIDE DEF tokens
  <2>7. TokenItemIsOwn(item)'
    BY <2>3, <2>5, <2>6 DEF TokenItemIsOwn
  <2> QED
    BY <1>22, <2>7 DEF ItemIsOwn
<1>24. ASSUME IsEmptyQuery(request.query), NEW n \in DOMAIN Tokens, TokenIsWorth(Tokens[n])'
       PROVE  TokenOnItsWay(Tokens[n])'
  <2>1. TokenIsWorth(Tokens[n])
    BY <1>20, <1>24, WorthBefore
  <2>2. TokenOnItsWay(Tokens[n])
    BY <1>3, <1>24, <2>1 DEF RequestsInv, WayInv
  <2>3. \/ Shown(Tokens[n].name)
        \/ \E other \in request.tasks : \E i \in DOMAIN other.rows : other.rows[i] = Tokens[n]
    BY <1>4, <2>2 DEF TokenOnItsWay
  <2>4. \/ \E item \in request'.items : item.name = Tokens[n].name
        \/ \E other \in request'.tasks : \E i \in DOMAIN other.rows : other.rows[i] = Tokens[n]
    <3>1. CASE Shown(Tokens[n].name)
      BY <1>22, <3>1 DEF Shown
    <3>2. CASE \E other \in tasks : \E i \in DOMAIN other.rows : other.rows[i] = Tokens[n]
      BY <1>22, <3>2
    <3>3. CASE \E i \in DOMAIN tokens : tokens[i] = Tokens[n]
      <4>1. PICK i \in DOMAIN tokens : tokens[i] = Tokens[n]
        BY <3>3
      <4>2. BalanceCall(Tokens[n]) \in kept'.held /\ BalanceCall(Tokens[n]) \notin lost'
        BY <1>24 DEF TokenIsWorth, Lost, BalanceCall
      <4>3. balances[i] # Zero
        BY <4>1, <4>2, <1>16
      <4>4. zipped[i][1] = tokens[i] /\ zipped[i][2] = balances[i] /\ i \in DOMAIN zipped
        BY <1>13
      <4> DEFINE item == [name |-> zipped[i][1].name, balance |-> DivideDecimals(zipped[i][2], zipped[i][1].name)]
      <4>5. item \in items
        BY <4>3, <4>4, <1>18
      <4>6. item.name = Tokens[n].name
        BY <4>1, <4>4
      <4> HIDE DEF item
      <4> QED
        BY <4>5, <4>6, <1>22
    <3> QED
      BY <2>3, <3>1, <3>2, <3>3
  <2> QED
    BY <1>22, <2>4 DEF TokenOnItsWay, Shown
<1>25. WayInv'
  BY <1>22, <1>24 DEF WayInv
<1>26. \A other \in tasks \ request.tasks : TaskIs(other)'
  OBVIOUS
<1>27. request.kind # "swap"
  BY <1>3
<1> HIDE DEF tasks
<1> QED
  BY <1>2, <1>19, <1>20, <1>21, <1>23, <1>25, <1>26, <1>27, AwaitKeeps

(***************************************************************************)
(* Protocols that serve a query, and lending markets.                      *)
(***************************************************************************)

LEMMA ServiceFound ==
  ASSUME IsEmptyQuery(request.query), NEW i \in DOMAIN Protocols, NEW use, use \in Protocols[i].uses,
         {Protocols[i].name, Protocols[i].network} \subseteq on, NEW found
  PROVE  Protocols[i].name \in ServicesOf(use, found)
<1> DEFINE places == {j \in DOMAIN Protocols : /\ {Protocols[j].name, Protocols[j].network} \subseteq on
                                              /\ use \in Protocols[j].uses}
           some == Filter(Protocols, places)
<1>1. IsList(Protocols) /\ i \in places
  BY TablesAssumption DEF IsTable
<1>2. ProtocolSearch(Protocols, on, use) = some
  BY DEF ProtocolSearch
<1> HIDE DEF places
<1>3. \A j \in places \cap DOMAIN Protocols : \E k \in DOMAIN some : some[k] = Protocols[j]
  BY ONLY <1>1, Filtered
<1>4. PICK k \in DOMAIN some : some[k] = Protocols[i]
  BY <1>1, <1>3
<1>5. ServicesOf(use, found) = {some[j].name : j \in DOMAIN some}
  BY <1>2 DEF ServicesOf
<1> HIDE DEF some
<1> QED
  BY <1>4, <1>5

\* Where a task leads to a market.
LeadsTo(task, market) ==
  \/ task.pc \in {"assets", "search"} /\ task.id = market.protocol
  \/ task.pc = "info" /\ \E i \in DOMAIN task.rows : task.rows[i] = market

\* A task of a lending request comes to what it led to.
LEMMA MarketNext ==
  ASSUME RequestsInv, request.kind = "lending", Unwritten, Later, NEW task \in request.tasks,
         NEW nexts, NEW items, Await((request.tasks \ {task}) \cup nexts, items),
         \A next \in nexts : IsTask(next) /\ LendingTask(next)',
         \A item \in items : LendingItemIsOwn(item)',
         \A n \in DOMAIN Markets :
           IsEmptyQuery(request.query) /\ MarketIsWorth(Markets[n])' /\ LeadsTo(task, Markets[n]) =>
             \/ \E item \in items : item.name = Markets[n].name
             \/ \E next \in nexts : LeadsTo(next, Markets[n])
  PROVE  RequestsInv'
<1>1. request.pc = "tasks" /\ \A other \in request.tasks : IsTask(other)
  BY TasksAre
<1> DEFINE tasks == (request.tasks \ {task}) \cup nexts
<1>2. Await(tasks, items) /\ \A other \in tasks : IsTask(other)
  BY <1>1
<1>3. \A other \in tasks : other \in request.tasks \/ other \in nexts
  OBVIOUS
<1>4. \A other \in request.tasks : other # task => other \in tasks
  OBVIOUS
<1>5. \A next \in nexts : next \in tasks
  OBVIOUS
<1> HIDE DEF tasks
<1>6. /\ request'.kind = "lending" /\ request'.query = request.query /\ request'.tasks = tasks
      /\ request'.items = request.items \cup items /\ request'.pc \in {"tasks", "answered"}
  BY <1>2, Awaited DEF RequestsInv
<1>7. \A other \in tasks \ request.tasks : TaskIs(other)'
  BY <1>3, <1>6 DEF TaskIs
<1>8. \A item \in items : ItemIsOwn(item)'
  BY <1>6 DEF ItemIsOwn
<1>9. ASSUME IsEmptyQuery(request.query), NEW n \in DOMAIN Markets, MarketIsWorth(Markets[n])'
      PROVE  MarketOnItsWay(Markets[n])'
  <2>1. MarketIsWorth(Markets[n])
    BY <1>9, WorthBefore
  <2>2. MarketOnItsWay(Markets[n])
    BY <1>9, <2>1 DEF RequestsInv, WayInv
  <2>3. Shown(Markets[n].name) \/ \E other \in request.tasks : LeadsTo(other, Markets[n])
    BY <1>1, <2>2 DEF MarketOnItsWay, LeadsTo
  <2>4. \/ \E item \in request'.items : item.name = Markets[n].name
        \/ \E other \in request'.tasks : LeadsTo(other, Markets[n])
    <3>1. CASE Shown(Markets[n].name)
      BY <1>6, <3>1 DEF Shown
    <3>2. CASE \E other \in request.tasks : other # task /\ LeadsTo(other, Markets[n])
      BY <1>4, <1>6, <3>2
    <3>3. CASE LeadsTo(task, Markets[n])
      <4>1. \/ \E item \in items : item.name = Markets[n].name
            \/ \E next \in nexts : LeadsTo(next, Markets[n])
        BY <1>9, <3>3
      <4> QED
        BY <4>1, <1>5, <1>6
    <3> QED
      BY <2>3, <3>1, <3>2, <3>3
  <2> QED
    BY <2>4 DEF MarketOnItsWay, Shown, LeadsTo
<1>10. WayInv'
  BY <1>6, <1>9 DEF WayInv
<1> QED
  BY <1>2, <1>7, <1>8, <1>10, AwaitKeeps

LEMMA SearchLendingProtocolsKeeps ==
  ASSUME RequestsInv, SearchLendingProtocols
  PROVE  RequestsInv'
<1> DEFINE services == ServicesOf("useLending", LendingSearchDistinctProtocol(Markets, on))
           tasks == {Task(p, "assets", <<>>) : p \in services}
<1>1. /\ request.kind = "lending" /\ request.pc = "new" /\ Unwritten /\ Unasked
      /\ Await(tasks, {})
  BY DEF SearchLendingProtocols, At
<1>2. \A task \in tasks : \E p \in services : task = Task(p, "assets", <<>>)
  OBVIOUS
<1>3. \A p \in services : Task(p, "assets", <<>>) \in tasks
  OBVIOUS
<1>4. ASSUME IsEmptyQuery(request.query), NEW i \in DOMAIN Protocols, "useLending" \in Protocols[i].uses,
             {Protocols[i].name, Protocols[i].network} \subseteq on
      PROVE  Protocols[i].name \in services
  BY ONLY <1>4, ServiceFound
<1> HIDE DEF services, tasks
<1>5. \A task \in tasks : IsTask(task) /\ task.pc = "assets"
  BY <1>2, TaskHas, ListOfNone
<1>6. Later
  BY <1>1, NothingAsked
<1>7. request'.kind = "lending" /\ request'.query = request.query /\ request'.tasks = tasks
  BY <1>1, <1>5, Awaited DEF RequestsInv
<1>8. \A task \in tasks : TaskIs(task)'
  BY <1>5, <1>7 DEF TaskIs, LendingTask
<1>9. ASSUME IsEmptyQuery(request.query), NEW n \in DOMAIN Markets, MarketIsWorth(Markets[n])'
      PROVE  MarketOnItsWay(Markets[n])'
  <2> DEFINE p == Markets[n].protocol
  <2>1. MarketIsWorth(Markets[n])
    BY <1>6, <1>9, WorthBefore
  <2>2. {p, NetworkOf(p)} \subseteq on
    <3>1. kept.names \subseteq on
      BY KeptIsThere DEF RequestsInv
    <3> QED
      BY <2>1, <3>1 DEF MarketIsWorth
  <2>3. PICK i \in DOMAIN Protocols :
          Protocols[i].name = p /\ Protocols[i].network = NetworkOf(p) /\ "useLending" \in Protocols[i].uses
    BY TablesAssumption DEF Serves
  <2>4. p \in services
    BY <1>4, <1>9, <2>2, <2>3
  <2> DEFINE task == Task(p, "assets", <<>>)
  <2>5. task \in tasks /\ task.pc = "assets" /\ task.id = p
    BY <1>3, <2>4, TaskHas
  <2> HIDE DEF task
  <2> QED
    BY <1>7, <2>5 DEF MarketOnItsWay
<1>10. WayInv'
  BY <1>7, <1>9 DEF WayInv
<1> QED
  BY <1>1, <1>5, <1>6, <1>8, <1>10, AwaitKeeps

LEMMA GetWalletLendingMarketKeeps ==
  ASSUME RequestsInv, GetWalletLendingMarket
  PROVE  RequestsInv'
<1>1. PICK task \in Tasks("lending", "assets") :
        Then(task, [task EXCEPT !.pc = "search"]) /\ Unwritten /\ Unasked
  BY DEF GetWalletLendingMarket
<1>2. task \in request.tasks /\ request.kind = "lending" /\ task.pc = "assets"
  BY DEF Tasks
<1>3. PICK next : next = [task EXCEPT !.pc = "search"]
  OBVIOUS
<1>4. IsTask(task)
  BY <1>2, TasksAre
<1>5. DOMAIN next = DOMAIN task /\ next.id = task.id /\ next.rows = task.rows /\ next.pc = "search"
  BY <1>3, <1>4 DEF IsTask
<1>6. IsTask(next) /\ LendingTask(next)'
  BY <1>4, <1>5 DEF IsTask, LendingTask
<1> DEFINE nexts == {next}
<1>7. Await((request.tasks \ {task}) \cup nexts, {})
  BY <1>1, <1>3 DEF Then
<1>8. \A market : LeadsTo(task, market) => LeadsTo(next, market)
  BY <1>2, <1>5 DEF LeadsTo
<1>9. \A other \in nexts : IsTask(other) /\ LendingTask(other)'
  BY <1>6
<1>10. \A market : LeadsTo(task, market) => \E other \in nexts : LeadsTo(other, market)
  BY <1>8
<1>11. Later
  BY <1>1, NothingAsked
<1> HIDE DEF nexts
<1> QED
  BY <1>1, <1>2, <1>7, <1>9, <1>10, <1>11, MarketNext

LEMMA MarketsFound ==
  ASSUME NEW names, NEW protocol, NEW query \in [page : Nat, limit : Nat, skipItems : Nat]
  PROVE  /\ IsList(LendingSearch(Markets, names, protocol, query))
         /\ \A k \in DOMAIN LendingSearch(Markets, names, protocol, query) :
              \E i \in DOMAIN Markets : LendingSearch(Markets, names, protocol, query)[k] = Markets[i]
         /\ IsEmptyQuery(query) =>
              \A i \in DOMAIN Markets :
                {Markets[i].name, Markets[i].protocol} \subseteq names /\ Markets[i].protocol = protocol
                => \E k \in DOMAIN LendingSearch(Markets, names, protocol, query) :
                     LendingSearch(Markets, names, protocol, query)[k] = Markets[i]
<1> DEFINE first == {i \in DOMAIN Markets : {Markets[i].name, Markets[i].protocol} \subseteq names}
           rows == Filter(Markets, first)
           places == {i \in DOMAIN rows : rows[i].protocol = protocol}
           some == Filter(rows, places)
           page == Page(some, query)
<1>1. LendingSearch(Markets, names, protocol, query) = page
  BY DEF LendingSearch, LendingSearchQueryBuilder
<1>2. IsList(Markets)
  BY TablesAssumption DEF IsTable
<1>3. \A i \in DOMAIN Markets : {Markets[i].name, Markets[i].protocol} \subseteq names => i \in first
  OBVIOUS
<1>4. \A i \in DOMAIN rows : rows[i].protocol = protocol => i \in places
  OBVIOUS
<1> HIDE DEF first, places
<1>5. /\ IsList(rows)
      /\ \A k \in DOMAIN rows : \E i \in first \cap DOMAIN Markets : rows[k] = Markets[i]
      /\ \A i \in first \cap DOMAIN Markets : \E k \in DOMAIN rows : rows[k] = Markets[i]
  BY ONLY <1>2, Filtered
<1> HIDE DEF rows
<1>6. IsList(rows)
  BY <1>5
<1>7. /\ IsList(some)
      /\ \A k \in DOMAIN some : \E i \in places \cap DOMAIN rows : some[k] = rows[i]
      /\ \A i \in places \cap DOMAIN rows : \E k \in DOMAIN some : some[k] = rows[i]
  BY ONLY <1>6, Filtered
<1> HIDE DEF some
<1>8. /\ IsList(page)
      /\ \A k \in DOMAIN page : \E i \in DOMAIN some : page[k] = some[i]
      /\ IsEmptyQuery(query) => page = some
  BY <1>7, Paged
<1> HIDE DEF page
<1>9. ASSUME NEW k \in DOMAIN page PROVE \E i \in DOMAIN Markets : page[k] = Markets[i]
  <2>1. PICK m \in DOMAIN some : page[k] = some[m]
    BY <1>8
  <2>2. PICK n \in places \cap DOMAIN rows : some[m] = rows[n]
    BY <1>7
  <2> QED
    BY <2>1, <2>2, <1>5
<1>10. ASSUME IsEmptyQuery(query), NEW i \in DOMAIN Markets,
              {Markets[i].name, Markets[i].protocol} \subseteq names, Markets[i].protocol = protocol
       PROVE  \E k \in DOMAIN page : page[k] = Markets[i]
  <2>1. PICK n \in DOMAIN rows : rows[n] = Markets[i]
    BY <1>3, <1>5, <1>10
  <2>2. n \in places \cap DOMAIN rows
    BY <1>4, <1>10, <2>1
  <2>3. PICK m \in DOMAIN some : some[m] = rows[n]
    BY <1>7, <2>2
  <2> QED
    BY <1>8, <1>10, <2>1, <2>3
<1> QED
  BY <1>1, <1>8, <1>9, <1>10

LEMMA SearchLendingsKeeps ==
  ASSUME RequestsInv, SearchLendings
  PROVE  RequestsInv'
<1>1. PICK task \in Tasks("lending", "search") :
        /\ Then(task, Task(task.id, "info", LendingSearch(Markets, on, task.id, request.query)))
        /\ Unwritten /\ Unasked
  BY DEF SearchLendings
<1>2. task \in request.tasks /\ request.kind = "lending" /\ task.pc = "search"
  BY DEF Tasks
<1> DEFINE rows == LendingSearch(Markets, on, task.id, request.query)
           next == Task(task.id, "info", rows)
           nexts == {next}
<1>3. /\ IsList(rows)
      /\ \A k \in DOMAIN rows : \E i \in DOMAIN Markets : rows[k] = Markets[i]
      /\ IsEmptyQuery(request.query) =>
           \A i \in DOMAIN Markets :
             {Markets[i].name, Markets[i].protocol} \subseteq on /\ Markets[i].protocol = task.id
             => \E k \in DOMAIN rows : rows[k] = Markets[i]
  <2>1. request.query \in [page : Nat, limit : Nat, skipItems : Nat]
    BY DEF RequestsInv, RequestShape
  <2> QED
    BY <2>1, MarketsFound
<1>4. Await((request.tasks \ {task}) \cup nexts, {})
  BY <1>1 DEF Then
<1> HIDE DEF rows
<1>5. next.id = task.id /\ next.pc = "info" /\ next.rows = rows /\ IsTask(next)
  BY <1>3, TaskHas
<1>6. next \in nexts /\ \A other \in nexts : other = next
  OBVIOUS
<1> HIDE DEF next, nexts
<1>7. PICK after : after = next
  OBVIOUS
<1>8. PICK found : found = rows
  OBVIOUS
<1>9. IsTask(after) /\ LendingTask(after)'
  BY <1>3, <1>5, <1>7, <1>8 DEF LendingTask
<1>10. Later
  BY <1>1, NothingAsked
<1>11. ASSUME IsEmptyQuery(request.query), NEW n \in DOMAIN Markets, MarketIsWorth(Markets[n])', LeadsTo(task, Markets[n])
       PROVE  LeadsTo(after, Markets[n])
  <2>1. task.id = Markets[n].protocol
    BY <1>2, <1>11 DEF LeadsTo
  <2>2. MarketIsWorth(Markets[n])
    BY <1>10, <1>11, WorthBefore
  <2>3. {Markets[n].name, Markets[n].protocol} \subseteq on
    <3>1. kept.names \subseteq on
      BY KeptIsThere DEF RequestsInv
    <3> QED
      BY <2>2, <3>1 DEF MarketIsWorth
  <2>4. \E k \in DOMAIN rows : rows[k] = Markets[n]
    BY <1>3, <1>11, <2>1, <2>3
  <2> QED
    BY <1>5, <1>7, <2>4 DEF LeadsTo
<1>12. PICK all : all = nexts
  OBVIOUS
<1>13. \A other \in all : IsTask(other) /\ LendingTask(other)'
  BY <1>6, <1>7, <1>9, <1>12
<1>14. \A n \in DOMAIN Markets :
         IsEmptyQuery(request.query) /\ MarketIsWorth(Markets[n])' /\ LeadsTo(task, Markets[n])
           => \E other \in all : LeadsTo(other, Markets[n])
  BY <1>6, <1>7, <1>11, <1>12
<1>15. Await((request.tasks \ {task}) \cup all, {})
  BY <1>4, <1>12
<1> QED
  BY <1>1, <1>2, <1>10, <1>13, <1>14, <1>15, MarketNext

IsReply(reply) ==
  \/ reply.success = FALSE /\ reply.data = {}
  \/ reply.success = TRUE /\ \E amount : reply.data = {amount}

LEMMA LendingBatch ==
  ASSUME WorldInv, NEW rows, IsList(rows), NEW calls, calls = LendingInfoEncode(rows),
         NEW missed, Ask(calls, missed), Unwritten,
         NEW results, results = ToSplitWithChunkSize(Replies(calls, missed), 3)
  PROVE  /\ DOMAIN results = DOMAIN rows
         /\ \A i \in DOMAIN rows : \A n \in 1 .. 3 :
              /\ IsReply(results[i][n])
              /\ Told(LendingCalls(rows[i])[n], Amount(results[i][n]))'
              /\ LendingCalls(rows[i])[n] \in kept'.held /\ LendingCalls(rows[i])[n] \notin lost'
                 => Amount(results[i][n]) # Zero
<1> DEFINE lists == [i \in DOMAIN rows |-> LendingCalls(rows[i])]
<1>1. calls = Flat(lists)
  BY DEF LendingInfoEncode
<1>2. DOMAIN rows = 1 .. Len(rows) /\ Len(rows) \in Nat
  BY ListHas
<1>3. lists = [i \in 1 .. Len(rows) |-> lists[i]] /\ \A i \in DOMAIN rows : lists[i] = LendingCalls(rows[i])
  BY <1>2
<1> HIDE DEF lists
<1>4. IsList(lists) /\ DOMAIN lists = DOMAIN rows
  BY <1>2, <1>3, ListFrom
<1>5. \A row : IsList(LendingCalls(row)) /\ Len(LendingCalls(row)) = 3 /\ DOMAIN LendingCalls(row) = 1 .. 3
  <2> TAKE row
  <2> DEFINE T == {Call(row.address, "balanceOf", ""), Call(row.address, "exchangeRateStored", ""),
                   Call(row.address, "borrowBalanceStored", "")}
  <2>1. LendingCalls(row) \in Seq(T) /\ Len(LendingCalls(row)) = 3
    BY DEF LendingCalls
  <2> HIDE DEF T
  <2> QED
    BY <2>1, ListIs
<1>6. \A i \in DOMAIN lists : IsList(lists[i]) /\ Len(lists[i]) = 3
  BY <1>3, <1>4, <1>5
<1>7. IsList(calls)
  BY <1>1, <1>4, <1>6, Flattened
<1>8. PICK replies : replies = Replies(calls, missed)
  OBVIOUS
<1>9. IsList(replies) /\ DOMAIN replies = DOMAIN calls
  BY ONLY <1>7, <1>8, RepliesAre
<1>10. \A k \in DOMAIN calls :
         /\ replies[k] = IF k \in missed THEN [success |-> FALSE, data |-> {}]
                         ELSE [success |-> TRUE, data |-> {AmountOf(calls[k])}]
         /\ Amount(replies[k]) = IF k \in missed THEN Zero ELSE AmountOf(calls[k])
  BY ONLY <1>7, <1>8, RepliesAre
<1>11. /\ DOMAIN results = DOMAIN lists
       /\ \A i \in DOMAIN lists :
            \A n \in DOMAIN lists[i] : \E k \in DOMAIN replies : Flat(lists)[k] = lists[i][n] /\ results[i][n] = replies[k]
  <2>1. 3 \in Nat \ {0} /\ DOMAIN replies = DOMAIN Flat(lists) /\ results = ToSplitWithChunkSize(replies, 3)
    BY <1>1, <1>8, <1>9
  <2> DEFINE c == 3
  <2>2. c \in Nat \ {0} /\ results = ToSplitWithChunkSize(replies, c)
        /\ \A i \in DOMAIN lists : IsList(lists[i]) /\ Len(lists[i]) = c
    BY <2>1, <1>6
  <2>3. IsList(lists) /\ IsList(replies) /\ DOMAIN replies = DOMAIN Flat(lists)
    BY <2>1, <1>4, <1>9
  <2> HIDE DEF c
  <2> QED
    BY ONLY <2>2, <2>3, Batched
<1>12. ASSUME NEW i \in DOMAIN rows, NEW n \in 1 .. 3
       PROVE  /\ IsReply(results[i][n])
              /\ Told(LendingCalls(rows[i])[n], Amount(results[i][n]))'
              /\ LendingCalls(rows[i])[n] \in kept'.held /\ LendingCalls(rows[i])[n] \notin lost'
                 => Amount(results[i][n]) # Zero
  <2>1. i \in DOMAIN lists /\ n \in DOMAIN lists[i] /\ lists[i] = LendingCalls(rows[i])
    BY <1>3, <1>4, <1>5
  <2>2. PICK k \in DOMAIN replies : Flat(lists)[k] = lists[i][n] /\ results[i][n] = replies[k]
    BY <1>11, <2>1
  <2>3. k \in DOMAIN calls /\ calls[k] = LendingCalls(rows[i])[n]
    BY <1>1, <1>9, <2>1, <2>2
  <2>4. PICK amount : amount = Amount(replies[k])
    OBVIOUS
  <2>5. amount = IF k \in missed THEN Zero ELSE AmountOf(calls[k])
    BY <1>10, <2>3, <2>4
  <2>6. Told(calls[k], amount)' /\ (calls[k] \in kept'.held /\ calls[k] \notin lost' => amount # Zero)
    BY <2>3, <2>5, Asked
  <2>7. IsReply(replies[k])
    <3>1. \/ replies[k] = [success |-> FALSE, data |-> {}]
          \/ replies[k] = [success |-> TRUE, data |-> {AmountOf(calls[k])}]
      BY <1>10, <2>3
    <3>2. \/ replies[k].success = FALSE /\ replies[k].data = {}
          \/ replies[k].success = TRUE /\ replies[k].data = {AmountOf(calls[k])}
      BY <3>1
    <3> QED
      BY <3>2 DEF IsReply
  <2> QED
    BY <2>2, <2>3, <2>4, <2>6, <2>7
<1> QED
  BY <1>4, <1>11, <1>12

\* Beside the amounts of a market its rate decides: without it the market shows nothing.
LEMMA LendingItemIs ==
  ASSUME NEW row, NEW res, IsReply(res[2]), IsReply(res[3]), NEW pair, pair = <<row, res>>
  PROVE  /\ LendingItem(pair).name = row.name
         /\ LendingItem(pair).supply = <<IF Amount(res[2]) = Zero THEN Zero ELSE Amount(res[1]), row.token>>
         /\ LendingItem(pair).borrow = <<IF IsEmptyBytes(res[2].data) THEN Zero ELSE Amount(res[3]), row.token>>
         /\ IsEmptyBytes(res[2].data) => Amount(res[2]) = Zero
         /\ ~ (BorrowBalance(res[2], res[3]) /\ IsEmptyBytes(res[3].data))
<1>1. pair[1] = row /\ pair[2] = res
  OBVIOUS
<1>2. /\ LendingItem(pair).name = row.name
      /\ LendingItem(pair).supply = <<IF Amount(res[2]) = Zero THEN Zero ELSE Amount(res[1]), row.token>>
      /\ LendingItem(pair).borrow = <<IF BorrowBalance(res[2], res[3]) THEN Decode(res[3].data) ELSE Zero, row.token>>
  BY <1>1 DEF LendingItem, DivideDecimals
<1>3. IsEmptyBytes(res[2].data) => Amount(res[2]) = Zero
  BY DEF Amount, ValidResult
<1>4. ~ (BorrowBalance(res[2], res[3]) /\ IsEmptyBytes(res[3].data))
  BY DEF BorrowBalance, IsReply, IsEmptyBytes
<1>5. (IF BorrowBalance(res[2], res[3]) THEN Decode(res[3].data) ELSE Zero)
      = IF IsEmptyBytes(res[2].data) THEN Zero ELSE Amount(res[3])
  <2>1. CASE IsEmptyBytes(res[2].data)
    BY <2>1 DEF BorrowBalance
  <2>2. CASE ~ IsEmptyBytes(res[2].data) /\ res[3].success = TRUE
    BY <1>4, <2>2 DEF BorrowBalance, Amount, ValidResult
  <2>3. CASE ~ IsEmptyBytes(res[2].data) /\ res[3].success = FALSE
    BY <2>3 DEF BorrowBalance, Amount, ValidResult
  <2> QED
    BY <2>1, <2>2, <2>3 DEF IsReply
<1> QED
  BY <1>2, <1>3, <1>4, <1>5

LEMMA MarketOfName ==
  ASSUME NEW n \in DOMAIN Markets, NEW item, item.name = Markets[n].name
  PROVE  MarketOf(item) = Markets[n]
<1> DEFINE m == CHOOSE i \in DOMAIN Markets : Markets[i].name = item.name
<1>1. m \in DOMAIN Markets /\ Markets[m].name = item.name
  OBVIOUS
<1>2. MarketOf(item) = Markets[m]
  BY DEF MarketOf
<1> HIDE DEF m
<1>3. m = n
  BY <1>1, TablesAssumption DEF IsTable
<1> QED
  BY <1>2, <1>3

LEMMA GetLendingWalletInfosKeeps ==
  ASSUME RequestsInv, GetLendingWalletInfos
  PROVE  RequestsInv'
<1>1. PICK task \in Tasks("lending", "info") :
        \E missed \in Losses(LendingInfoEncode(task.rows)) :
          /\ Ask(LendingInfoEncode(task.rows), missed)
          /\ DoneOr(task, GetLendingWalletInfo(task.rows, Replies(LendingInfoEncode(task.rows), missed)))
  BY DEF GetLendingWalletInfos
<1>2. Unwritten
  BY DEF GetLendingWalletInfos
<1>3. PICK rows : rows = task.rows
  OBVIOUS
<1>4. PICK calls : calls = LendingInfoEncode(rows)
  OBVIOUS
<1>5. PICK missed : Ask(calls, missed) /\ DoneOr(task, GetLendingWalletInfo(rows, Replies(calls, missed)))
  BY <1>1, <1>3, <1>4
<1>6. task \in request.tasks /\ request.kind = "lending" /\ task.pc = "info"
  BY DEF Tasks
<1>7. IsList(rows) /\ \A i \in DOMAIN rows : \E n \in DOMAIN Markets : rows[i] = Markets[n]
  BY <1>3, <1>6, TasksAre DEF TaskIs, IsTask, LendingTask
<1>8. PICK results : results = ToSplitWithChunkSize(Replies(calls, missed), 3)
  OBVIOUS
<1>9. WorldInv
  BY DEF RequestsInv
<1>10. DOMAIN results = DOMAIN rows
  BY ONLY <1>2, <1>4, <1>5, <1>7, <1>8, <1>9, LendingBatch
<1>11. \A i \in DOMAIN rows : \A n \in 1 .. 3 :
              /\ IsReply(results[i][n])
              /\ Told(LendingCalls(rows[i])[n], Amount(results[i][n]))'
              /\ LendingCalls(rows[i])[n] \in kept'.held /\ LendingCalls(rows[i])[n] \notin lost'
                 => Amount(results[i][n]) # Zero
  BY ONLY <1>2, <1>4, <1>5, <1>7, <1>8, <1>9, LendingBatch
<1>12. PICK zipped : zipped = Zip(rows, results)
  OBVIOUS
<1>13. DOMAIN zipped = DOMAIN rows /\ \A i \in DOMAIN rows : zipped[i] = <<rows[i], results[i]>>
  BY <1>12 DEF Zip
<1>14. \A i \in DOMAIN rows : zipped[i][2] = results[i]
  BY <1>13
<1> DEFINE list == [i \in DOMAIN zipped |-> LendingItem(zipped[i])]
           places == {i \in DOMAIN list : list[i].supply[1] # Zero \/ list[i].borrow[1] # Zero}
           shown == Filter(list, places)
<1>15. ASSUME NEW i \in DOMAIN rows
       PROVE  /\ LendingItem(zipped[i]).name = rows[i].name
              /\ LendingItem(zipped[i]).supply
                   = <<IF Amount(results[i][2]) = Zero THEN Zero ELSE Amount(results[i][1]), rows[i].token>>
              /\ LendingItem(zipped[i]).borrow
                   = <<IF IsEmptyBytes(results[i][2].data) THEN Zero ELSE Amount(results[i][3]), rows[i].token>>
              /\ IsEmptyBytes(results[i][2].data) => Amount(results[i][2]) = Zero
              /\ ~ (BorrowBalance(results[i][2], results[i][3]) /\ IsEmptyBytes(results[i][3].data))
  <2>1. IsReply(results[i][2]) /\ IsReply(results[i][3]) /\ zipped[i] = <<rows[i], results[i]>>
    BY <1>11, <1>13
  <2>2. PICK res : res = results[i]
    OBVIOUS
  <2>3. IsReply(res[2]) /\ IsReply(res[3]) /\ zipped[i] = <<rows[i], res>>
    BY <2>1, <2>2
  <2> HIDE DEF list
  <2> QED
    BY <2>2, <2>3, LendingItemIs
<1>16. GetLendingWalletInfo(rows, Replies(calls, missed)) = {shown}
  <2>1. GetLendingWalletInfo(rows, Replies(calls, missed))
        = IF \E i \in DOMAIN zipped : /\ BorrowBalance(zipped[i][2][2], zipped[i][2][3])
                                      /\ IsEmptyBytes(zipped[i][2][3].data)
          THEN Reverted ELSE {shown}
    BY <1>8, <1>12 DEF GetLendingWalletInfo
  <2> HIDE DEF shown
  <2>2. ~ \E i \in DOMAIN zipped : /\ BorrowBalance(zipped[i][2][2], zipped[i][2][3])
                                   /\ IsEmptyBytes(zipped[i][2][3].data)
    BY <1>13, <1>14, <1>15
  <2> QED
    BY <2>1, <2>2
<1>17. DOMAIN list = DOMAIN rows /\ \A i \in DOMAIN rows : list[i] = LendingItem(zipped[i])
  BY <1>13
<1>18. \A i \in DOMAIN list : i \in places <=> list[i].supply[1] # Zero \/ list[i].borrow[1] # Zero
  OBVIOUS
<1>19. IsList(list)
  <2>1. DOMAIN rows = 1 .. Len(rows) /\ Len(rows) \in Nat
    BY <1>7, ListHas
  <2>2. list = [i \in 1 .. Len(rows) |-> list[i]]
    BY <1>13, <2>1
  <2> HIDE DEF list
  <2> QED
    BY <2>1, <2>2, ListFrom
<1> HIDE DEF list, places
<1>20. /\ \A k \in DOMAIN shown : \E i \in places \cap DOMAIN list : shown[k] = list[i]
       /\ \A i \in places \cap DOMAIN list : \E k \in DOMAIN shown : shown[k] = list[i]
  BY ONLY <1>19, Filtered
<1> HIDE DEF shown
<1>21. PICK items : items = {shown[k] : k \in DOMAIN shown}
  OBVIOUS
<1>22. Await((request.tasks \ {task}) \cup {}, items)
  <2>1. Decode({shown}) = shown /\ {shown} # Reverted
    BY DecodeOf DEF Reverted
  <2>2. Done(task, items)
    BY <1>5, <1>16, <1>21, <2>1 DEF DoneOr
  <2>3. (request.tasks \ {task}) \cup {} = request.tasks \ {task}
    OBVIOUS
  <2> QED
    BY <2>2, <2>3 DEF Done
<1>23. Later
  BY <1>2, <1>5, SomethingAsked
<1>24. ASSUME NEW item \in items PROVE LendingItemIsOwn(item)'
  <2>1. PICK k \in DOMAIN shown : item = shown[k]
    BY <1>21
  <2>2. PICK i \in places \cap DOMAIN list : shown[k] = list[i]
    BY <1>20
  <2>3. i \in DOMAIN rows /\ item = LendingItem(zipped[i])
    BY <1>17, <2>1, <2>2
  <2>4. PICK n \in DOMAIN Markets : rows[i] = Markets[n]
    BY <1>7, <2>3
  <2>5. PICK market : market = Markets[n]
    OBVIOUS
  <2>6. /\ item.name = market.name
        /\ item.supply = <<IF Amount(results[i][2]) = Zero THEN Zero ELSE Amount(results[i][1]), market.token>>
        /\ item.borrow = <<IF IsEmptyBytes(results[i][2].data) THEN Zero ELSE Amount(results[i][3]), market.token>>
        /\ IsEmptyBytes(results[i][2].data) => Amount(results[i][2]) = Zero
    BY <1>15, <2>3, <2>4, <2>5
  <2>7. item.supply[1] # Zero \/ item.borrow[1] # Zero
    BY <1>17, <1>18, <2>2, <2>3
  <2>8. ~ IsEmptyBytes(results[i][2].data)
    BY <2>6, <2>7
  <2>9. /\ item.borrow[1] = Amount(results[i][3]) /\ item.borrow[2] = market.token /\ item.supply[2] = market.token
        /\ item.supply[1] = Zero \/ item.supply[1] = Amount(results[i][1])
    BY <2>6, <2>8
  <2>10. 1 \in 1 .. 3 /\ 3 \in 1 .. 3
    OBVIOUS
  <2>11. Told(LendingCalls(market)[3], item.borrow[1])'
    <3>1. Told(LendingCalls(rows[i])[3], Amount(results[i][3]))'
      BY <1>11, <2>3, <2>10
    <3> QED
      BY <2>4, <2>5, <2>9, <3>1
  <2>12. item.supply[1] = Zero \/ Told(LendingCalls(market)[1], item.supply[1])'
    <3>1. Told(LendingCalls(rows[i])[1], Amount(results[i][1]))'
      BY <1>11, <2>3, <2>10
    <3> QED
      BY <2>4, <2>5, <2>9, <3>1
  <2>13. MarketOf(item) = market
    BY <2>5, <2>6, MarketOfName
  <2> QED
    BY <2>9, <2>11, <2>12, <2>13 DEF LendingItemIsOwn
<1>25. ASSUME NEW n \in DOMAIN Markets, MarketIsWorth(Markets[n])', LeadsTo(task, Markets[n])
       PROVE  \E item \in items : item.name = Markets[n].name
  <2>1. PICK i \in DOMAIN rows : rows[i] = Markets[n]
    BY <1>3, <1>6, <1>25 DEF LeadsTo
  <2>2. PICK cs : cs = LendingCalls(rows[i])
    OBVIOUS
  <2>3. /\ cs[2] \in kept'.held /\ cs[2] \notin lost'
        /\ \E m \in {1, 3} : cs[m] \in kept'.held /\ cs[m] \notin lost'
    BY <1>25, <2>1, <2>2 DEF MarketIsWorth, Lost
  <2>4. \A m \in 1 .. 3 : cs[m] \in kept'.held /\ cs[m] \notin lost' => Amount(results[i][m]) # Zero
    BY <1>11, <2>2
  <2>5. Amount(results[i][2]) # Zero /\ (Amount(results[i][1]) # Zero \/ Amount(results[i][3]) # Zero)
    BY <2>3, <2>4
  <2>6. LendingItem(zipped[i]).supply[1] # Zero \/ LendingItem(zipped[i]).borrow[1] # Zero
    <3>1. PICK item : item = LendingItem(zipped[i])
      OBVIOUS
    <3>2. item.supply = <<IF Amount(results[i][2]) = Zero THEN Zero ELSE Amount(results[i][1]), rows[i].token>>
      BY <1>15, <3>1
    <3>3. item.borrow = <<IF IsEmptyBytes(results[i][2].data) THEN Zero ELSE Amount(results[i][3]), rows[i].token>>
      BY <1>15, <3>1
    <3>4. ~ IsEmptyBytes(results[i][2].data)
      BY <1>15, <2>5
    <3>5. item.supply[1] = Amount(results[i][1]) /\ item.borrow[1] = Amount(results[i][3])
      BY <2>5, <3>2, <3>3, <3>4
    <3> QED
      BY <2>5, <3>1, <3>5
  <2>7. i \in places \cap DOMAIN list
    BY <1>17, <1>18, <2>6
  <2>8. PICK k \in DOMAIN shown : shown[k] = list[i]
    BY <1>20, <2>7
  <2>9. shown[k].name = Markets[n].name
    BY <1>15, <1>17, <2>1, <2>8
  <2> QED
    BY <1>21, <2>9
<1>26. \A next \in {} : IsTask(next) /\ LendingTask(next)'
  OBVIOUS
<1>27. PICK nexts : nexts = {}
  OBVIOUS
<1>28. /\ Await((request.tasks \ {task}) \cup nexts, items)
       /\ \A next \in nexts : IsTask(next) /\ LendingTask(next)'
       /\ \A item \in items : LendingItemIsOwn(item)'
  BY <1>22, <1>24, <1>27
<1>29. \A n \in DOMAIN Markets :
         IsEmptyQuery(request.query) /\ MarketIsWorth(Markets[n])' /\ LeadsTo(task, Markets[n]) =>
           \/ \E item \in items : item.name = Markets[n].name
           \/ \E next \in nexts : LeadsTo(next, Markets[n])
  BY <1>25
<1> QED
  BY ONLY RequestsInv, <1>2, <1>6, <1>23, <1>28, <1>29, MarketNext

(***************************************************************************)
(* NFTs.                                                                   *)
(***************************************************************************)

\* Where a task leads to an NFT.
LeadsToNFT(task, item) ==
  \/ task.pc = "interactions" /\ task.id = item.protocol
  \/ task.pc = "balance" /\ task.id = item.address
  \/ /\ task.pc = "index" /\ task.id = item.address
     /\ \E i \in DOMAIN task.rows \cap DOMAIN owned[task.id] : owned[task.id][i] = item.index
  \/ /\ task.pc = "search" /\ task.id = item.address
     /\ \E i \in DOMAIN task.rows : task.rows[i] = item.index

LEMMA NFTokenWay ==
  ASSUME NEW item
  PROVE  NFTokenOnItsWay(item) <=>
           (request.pc \in {"tasks", "answered"} => Shown(item.name) \/ \E task \in request.tasks : LeadsToNFT(task, item))
  BY DEF NFTokenOnItsWay, LeadsToNFT

LEMMA NFTokenNext ==
  ASSUME RequestsInv, request.kind = "nft", Unwritten, Later, NEW task \in request.tasks,
         NEW nexts, NEW items, Await((request.tasks \ {task}) \cup nexts, items),
         \A next \in nexts : IsTask(next) /\ NFTTask(next)',
         \A item \in items : NFTokenItemIsOwn(item)',
         \A n \in DOMAIN NFTokens :
           IsEmptyQuery(request.query) /\ NFTokenIsWorth(NFTokens[n])' /\ LeadsToNFT(task, NFTokens[n]) =>
             \/ \E item \in items : item.name = NFTokens[n].name
             \/ \E next \in nexts : LeadsToNFT(next, NFTokens[n])
  PROVE  RequestsInv'
<1>1. request.pc = "tasks" /\ \A other \in request.tasks : IsTask(other)
  BY TasksAre
<1> DEFINE tasks == (request.tasks \ {task}) \cup nexts
<1>2. Await(tasks, items) /\ \A other \in tasks : IsTask(other)
  BY <1>1
<1>3. \A other \in tasks : other \in request.tasks \/ other \in nexts
  OBVIOUS
<1>4. \A other \in request.tasks : other # task => other \in tasks
  OBVIOUS
<1>5. \A next \in nexts : next \in tasks
  OBVIOUS
<1> HIDE DEF tasks
<1>6. /\ request'.kind = "nft" /\ request'.query = request.query /\ request'.tasks = tasks
      /\ request'.items = request.items \cup items /\ request'.pc \in {"tasks", "answered"}
  BY <1>2, Awaited DEF RequestsInv
<1>7. \A other \in tasks \ request.tasks : TaskIs(other)'
  BY <1>3, <1>6 DEF TaskIs
<1>8. \A item \in items : ItemIsOwn(item)'
  BY <1>6 DEF ItemIsOwn
<1>9. ASSUME IsEmptyQuery(request.query), NEW n \in DOMAIN NFTokens, NFTokenIsWorth(NFTokens[n])'
      PROVE  NFTokenOnItsWay(NFTokens[n])'
  <2>1. NFTokenIsWorth(NFTokens[n])
    BY <1>9, WorthBefore
  <2>2. NFTokenOnItsWay(NFTokens[n])
    BY <1>9, <2>1 DEF RequestsInv, WayInv
  <2>3. Shown(NFTokens[n].name) \/ \E other \in request.tasks : LeadsToNFT(other, NFTokens[n])
    BY <1>1, <2>2, NFTokenWay
  <2>4. \/ \E item \in request'.items : item.name = NFTokens[n].name
        \/ \E other \in request'.tasks : LeadsToNFT(other, NFTokens[n])
    <3>1. CASE Shown(NFTokens[n].name)
      BY <1>6, <3>1 DEF Shown
    <3>2. CASE \E other \in request.tasks : other # task /\ LeadsToNFT(other, NFTokens[n])
      BY <1>4, <1>6, <3>2
    <3>3. CASE LeadsToNFT(task, NFTokens[n])
      <4>1. \/ \E item \in items : item.name = NFTokens[n].name
            \/ \E next \in nexts : LeadsToNFT(next, NFTokens[n])
        BY <1>9, <3>3
      <4> QED
        BY <4>1, <1>5, <1>6
    <3> QED
      BY <2>3, <3>1, <3>2, <3>3
  <2>5. owned' = owned
    BY DEF Unwritten, chain
  <2> QED
    BY <2>4, <2>5 DEF NFTokenOnItsWay, Shown, LeadsToNFT
<1>10. WayInv'
  BY <1>6, <1>9 DEF WayInv
<1> QED
  BY <1>2, <1>7, <1>8, <1>10, AwaitKeeps

\* The protocols a query goes to serve it.
LEMMA ServicesServe ==
  ASSUME NEW use, NEW found, \A p \in found : \E i \in DOMAIN Protocols : Protocols[i].name = p /\ use \in Protocols[i].uses,
         NEW p \in ServicesOf(use, found)
  PROVE  \E i \in DOMAIN Protocols : Protocols[i].name = p /\ use \in Protocols[i].uses
<1> DEFINE places == {j \in DOMAIN Protocols : /\ {Protocols[j].name, Protocols[j].network} \subseteq on
                                              /\ use \in Protocols[j].uses}
           some == Filter(Protocols, places)
<1>1. CASE ~ IsEmptyQuery(request.query)
  BY <1>1 DEF ServicesOf
<1>2. CASE IsEmptyQuery(request.query)
  <2>1. IsList(Protocols) /\ \A j \in places : use \in Protocols[j].uses
    BY TablesAssumption DEF IsTable
  <2>2. ProtocolSearch(Protocols, on, use) = some
    BY DEF ProtocolSearch
  <2> HIDE DEF places
  <2>3. \A k \in DOMAIN some : \E j \in places \cap DOMAIN Protocols : some[k] = Protocols[j]
    BY ONLY <2>1, Filtered
  <2>4. ServicesOf(use, found) = {some[j].name : j \in DOMAIN some}
    BY <1>2, <2>2 DEF ServicesOf
  <2> HIDE DEF some
  <2> QED
    BY <2>1, <2>3, <2>4
<1> QED
  BY <1>1, <1>2

LEMMA SearchNFTProtocolsKeeps ==
  ASSUME RequestsInv, SearchNFTProtocols
  PROVE  RequestsInv'
<1> DEFINE found == NFTokenSearchDistinctProtocol(NFTokens, on)
           services == ServicesOf("useNFT", found)
           tasks == {Task(p, "interactions", <<>>) : p \in services}
<1>1. /\ request.kind = "nft" /\ request.pc = "new" /\ Unwritten /\ Unasked
      /\ Await(tasks, {})
  BY DEF SearchNFTProtocols, At
<1>2. \A task \in tasks : \E p \in services : task = Task(p, "interactions", <<>>)
  OBVIOUS
<1>3. \A p \in services : Task(p, "interactions", <<>>) \in tasks
  OBVIOUS
<1>4. ASSUME IsEmptyQuery(request.query), NEW i \in DOMAIN Protocols, "useNFT" \in Protocols[i].uses,
             {Protocols[i].name, Protocols[i].network} \subseteq on
      PROVE  Protocols[i].name \in services
  BY ONLY <1>4, ServiceFound
<1>5. \A p \in found : \E i \in DOMAIN Protocols : Protocols[i].name = p /\ "useNFT" \in Protocols[i].uses
  <2> DEFINE places == {i \in DOMAIN NFTokens : {NFTokens[i].name, NFTokens[i].protocol, NFTokens[i].network} \subseteq on}
             rows == Filter(NFTokens, places)
  <2>1. found = {rows[i].protocol : i \in DOMAIN rows}
    BY DEF NFTokenSearchDistinctProtocol, NFTokenSearchQueryBuilder, ProtocolsOf
  <2>2. IsList(NFTokens)
    BY TablesAssumption DEF IsTable
  <2> HIDE DEF places
  <2>3. \A k \in DOMAIN rows : \E i \in places \cap DOMAIN NFTokens : rows[k] = NFTokens[i]
    BY ONLY <2>2, Filtered
  <2> HIDE DEF rows, found
  <2>4. \A p \in found : \E i \in DOMAIN NFTokens : NFTokens[i].protocol = p
    BY <2>1, <2>3
  <2> QED
    BY <2>4, TablesAssumption DEF Serves
<1> HIDE DEF found
<1>6. ASSUME NEW p \in services PROVE NFTContracts(p) \subseteq NFTAddresses
  <2>1. PICK i \in DOMAIN Protocols : Protocols[i].name = p /\ "useNFT" \in Protocols[i].uses
    BY <1>5, ServicesServe
  <2>2. i \in {j \in DOMAIN Protocols : "useNFT" \in Protocols[j].uses}
    BY <2>1
  <2>3. NFTContracts(Protocols[i].name) \subseteq NFTAddresses
    BY <2>2 DEF NFTAddresses
  <2> QED
    BY <2>1, <2>3
<1> HIDE DEF services, tasks
<1>7. \A task \in tasks : IsTask(task) /\ task.pc = "interactions" /\ task.id \in services
  BY <1>2, TaskHas, ListOfNone
<1>8. Later
  BY <1>1, NothingAsked
<1>9. request'.kind = "nft" /\ request'.query = request.query /\ request'.tasks = tasks
  BY <1>1, <1>7, Awaited DEF RequestsInv
<1>10. \A task \in tasks : TaskIs(task)'
  <2>1. \A task \in tasks : NFTTask(task)'
    BY <1>6, <1>7 DEF NFTTask
  <2> QED
    BY <1>9, <2>1 DEF TaskIs
<1>11. ASSUME IsEmptyQuery(request.query), NEW n \in DOMAIN NFTokens, NFTokenIsWorth(NFTokens[n])'
      PROVE  NFTokenOnItsWay(NFTokens[n])'
  <2>1. NFTokenIsWorth(NFTokens[n])
    BY <1>8, <1>11, WorthBefore
  <2>2. {NFTokens[n].protocol, NFTokens[n].network} \subseteq on
    <3>1. kept.names \subseteq on
      BY KeptIsThere DEF RequestsInv
    <3> QED
      BY <2>1, <3>1 DEF NFTokenIsWorth
  <2>3. PICK i \in DOMAIN Protocols : /\ Protocols[i].name = NFTokens[n].protocol
                                      /\ Protocols[i].network = NFTokens[n].network
                                      /\ "useNFT" \in Protocols[i].uses
    BY TablesAssumption DEF Serves
  <2>4. NFTokens[n].protocol \in services
    BY <1>4, <1>11, <2>2, <2>3
  <2>5. PICK task : task = Task(NFTokens[n].protocol, "interactions", <<>>)
    OBVIOUS
  <2>6. task \in tasks /\ task.pc = "interactions" /\ task.id = NFTokens[n].protocol
    BY <1>3, <2>4, <2>5, TaskHas
  <2> QED
    BY <1>9, <2>6 DEF NFTokenOnItsWay
<1>12. WayInv'
  BY <1>9, <1>11 DEF WayInv
<1> QED
  BY <1>1, <1>7, <1>8, <1>10, <1>12, AwaitKeeps

\* A task of the request, and what is known of it.
LEMMA NFTTaskHas ==
  ASSUME RequestsInv, NEW task \in request.tasks, request.kind = "nft"
  PROVE  IsTask(task) /\ NFTTask(task)
  BY TasksAre DEF TaskIs

LEMMA GetWalletNFTokensKeeps ==
  ASSUME RequestsInv, GetWalletNFTokens
  PROVE  RequestsInv'
<1>1. PICK task \in Tasks("nft", "interactions") :
    /\ LET with == {i \in interacted : i.address \in NFTContracts(task.id)}
           known == {i \in with : HasNFToken(task.id, i.spelled)}
       IN  Await((request.tasks \ {task}) \cup {Task(i.address, "balance", <<>>) : i \in known},
                 {[name |-> "undefined"] : i \in with \ known})
    /\ Unwritten /\ Unasked
  BY DEF GetWalletNFTokens
<1>2. task \in request.tasks /\ request.kind = "nft" /\ task.pc = "interactions"
  BY DEF Tasks
<1> DEFINE with == {i \in interacted : i.address \in NFTContracts(task.id)}
           known == {i \in with : HasNFToken(task.id, i.spelled)}
<1>3. PICK nexts : nexts = {Task(i.address, "balance", <<>>) : i \in known}
  OBVIOUS
<1>4. PICK items : items = {[name |-> "undefined"] : i \in with \ known}
  OBVIOUS
<1>5. Await((request.tasks \ {task}) \cup nexts, items)
  BY <1>1, <1>3, <1>4
<1>6. NFTTask(task)
  BY <1>2, NFTTaskHas
<1>7. \A item \in items : item.name = "undefined"
  BY <1>4
<1>8. ASSUME NEW next \in nexts PROVE IsTask(next) /\ NFTTask(next)'
  <2>1. PICK i \in known : next = Task(i.address, "balance", <<>>)
    BY <1>3
  <2>2. next.id = i.address /\ next.pc = "balance" /\ IsTask(next)
    BY <2>1, TaskHas, ListOfNone
  <2>3. next.id \in DOMAIN owned
    <3>1. i.address \in NFTContracts(task.id) /\ NFTContracts(task.id) \subseteq NFTAddresses
      BY <1>2, <1>6 DEF NFTTask
    <3>2. NFTAddresses \subseteq DOMAIN owned
      BY <1>2 DEF RequestsInv, WorldInv
    <3> QED
      BY <2>2, <3>1, <3>2
  <2>4. owned' = owned
    BY <1>1 DEF Unwritten, chain
  <2>5. NFTTask(next)'
    BY <2>2, <2>3, <2>4 DEF NFTTask
  <2> QED
    BY <2>2, <2>5
<1>9. \A item \in items : NFTokenItemIsOwn(item)'
  BY <1>7 DEF NFTokenItemIsOwn
<1>10. Later
  BY <1>1, NothingAsked
<1>11. ASSUME NEW n \in DOMAIN NFTokens, NFTokenIsWorth(NFTokens[n])', LeadsToNFT(task, NFTokens[n])
       PROVE  \E next \in nexts : LeadsToNFT(next, NFTokens[n])
  <2>1. task.id = NFTokens[n].protocol
    BY <1>2, <1>11 DEF LeadsToNFT
  <2>2. NFTokenIsWorth(NFTokens[n])
    BY <1>10, <1>11, WorthBefore
  <2>3. PICK i \in kept.interacted : i.address = NFTokens[n].address /\ HasNFToken(NFTokens[n].protocol, i.spelled)
    BY <2>2 DEF NFTokenIsWorth
  <2>4. i \in interacted
    BY KeptIsThere DEF RequestsInv
  <2>5. NFTokens[n].address \in NFTContracts(NFTokens[n].protocol)
    BY TablesAssumption
  <2>6. i \in known
    BY <2>1, <2>3, <2>4, <2>5
  <2>7. PICK next : next = Task(i.address, "balance", <<>>)
    OBVIOUS
  <2>8. next \in nexts
    BY <1>3, <2>6, <2>7
  <2>9. next.id = NFTokens[n].address /\ next.pc = "balance"
    BY <2>3, <2>7, TaskHas
  <2> QED
    BY <2>8, <2>9 DEF LeadsToNFT
<1>12. Unwritten
  BY <1>1
<1>13. \A n \in DOMAIN NFTokens :
           IsEmptyQuery(request.query) /\ NFTokenIsWorth(NFTokens[n])' /\ LeadsToNFT(task, NFTokens[n]) =>
             \/ \E item \in items : item.name = NFTokens[n].name
             \/ \E next \in nexts : LeadsToNFT(next, NFTokens[n])
  BY <1>11
<1> QED
  BY ONLY RequestsInv, <1>2, <1>5, <1>8, <1>9, <1>10, <1>12, <1>13, NFTokenNext

\* What is worth something is owned, at some place, and no call about it was lost.
LEMMA NFTokenOwned ==
  ASSUME WorldInv, Unwritten, Later, NEW item, NFTokenIsWorth(item)'
  PROVE  /\ item.address \in DOMAIN owned /\ \E i \in DOMAIN owned[item.address] : owned[item.address][i] = item.index
         /\ \A call \in lost' : call.at # item.address
<1>1. NFTokenIsWorth(item)
  BY WorthBefore
<1>2. <<item.address, item.index>> \in kept.owned
  BY <1>1 DEF NFTokenIsWorth
<1>3. PICK p \in kept.owned : p = <<item.address, item.index>>
  BY <1>2
<1>4. p[1] \in DOMAIN owned /\ \E i \in DOMAIN owned[p[1]] : owned[p[1]][i] = p[2]
  BY KeptIsThere
<1>5. \A call \in lost' : call.at # item.address
  BY DEF NFTokenIsWorth
<1> QED
  BY <1>3, <1>4, <1>5

LEMMA WalletHas ==
  ASSUME WorldInv, NEW a \in DOMAIN owned
  PROVE  /\ Len(owned[a]) \in Nat /\ DOMAIN owned[a] = 1 .. Len(owned[a])
         /\ \A i \in DOMAIN owned[a] : owned[a][i] \in Nat
<1>1. owned[a] \in Seq(Nat)
  BY DEF WorldInv, IsWallet
<1>2. PICK items : items = owned[a]
  OBVIOUS
<1> QED
  BY <1>1, <1>2, ListIs

LEMMA Filled ==
  ASSUME NEW n \in Nat
  PROVE  /\ IsList(FillSequenceNumber(n)) /\ Len(FillSequenceNumber(n)) = n /\ DOMAIN FillSequenceNumber(n) = 1 .. n
         /\ \A i \in 1 .. n : FillSequenceNumber(n)[i] = i - 1
<1> DEFINE s == FillSequenceNumber(n)
<1>1. s = [i \in 1 .. n |-> i - 1]
  BY DEF FillSequenceNumber
<1>2. s = [i \in 1 .. n |-> s[i]] /\ \A i \in 1 .. n : s[i] = i - 1
  BY <1>1
<1> HIDE DEF s
<1>3. IsList(s) /\ Len(s) = n /\ DOMAIN s = 1 .. n
  BY <1>2, ListFrom
<1> QED
  BY <1>2, <1>3 DEF s

LEMMA GetNFTokenBalanceKeeps ==
  ASSUME RequestsInv, GetNFTokenBalance
  PROVE  RequestsInv'
<1>1. PICK task \in Tasks("nft", "balance") :
    LET balance == Call(task.id, "balanceOf", "")
    IN  \E success \in BOOLEAN :
          LET reply == [success |-> success, data |-> IF success THEN {Len(owned[task.id])} ELSE {}]
              sequence == FillSequenceNumber(Safe(reply, Zero))
          IN  /\ IF success
                 THEN /\ replied' = replied \cup {[call |-> balance, amount |-> Len(owned[task.id])]}
                      /\ UNCHANGED <<lost, faults>>
                 ELSE Fault /\ lost' = lost \cup {balance} /\ UNCHANGED replied
              /\ IF sequence = <<>> THEN Done(task, {})
                 ELSE Then(task, Task(task.id, "index", sequence))
  BY DEF GetNFTokenBalance
<1>2. Unwritten
  BY DEF GetNFTokenBalance
<1>3. task \in request.tasks /\ request.kind = "nft" /\ task.pc = "balance"
  BY DEF Tasks
<1>4. PICK balance : balance = Call(task.id, "balanceOf", "")
  OBVIOUS
<1> DEFINE Reply(success) == [success |-> success, data |-> IF success THEN {Len(owned[task.id])} ELSE {}]
           Sequence(success) == FillSequenceNumber(Safe(Reply(success), Zero))
<1>5. PICK success \in BOOLEAN :
              /\ IF success
                 THEN /\ replied' = replied \cup {[call |-> balance, amount |-> Len(owned[task.id])]}
                      /\ UNCHANGED <<lost, faults>>
                 ELSE Fault /\ lost' = lost \cup {balance} /\ UNCHANGED replied
              /\ IF Sequence(success) = <<>> THEN Done(task, {})
                 ELSE Then(task, Task(task.id, "index", Sequence(success)))
  BY <1>1, <1>4
<1>6. NFTTask(task) /\ WorldInv
  BY <1>3, NFTTaskHas DEF RequestsInv
<1>7. task.id \in DOMAIN owned
  BY <1>3, <1>6 DEF NFTTask
<1>8. PICK owns : owns = Len(owned[task.id])
  OBVIOUS
<1>9. owns \in Nat /\ DOMAIN owned[task.id] = 1 .. owns
  BY <1>6, <1>7, <1>8, WalletHas
<1>10. PICK number \in Nat : /\ Sequence(success) = FillSequenceNumber(number)
                             /\ success => number = owns
                             /\ ~ success => balance \in lost'
  <2>1. CASE success
    <3>1. Reply(success) = [success |-> TRUE, data |-> {owns}]
      BY <1>8, <2>1
    <3>2. Safe([success |-> TRUE, data |-> {owns}], Zero) = owns
      <4>1. PICK reply : reply = [success |-> TRUE, data |-> {owns}]
        OBVIOUS
      <4>2. reply.success /\ reply.data = {owns} /\ ~ IsEmptyBytes(reply.data)
        BY <4>1 DEF IsEmptyBytes
      <4>3. Safe(reply, Zero) = Decode({owns})
        BY <4>2 DEF Safe
      <4> QED
        BY <4>1, <4>3, DecodeOf
    <3>3. Sequence(success) = FillSequenceNumber(owns)
      BY <3>1, <3>2
    <3> QED
      BY <1>9, <2>1, <3>3
  <2>2. CASE ~ success
    <3>1. Reply(success) = [success |-> FALSE, data |-> {}]
      BY <2>2
    <3>2. Safe([success |-> FALSE, data |-> {}], Zero) = 0
      BY DEF Safe, Zero
    <3>3. Sequence(success) = FillSequenceNumber(0)
      BY <3>1, <3>2
    <3>4. balance \in lost'
      BY <1>5, <2>2
    <3> QED
      BY <2>2, <3>3, <3>4
  <2> QED
    BY <2>1, <2>2
<1>11. PICK sequence : sequence = FillSequenceNumber(number)
  OBVIOUS
<1>12. IF sequence = <<>> THEN Done(task, {}) ELSE Then(task, Task(task.id, "index", sequence))
  BY <1>5, <1>10, <1>11
<1>13. Later
  BY <1>2, <1>5 DEF Later, Unwritten
<1> HIDE DEF Sequence, Reply
<1>14. IsList(sequence) /\ Len(sequence) = number /\ DOMAIN sequence = 1 .. number
  BY <1>11, Filled
\* Of what is worth something the number that is answered takes note.
<1>15. ASSUME NEW n \in DOMAIN NFTokens, NFTokenIsWorth(NFTokens[n])', LeadsToNFT(task, NFTokens[n])
       PROVE  /\ task.id = NFTokens[n].address
              /\ \E i \in DOMAIN sequence \cap DOMAIN owned[task.id] : owned[task.id][i] = NFTokens[n].index
  <2>1. task.id = NFTokens[n].address
    BY <1>3, <1>15 DEF LeadsToNFT
  <2>2. PICK item : item = NFTokens[n]
    OBVIOUS
  <2>3. /\ \E i \in DOMAIN owned[item.address] : owned[item.address][i] = item.index
        /\ \A call \in lost' : call.at # item.address
    BY <1>2, <1>6, <1>13, <1>15, <2>2, NFTokenOwned
  <2>4. success
    <3>1. balance.at = task.id
      BY <1>4 DEF Call
    <3> QED
      BY <1>10, <2>1, <2>2, <2>3, <3>1
  <2>5. DOMAIN sequence = DOMAIN owned[task.id]
    BY <1>9, <1>10, <1>14, <2>4
  <2> QED
    BY <2>1, <2>2, <2>3, <2>5
<1>16. CASE sequence = <<>>
  <2>1. PICK nexts : nexts = {}
    OBVIOUS
  <2>2. PICK items : items = {}
    OBVIOUS
  <2>3. Await((request.tasks \ {task}) \cup nexts, items)
    <3>1. (request.tasks \ {task}) \cup {} = request.tasks \ {task}
      OBVIOUS
    <3> QED
      BY <1>12, <1>16, <2>1, <2>2, <3>1 DEF Done
  <2>4. \A next \in nexts : IsTask(next) /\ NFTTask(next)'
    BY <2>1
  <2>5. \A item \in items : NFTokenItemIsOwn(item)'
    BY <2>2
  <2>6. DOMAIN sequence = {}
    BY <1>16
  <2>7. \A n \in DOMAIN NFTokens :
           IsEmptyQuery(request.query) /\ NFTokenIsWorth(NFTokens[n])' /\ LeadsToNFT(task, NFTokens[n]) =>
             \/ \E item \in items : item.name = NFTokens[n].name
             \/ \E next \in nexts : LeadsToNFT(next, NFTokens[n])
    BY <1>15, <2>6
  <2> QED
    BY ONLY RequestsInv, <1>2, <1>3, <1>13, <2>3, <2>4, <2>5, <2>7, NFTokenNext
<1>17. CASE sequence # <<>>
  <2>1. PICK after : after = Task(task.id, "index", sequence)
    OBVIOUS
  <2>2. PICK nexts : nexts = {after}
    OBVIOUS
  <2>3. PICK items : items = {}
    OBVIOUS
  <2>4. Await((request.tasks \ {task}) \cup nexts, items)
    BY <1>12, <1>17, <2>1, <2>2, <2>3 DEF Then
  <2>5. after.id = task.id /\ after.pc = "index" /\ after.rows = sequence /\ IsTask(after)
    BY <1>14, <2>1, TaskHas
  <2>6. owned' = owned
    BY <1>2 DEF Unwritten, chain
  <2>7. NFTTask(after)'
    BY <1>7, <1>11, <1>14, <2>5, <2>6 DEF NFTTask
  <2>8. \A next \in nexts : IsTask(next) /\ NFTTask(next)'
    BY <2>2, <2>5, <2>7
  <2>9. \A item \in items : NFTokenItemIsOwn(item)'
    BY <2>3
  <2>10. ASSUME NEW n \in DOMAIN NFTokens, NFTokenIsWorth(NFTokens[n])', LeadsToNFT(task, NFTokens[n])
         PROVE  LeadsToNFT(after, NFTokens[n])
    BY <1>15, <2>5, <2>10 DEF LeadsToNFT
  <2>11. \A n \in DOMAIN NFTokens :
           IsEmptyQuery(request.query) /\ NFTokenIsWorth(NFTokens[n])' /\ LeadsToNFT(task, NFTokens[n]) =>
             \/ \E item \in items : item.name = NFTokens[n].name
             \/ \E next \in nexts : LeadsToNFT(next, NFTokens[n])
    BY <2>2, <2>10
  <2> QED
    BY ONLY RequestsInv, <1>2, <1>3, <1>13, <2>4, <2>8, <2>9, <2>11, NFTokenNext
<1> QED
  BY <1>16, <1>17

LEMMA GetNFTokensOfOwnerKeeps ==
  ASSUME RequestsInv, GetNFTokensOfOwner
  PROVE  RequestsInv'
<1>1. PICK task \in Tasks("nft", "index") :
    LET Owns(i) == task.rows[i] < Len(owned[task.id])
        Index(i) == owned[task.id][task.rows[i] + 1]
    IN  \E missed \in Losses(task.rows) :
          /\ \A i \in missed : Owns(i)
          /\ IF missed = {} THEN UNCHANGED faults ELSE Fault
          /\ LET replies == [i \in DOMAIN task.rows |->
                              IF i \in missed \/ ~Owns(i) THEN [success |-> FALSE, data |-> {}]
                              ELSE [success |-> TRUE, data |-> {Index(i)}]]
             IN  Then(task, Task(task.id, "search", TokenOfOwnerByIndex(replies)))
          /\ replied' = replied \cup {[call |-> IndexCall(task.id, task.rows[i]), amount |-> Index(i)]
                                      : i \in {j \in DOMAIN task.rows \ missed : Owns(j)}}
          /\ lost' = lost \cup {IndexCall(task.id, task.rows[i]) : i \in missed}
  BY DEF GetNFTokensOfOwner
<1>2. Unwritten
  BY DEF GetNFTokensOfOwner
<1>3. task \in request.tasks /\ request.kind = "nft" /\ task.pc = "index"
  BY DEF Tasks
<1>4. NFTTask(task) /\ IsTask(task) /\ WorldInv
  BY <1>3, NFTTaskHas DEF RequestsInv
<1> DEFINE rows == task.rows
           owns == owned[task.id]
           Owns(i) == rows[i] < Len(owns)
           Index(i) == owns[rows[i] + 1]
           R(missed) == [i \in DOMAIN rows |->
                              IF i \in missed \/ ~Owns(i) THEN [success |-> FALSE, data |-> {}]
                              ELSE [success |-> TRUE, data |-> {Index(i)}]]
<1>10. PICK missed \in Losses(rows) :
          /\ Then(task, Task(task.id, "search", TokenOfOwnerByIndex(R(missed))))
          /\ replied' = replied \cup {[call |-> IndexCall(task.id, rows[i]), amount |-> Index(i)]
                                      : i \in {j \in DOMAIN rows \ missed : Owns(j)}}
          /\ lost' = lost \cup {IndexCall(task.id, rows[i]) : i \in missed}
  BY <1>1
<1>5. rows = task.rows
  OBVIOUS
<1>6. owns = owned[task.id]
  OBVIOUS
<1> HIDE DEF rows, owns
<1>7. task.id \in DOMAIN owned /\ IsList(rows) /\ rows = FillSequenceNumber(Len(rows))
  BY <1>3, <1>4, <1>5 DEF NFTTask, IsTask
<1>8. Len(owns) \in Nat /\ DOMAIN owns = 1 .. Len(owns) /\ \A i \in DOMAIN owns : owns[i] \in Nat
  BY <1>4, <1>6, <1>7, WalletHas
<1>9. Len(rows) \in Nat /\ DOMAIN rows = 1 .. Len(rows) /\ \A i \in DOMAIN rows : rows[i] = i - 1
  <2>1. Len(rows) \in Nat /\ DOMAIN rows = 1 .. Len(rows)
    BY <1>7, ListHas
  <2>2. PICK n \in Nat : n = Len(rows)
    BY <2>1
  <2>3. \A i \in 1 .. n : FillSequenceNumber(n)[i] = i - 1
    BY Filled
  <2> QED
    BY <1>7, <2>1, <2>2, <2>3
<1>11. PICK replies : replies = R(missed)
  OBVIOUS
<1>12. DOMAIN replies = DOMAIN rows /\ \A i \in DOMAIN rows :
          /\ i \in missed \/ ~ Owns(i) => replies[i] = [success |-> FALSE, data |-> {}]
          /\ ~ (i \in missed \/ ~ Owns(i)) => replies[i] = [success |-> TRUE, data |-> {Index(i)}]
  BY <1>11
<1> HIDE DEF R
<1> DEFINE list == [i \in DOMAIN replies |-> IF ValidResult(replies[i]) THEN Decode(replies[i].data) ELSE Null]
           places == {i \in DOMAIN list : list[i] # Null}
           some == Filter(list, places)
<1>13. TokenOfOwnerByIndex(replies) = some
  BY DEF TokenOfOwnerByIndex, RemoveNull
<1>14. DOMAIN list = DOMAIN rows
  BY <1>12
<1>15. ASSUME NEW i \in DOMAIN rows
       PROVE  list[i] = IF i \in missed \/ ~ Owns(i) THEN Null ELSE Index(i)
  <2>1. list[i] = IF ValidResult(replies[i]) THEN Decode(replies[i].data) ELSE Null
    BY <1>12
  <2> HIDE DEF list
  <2>2. CASE i \in missed \/ ~ Owns(i)
    <3>1. ~ replies[i].success
      BY <1>12, <2>2
    <3> QED
      BY <2>1, <2>2, <3>1 DEF ValidResult
  <2>3. CASE ~ (i \in missed \/ ~ Owns(i))
    <3>1. PICK index : index = Index(i)
      OBVIOUS
    <3>2. replies[i] = [success |-> TRUE, data |-> {index}]
      BY <1>12, <2>3, <3>1
    <3>3. replies[i].success /\ replies[i].data = {index} /\ ~ IsEmptyBytes(replies[i].data)
      BY <3>2 DEF IsEmptyBytes
    <3> QED
      BY <2>1, <2>3, <3>1, <3>3, DecodeOf DEF ValidResult
  <2> QED
    BY <2>2, <2>3
<1>16. \A i \in DOMAIN list : i \in places <=> list[i] # Null
  OBVIOUS
<1>17. IsList(list)
  <2>1. list = [i \in 1 .. Len(rows) |-> list[i]] /\ Len(rows) \in Nat
    BY <1>9, <1>12
  <2> HIDE DEF list
  <2> QED
    BY ONLY <2>1, ListFrom
<1> HIDE DEF list, places
<1>18. IsList(some)
  BY ONLY <1>17, Filtered
<1>19. /\ \A k \in DOMAIN some : \E i \in places \cap DOMAIN list : some[k] = list[i]
       /\ \A i \in places \cap DOMAIN list : \E k \in DOMAIN some : some[k] = list[i]
  BY ONLY <1>17, Filtered
<1> HIDE DEF some
<1>20. PICK after : after = Task(task.id, "search", some)
  OBVIOUS
<1>21. PICK nexts : nexts = {after}
  OBVIOUS
<1>22. PICK items : items = {}
  OBVIOUS
<1>23. Await((request.tasks \ {task}) \cup nexts, items)
  BY <1>10, <1>11, <1>13, <1>20, <1>21, <1>22 DEF Then
<1>24. after.id = task.id /\ after.pc = "search" /\ after.rows = some /\ IsTask(after)
  BY <1>18, <1>20, TaskHas
<1>25. Later
  BY <1>2, <1>10 DEF Later, Unwritten
<1>26. \A i \in DOMAIN rows : IndexCall(task.id, rows[i]).view = "tokenOfOwnerByIndex" /\ IndexCall(task.id, rows[i]).at = task.id
  BY DEF IndexCall, Call
<1>27. ASSUME NEW k \in DOMAIN some
       PROVE  \E r \in replied' : r.call.view = "tokenOfOwnerByIndex" /\ r.call.at = task.id /\ r.amount = some[k]
  <2>1. PICK i \in places \cap DOMAIN list : some[k] = list[i]
    BY <1>19
  <2>2. i \in DOMAIN rows /\ list[i] # Null
    BY <1>14, <1>16
  <2>3. i \notin missed /\ Owns(i) /\ some[k] = Index(i)
    BY <1>15, <2>1, <2>2
  <2>4. PICK r : r = [call |-> IndexCall(task.id, rows[i]), amount |-> Index(i)]
    OBVIOUS
  <2>5. r \in replied'
    BY <1>10, <2>2, <2>3, <2>4
  <2>6. r.call = IndexCall(task.id, rows[i]) /\ r.amount = Index(i)
    BY <2>4
  <2> HIDE DEF Owns, Index
  <2> QED
    BY <1>26, <2>2, <2>3, <2>5, <2>6
<1>28. NFTTask(after)'
  BY <1>24, <1>27 DEF NFTTask
<1>29. ASSUME NEW n \in DOMAIN NFTokens, NFTokenIsWorth(NFTokens[n])', LeadsToNFT(task, NFTokens[n])
       PROVE  LeadsToNFT(after, NFTokens[n])
  <2>1. task.id = NFTokens[n].address /\ \E i \in DOMAIN rows \cap DOMAIN owns : owns[i] = NFTokens[n].index
    BY <1>3, <1>5, <1>6, <1>29 DEF LeadsToNFT
  <2>2. PICK i \in DOMAIN rows \cap DOMAIN owns : owns[i] = NFTokens[n].index
    BY <2>1
  <2>3. rows[i] = i - 1 /\ i \in 1 .. Len(owns)
    BY <1>8, <1>9
  <2>4. Owns(i) /\ Index(i) = NFTokens[n].index
    <3>1. rows[i] < Len(owns) /\ rows[i] + 1 = i
      BY <1>8, <2>3
    <3> QED
      BY <2>2, <3>1
  <2>5. i \notin missed
    <3>1. PICK item : item = NFTokens[n]
      OBVIOUS
    <3>2. \A call \in lost' : call.at # item.address
      BY <1>2, <1>4, <1>25, <1>29, <3>1, NFTokenOwned
    <3>3. i \in missed => IndexCall(task.id, rows[i]) \in lost'
      BY <1>10
    <3> QED
      BY <1>26, <2>1, <3>1, <3>2, <3>3
  <2>6. list[i] = owns[i] /\ list[i] # Null
    <3>1. list[i] = Index(i) /\ Index(i) = owns[i]
      BY <1>15, <2>2, <2>4, <2>5
    <3>2. owns[i] \in Nat /\ Null \notin Nat
      BY <1>8 DEF Null
    <3> QED
      BY <3>1, <3>2
  <2>7. PICK k \in DOMAIN some : some[k] = list[i]
    BY <1>14, <1>16, <1>19, <2>6
  <2>8. some[k] = NFTokens[n].index
    BY <2>2, <2>6, <2>7
  <2> QED
    BY <1>24, <2>1, <2>8 DEF LeadsToNFT
<1>30. \A next \in nexts : IsTask(next) /\ NFTTask(next)'
  BY <1>21, <1>24, <1>28
<1>31. \A item \in items : NFTokenItemIsOwn(item)'
  BY <1>22
<1>32. \A n \in DOMAIN NFTokens :
           IsEmptyQuery(request.query) /\ NFTokenIsWorth(NFTokens[n])' /\ LeadsToNFT(task, NFTokens[n]) =>
             \/ \E item \in items : item.name = NFTokens[n].name
             \/ \E next \in nexts : LeadsToNFT(next, NFTokens[n])
  BY <1>21, <1>29
<1> QED
  BY ONLY RequestsInv, <1>2, <1>3, <1>23, <1>25, <1>30, <1>31, <1>32, NFTokenNext

\* The rows that a search comes to.
NFTokenRows(rows, names, address, indexes, query) ==
  /\ \A k \in DOMAIN rows : \E i \in DOMAIN NFTokens :
       /\ rows[k] = NFTokens[i] /\ NFTokens[i].address = address
       /\ \E n \in DOMAIN indexes : indexes[n] = NFTokens[i].index
  /\ IsEmptyQuery(query) =>
       \A i \in DOMAIN NFTokens :
         /\ {NFTokens[i].name, NFTokens[i].protocol, NFTokens[i].network} \subseteq names
         /\ NFTokens[i].address = address
         /\ \E n \in DOMAIN indexes : indexes[n] = NFTokens[i].index
         => \E k \in DOMAIN rows : rows[k] = NFTokens[i]

LEMMA NFTokensFound ==
  ASSUME NEW names, NEW address, NEW indexes, indexes # <<>>,
         NEW query \in [page : Nat, limit : Nat, skipItems : Nat]
  PROVE  \E rows : /\ NFTokenSearch(NFTokens, names, address, indexes, query) = {rows}
                   /\ NFTokenRows(rows, names, address, indexes, query)
<1> DEFINE first == {i \in DOMAIN NFTokens : {NFTokens[i].name, NFTokens[i].protocol, NFTokens[i].network} \subseteq names}
           rows == Filter(NFTokens, first)
           places == {i \in DOMAIN rows : /\ rows[i].address = address
                                          /\ \E n \in DOMAIN indexes : indexes[n] = rows[i].index}
           some == Filter(rows, places)
           page == Page(some, query)
<1>1. NFTokenSearch(NFTokens, names, address, indexes, query) = {page}
  BY DEF NFTokenSearch, NFTokenSearchQueryBuilder
<1>2. IsList(NFTokens)
  BY TablesAssumption DEF IsTable
<1>3. \A i \in DOMAIN NFTokens :
        {NFTokens[i].name, NFTokens[i].protocol, NFTokens[i].network} \subseteq names => i \in first
  OBVIOUS
<1>4. \A i \in DOMAIN rows :
        i \in places <=> rows[i].address = address /\ \E n \in DOMAIN indexes : indexes[n] = rows[i].index
  OBVIOUS
<1> HIDE DEF first, places
<1>5. /\ IsList(rows)
      /\ \A k \in DOMAIN rows : \E i \in first \cap DOMAIN NFTokens : rows[k] = NFTokens[i]
      /\ \A i \in first \cap DOMAIN NFTokens : \E k \in DOMAIN rows : rows[k] = NFTokens[i]
  BY ONLY <1>2, Filtered
<1> HIDE DEF rows
<1>6. IsList(rows)
  BY <1>5
<1>7. /\ IsList(some)
      /\ \A k \in DOMAIN some : \E i \in places \cap DOMAIN rows : some[k] = rows[i]
      /\ \A i \in places \cap DOMAIN rows : \E k \in DOMAIN some : some[k] = rows[i]
  BY ONLY <1>6, Filtered
<1> HIDE DEF some
<1>8. /\ \A k \in DOMAIN page : \E i \in DOMAIN some : page[k] = some[i]
      /\ IsEmptyQuery(query) => page = some
  BY <1>7, Paged
<1> HIDE DEF page
<1>9. ASSUME NEW k \in DOMAIN page
      PROVE  \E i \in DOMAIN NFTokens : /\ page[k] = NFTokens[i] /\ NFTokens[i].address = address
                                        /\ \E n \in DOMAIN indexes : indexes[n] = NFTokens[i].index
  <2>1. PICK m \in DOMAIN some : page[k] = some[m]
    BY <1>8
  <2>2. PICK n \in places \cap DOMAIN rows : some[m] = rows[n]
    BY <1>7
  <2>3. PICK i \in first \cap DOMAIN NFTokens : rows[n] = NFTokens[i]
    BY <1>5
  <2>4. rows[n].address = address /\ \E j \in DOMAIN indexes : indexes[j] = rows[n].index
    BY <1>4
  <2> QED
    BY <2>1, <2>2, <2>3, <2>4
<1>10. ASSUME IsEmptyQuery(query), NEW i \in DOMAIN NFTokens,
              {NFTokens[i].name, NFTokens[i].protocol, NFTokens[i].network} \subseteq names,
              NFTokens[i].address = address, \E n \in DOMAIN indexes : indexes[n] = NFTokens[i].index
       PROVE  \E k \in DOMAIN page : page[k] = NFTokens[i]
  <2>1. PICK n \in DOMAIN rows : rows[n] = NFTokens[i]
    BY <1>3, <1>5, <1>10
  <2>2. n \in places \cap DOMAIN rows
    BY <1>4, <1>10, <2>1
  <2>3. PICK m \in DOMAIN some : some[m] = rows[n]
    BY <1>7, <2>2
  <2> QED
    BY <1>8, <1>10, <2>1, <2>3
<1>11. NFTokenRows(page, names, address, indexes, query)
  BY <1>9, <1>10 DEF NFTokenRows
<1> QED
  BY <1>1, <1>11

LEMMA NFTokenOfName ==
  ASSUME NEW n \in DOMAIN NFTokens, NEW item, item.name = NFTokens[n].name
  PROVE  NFTokenOf(item) = NFTokens[n]
<1> DEFINE m == CHOOSE i \in DOMAIN NFTokens : NFTokens[i].name = item.name
<1>1. m \in DOMAIN NFTokens /\ NFTokens[m].name = item.name
  OBVIOUS
<1>2. NFTokenOf(item) = NFTokens[m]
  BY DEF NFTokenOf
<1> HIDE DEF m
<1>3. m = n
  BY <1>1, TablesAssumption DEF IsTable
<1> QED
  BY <1>2, <1>3

LEMMA SearchNFTokensKeeps ==
  ASSUME RequestsInv, SearchNFTokens
  PROVE  RequestsInv'
<1>1. PICK task \in Tasks("nft", "search") :
    /\ LET found == NFTokenSearch(NFTokens, on, task.id, task.rows, request.query)
       IN  IF found = {} THEN Fails
           ELSE Done(task, {[name |-> Decode(found)[i].name] : i \in DOMAIN Decode(found)})
    /\ Unwritten /\ Unasked
  BY DEF SearchNFTokens
<1>2. task \in request.tasks /\ request.kind = "nft" /\ task.pc = "search"
  BY DEF Tasks
<1>3. PICK found : found = NFTokenSearch(NFTokens, on, task.id, task.rows, request.query)
  OBVIOUS
<1>4. CASE task.rows = <<>>
  <2>1. found = {}
    BY <1>3, <1>4 DEF NFTokenSearch
  <2>2. Fails
    BY <1>1, <1>3, <2>1
  <2> QED
    BY <1>1, <2>2, Failed
<1>5. CASE task.rows # <<>>
  <2>1. request.query \in [page : Nat, limit : Nat, skipItems : Nat]
    BY DEF RequestsInv, RequestShape
  <2>2. PICK indexes : indexes = task.rows
    OBVIOUS
  <2>3. PICK rows : /\ NFTokenSearch(NFTokens, on, task.id, indexes, request.query) = {rows}
                    /\ NFTokenRows(rows, on, task.id, indexes, request.query)
    <3>1. indexes # <<>>
      BY <1>5, <2>2
    <3> QED
      BY ONLY <2>1, <3>1, NFTokensFound
  <2>4. PICK items : items = {[name |-> rows[i].name] : i \in DOMAIN rows}
    OBVIOUS
  <2>5. PICK nexts : nexts = {}
    OBVIOUS
  <2>6. Await((request.tasks \ {task}) \cup nexts, items)
    <3>1. Decode(found) = rows /\ found # {}
      BY <1>3, <2>2, <2>3, DecodeOf
    <3>2. Done(task, items)
      BY <1>1, <1>3, <2>4, <3>1
    <3>3. (request.tasks \ {task}) \cup {} = request.tasks \ {task}
      OBVIOUS
    <3> QED
      BY <2>5, <3>2, <3>3 DEF Done
  <2>7. Unwritten /\ Later
    BY <1>1, NothingAsked
  <2>8. NFTTask(task)
    BY <1>2, NFTTaskHas
  <2>9. ASSUME NEW item \in items PROVE NFTokenItemIsOwn(item)'
    <3>1. PICK k \in DOMAIN rows : item = [name |-> rows[k].name]
      BY <2>4
    <3>2. PICK i \in DOMAIN NFTokens : /\ rows[k] = NFTokens[i] /\ NFTokens[i].address = task.id
                                       /\ \E n \in DOMAIN indexes : indexes[n] = NFTokens[i].index
      BY <2>3 DEF NFTokenRows
    <3>3. PICK n \in DOMAIN indexes : indexes[n] = NFTokens[i].index
      BY <3>2
    <3>4. PICK r \in replied : r.call.view = "tokenOfOwnerByIndex" /\ r.call.at = task.id /\ r.amount = task.rows[n]
      BY <1>2, <2>2, <2>8 DEF NFTTask
    <3>5. item.name = NFTokens[i].name
      BY <3>1, <3>2
    <3>6. NFTokenOf(item) = NFTokens[i]
      BY <3>5, NFTokenOfName
    <3>7. r \in replied' /\ r.call.at = NFTokenOf(item).address /\ r.amount = NFTokenOf(item).index
      BY <2>2, <2>7, <3>2, <3>3, <3>4, <3>6 DEF Later
    <3> QED
      BY <3>4, <3>7 DEF NFTokenItemIsOwn, NFTokenOf
  <2>10. ASSUME IsEmptyQuery(request.query), NEW n \in DOMAIN NFTokens, NFTokenIsWorth(NFTokens[n])',
                LeadsToNFT(task, NFTokens[n])
         PROVE  \E item \in items : item.name = NFTokens[n].name
    <3>1. task.id = NFTokens[n].address /\ \E i \in DOMAIN indexes : indexes[i] = NFTokens[n].index
      BY <1>2, <2>2, <2>10 DEF LeadsToNFT
    <3>2. NFTokenIsWorth(NFTokens[n])
      BY <2>7, <2>10, WorthBefore
    <3>3. {NFTokens[n].name, NFTokens[n].protocol, NFTokens[n].network} \subseteq on
      <4>1. kept.names \subseteq on
        BY KeptIsThere DEF RequestsInv
      <4> QED
        BY <3>2, <4>1 DEF NFTokenIsWorth
    <3>4. PICK k \in DOMAIN rows : rows[k] = NFTokens[n]
      BY <2>3, <2>10, <3>1, <3>3 DEF NFTokenRows
    <3>5. PICK item : item = [name |-> rows[k].name]
      OBVIOUS
    <3> QED
      BY <2>4, <3>4, <3>5
  <2>11. \A next \in nexts : IsTask(next) /\ NFTTask(next)'
    BY <2>5
  <2>12. \A item \in items : NFTokenItemIsOwn(item)'
    BY <2>9
  <2>13. \A n \in DOMAIN NFTokens :
           IsEmptyQuery(request.query) /\ NFTokenIsWorth(NFTokens[n])' /\ LeadsToNFT(task, NFTokens[n]) =>
             \/ \E item \in items : item.name = NFTokens[n].name
             \/ \E next \in nexts : LeadsToNFT(next, NFTokens[n])
    BY <2>10
  <2> QED
    BY ONLY RequestsInv, <1>2, <2>6, <2>7, <2>11, <2>12, <2>13, NFTokenNext
<1> QED
  BY <1>4, <1>5

(***************************************************************************)
(* What others write, and what the wallet does.                            *)
(***************************************************************************)

\* A step that leaves the request as it is.
LEMMA WorldMoves ==
  ASSUME RequestsInv, Later, request' = request, replied' = replied, lost' = lost, WorldInv',
         DOMAIN owned' = DOMAIN owned,
         \A task \in request.tasks : \A n \in DOMAIN NFTokens :
           request.kind = "nft" /\ NFTokenIsWorth(NFTokens[n])' /\ LeadsToNFT(task, NFTokens[n])
             => LeadsToNFT(task, NFTokens[n])'
  PROVE  RequestsInv'
<1>1. request'.kind = request.kind /\ RequestShape'
  BY DEF RequestsInv, RequestShape
<1>2. TasksInv'
  <2>1. ASSUME NEW task \in request.tasks PROVE TaskIs(task)' /\ (request.kind = "swap" => SwapTask(task)')
    <3>1. TaskIs(task) /\ (request.kind = "swap" => SwapTask(task))
      BY DEF RequestsInv, TasksInv, TaskIs
    <3>2. TaskIs(task)'
      BY <1>1, <3>1, TaskStays
    <3> QED
      BY <3>1, <3>2 DEF SwapTask
  <2> QED
    BY <2>1 DEF TasksInv, TaskIs
<1>3. ItemsInv'
  <2>1. ASSUME NEW item \in request.items PROVE ItemIsOwn(item)'
    <3>1. ItemIsOwn(item)
      BY DEF RequestsInv, ItemsInv, ItemIsOwn
    <3> QED
      BY <1>1, <3>1, ItemStays
  <2> QED
    BY <2>1 DEF ItemsInv, ItemIsOwn
<1>4. NothingMuchBetterIsHidden'
  <2>1. \A exchange : PairsOf(exchange)' = PairsOf(exchange)
    BY DEF PairsOf
  <2>2. NothingMuchBetterIsHidden
    BY DEF RequestsInv
  <2> QED
    BY <2>1, <2>2 DEF NothingMuchBetterIsHidden, Answered
<1>5. ASSUME IsEmptyQuery(request.query)
      PROVE  /\ request.kind = "farm" => \A i \in DOMAIN Farms : FarmIsWorth(Farms[i])' => FarmOnItsWay(Farms[i])'
             /\ request.kind = "token" => \A i \in DOMAIN Tokens : TokenIsWorth(Tokens[i])' => TokenOnItsWay(Tokens[i])'
             /\ request.kind = "lending" => \A i \in DOMAIN Markets : MarketIsWorth(Markets[i])' => MarketOnItsWay(Markets[i])'
  <2>1. /\ request.kind = "farm" => \A i \in DOMAIN Farms : FarmIsWorth(Farms[i])' => FarmOnItsWay(Farms[i])
        /\ request.kind = "token" => \A i \in DOMAIN Tokens : TokenIsWorth(Tokens[i])' => TokenOnItsWay(Tokens[i])
        /\ request.kind = "lending" => \A i \in DOMAIN Markets : MarketIsWorth(Markets[i])' => MarketOnItsWay(Markets[i])
    BY <1>5, WorthBefore DEF RequestsInv, WayInv
  <2>2. /\ \A farm : FarmOnItsWay(farm) => FarmOnItsWay(farm)'
        /\ \A token : TokenOnItsWay(token) => TokenOnItsWay(token)'
        /\ \A market : MarketOnItsWay(market) => MarketOnItsWay(market)'
    BY DEF FarmOnItsWay, TokenOnItsWay, MarketOnItsWay, Shown
  <2> QED
    BY <2>1, <2>2
<1>6. ASSUME IsEmptyQuery(request.query), request.kind = "nft", NEW n \in DOMAIN NFTokens, NFTokenIsWorth(NFTokens[n])'
      PROVE  NFTokenOnItsWay(NFTokens[n])'
  <2>1. NFTokenIsWorth(NFTokens[n])
    BY <1>6, WorthBefore
  <2>2. NFTokenOnItsWay(NFTokens[n])
    BY <1>6, <2>1 DEF RequestsInv, WayInv
  <2>3. request.pc \in {"tasks", "answered"} =>
          Shown(NFTokens[n].name) \/ \E task \in request.tasks : LeadsToNFT(task, NFTokens[n])
    BY <2>2, NFTokenWay
  <2>4. request.pc \in {"tasks", "answered"} =>
          Shown(NFTokens[n].name) \/ \E task \in request.tasks : LeadsToNFT(task, NFTokens[n])'
    BY <1>6, <2>3
  <2> QED
    BY <2>4 DEF NFTokenOnItsWay, Shown, LeadsToNFT
<1>7. WayInv'
  BY <1>5, <1>6 DEF WayInv
<1> QED
  BY <1>1, <1>2, <1>3, <1>4, <1>7 DEF RequestsInv

\* What is kept after a write was kept before, and is there.
LEMMA Written ==
  ASSUME WorldInv, Write
  PROVE  /\ Later /\ request' = request /\ replied' = replied /\ lost' = lost /\ may' = may
         /\ DOMAIN kept' = {"names", "interacted", "held", "owned"}
         /\ \A f \in DOMAIN kept' : kept'[f] \subseteq There'[f]
<1>1. kept' = [f \in DOMAIN kept |-> kept[f] \cap There'[f]] /\ DOMAIN kept = {"names", "interacted", "held", "owned"}
  BY DEF Write, WorldInv
<1>2. request' = request /\ replied' = replied /\ lost' = lost /\ may' = may
  BY DEF Write
<1>3. DOMAIN kept' = {"names", "interacted", "held", "owned"} /\ \A f \in DOMAIN kept' : kept'[f] = kept[f] \cap There'[f]
  BY <1>1
<1>4. \A f \in DOMAIN kept' : kept'[f] \subseteq There'[f] /\ kept'[f] \subseteq kept[f]
  BY <1>3
<1>5. kept'.names \subseteq kept.names /\ kept'.interacted \subseteq kept.interacted
      /\ kept'.held \subseteq kept.held /\ kept'.owned \subseteq kept.owned
  BY <1>3, <1>4
<1> QED
  BY <1>2, <1>3, <1>4, <1>5 DEF Later

\* A write to the database.
LEMMA WriteKeeps ==
  ASSUME RequestsInv, Write, UNCHANGED <<owned, reserves>>, \A call \in held' : call \in held \cup may.calls
  PROVE  RequestsInv'
<1>1. WorldInv
  BY DEF RequestsInv
<1>2. /\ Later /\ request' = request /\ replied' = replied /\ lost' = lost /\ may' = may
      /\ DOMAIN kept' = {"names", "interacted", "held", "owned"}
      /\ \A f \in DOMAIN kept' : kept'[f] \subseteq There'[f]
  BY <1>1, Written
<1>3. owned' = owned /\ reserves' = reserves
  OBVIOUS
<1>4. WorldInv'
  BY <1>1, <1>2, <1>3 DEF WorldInv
<1>5. DOMAIN owned' = DOMAIN owned
  BY <1>3
<1>6. \A task \in request.tasks : \A n \in DOMAIN NFTokens : LeadsToNFT(task, NFTokens[n]) => LeadsToNFT(task, NFTokens[n])'
  BY <1>3 DEF LeadsToNFT
<1> QED
  BY <1>2, <1>4, <1>5, <1>6, WorldMoves

LEMMA SwitchKeeps ==
  ASSUME RequestsInv, NEW name, Switch(name)
  PROVE  RequestsInv'
  BY WriteKeeps DEF Switch, chain

LEMMA AddInteractionKeeps ==
  ASSUME RequestsInv, NEW interaction, AddInteraction(interaction)
  PROVE  RequestsInv'
  BY WriteKeeps DEF AddInteraction, chain

LEMMA DeleteInteractionKeeps ==
  ASSUME RequestsInv, DeleteInteraction
  PROVE  RequestsInv'
  BY WriteKeeps DEF DeleteInteraction, chain

LEMMA MoveKeeps ==
  ASSUME RequestsInv, NEW call \in may.calls, Move(call)
  PROVE  RequestsInv'
<1>1. \A c \in held' : c \in held \cup may.calls
  BY DEF Move
<1>2. Write /\ UNCHANGED <<owned, reserves>>
  BY DEF Move
<1> QED
  BY <1>1, <1>2, WriteKeeps

LEMMA StutterKeeps ==
  ASSUME RequestsInv, UNCHANGED <<chain, on, interacted, history, request>>
  PROVE  RequestsInv'
<1>1. /\ held' = held /\ owned' = owned /\ reserves' = reserves /\ on' = on /\ interacted' = interacted
      /\ may' = may /\ replied' = replied /\ lost' = lost /\ kept' = kept /\ request' = request
  BY DEF chain, history
<1>2. Later
  BY <1>1 DEF Later
<1>3. WorldInv'
  <2>1. There' = There
    BY <1>1 DEF There
  <2>2. WorldInv
    BY DEF RequestsInv
  <2> QED
    BY <1>1, <2>1, <2>2 DEF WorldInv
<1>4. \A task \in request.tasks : \A n \in DOMAIN NFTokens : LeadsToNFT(task, NFTokens[n]) => LeadsToNFT(task, NFTokens[n])'
  BY <1>1 DEF LeadsToNFT
<1>5. DOMAIN owned' = DOMAIN owned
  BY <1>1
<1> QED
  BY <1>1, <1>2, <1>3, <1>4, <1>5, WorldMoves

LEMMA FindInteractionKeeps ==
  ASSUME RequestsInv, NEW address, FindInteraction(address)
  PROVE  RequestsInv'
  BY StutterKeeps DEF FindInteraction

LEMMA RequestFailsKeeps ==
  ASSUME RequestsInv, RequestFails
  PROVE  RequestsInv'
  BY Failed DEF RequestFails

\* The wallet gets or gives an NFT: an item that stays may come forward, never go back.
LEMMA OwnedMoves ==
  ASSUME RequestsInv, Write, UNCHANGED <<held, reserves>>, NEW contract \in DOMAIN owned, NEW items, IsWallet(items),
         owned' = [owned EXCEPT ![contract] = items],
         \A m \in Nat : \A index :
           /\ \E j \in (1 .. m) \cap DOMAIN owned[contract] : owned[contract][j] = index
           /\ \E j \in DOMAIN items : items[j] = index
           => \E j \in (1 .. m) \cap DOMAIN items : items[j] = index
  PROVE  RequestsInv'
<1>1. WorldInv
  BY DEF RequestsInv
<1>2. /\ Later /\ request' = request /\ replied' = replied /\ lost' = lost /\ may' = may
      /\ DOMAIN kept' = {"names", "interacted", "held", "owned"}
      /\ \A f \in DOMAIN kept' : kept'[f] \subseteq There'[f]
  BY <1>1, Written
<1>3. /\ DOMAIN owned' = DOMAIN owned /\ owned'[contract] = items
      /\ \A a \in DOMAIN owned : a # contract => owned'[a] = owned[a]
  OBVIOUS
<1>4. WorldInv'
  <2>1. \A a \in DOMAIN owned' : IsWallet(owned'[a])
    BY <1>1, <1>3 DEF WorldInv
  <2>2. /\ may'.contracts \subseteq DOMAIN owned'
        /\ request'.kind = "nft" => NFTAddresses \subseteq DOMAIN owned'
    BY <1>1, <1>2, <1>3 DEF WorldInv
  <2>3. held' = held /\ reserves' = reserves
    OBVIOUS
  <2>4. /\ \A call \in held' \cup may'.calls : Worth(call) # Zero
        /\ \A call \in DOMAIN reserves' :
             \A offer \in reserves'[call] : offer \in Nat \X Nat /\ reserves'[call] = {offer}
    BY <1>1, <1>2, <2>3 DEF WorldInv
  <2> QED
    BY <1>2, <2>1, <2>2, <2>4 DEF WorldInv
<1>5. ASSUME NEW task \in request.tasks, NEW n \in DOMAIN NFTokens, request.kind = "nft",
             NFTokenIsWorth(NFTokens[n])', LeadsToNFT(task, NFTokens[n])
      PROVE  LeadsToNFT(task, NFTokens[n])'
  <2>1. CASE task.pc # "index" \/ task.id # contract
    <3>1. CASE task.pc # "index"
      BY <1>5, <3>1 DEF LeadsToNFT
    <3>2. CASE task.pc = "index" /\ task.id # contract
      <4>1. NFTTask(task)
        BY <1>5, NFTTaskHas
      <4>2. task.id \in DOMAIN owned
        BY <3>2, <4>1 DEF NFTTask
      <4>3. owned'[task.id] = owned[task.id]
        BY <1>3, <3>2, <4>2
      <4> QED
        BY <1>5, <4>3 DEF LeadsToNFT
    <3> QED
      BY <2>1, <3>1, <3>2
  <2>2. CASE task.pc = "index" /\ task.id = contract
    <3>1. IsTask(task)
      BY <1>5, NFTTaskHas
    <3>2. PICK m \in Nat : DOMAIN task.rows = 1 .. m
      <4>1. IsList(task.rows)
        BY <3>1 DEF IsTask
      <4>2. PICK rows : rows = task.rows
        OBVIOUS
      <4>3. Len(rows) \in Nat /\ DOMAIN rows = 1 .. Len(rows)
        BY <4>1, <4>2, ListHas
      <4> QED
        BY <4>2, <4>3
    <3>3. task.id = NFTokens[n].address
          /\ \E j \in (1 .. m) \cap DOMAIN owned[contract] : owned[contract][j] = NFTokens[n].index
      BY <1>5, <2>2, <3>2 DEF LeadsToNFT
    <3>4. \E j \in DOMAIN items : items[j] = NFTokens[n].index
      <4>1. <<NFTokens[n].address, NFTokens[n].index>> \in kept'.owned
        BY <1>5 DEF NFTokenIsWorth
      <4>2. PICK p \in kept'.owned : p = <<NFTokens[n].address, NFTokens[n].index>>
        BY <4>1
      <4>3. \E j \in DOMAIN owned'[p[1]] : owned'[p[1]][j] = p[2]
        <5>1. p \in There'.owned
          BY <1>2
        <5>2. There'.owned = UNION {{<<a, owned'[a][i]>> : i \in DOMAIN owned'[a]} : a \in DOMAIN owned'}
          BY DEF There
        <5>3. PICK a \in DOMAIN owned' : p \in {<<a, owned'[a][i]>> : i \in DOMAIN owned'[a]}
          BY <5>1, <5>2
        <5>4. PICK i \in DOMAIN owned'[a] : p = <<a, owned'[a][i]>>
          BY <5>3
        <5> QED
          BY <5>4
      <4>4. p[1] = contract /\ p[2] = NFTokens[n].index
        BY <2>2, <3>3, <4>2
      <4> QED
        BY <1>3, <4>3, <4>4
    <3>5. \E j \in (1 .. m) \cap DOMAIN items : items[j] = NFTokens[n].index
      BY <3>3, <3>4
    <3> QED
      BY <1>3, <2>2, <3>2, <3>3, <3>5 DEF LeadsToNFT
  <2> QED
    BY <2>1, <2>2
<1>6. \A task \in request.tasks : \A n \in DOMAIN NFTokens :
        request.kind = "nft" /\ NFTokenIsWorth(NFTokens[n])' /\ LeadsToNFT(task, NFTokens[n])
          => LeadsToNFT(task, NFTokens[n])'
  BY <1>5
<1> QED
  BY <1>2, <1>3, <1>4, <1>6, WorldMoves

LEMMA ReceiveKeeps ==
  ASSUME RequestsInv, NEW contract \in may.contracts, NEW index \in 1 .. 3, Receive(contract, index)
  PROVE  RequestsInv'
<1>1. WorldInv
  BY DEF RequestsInv
<1>2. contract \in DOMAIN owned
  BY <1>1 DEF WorldInv
<1>3. PICK old : old = owned[contract]
  OBVIOUS
<1>4. IsWallet(old)
  BY <1>1, <1>2, <1>3 DEF WorldInv
<1>5. old \in Seq(Nat) /\ Len(old) \in Nat /\ DOMAIN old = 1 .. Len(old) /\ \A i, j \in DOMAIN old : old[i] = old[j] => i = j
  <2>1. old \in Seq(Nat)
    BY <1>4 DEF IsWallet
  <2> QED
    BY <1>4, <2>1, ListIs DEF IsWallet
<1>6. PICK items : items = Append(old, index)
  OBVIOUS
<1>7. /\ items \in Seq(Nat) /\ DOMAIN items = 1 .. Len(old) + 1 /\ items[Len(old) + 1] = index
      /\ \A i \in 1 .. Len(old) : items[i] = old[i]
  <2>1. index \in Nat
    OBVIOUS
  <2>2. items \in Seq(Nat) /\ Len(items) = Len(old) + 1 /\ items[Len(old) + 1] = index
        /\ \A i \in 1 .. Len(old) : items[i] = old[i]
    BY <1>5, <1>6, <2>1, AppendProperties
  <2>3. DOMAIN items = 1 .. Len(items)
    BY <2>2, ListIs
  <2> QED
    BY <2>2, <2>3
<1>8. \A i \in DOMAIN old : old[i] # index
  BY <1>3 DEF Receive
<1>9. IsWallet(items)
  <2>1. ASSUME NEW i \in DOMAIN items, NEW j \in DOMAIN items, items[i] = items[j]
        PROVE  i = j
    <3>1. CASE i \in 1 .. Len(old) /\ j \in 1 .. Len(old)
      BY <1>5, <1>7, <2>1, <3>1
    <3>2. CASE i = Len(old) + 1 /\ j \in 1 .. Len(old)
      BY <1>5, <1>7, <1>8, <2>1, <3>2
    <3>3. CASE i \in 1 .. Len(old) /\ j = Len(old) + 1
      BY <1>5, <1>7, <1>8, <2>1, <3>3
    <3>4. CASE i = Len(old) + 1 /\ j = Len(old) + 1
      BY <3>4
    <3> QED
      BY <1>5, <1>7, <3>1, <3>2, <3>3, <3>4
  <2> QED
    BY <1>7, <2>1 DEF IsWallet
<1>10. Write /\ UNCHANGED <<held, reserves>> /\ owned' = [owned EXCEPT ![contract] = items]
  BY <1>3, <1>6 DEF Receive
<1>11. \A m \in Nat : \A x :
           /\ \E j \in (1 .. m) \cap DOMAIN owned[contract] : owned[contract][j] = x
           /\ \E j \in DOMAIN items : items[j] = x
           => \E j \in (1 .. m) \cap DOMAIN items : items[j] = x
  <2>1. \A j \in DOMAIN old : j \in DOMAIN items /\ items[j] = old[j]
    BY <1>5, <1>7
  <2> QED
    BY <1>3, <2>1
<1> QED
  BY ONLY RequestsInv, <1>2, <1>9, <1>10, <1>11, OwnedMoves

LEMMA SendKeeps ==
  ASSUME RequestsInv, NEW contract \in may.contracts, NEW i \in DOMAIN owned[contract], Send(contract, i)
  PROVE  RequestsInv'
<1>1. WorldInv
  BY DEF RequestsInv
<1>2. contract \in DOMAIN owned
  BY <1>1 DEF WorldInv
<1>3. PICK old : old = owned[contract]
  OBVIOUS
<1>4. IsWallet(old)
  BY <1>1, <1>2, <1>3 DEF WorldInv
<1>5. PICK n : n = Len(old)
  OBVIOUS
<1>6. n \in Nat /\ DOMAIN old = 1 .. n /\ (\A j \in 1 .. n : old[j] \in Nat) /\ i \in 1 .. n
  <2>1. old \in Seq(Nat)
    BY <1>4 DEF IsWallet
  <2>2. Len(old) \in Nat /\ DOMAIN old = 1 .. Len(old) /\ \A j \in DOMAIN old : old[j] \in Nat
    BY <2>1, ListIs
  <2> QED
    BY <1>3, <1>5, <2>2
<1>7. \A j, k \in 1 .. n : old[j] = old[k] => j = k
  BY <1>4, <1>6 DEF IsWallet
<1>8. PICK items : items = [j \in 1 .. n - 1 |-> IF j = i THEN old[n] ELSE old[j]]
  OBVIOUS
<1>9. DOMAIN items = 1 .. n - 1 /\ \A j \in 1 .. n - 1 : items[j] = IF j = i THEN old[n] ELSE old[j]
  BY <1>8
<1>10. n - 1 \in Nat /\ n \in 1 .. n /\ \A j \in 1 .. n - 1 : j \in 1 .. n /\ j # n
  BY <1>6
<1>11. IsWallet(items)
  <2>1. items \in Seq(Nat)
    <3>1. \A j \in 1 .. n - 1 : items[j] \in Nat
      BY <1>6, <1>9, <1>10
    <3>2. items = [j \in 1 .. n - 1 |-> items[j]]
      BY <1>8, <1>9
    <3>3. IsList(items)
      BY <1>10, <3>2, ListFrom
    <3> QED
      BY <1>9, <3>1, <3>3, ListHas
  <2>2. ASSUME NEW j \in 1 .. n - 1, NEW k \in 1 .. n - 1, items[j] = items[k]
        PROVE  j = k
    <3>1. CASE j = i /\ k # i
      <4>1. old[n] = old[k]
        BY <1>9, <2>2, <3>1
      <4> QED
        BY <1>7, <1>10, <4>1
    <3>2. CASE j # i /\ k = i
      <4>1. old[j] = old[n]
        BY <1>9, <2>2, <3>2
      <4> QED
        BY <1>7, <1>10, <4>1
    <3>3. CASE j # i /\ k # i
      <4>1. old[j] = old[k]
        BY <1>9, <2>2, <3>3
      <4> QED
        BY <1>7, <1>10, <4>1
    <3> QED
      BY <3>1, <3>2, <3>3
  <2> QED
    BY <1>9, <2>1, <2>2 DEF IsWallet
<1>12. Write /\ UNCHANGED <<held, reserves>> /\ owned' = [owned EXCEPT ![contract] = items]
  BY <1>3, <1>5, <1>8 DEF Send
<1>13. ASSUME NEW m \in Nat, NEW x, NEW j \in (1 .. m) \cap DOMAIN old, old[j] = x, NEW k \in DOMAIN items, items[k] = x
       PROVE  \E l \in (1 .. m) \cap DOMAIN items : items[l] = x
  <2>1. k \in 1 .. n - 1 /\ j \in 1 .. n
    BY <1>6, <1>9
  <2>2. CASE k = i
    <3>1. old[n] = old[j]
      BY <1>9, <1>13, <2>1, <2>2
    <3>2. j = n
      BY <1>7, <1>10, <2>1, <3>1
    <3>3. k \in 1 .. m
      BY <1>13, <1>6, <2>1, <3>2
    <3> QED
      BY <1>13, <3>3
  <2>3. CASE k # i
    <3>1. old[k] = old[j]
      BY <1>9, <1>13, <2>1, <2>3
    <3>2. k = j
      BY <1>7, <1>10, <2>1, <3>1
    <3> QED
      BY <1>13, <3>2
  <2> QED
    BY <2>2, <2>3
<1>14. \A m \in Nat : \A x :
           /\ \E j \in (1 .. m) \cap DOMAIN owned[contract] : owned[contract][j] = x
           /\ \E j \in DOMAIN items : items[j] = x
           => \E j \in (1 .. m) \cap DOMAIN items : items[j] = x
  BY <1>3, <1>13
<1> QED
  BY ONLY RequestsInv, <1>2, <1>11, <1>12, <1>14, OwnedMoves

(***************************************************************************)
(* Lists without repetition.                                               *)
(***************************************************************************)

\* What is nowhere twice in some lists is not twice in the flat one.
LEMMA FlatOnce ==
  ASSUME NEW T, NEW s \in Seq(Seq(T)),
         \A i, m \in 1 .. Len(s) : \A j \in 1 .. Len(s[i]) : \A n \in 1 .. Len(s[m]) :
           s[i][j] = s[m][n] => i = m /\ j = n
  PROVE  \A k, l \in 1 .. Len(Flat(s)) : Flat(s)[k] = Flat(s)[l] => k = l
<1> DEFINE Comes(list, n) == \A k \in 1 .. Len(list) : \E i \in 1 .. n : \E j \in 1 .. Len(s[i]) : list[k] = s[i][j]
           Once(list) == \A k, l \in 1 .. Len(list) : list[k] = list[l] => k = l
           Good(list, n) == list \in Seq(T) /\ Comes(list, n) /\ Once(list)
<1>1. CASE Len(s) = 0
  <2>1. \A k \in 1 .. 0 : FALSE
    OBVIOUS
  <2>2. Len(Flat(s)) = 0
    BY <1>1, FlatOfNone
  <2> QED
    BY <2>1, <2>2
<1>2. CASE Len(s) # 0
  <2>1. Len(s) \in Nat \ {0} /\ \A i \in 1 .. Len(s) : s[i] \in Seq(T)
    BY <1>2
  <2>2. PICK f : Flat(s) = f[Len(s)] /\ \A i \in 1 .. Len(s) : f[i] = IF i = 1 THEN s[i] ELSE f[i - 1] \o s[i]
    BY <2>1, FlatIs
  <2>a. \A i \in 1 .. Len(s) : Once(s[i])
    <3> TAKE i \in 1 .. Len(s)
    <3> QED
      OBVIOUS
  <2> DEFINE S == {n \in Nat : n + 1 \in 1 .. Len(s) => Good(f[n + 1], n + 1)}
  <2>3. 0 \in S
    <3>1. 1 \in 1 .. Len(s) /\ f[1] = s[1] /\ s[1] \in Seq(T)
      BY <2>1, <2>2
    <3>2. Comes(s[1], 1)
      <4>1. \A k \in 1 .. Len(s[1]) : s[1][k] = s[1][k] /\ 1 \in 1 .. 1
        OBVIOUS
      <4> QED
        BY <4>1
    <3>3. Once(s[1])
      BY <2>a, <3>1
    <3> HIDE DEF Comes, Once
    <3> QED
      BY <3>1, <3>2, <3>3
  <2>4. ASSUME NEW n \in Nat, n \in S PROVE n + 1 \in S
    <3>1. SUFFICES ASSUME n + 2 \in 1 .. Len(s) PROVE Good(f[n + 2], n + 2)
      <4>1. (n + 1) + 1 = n + 2 /\ n + 1 \in Nat
        OBVIOUS
      <4> HIDE DEF Good
      <4> QED
        BY <4>1
    <3> DEFINE a == f[n + 1]  b == s[n + 2]
    <3>2. n + 1 \in 1 .. Len(s) /\ (n + 2) - 1 = n + 1 /\ n + 2 # 1
      BY <3>1, <2>1
    <3>3. f[n + 2] = a \o b
      BY <2>2, <3>1, <3>2
    <3>4. Good(a, n + 1)
      <4> HIDE DEF Good
      <4> QED
        BY <2>4, <3>2
    <3>5. a \in Seq(T) /\ b \in Seq(T) /\ Once(b)
      BY <3>4, <2>1, <2>a, <3>1
    <3> HIDE DEF a
    <3> DEFINE ab == a \o b
    <3>6. /\ ab \in Seq(T) /\ Len(ab) = Len(a) + Len(b) /\ Len(a) \in Nat /\ Len(b) \in Nat
          /\ \A k \in 1 .. Len(a) + Len(b) : ab[k] = IF k <= Len(a) THEN a[k] ELSE b[k - Len(a)]
      BY <3>5, ConcatProperties
    <3> HIDE DEF ab
    <3>7. Comes(ab, n + 2)
      <4> TAKE k \in 1 .. Len(ab)
      <4>1. CASE k <= Len(a)
        <5>1. k \in 1 .. Len(a) /\ ab[k] = a[k]
          <6> HIDE DEF b, S
          <6>1. k \in 1 .. Len(a) + Len(b) /\ Len(a) \in Nat
            BY <3>6
          <6>2. ab[k] = IF k <= Len(a) THEN a[k] ELSE b[k - Len(a)]
            BY <6>1, <3>6
          <6> QED
            BY <4>1, <6>1, <6>2
        <5>2. \E i \in 1 .. n + 1 : \E j \in 1 .. Len(s[i]) : a[k] = s[i][j]
          BY <3>4, <5>1
        <5>3. \A i \in 1 .. n + 1 : i \in 1 .. n + 2
          OBVIOUS
        <5> QED
          BY <5>1, <5>2, <5>3
      <4>2. CASE ~ (k <= Len(a))
        <5>1. k - Len(a) \in 1 .. Len(b) /\ ab[k] = b[k - Len(a)]
          BY <4>2, <3>6
        <5>2. n + 2 \in 1 .. n + 2
          OBVIOUS
        <5> QED
          BY <5>1, <5>2
      <4> QED
        BY <4>1, <4>2
    <3>8. \A k \in 1 .. Len(a) : \A j \in 1 .. Len(b) : a[k] # b[j]
      <4> SUFFICES ASSUME NEW k \in 1 .. Len(a), NEW j \in 1 .. Len(b), a[k] = b[j] PROVE FALSE
        OBVIOUS
      <4>1. PICK i \in 1 .. n + 1 : \E m \in 1 .. Len(s[i]) : a[k] = s[i][m]
        BY <3>4
      <4>2. PICK m \in 1 .. Len(s[i]) : a[k] = s[i][m]
        BY <4>1
      <4>3. i \in 1 .. Len(s) /\ i # n + 2 /\ s[i][m] = s[n + 2][j]
        BY <3>2, <4>2, <2>1
      <4> QED
        BY <3>1, <4>2, <4>3
    <3>9. Once(ab)
      <4> SUFFICES ASSUME NEW k \in 1 .. Len(ab), NEW l \in 1 .. Len(ab), ab[k] = ab[l] PROVE k = l
        OBVIOUS
      <4>1. \A m \in 1 .. Len(ab) : \/ m \in 1 .. Len(a) /\ ab[m] = a[m]
                                    \/ m - Len(a) \in 1 .. Len(b) /\ ab[m] = b[m - Len(a)]
        BY <3>6
      <4>2. CASE k \in 1 .. Len(a) /\ ab[k] = a[k] /\ l \in 1 .. Len(a) /\ ab[l] = a[l]
        BY <3>4, <4>2
      <4>3. CASE k - Len(a) \in 1 .. Len(b) /\ ab[k] = b[k - Len(a)] /\ l - Len(a) \in 1 .. Len(b) /\ ab[l] = b[l - Len(a)]
        <5>1. k - Len(a) = l - Len(a)
          BY <3>5, <4>3
        <5> QED
          BY <3>6, <5>1
      <4>4. CASE k \in 1 .. Len(a) /\ ab[k] = a[k] /\ l - Len(a) \in 1 .. Len(b) /\ ab[l] = b[l - Len(a)]
        BY <3>8, <4>4
      <4>5. CASE k - Len(a) \in 1 .. Len(b) /\ ab[k] = b[k - Len(a)] /\ l \in 1 .. Len(a) /\ ab[l] = a[l]
        BY <3>8, <4>5
      <4> QED
        BY <4>1, <4>2, <4>3, <4>4, <4>5
    <3> HIDE DEF Comes, Once
    <3> QED
      BY <3>3, <3>6, <3>7, <3>9 DEF ab
  <2> HIDE DEF S
  <2>5. Len(s) - 1 \in S
    <3>1. Len(s) - 1 \in Nat
      BY <2>1
    <3> QED
      BY <3>1, <2>3, <2>4, NatSetInduction
  <2>6. Good(f[Len(s)], Len(s))
    <3>1. (Len(s) - 1) + 1 = Len(s) /\ Len(s) \in 1 .. Len(s)
      BY <2>1
    <3> HIDE DEF Good
    <3> QED
      BY <2>5, <3>1 DEF S
  <2>7. Good(Flat(s), Len(s))
    <3> HIDE DEF Good
    <3> QED
      BY <2>2, <2>6
  <2> QED
    BY <2>7
<1> QED
  BY <1>1, <1>2

LEMMA FlattenedOnce ==
  ASSUME NEW s, IsList(s), \A i \in DOMAIN s : IsList(s[i]),
         \A i, m \in DOMAIN s : \A j \in DOMAIN s[i] : \A n \in DOMAIN s[m] : s[i][j] = s[m][n] => i = m /\ j = n
  PROVE  \A k, l \in DOMAIN Flat(s) : Flat(s)[k] = Flat(s)[l] => k = l
<1>1. PICK T : s \in Seq(Seq(T))
  BY ListOfLists
<1>2. DOMAIN s = 1 .. Len(s) /\ \A i \in DOMAIN s : DOMAIN s[i] = 1 .. Len(s[i])
  BY ListHas
<1>3. \A i, m \in 1 .. Len(s) : \A j \in 1 .. Len(s[i]) : \A n \in 1 .. Len(s[m]) :
           s[i][j] = s[m][n] => i = m /\ j = n
  <2> TAKE i, m \in 1 .. Len(s)
  <2>1. i \in DOMAIN s /\ m \in DOMAIN s /\ DOMAIN s[i] = 1 .. Len(s[i]) /\ DOMAIN s[m] = 1 .. Len(s[m])
    BY <1>2
  <2> QED
    BY <2>1
<1>4. \A k, l \in 1 .. Len(Flat(s)) : Flat(s)[k] = Flat(s)[l] => k = l
  BY ONLY <1>1, <1>3, FlatOnce
<1>5. DOMAIN Flat(s) = 1 .. Len(Flat(s))
  BY Flattened, ListHas
<1> QED
  BY <1>4, <1>5

LEMMA FilteredOnce ==
  ASSUME NEW list, IsList(list), NEW places,
         \A i, j \in places \cap DOMAIN list : list[i] = list[j] => i = j
  PROVE  \A k, l \in DOMAIN Filter(list, places) : Filter(list, places)[k] = Filter(list, places)[l] => k = l
<1> DEFINE s == [i \in DOMAIN list |-> IF i \in places THEN <<list[i]>> ELSE <<>>]
<1>1. DOMAIN list = 1 .. Len(list) /\ Len(list) \in Nat
  BY ListHas
<1>2. s = [i \in 1 .. Len(list) |-> s[i]]
  BY <1>1
<1>3. \A i \in DOMAIN list : s[i] = IF i \in places THEN <<list[i]>> ELSE <<>>
  OBVIOUS
<1>4. Filter(list, places) = Flat(s)
  BY DEF Filter
<1> HIDE DEF s
<1>5. IsList(s) /\ DOMAIN s = DOMAIN list
  BY <1>1, <1>2, ListFrom
<1>6. ASSUME NEW i \in DOMAIN s, NEW j \in DOMAIN s[i]
      PROVE  i \in places \cap DOMAIN list /\ j = 1 /\ s[i][j] = list[i]
  <2>1. CASE i \in places
    <3>1. s[i] = <<list[i]>>
      BY <1>3, <1>5, <2>1
    <3> QED
      BY <3>1, <1>5, <2>1
  <2>2. CASE i \notin places
    <3>1. s[i] = <<>>
      BY <1>3, <1>5, <2>2
    <3> QED
      BY <3>1
  <2> QED
    BY <2>1, <2>2
<1>7. \A i \in DOMAIN s : IsList(s[i])
  <2> TAKE i \in DOMAIN s
  <2>1. s[i] = <<list[i]>> \/ s[i] = <<>>
    BY <1>3, <1>5
  <2> QED
    BY <2>1, ListOfOne, ListOfNone
<1>8. \A i, m \in DOMAIN s : \A j \in DOMAIN s[i] : \A n \in DOMAIN s[m] : s[i][j] = s[m][n] => i = m /\ j = n
  <2> SUFFICES ASSUME NEW i \in DOMAIN s, NEW m \in DOMAIN s, NEW j \in DOMAIN s[i], NEW n \in DOMAIN s[m],
                      s[i][j] = s[m][n]
               PROVE  i = m /\ j = n
    OBVIOUS
  <2>1. /\ i \in places \cap DOMAIN list /\ j = 1 /\ s[i][j] = list[i]
        /\ m \in places \cap DOMAIN list /\ n = 1 /\ s[m][n] = list[m]
    BY <1>6
  <2> QED
    BY <2>1
<1>9. \A k, l \in DOMAIN Flat(s) : Flat(s)[k] = Flat(s)[l] => k = l
  <2>1. IsList(s)
    BY <1>5
  <2> QED
    BY ONLY <2>1, <1>7, <1>8, FlattenedOnce
<1> QED
  BY <1>4, <1>9

LEMMA FilteredTable ==
  ASSUME NEW rows, IsTable(rows), NEW places
  PROVE  IsTable(Filter(rows, places))
<1>1. IsList(rows) /\ \A i, j \in DOMAIN rows : rows[i].name = rows[j].name => i = j
  BY DEF IsTable
<1>2. \A i, j \in places \cap DOMAIN rows : rows[i] = rows[j] => i = j
  BY <1>1
<1> DEFINE some == Filter(rows, places)
<1>3. \A k, l \in DOMAIN some : some[k] = some[l] => k = l
  BY <1>1, <1>2, FilteredOnce
<1>4. IsList(some) /\ \A k \in DOMAIN some : \E i \in places \cap DOMAIN rows : some[k] = rows[i]
  BY <1>1, Filtered
<1> HIDE DEF some
<1>5. ASSUME NEW k \in DOMAIN some, NEW l \in DOMAIN some, some[k].name = some[l].name
      PROVE  k = l
  <2>1. PICK i \in places \cap DOMAIN rows : some[k] = rows[i]
    BY <1>4
  <2>2. PICK j \in places \cap DOMAIN rows : some[l] = rows[j]
    BY <1>4
  <2>3. i = j
    BY <1>1, <1>5, <2>1, <2>2
  <2> QED
    BY <1>3, <2>1, <2>2, <2>3
<1>6. IsTable(some)
  BY <1>4, <1>5 DEF IsTable
<1> QED
  BY <1>6 DEF some

(***************************************************************************)
(* A swap.                                                                 *)
(***************************************************************************)
LEMMA GetTokenSwapListKeeps ==
  ASSUME RequestsInv, GetTokenSwapList
  PROVE  RequestsInv'
<1>1. request.kind = "swap" /\ request.pc = "new" /\ Unwritten /\ Unasked /\ (Goto("common", {}) \/ Fails)
  BY DEF GetTokenSwapList, At
<1>2. CASE Goto("common", {})
  <2>1. request.kind # "farm" /\ request.kind # "token"
    BY <1>1
  <2> QED
    BY <1>1, <1>2, <2>1, GotoKeeps
<1>3. CASE Fails
  BY <1>1, <1>3, Failed
<1> QED
  BY <1>1, <1>2, <1>3

\* Of two different tokens there is a pair at least, and no pair twice.
LEMMA Combined ==
  ASSUME NEW a, NEW b, NEW bases, IsList(bases)
  PROVE  /\ IsList(GetAllCurrencyCombinations(a, b, bases))
         /\ a # b => GetAllCurrencyCombinations(a, b, bases) # <<>>
         /\ \A i, j \in DOMAIN GetAllCurrencyCombinations(a, b, bases) :
              GetAllCurrencyCombinations(a, b, bases)[i] = GetAllCurrencyCombinations(a, b, bases)[j] => i = j
<1> DEFINE Against(token) == [i \in DOMAIN bases |-> <<token, bases[i]>>]
           first == <<<<a, b>>>>
           among == [i \in DOMAIN bases |-> Against(bases[i])]
           all == first \o Against(a) \o Against(b) \o Flat(among)
           two == Filter(all, {i \in DOMAIN all : all[i][1] # all[i][2]})
           sorted == [i \in DOMAIN two |-> Sorted(two[i][1], two[i][2])]
           places == {i \in DOMAIN sorted : \A j \in 1 .. i - 1 : sorted[j] # sorted[i]}
           rows == Filter(sorted, places)
<1>1. GetAllCurrencyCombinations(a, b, bases) = rows
  BY DEF GetAllCurrencyCombinations
<1>2. DOMAIN bases = 1 .. Len(bases) /\ Len(bases) \in Nat
  BY ListHas
<1>3. ASSUME NEW token PROVE IsList(Against(token))
  <2> DEFINE s == Against(token)
  <2>1. s = [i \in 1 .. Len(bases) |-> s[i]]
    BY <1>2
  <2> HIDE DEF s
  <2>2. IsList(s)
    BY <1>2, <2>1, ListFrom
  <2> QED
    BY <2>2 DEF s
<1>4. IsList(Flat(among))
  <2> DEFINE s == among
  <2>1. s = [i \in 1 .. Len(bases) |-> s[i]] /\ \A i \in 1 .. Len(bases) : s[i] = Against(bases[i])
    BY <1>2
  <2> HIDE DEF s, Against
  <2>2. IsList(s) /\ DOMAIN s = 1 .. Len(bases)
    BY <1>2, <2>1, ListFrom
  <2>3. \A i \in DOMAIN s : IsList(s[i])
    BY <1>3, <2>1, <2>2
  <2>4. IsList(Flat(s))
    BY <2>2, <2>3, Flattened
  <2> QED
    BY <2>4 DEF s
<1>5. IsList(all) /\ 1 \in DOMAIN all /\ all[1] = <<a, b>>
  <2> DEFINE rest == Flat(among)
             A == Against(a)
             B == Against(b)
             one == first \o A
             oneAndTwo == one \o B
  <2>1. IsList(A) /\ IsList(B) /\ IsList(rest) /\ IsList(first) /\ first[1] = <<a, b>> /\ Len(first) = 1
    BY <1>3, <1>4, ListOfOne
  <2>2. all = oneAndTwo \o rest
    OBVIOUS
  <2> HIDE DEF rest, A, B, first
  <2>3. ASSUME NEW s, NEW t, IsList(s), IsList(t), 1 \in DOMAIN s, s[1] = <<a, b>>
        PROVE  IsList(s \o t) /\ 1 \in DOMAIN (s \o t) /\ (s \o t)[1] = <<a, b>>
    <3>1. PICK T : T = {s[i] : i \in DOMAIN s} \cup {t[i] : i \in DOMAIN t}
      OBVIOUS
    <3>2. s \in Seq(T) /\ t \in Seq(T)
      <4>1. (\A i \in DOMAIN s : s[i] \in T) /\ (\A i \in DOMAIN t : t[i] \in T)
        BY <3>1
      <4> QED
        BY <2>3, <4>1, ListHas
    <3>3. Len(s) \in Nat /\ Len(t) \in Nat /\ DOMAIN s = 1 .. Len(s)
      BY <2>3, ListHas
    <3>4. 1 <= Len(s) /\ 1 \in 1 .. Len(s) + Len(t)
      BY <2>3, <3>3
    <3>5. Len(s \o t) = Len(s) + Len(t) /\ (s \o t)[1] = s[1]
      BY <3>2, <3>3, <3>4, ConcatProperties
    <3>6. IsList(s \o t)
      BY <2>3, ListJoined
    <3>7. DOMAIN (s \o t) = 1 .. Len(s \o t)
      BY <3>6, ListHas
    <3> QED
      BY <2>3, <3>4, <3>5, <3>6, <3>7
  <2>4. 1 \in DOMAIN first
    BY <2>1, ListOfOne DEF first
  <2>5. IsList(one) /\ 1 \in DOMAIN one /\ one[1] = <<a, b>>
    BY <2>1, <2>3, <2>4
  <2> HIDE DEF one
  <2>6. IsList(oneAndTwo) /\ 1 \in DOMAIN oneAndTwo /\ oneAndTwo[1] = <<a, b>>
    BY <2>1, <2>3, <2>5
  <2> HIDE DEF oneAndTwo
  <2>7. IsList(oneAndTwo \o rest) /\ 1 \in DOMAIN (oneAndTwo \o rest) /\ (oneAndTwo \o rest)[1] = <<a, b>>
    BY <2>1, <2>3, <2>6
  <2> HIDE DEF all
  <2> QED
    BY <2>2, <2>7
<1> HIDE DEF all
<1>6. IsList(two) /\ (a # b => 1 \in DOMAIN two)
  <2> DEFINE P == {i \in DOMAIN all : all[i][1] # all[i][2]}
  <2>1. a # b => 1 \in P \cap DOMAIN all
    BY <1>5
  <2> HIDE DEF P
  <2> DEFINE some == Filter(all, P)
  <2>2. /\ IsList(some)
        /\ \A i \in P \cap DOMAIN all : \E k \in DOMAIN some : some[k] = all[i]
    BY <1>5, Filtered
  <2> HIDE DEF some
  <2>3. DOMAIN some = 1 .. Len(some) /\ Len(some) \in Nat
    BY <2>2, ListHas
  <2>4. a # b => 1 \in DOMAIN some
    <3> SUFFICES ASSUME a # b PROVE 1 \in DOMAIN some
      OBVIOUS
    <3>1. PICK k \in DOMAIN some : some[k] = all[1]
      BY <2>1, <2>2
    <3> QED
      BY <2>3, <3>1
  <2>5. two = some
    BY DEF some, P
  <2> HIDE DEF two
  <2> QED
    BY <2>2, <2>4, <2>5
<1> HIDE DEF two
<1>7. IsList(sorted) /\ DOMAIN sorted = DOMAIN two /\ \A i \in DOMAIN sorted : i \in Nat
  <2>1. DOMAIN two = 1 .. Len(two) /\ Len(two) \in Nat
    BY <1>6, ListHas
  <2> DEFINE s == sorted
  <2>2. s = [i \in 1 .. Len(two) |-> s[i]]
    BY <2>1
  <2> HIDE DEF s
  <2>3. IsList(s) /\ DOMAIN s = 1 .. Len(two)
    BY <2>1, <2>2, ListFrom
  <2> QED
    BY <2>1, <2>3 DEF s
<1> HIDE DEF sorted
<1>8. \A i, j \in places \cap DOMAIN sorted : sorted[i] = sorted[j] => i = j
  <2> SUFFICES ASSUME NEW i \in places, NEW j \in places, sorted[i] = sorted[j] PROVE i = j
    OBVIOUS
  <2>1. i \in Nat /\ j \in Nat
    BY <1>7
  <2>2. DOMAIN sorted = 1 .. Len(sorted) /\ Len(sorted) \in Nat
    BY <1>7, ListHas
  <2>3. ~ (i < j)
    <3>1. i < j => i \in 1 .. j - 1
      BY <2>2
    <3> QED
      BY <3>1
  <2>4. ~ (j < i)
    <3>1. j < i => j \in 1 .. i - 1
      BY <2>2
    <3> QED
      BY <3>1
  <2> QED
    BY <2>1, <2>3, <2>4
<1>9. a # b => 1 \in places \cap DOMAIN sorted
  <2>1. \A j \in 1 .. 1 - 1 : FALSE
    OBVIOUS
  <2> QED
    BY <1>6, <1>7, <2>1
<1> HIDE DEF places
<1>10. /\ IsList(rows)
       /\ \A i \in places \cap DOMAIN sorted : \E k \in DOMAIN rows : rows[k] = sorted[i]
  BY <1>7, Filtered
<1>11. \A k, l \in DOMAIN rows : rows[k] = rows[l] => k = l
  BY <1>7, <1>8, FilteredOnce
<1> HIDE DEF rows
<1>12. a # b => rows # <<>>
  <2> SUFFICES ASSUME a # b, rows = <<>> PROVE FALSE
    OBVIOUS
  <2>1. PICK k \in DOMAIN rows : rows[k] = sorted[1]
    BY <1>9, <1>10
  <2>2. DOMAIN rows = {}
    BY ListOfNone
  <2> QED
    BY <2>1, <2>2
<1> QED
  BY <1>1, <1>10, <1>11, <1>12

LEMMA GetCommonPathTokenInstancesKeeps ==
  ASSUME RequestsInv, GetCommonPathTokenInstances
  PROVE  RequestsInv'
<1> DEFINE bases == Filter(BaseTokens, {i \in DOMAIN BaseTokens : BaseTokens[i] \in on})
           task == Task(SwapChain, "reserves", GetAllCurrencyCombinations(TokenIn, TokenOut, bases))
<1>1. /\ request.kind = "swap" /\ request.pc = "common" /\ Unwritten
      /\ request' = [request EXCEPT !.tasks = {task}, !.pc = "tasks"]
  BY DEF GetCommonPathTokenInstances, At
<1>2. IsList(bases)
  <2>1. IsList(BaseTokens)
    BY TablesAssumption
  <2> QED
    BY <2>1, Filtered
<1> HIDE DEF bases
<1>3. RequestShape /\ DOMAIN request = {"kind", "query", "pc", "addresses", "tasks", "items"} /\ request.items = {}
  BY <1>1 DEF RequestsInv, RequestShape
<1>4. /\ DOMAIN request' = DOMAIN request /\ request'.kind = request.kind /\ request'.query = request.query
      /\ request'.pc = "tasks" /\ request'.tasks = {task} /\ request'.items = {}
  BY <1>1, <1>3
<1> DEFINE rows == GetAllCurrencyCombinations(TokenIn, TokenOut, bases)
<1>5. IsList(rows) /\ (TokenIn # TokenOut => rows # <<>>)
      /\ \A i, j \in DOMAIN rows : rows[i] = rows[j] => i = j
  BY <1>2, Combined
<1>6. task.rows = rows /\ DOMAIN task = {"id", "pc", "rows", "replies"}
  BY DEF Task
<1> HIDE DEF rows, task
<1>7. WorldInv'
  BY <1>1, <1>4, WorldStays DEF RequestsInv
<1>8. RequestShape'
  BY <1>3, <1>4, <1>5, <1>6 DEF RequestShape
<1>9. TasksInv'
  <2>1. PICK t : t = task
    OBVIOUS
  <2>2. PICK list : list = rows
    OBVIOUS
  <2>3. /\ request'.kind = "swap" /\ request'.tasks = {t} /\ t.rows = list
        /\ (TokenIn # TokenOut => list # <<>>)
        /\ \A i, j \in DOMAIN list : list[i] = list[j] => i = j
    BY <1>1, <1>4, <1>5, <1>6, <2>1, <2>2
  <2>4. SwapTask(t)'
    BY <2>3 DEF SwapTask
  <2>5. \A x \in request'.tasks : x = t
    BY <2>3
  <2>6. \A x \in request'.tasks : SwapTask(x)'
    BY <2>4, <2>5
  <2> QED
    BY <2>3, <2>6 DEF TasksInv
<1>10. ItemsInv'
  BY <1>4 DEF ItemsInv
<1>11. WayInv'
  BY <1>1, <1>4 DEF WayInv
<1>12. NothingMuchBetterIsHidden'
  BY <1>4 DEF NothingMuchBetterIsHidden, Answered
<1> QED
  BY <1>7, <1>8, <1>9, <1>10, <1>11, <1>12 DEF RequestsInv

\* A pair gives no more than it has.
LEMMA OutputWithin ==
  ASSUME NEW in \in Nat, NEW out \in Nat, NEW amount \in Nat, in # 0
  PROVE  GetOutputAmount(in, out, amount) \in Nat /\ GetOutputAmount(in, out, amount) <= out
<1> DEFINE n == amount * 997 * out
           d == in * 1000 + amount * 997
           q == n \div d
           p == amount * 997
<1>1. p \in Nat /\ n = p * out /\ d = in * 1000 + p
  BY SMT
<1>2. p * out \in Nat /\ in * 1000 \in Nat \ {0}
  <2>1. p * out \in Nat
    <3> HIDE DEF p
    <3> QED
      BY <1>1
  <2> QED
    BY <2>1
<1>3. n \in Nat /\ d \in Nat \ {0}
  <2> HIDE DEF p, n, d
  <2> QED
    BY <1>1, <1>2
<1>4. q \in Nat /\ q * d <= n
  <2> HIDE DEF n, d
  <2> QED
    BY <1>3, LastOfDivision
<1>5. GetOutputAmount(in, out, amount) = q
  BY DEF GetOutputAmount
<1> HIDE DEF q, n, d, p
<1>6. q <= out
  <2>1. SUFFICES ASSUME q > out PROVE FALSE
    BY <1>4
  <2>2. q - out - 1 \in Nat
    BY <1>4, <2>1
  <2>3. (q - out - 1) * d \in Nat
    BY <1>3, <2>2
  <2>4. q * d = out * d + d + (q - out - 1) * d
    BY <1>3, <1>4
  <2>5. out * d = out * (in * 1000) + out * p
    BY <1>1, <1>2
  <2>6. out * (in * 1000) \in Nat /\ out * p = p * out
    BY <1>1, <1>2
  <2>7. n = out * p
    BY <1>1, <2>6
  <2>8. out * d \in Nat /\ out * p \in Nat /\ q * d \in Nat
    BY <1>1, <1>3, <1>4
  <2>9. out * d >= n
    BY <2>5, <2>6, <2>7, <2>8
  <2>10. q * d > n
    <3> DEFINE x == q * d  y == out * d  z == (q - out - 1) * d
    <3>1. x = y + d + z /\ x \in Nat /\ y \in Nat /\ z \in Nat /\ y >= n /\ d \in Nat \ {0} /\ n \in Nat
      BY <1>3, <2>3, <2>4, <2>8, <2>9
    <3> HIDE DEF x, y, z
    <3>2. x > n
      BY <3>1
    <3> QED
      BY <3>2 DEF x
  <2> DEFINE x == q * d
  <2>11. x > n /\ x <= n /\ x \in Nat
    BY <1>4, <2>8, <2>10
  <2> HIDE DEF x
  <2> QED
    BY <1>3, <2>11
<1> QED
  BY <1>4, <1>5, <1>6

\* Of some numbers within a bound, one is the largest.
LEMMA LastIn ==
  ASSUME NEW S, NEW m \in Nat, \A x \in S : x \in Nat /\ x <= m, S # {}
  PROVE  \E x \in S : \A y \in S : y <= x
<1> DEFINE U == {u \in Nat : \A x \in S : x <= u}
<1>1. U \subseteq Nat /\ m \in U
  OBVIOUS
<1>2. PICK u \in U : \A v \in U : u <= v
  BY <1>1, FirstIn
<1>3. u \in Nat /\ \A x \in S : x <= u
  OBVIOUS
<1>4. u \in S
  <2>1. SUFFICES ASSUME u \notin S PROVE FALSE
    OBVIOUS
  <2>2. \A x \in S : x < u
    BY <1>3, <2>1
  <2>3. PICK x \in S : TRUE
    OBVIOUS
  <2>4. u - 1 \in Nat
    BY <1>3, <2>2, <2>3
  <2>5. \A y \in S : y <= u - 1
    BY <1>3, <2>2
  <2>6. u - 1 \in U
    BY <2>4, <2>5
  <2> QED
    BY <1>2, <1>3, <2>6
<1> QED
  BY <1>3, <1>4

LEMMA BoundOf ==
  ASSUME NEW n \in Nat, NEW f, \A k \in 1 .. n : f[k] \in Nat
  PROVE  \E m \in Nat : \A k \in 1 .. n : f[k] <= m
<1> DEFINE S == {i \in Nat : i <= n => \E m \in Nat : \A k \in 1 .. i : f[k] <= m}
<1>1. 0 \in S
  <2>1. 0 \in Nat /\ \A k \in 1 .. 0 : f[k] <= 0
    OBVIOUS
  <2> QED
    BY <2>1
<1>2. ASSUME NEW i \in Nat, i \in S PROVE i + 1 \in S
  <2>1. SUFFICES ASSUME i + 1 <= n PROVE \E m \in Nat : \A k \in 1 .. i + 1 : f[k] <= m
    OBVIOUS
  <2>2. i <= n /\ f[i + 1] \in Nat
    BY <2>1
  <2>3. PICK m \in Nat : \A k \in 1 .. i : f[k] <= m
    BY <1>2, <2>2
  <2>4. \A k \in 1 .. i : f[k] \in Nat
    BY <2>2
  <2> DEFINE b == f[i + 1]
  <2>5. m + b \in Nat /\ b <= m + b
    BY <2>2
  <2>6. \A k \in 1 .. i + 1 : f[k] <= m + b
    <3> TAKE k \in 1 .. i + 1
    <3>1. CASE k = i + 1
      BY <2>5, <3>1
    <3>2. CASE k # i + 1
      <4>1. k \in 1 .. i
        BY <3>2
      <4>2. f[k] \in Nat /\ f[k] <= m /\ b \in Nat
        BY <2>2, <2>3, <2>4, <4>1
      <4> HIDE DEF b
      <4> QED
        BY <4>2
    <3> QED
      BY <3>1, <3>2
  <2> QED
    BY <2>5, <2>6
<1> HIDE DEF S
<1>3. n \in S
  BY <1>1, <1>2, NatSetInduction
<1> QED
  BY <1>3 DEF S

\* Pairs with reserves, none over m.
ArePairs(pairs, m) ==
  \A pair \in pairs : \A n \in {1, 2} : pair.reserves[n] \in Nat /\ pair.reserves[n] <= m

LEMMA LongerWithin ==
  ASSUME NEW ways, \A way \in ways : way.amount \in Nat,
         NEW pairs, NEW m \in Nat, ArePairs(pairs, m), NEW tokenOut
  PROVE  \A way \in Longer(ways, pairs, tokenOut) : way.amount \in Nat /\ way.amount <= m
<1> TAKE way \in Longer(ways, pairs, tokenOut)
<1>1. PICK step \in ways \X pairs : way = After(step[1], step[2]) /\ step[2].reserves[1] # 0 /\ step[2].reserves[2] # 0
  BY DEF Longer
<1>2. step[1] \in ways /\ step[2] \in pairs
  BY <1>1
<1>3. PICK before \in ways : before = step[1]
  BY <1>2
<1>4. PICK pair \in pairs : pair = step[2]
  BY <1>2
<1> DEFINE in == IF pair.tokens[1] = before.token THEN 1 ELSE 2
<1>5. in \in {1, 2} /\ 3 - in \in {1, 2}
  OBVIOUS
<1>6. way.amount = GetOutputAmount(pair.reserves[in], pair.reserves[3 - in], before.amount)
  BY <1>1, <1>3, <1>4 DEF After
<1> HIDE DEF in
<1>7. /\ pair.reserves[in] \in Nat /\ pair.reserves[in] # 0 /\ before.amount \in Nat
      /\ pair.reserves[3 - in] \in Nat /\ pair.reserves[3 - in] <= m
  BY <1>1, <1>4, <1>5 DEF ArePairs
<1> DEFINE given == GetOutputAmount(pair.reserves[in], pair.reserves[3 - in], before.amount)
<1>8. given \in Nat /\ given <= pair.reserves[3 - in]
  BY <1>7, OutputWithin
<1>9. way.amount = given
  BY <1>6
<1> HIDE DEF given
<1> QED
  BY <1>7, <1>8, <1>9

LEMMA OutputsWithin ==
  ASSUME NEW amount \in Nat, NEW pairs, NEW m \in Nat, ArePairs(pairs, m),
         NEW tokenIn, NEW tokenOut, NEW maxHops \in 1 .. 3
  PROVE  \A output \in Outputs(pairs, tokenIn, tokenOut, amount, maxHops) : output \in Nat /\ output <= m
<1> DEFINE none == {Start(tokenIn, amount)}
           one == Longer(none, pairs, tokenOut)
           two == Longer(one, pairs, tokenOut)
           three == Longer(two, pairs, tokenOut)
           ways == UNION {<<one, two, three>>[n] : n \in 1 .. maxHops}
<1>1. Outputs(pairs, tokenIn, tokenOut, amount, maxHops) = {way.amount : way \in {w \in ways : w.token = tokenOut}}
  BY DEF Outputs
<1>2. \A way \in none : way.amount \in Nat
  BY DEF Start
<1>3. \A way \in one : way.amount \in Nat /\ way.amount <= m
  <2> HIDE DEF none
  <2> QED
    BY <1>2, LongerWithin
<1>4. \A way \in two : way.amount \in Nat /\ way.amount <= m
  <2> HIDE DEF one
  <2> QED
    BY <1>3, LongerWithin
<1>5. \A way \in three : way.amount \in Nat /\ way.amount <= m
  <2> HIDE DEF two
  <2> QED
    BY <1>4, LongerWithin
<1> HIDE DEF one, two, three
<1>6. \A way \in ways : way.amount \in Nat /\ way.amount <= m
  <2> TAKE way \in ways
  <2>1. PICK n \in 1 .. maxHops : way \in <<one, two, three>>[n]
    OBVIOUS
  <2>2. n = 1 \/ n = 2 \/ n = 3
    OBVIOUS
  <2>3. way \in one \/ way \in two \/ way \in three
    BY <2>1, <2>2
  <2> QED
    BY <1>3, <1>4, <1>5, <2>3
<1> HIDE DEF ways
<1> QED
  BY <1>1, <1>6

\* From a token to itself there is no way.
LEMMA NoWayToItself ==
  ASSUME NEW pairs, NEW token, NEW amount
  PROVE  Outputs(pairs, token, token, amount, 3) = {}
<1> DEFINE none == {Start(token, amount)}
           one == Longer(none, pairs, token)
           two == Longer(one, pairs, token)
           three == Longer(two, pairs, token)
<1>1. \A ways : (\A way \in ways : way.token = token) => Longer(ways, pairs, token) = {}
  <2> TAKE ways
  <2> SUFFICES ASSUME \A way \in ways : way.token = token, NEW way \in Longer(ways, pairs, token) PROVE FALSE
    OBVIOUS
  <2>1. PICK step \in ways \X pairs : step[1].token \in {step[2].tokens[1], step[2].tokens[2]} \ {token}
    BY DEF Longer
  <2>2. step[1] \in ways
    BY <2>1
  <2> QED
    BY <2>1, <2>2
<1>2. \A way \in none : way.token = token
  BY DEF Start
<1>3. one = {}
  <2> HIDE DEF none
  <2> QED
    BY <1>1, <1>2
<1>4. two = {}
  <2> HIDE DEF one
  <2> QED
    BY <1>1, <1>3
<1>5. three = {}
  <2> HIDE DEF two
  <2> QED
    BY <1>1, <1>4
<1>6. Outputs(pairs, token, token, amount, 3)
        = {way.amount : way \in {w \in UNION {<<one, two, three>>[n] : n \in 1 .. 3} : w.token = token}}
  BY DEF Outputs
<1> HIDE DEF one, two, three
<1>7. \A n \in 1 .. 3 : <<one, two, three>>[n] = {}
  <2> TAKE n \in 1 .. 3
  <2>1. n = 1 \/ n = 2 \/ n = 3
    OBVIOUS
  <2> QED
    BY <1>3, <1>4, <1>5, <2>1
<1> QED
  BY <1>6, <1>7

\* A trade is none, or one with an output.
IsTrade(trade) == trade = {} \/ \E n \in Nat : trade = {n}

LEMMA TradeOver ==
  ASSUME NEW pairs, NEW m \in Nat, ArePairs({pairs[i] : i \in DOMAIN pairs}, m),
         NEW tokenIn, NEW tokenOut, NEW amount \in Nat, NEW maxHops \in 1 .. 3
  PROVE  LET outputs == Outputs({pairs[i] : i \in DOMAIN pairs}, tokenIn, tokenOut, amount, maxHops)
             trade == BestTradeExactIn(pairs, tokenIn, tokenOut, amount, maxHops)
         IN  IsTrade(trade) /\ \A output \in outputs : trade # {} /\ output \in Nat /\ output <= Decode(trade)
<1> DEFINE set == {pairs[i] : i \in DOMAIN pairs}
           outputs == Outputs(set, tokenIn, tokenOut, amount, maxHops)
           trade == BestTradeExactIn(pairs, tokenIn, tokenOut, amount, maxHops)
<1>1. trade = {output \in outputs : \A other \in outputs : other <= output}
  BY DEF BestTradeExactIn
<1>2. \A output \in outputs : output \in Nat /\ output <= m
  <2>1. ArePairs(set, m)
    OBVIOUS
  <2> HIDE DEF set
  <2> QED
    BY <2>1, OutputsWithin
<1> HIDE DEF trade, outputs
<1>3. CASE outputs = {}
  <2>1. trade = {}
    BY <1>1, <1>3
  <2> QED
    BY <1>3, <2>1 DEF IsTrade, trade, outputs
<1>4. CASE outputs # {}
  <2>1. PICK x \in outputs : \A y \in outputs : y <= x
    BY <1>2, <1>4, LastIn
  <2>2. x \in Nat /\ trade = {x}
    <3>1. \A y \in outputs : y \in Nat
      BY <1>2
    <3>2. \A y \in outputs : x <= y => y = x
      BY <2>1, <3>1
    <3> QED
      BY <1>1, <2>1, <3>1, <3>2
  <2>3. Decode(trade) = x
    BY <2>2, DecodeOf
  <2>4. IsTrade(trade)
    BY <2>2 DEF IsTrade
  <2>5. \A output \in outputs : trade # {} /\ output \in Nat /\ output <= Decode(trade)
    BY <1>2, <2>1, <2>2, <2>3
  <2> QED
    BY <2>4, <2>5 DEF trade, outputs
<1> QED
  BY <1>3, <1>4

\* The best trade is that over three pairs, or one that is not much worse.
LEMMA BestTradeIs ==
  ASSUME NEW pairs, NEW m \in Nat, ArePairs({pairs[i] : i \in DOMAIN pairs}, m),
         NEW tokenIn, NEW tokenOut, NEW amount \in Nat
  PROVE  LET best == GetBestTrade(pairs, tokenIn, tokenOut, amount)
         IN  \A output \in Outputs({pairs[i] : i \in DOMAIN pairs}, tokenIn, tokenOut, amount, 3) :
               best # {} /\ output * 10000 <= Decode(best) * 10050
<1> DEFINE Trade(maxHops) == BestTradeExactIn(pairs, tokenIn, tokenOut, amount, maxHops)
           Better(best, current) == IF IsTradeBetter(best, current) THEN current ELSE best
           B1 == Better({}, Trade(1))
           B2 == Better(B1, Trade(2))
           T3 == Trade(3)
           B3 == Better(B2, T3)
           outputs == Outputs({pairs[i] : i \in DOMAIN pairs}, tokenIn, tokenOut, amount, 3)
<1>1. GetBestTrade(pairs, tokenIn, tokenOut, amount) = B3
  BY DEF GetBestTrade
<1>2. \A n \in 1 .. 3 : IsTrade(Trade(n))
  <2> TAKE n \in 1 .. 3
  <2> QED
    BY TradeOver
<1>3. \A output \in outputs : T3 # {} /\ output \in Nat /\ output <= Decode(T3)
  <2> DEFINE Of(n) == Outputs({pairs[i] : i \in DOMAIN pairs}, tokenIn, tokenOut, amount, n)
  <2>1. ASSUME NEW n \in 1 .. 3
        PROVE  \A output \in Of(n) : Trade(n) # {} /\ output \in Nat /\ output <= Decode(Trade(n))
    BY TradeOver
  <2>2. outputs = Of(3) /\ T3 = Trade(3)
    OBVIOUS
  <2> HIDE DEF Of, Trade, outputs, T3
  <2>3. 3 \in 1 .. 3
    OBVIOUS
  <2> QED
    BY <2>1, <2>2, <2>3
<1>4. IsTrade(B1)
  <2>1. IsTrade({}) /\ IsTrade(Trade(1))
    BY <1>2 DEF IsTrade
  <2>2. B1 = Trade(1) \/ B1 = {}
    OBVIOUS
  <2> HIDE DEF B1, Trade
  <2> QED
    BY <2>1, <2>2
<1> HIDE DEF B1
<1>5. IsTrade(B2)
  <2>1. IsTrade(Trade(2))
    BY <1>2
  <2>2. B2 = Trade(2) \/ B2 = B1
    OBVIOUS
  <2> HIDE DEF B2, Trade
  <2> QED
    BY <1>4, <2>1, <2>2
<1>6. IsTrade(T3)
  BY <1>2
<1> HIDE DEF B2, T3, outputs
<1>7. ASSUME NEW output \in outputs PROVE B3 # {} /\ output * 10000 <= Decode(B3) * 10050
  <2>1. output \in Nat /\ T3 # {} /\ output <= Decode(T3)
    BY <1>3
  <2>2. PICK t \in Nat : T3 = {t}
    BY <1>6, <2>1 DEF IsTrade
  <2>3. Decode(T3) = t /\ output <= t
    BY <2>1, <2>2, DecodeOf
  <2>4. CASE B2 = {}
    <3>1. IsTradeBetter(B2, T3)
      BY <2>1, <2>4 DEF IsTradeBetter
    <3>2. B3 = T3
      BY <3>1
    <3> QED
      BY <2>1, <2>2, <2>3, <3>2
  <2>5. CASE B2 # {}
    <3>1. PICK b \in Nat : B2 = {b}
      BY <1>5, <2>5 DEF IsTrade
    <3>2. Decode(B2) = b
      BY <3>1, DecodeOf
    <3>3. CASE b * 10050 < t * 10000
      <4>1. IsTradeBetter(B2, T3)
        BY <2>1, <2>3, <2>5, <3>2, <3>3 DEF IsTradeBetter
      <4>2. B3 = T3
        BY <4>1
      <4>3. B3 # {} /\ Decode(B3) = t
        BY <2>1, <2>3, <4>2
      <4>4. output * 10000 <= t * 10050
        BY <2>1, <2>3
      <4> HIDE DEF B3
      <4> QED
        BY <4>3, <4>4
    <3>4. CASE ~ (b * 10050 < t * 10000)
      <4>1. ~ IsTradeBetter(B2, T3)
        BY <2>1, <2>3, <2>5, <3>2, <3>4 DEF IsTradeBetter
      <4>2. B3 = B2
        BY <4>1
      <4>3. output * 10000 <= b * 10050
        BY <2>1, <2>3, <3>4
      <4> QED
        BY <2>5, <3>2, <4>2, <4>3
    <3> QED
      BY <3>3, <3>4
  <2> QED
    BY <2>4, <2>5
<1> HIDE DEF B3
<1> QED
  BY <1>1, <1>7 DEF outputs

\* A list of pairs has a bound of its own.
LEMMA PairsHaveBound ==
  ASSUME NEW pairs, IsList(pairs), \A k \in DOMAIN pairs : pairs[k].reserves \in Nat \X Nat
  PROVE  \E m \in Nat : ArePairs({pairs[k] : k \in DOMAIN pairs}, m)
<1> DEFINE f == [k \in DOMAIN pairs |-> pairs[k].reserves[1] + pairs[k].reserves[2]]
<1>1. DOMAIN pairs = 1 .. Len(pairs) /\ Len(pairs) \in Nat
  BY ListHas
<1>2. \A k \in DOMAIN pairs : /\ pairs[k].reserves[1] \in Nat /\ pairs[k].reserves[2] \in Nat
                              /\ f[k] = pairs[k].reserves[1] + pairs[k].reserves[2]
  OBVIOUS
<1> HIDE DEF f
<1>3. \A k \in 1 .. Len(pairs) : f[k] \in Nat
  <2> TAKE k \in 1 .. Len(pairs)
  <2> DEFINE a == pairs[k].reserves[1]  b == pairs[k].reserves[2]
  <2>1. a \in Nat /\ b \in Nat /\ f[k] = a + b
    BY <1>1, <1>2
  <2> HIDE DEF a, b
  <2> QED
    BY <2>1
<1>4. PICK m \in Nat : \A k \in 1 .. Len(pairs) : f[k] <= m
  BY <1>1, <1>3, BoundOf
<1>5. ASSUME NEW pair \in {pairs[k] : k \in DOMAIN pairs}, NEW n \in {1, 2}
      PROVE  pair.reserves[n] \in Nat /\ pair.reserves[n] <= m
  <2>1. PICK k \in DOMAIN pairs : pair = pairs[k]
    OBVIOUS
  <2> DEFINE a == pairs[k].reserves[1]  b == pairs[k].reserves[2]  s == f[k]
  <2>2. a \in Nat /\ b \in Nat /\ s = a + b /\ s <= m
    BY <1>1, <1>2, <1>4
  <2>3. pair.reserves[n] = a \/ pair.reserves[n] = b
    BY <2>1
  <2> HIDE DEF a, b, s
  <2>4. a <= m /\ b <= m
    BY <2>2
  <2> QED
    BY <2>2, <2>3, <2>4
<1> QED
  BY <1>5 DEF ArePairs

\* The calls about the pairs of some exchanges, each of them once.
LEMMA CallsOnce ==
  ASSUME NEW protocols, IsTable(protocols), NEW tokens, IsList(tokens),
         \A j, n \in DOMAIN tokens : tokens[j] = tokens[n] => j = n
  PROVE  LET lists == [i \in DOMAIN protocols |-> [j \in DOMAIN tokens |-> <<protocols[i].name, tokens[j]>>]]
             calls == ReserveInfoEncode(protocols, tokens)
         IN  /\ calls = Flat(lists)
             /\ IsList(lists) /\ DOMAIN lists = DOMAIN protocols
             /\ \A i \in DOMAIN lists : IsList(lists[i]) /\ DOMAIN lists[i] = DOMAIN tokens /\ Len(lists[i]) = Len(tokens)
             /\ \A k, l \in DOMAIN calls : calls[k] = calls[l] => k = l
<1> DEFINE lists == [i \in DOMAIN protocols |-> [j \in DOMAIN tokens |-> <<protocols[i].name, tokens[j]>>]]
           calls == ReserveInfoEncode(protocols, tokens)
<1>1. calls = Flat(lists)
  BY DEF ReserveInfoEncode
<1>2. /\ IsList(protocols) /\ DOMAIN protocols = 1 .. Len(protocols) /\ Len(protocols) \in Nat
      /\ DOMAIN tokens = 1 .. Len(tokens) /\ Len(tokens) \in Nat
      /\ \A i, j \in DOMAIN protocols : protocols[i].name = protocols[j].name => i = j
  BY ListHas DEF IsTable
<1>3. /\ \A i \in DOMAIN lists : lists[i] = [j \in DOMAIN tokens |-> <<protocols[i].name, tokens[j]>>]
      /\ lists = [i \in 1 .. Len(protocols) |-> lists[i]]
  BY <1>2
<1> HIDE DEF lists, calls
<1>4. IsList(lists) /\ DOMAIN lists = DOMAIN protocols
  BY <1>2, <1>3, ListFrom
<1>5. ASSUME NEW i \in DOMAIN lists
      PROVE  IsList(lists[i]) /\ DOMAIN lists[i] = DOMAIN tokens /\ Len(lists[i]) = Len(tokens)
  <2> DEFINE s == lists[i]
  <2>1. s = [j \in DOMAIN tokens |-> <<protocols[i].name, tokens[j]>>]
    BY <1>3
  <2> HIDE DEF s
  <2>2. s = [j \in 1 .. Len(tokens) |-> s[j]]
    BY <1>2, <2>1
  <2>3. IsList(s) /\ Len(s) = Len(tokens) /\ DOMAIN s = 1 .. Len(tokens)
    BY <1>2, <2>2, ListFrom
  <2> QED
    BY <1>2, <2>3 DEF s
<1>6. \A i, m \in DOMAIN lists : \A j \in DOMAIN lists[i] : \A n \in DOMAIN lists[m] :
        lists[i][j] = lists[m][n] => i = m /\ j = n
  <2> SUFFICES ASSUME NEW i \in DOMAIN lists, NEW m \in DOMAIN lists, NEW j \in DOMAIN lists[i], NEW n \in DOMAIN lists[m],
                      lists[i][j] = lists[m][n]
               PROVE  i = m /\ j = n
    OBVIOUS
  <2>1. j \in DOMAIN tokens /\ n \in DOMAIN tokens
    BY <1>5
  <2>2. lists[i][j] = <<protocols[i].name, tokens[j]>> /\ lists[m][n] = <<protocols[m].name, tokens[n]>>
    BY <1>3, <2>1
  <2>3. protocols[i].name = protocols[m].name /\ tokens[j] = tokens[n]
    <3>1. PICK a : a = protocols[i].name
      OBVIOUS
    <3>2. PICK b : b = protocols[m].name
      OBVIOUS
    <3>3. <<a, tokens[j]>> = <<b, tokens[n]>>
      BY <2>2, <3>1, <3>2
    <3>4. a = b /\ tokens[j] = tokens[n]
      BY <3>3
    <3> QED
      BY <3>1, <3>2, <3>4
  <2> QED
    BY <1>2, <1>4, <2>1, <2>3
<1>7. \A k, l \in DOMAIN Flat(lists) : Flat(lists)[k] = Flat(lists)[l] => k = l
  <2>1. IsList(lists) /\ \A i \in DOMAIN lists : IsList(lists[i])
    BY <1>4, <1>5
  <2> QED
    BY ONLY <2>1, <1>6, FlattenedOnce
<1>8. \A k, l \in DOMAIN calls : calls[k] = calls[l] => k = l
  BY <1>1, <1>7
<1> QED
  BY <1>1, <1>4, <1>5, <1>8 DEF lists, calls

\* What the replies tell of the pairs of one of the exchanges.
ToldOf(name, calls, replies) ==
  {[tokens |-> calls[k][2], reserves |-> Decode(replies[k].data)]
   : k \in {j \in DOMAIN replies : HasReserves(replies[j]) /\ calls[j][1] = name}}

FoundIs(found, protocols, tokens, replies) ==
  /\ DOMAIN found = DOMAIN protocols
  /\ \A i \in DOMAIN protocols :
       /\ found[i].protocol = protocols[i].name
       /\ IsList(found[i].pairList)
       /\ {found[i].pairList[k] : k \in DOMAIN found[i].pairList}
            = ToldOf(protocols[i].name, ReserveInfoEncode(protocols, tokens), replies)

LEMMA PairsFound ==
  ASSUME NEW protocols, IsTable(protocols), NEW tokens, IsList(tokens), tokens # <<>>,
         \A j, n \in DOMAIN tokens : tokens[j] = tokens[n] => j = n,
         NEW replies, IsList(replies), DOMAIN replies = DOMAIN ReserveInfoEncode(protocols, tokens)
  PROVE  FoundIs(GetProtocolPairs(protocols, tokens, replies), protocols, tokens, replies)
<1> DEFINE lists == [i \in DOMAIN protocols |-> [j \in DOMAIN tokens |-> <<protocols[i].name, tokens[j]>>]]
           calls == ReserveInfoEncode(protocols, tokens)
           cut == ToSplitWithChunkSize(replies, Len(tokens))
           zipped == Zip(protocols, cut)
           Index(i) == Filter([j \in DOMAIN tokens |-> j], {j \in DOMAIN tokens : HasReserves(zipped[i][2][j])})
           found == GetProtocolPairs(protocols, tokens, replies)
<1>1. found = [i \in DOMAIN zipped |->
        [protocol |-> zipped[i][1].name,
         pairList |-> [k \in DOMAIN Index(i) |->
                         [tokens |-> tokens[Index(i)[k]], reserves |-> Decode(zipped[i][2][Index(i)[k]].data)]]]]
  BY DEF GetProtocolPairs
<1>2. /\ calls = Flat(lists)
      /\ IsList(lists) /\ DOMAIN lists = DOMAIN protocols
      /\ \A i \in DOMAIN lists : IsList(lists[i]) /\ DOMAIN lists[i] = DOMAIN tokens /\ Len(lists[i]) = Len(tokens)
      /\ \A k, l \in DOMAIN calls : calls[k] = calls[l] => k = l
  BY CallsOnce
<1>3. /\ DOMAIN tokens = 1 .. Len(tokens) /\ Len(tokens) \in Nat \ {0}
      /\ \A i, j \in DOMAIN protocols : protocols[i].name = protocols[j].name => i = j
  <2>1. tokens \in Seq({tokens[i] : i \in DOMAIN tokens})
    BY ListHas
  <2>2. Len(tokens) # 0
    BY <2>1, EmptySeq
  <2> QED
    BY <2>2, ListHas DEF IsTable
<1>4. \A i \in DOMAIN lists : \A j \in DOMAIN tokens : lists[i][j] = <<protocols[i].name, tokens[j]>>
  OBVIOUS
<1>5. DOMAIN replies = DOMAIN calls
  OBVIOUS
<1> HIDE DEF lists, calls
<1>6. \A i \in DOMAIN lists :
        \A n \in DOMAIN lists[i] : \E k \in DOMAIN replies : Flat(lists)[k] = lists[i][n] /\ cut[i][n] = replies[k]
  <2>1. /\ IsList(lists) /\ Len(tokens) \in Nat \ {0} /\ IsList(replies) /\ DOMAIN replies = DOMAIN Flat(lists)
        /\ \A i \in DOMAIN lists : IsList(lists[i]) /\ Len(lists[i]) = Len(tokens)
    BY <1>2, <1>3, <1>5
  <2> QED
    BY ONLY <2>1, Batched
<1>7. \A k \in DOMAIN calls : \E i \in DOMAIN lists : \E j \in DOMAIN lists[i] : calls[k] = lists[i][j]
  <2>1. IsList(lists) /\ \A i \in DOMAIN lists : IsList(lists[i])
    BY <1>2
  <2>2. \A k \in DOMAIN Flat(lists) : \E i \in DOMAIN lists : \E j \in DOMAIN lists[i] : Flat(lists)[k] = lists[i][j]
    BY ONLY <2>1, Flattened
  <2> QED
    BY <1>2, <2>2
<1>8. DOMAIN zipped = DOMAIN protocols /\ \A i \in DOMAIN protocols : zipped[i][1] = protocols[i] /\ zipped[i][2] = cut[i]
  BY DEF Zip
<1> HIDE DEF zipped, cut
<1>9. DOMAIN found = DOMAIN protocols
  <2> HIDE DEF found, Index
  <2> QED
    BY <1>1, <1>8
<1>10. ASSUME NEW i \in DOMAIN protocols
       PROVE  /\ found[i].protocol = protocols[i].name
              /\ IsList(found[i].pairList)
              /\ {found[i].pairList[k] : k \in DOMAIN found[i].pairList} = ToldOf(protocols[i].name, calls, replies)
  <2> DEFINE places == {j \in DOMAIN tokens : HasReserves(cut[i][j])}
             numbers == [j \in DOMAIN tokens |-> j]
             index == Filter(numbers, places)
             pairs == found[i].pairList
  <2>1. Index(i) = index
    BY <1>8
  <2> HIDE DEF Index
  <2>2. /\ found[i].protocol = protocols[i].name
        /\ pairs = [k \in DOMAIN index |-> [tokens |-> tokens[index[k]], reserves |-> Decode(cut[i][index[k]].data)]]
    <3>1. found[i] = [protocol |-> zipped[i][1].name,
                      pairList |-> [k \in DOMAIN Index(i) |->
                        [tokens |-> tokens[Index(i)[k]], reserves |-> Decode(zipped[i][2][Index(i)[k]].data)]]]
      <4> HIDE DEF found
      <4> QED
        BY <1>1, <1>8
    <3> HIDE DEF found, index
    <3> QED
      BY <1>8, <2>1, <3>1
  <2> HIDE DEF found, pairs
  <2>3. IsList(numbers) /\ DOMAIN numbers = DOMAIN tokens /\ \A j \in DOMAIN tokens : numbers[j] = j
    <3> DEFINE s == numbers
    <3>1. s = [j \in 1 .. Len(tokens) |-> s[j]] /\ \A j \in DOMAIN tokens : s[j] = j
      BY <1>3
    <3> HIDE DEF s
    <3>2. IsList(s) /\ DOMAIN s = 1 .. Len(tokens)
      BY <1>3, <3>1, ListFrom
    <3> QED
      BY <1>3, <3>1, <3>2 DEF s
  <2> HIDE DEF numbers, places
  <2>4. /\ IsList(index)
        /\ \A k \in DOMAIN index : \E j \in places \cap DOMAIN numbers : index[k] = numbers[j]
        /\ \A j \in places \cap DOMAIN numbers : \E k \in DOMAIN index : index[k] = numbers[j]
    BY <2>3, Filtered
  <2> HIDE DEF index
  <2>5. /\ \A k \in DOMAIN index : index[k] \in places
        /\ \A j \in places : \E k \in DOMAIN index : index[k] = j
        /\ places \subseteq DOMAIN tokens
    <3>1. places \subseteq DOMAIN tokens
      BY DEF places
    <3> QED
      BY <2>3, <2>4, <3>1
  <2>6. IsList(pairs)
    <3>1. DOMAIN index = 1 .. Len(index) /\ Len(index) \in Nat
      BY <2>4, ListHas
    <3>2. pairs = [k \in 1 .. Len(index) |-> pairs[k]]
      BY <2>2, <3>1
    <3> QED
      BY <3>1, <3>2, ListFrom
  <2>7. \A n \in DOMAIN tokens : \E k \in DOMAIN replies :
          /\ calls[k] = <<protocols[i].name, tokens[n]>>
          /\ cut[i][n] = replies[k]
    <3> TAKE n \in DOMAIN tokens
    <3>1. i \in DOMAIN lists /\ n \in DOMAIN lists[i]
      BY <1>2
    <3>2. PICK k \in DOMAIN replies : Flat(lists)[k] = lists[i][n] /\ cut[i][n] = replies[k]
      BY <1>6, <3>1
    <3> QED
      BY <1>2, <1>4, <3>1, <3>2
  <2>8. ASSUME NEW pair \in {pairs[k] : k \in DOMAIN pairs} PROVE pair \in ToldOf(protocols[i].name, calls, replies)
    <3>1. PICK k \in DOMAIN index : pair = pairs[k]
      BY <2>2
    <3>2. PICK n \in DOMAIN tokens : n = index[k] /\ n \in places
      BY <2>5
    <3>3. pair = [tokens |-> tokens[n], reserves |-> Decode(cut[i][n].data)]
      BY <2>2, <3>1, <3>2
    <3>4. HasReserves(cut[i][n])
      BY <3>2 DEF places
    <3>5. PICK l \in DOMAIN replies : calls[l] = <<protocols[i].name, tokens[n]>> /\ cut[i][n] = replies[l]
      BY <2>7
    <3>6. calls[l][1] = protocols[i].name /\ calls[l][2] = tokens[n]
      BY <3>5
    <3>7. pair = [tokens |-> calls[l][2], reserves |-> Decode(replies[l].data)] /\ HasReserves(replies[l])
      BY <3>3, <3>4, <3>5, <3>6
    <3> QED
      BY <3>6, <3>7 DEF ToldOf
  <2>9. ASSUME NEW pair \in ToldOf(protocols[i].name, calls, replies) PROVE pair \in {pairs[k] : k \in DOMAIN pairs}
    <3>1. PICK l \in DOMAIN replies : /\ HasReserves(replies[l]) /\ calls[l][1] = protocols[i].name
                                      /\ pair = [tokens |-> calls[l][2], reserves |-> Decode(replies[l].data)]
      BY DEF ToldOf
    <3>2. PICK m \in DOMAIN lists : \E j \in DOMAIN lists[m] : calls[l] = lists[m][j]
      BY <1>5, <1>7
    <3>3. PICK n \in DOMAIN lists[m] : calls[l] = lists[m][n]
      BY <3>2
    <3>4. n \in DOMAIN tokens /\ m \in DOMAIN protocols
      BY <1>2
    <3>5. calls[l] = <<protocols[m].name, tokens[n]>>
      BY <1>4, <3>3, <3>4
    <3>6. m = i /\ calls[l][2] = tokens[n]
      <4>1. calls[l][1] = protocols[m].name /\ calls[l][2] = tokens[n]
        BY <3>5
      <4> QED
        BY <1>3, <3>1, <3>4, <4>1
    <3>7. PICK k \in DOMAIN replies : calls[k] = <<protocols[i].name, tokens[n]>> /\ cut[i][n] = replies[k]
      BY <2>7, <3>4
    <3>8. calls[k] = calls[l]
      BY <3>5, <3>6, <3>7
    <3>9. k = l
      BY <1>2, <1>5, <3>8
    <3>10. cut[i][n] = replies[l]
      BY <3>7, <3>9
    <3>11. n \in places
      BY <3>1, <3>4, <3>10 DEF places
    <3>12. PICK x \in DOMAIN index : index[x] = n
      BY <2>5, <3>11
    <3>13. pairs[x] = [tokens |-> tokens[n], reserves |-> Decode(cut[i][n].data)] /\ x \in DOMAIN pairs
      BY <2>2, <3>12
    <3>14. pair = pairs[x]
      BY <3>1, <3>6, <3>10, <3>13
    <3> QED
      BY <3>13, <3>14
  <2>10. {pairs[k] : k \in DOMAIN pairs} = ToldOf(protocols[i].name, calls, replies)
    BY <2>8, <2>9
  <2> QED
    BY <2>2, <2>6, <2>10 DEF pairs
<1> HIDE DEF found
<1> QED
  BY <1>9, <1>10 DEF found, calls, FoundIs

\* What a search of an exchange's pairs offers, when it answers at all.
LEMMA Searched ==
  ASSUME NEW found, NEW tokenIn, NEW tokenOut, NEW amount, Search(found, tokenIn, tokenOut, amount) # Reverted,
         IsList(found)
  PROVE  \A i \in DOMAIN found :
           LET best == GetBestTrade(found[i].pairList, tokenIn, tokenOut, amount)
               items == Decode(Search(found, tokenIn, tokenOut, amount))
           IN  best # {} => \E k \in DOMAIN items : items[k].name = found[i].protocol /\ items[k].output = best
<1> DEFINE offers == [i \in DOMAIN found |->
                        [name |-> found[i].protocol,
                         output |-> GetBestTrade(found[i].pairList, tokenIn, tokenOut, amount)]]
           places == {i \in DOMAIN offers : offers[i].output # {}}
           items == Filter(offers, places)
<1>1. Search(found, tokenIn, tokenOut, amount) = {items}
  BY DEF Search
<1>2. Decode(Search(found, tokenIn, tokenOut, amount)) = items
  BY <1>1, DecodeOf
<1> HIDE DEF items
<1>3. /\ DOMAIN offers = DOMAIN found
      /\ \A i \in DOMAIN found : /\ offers[i].name = found[i].protocol
                                 /\ offers[i].output = GetBestTrade(found[i].pairList, tokenIn, tokenOut, amount)
  OBVIOUS
<1>4. IsList(offers)
  <2>1. DOMAIN found = 1 .. Len(found) /\ Len(found) \in Nat
    BY ListHas
  <2> DEFINE s == offers
  <2>2. s = [i \in 1 .. Len(found) |-> s[i]]
    BY <2>1
  <2> HIDE DEF s
  <2>3. IsList(s)
    BY <2>1, <2>2, ListFrom
  <2> QED
    BY <2>3 DEF s
<1> HIDE DEF offers
<1>5. \A i \in places \cap DOMAIN offers : \E k \in DOMAIN items : items[k] = offers[i]
  <2> HIDE DEF places
  <2>1. \A i \in places \cap DOMAIN offers :
          \E k \in DOMAIN Filter(offers, places) : Filter(offers, places)[k] = offers[i]
    BY <1>4, Filtered
  <2> QED
    BY <2>1 DEF items
<1>6. ASSUME NEW i \in DOMAIN found, GetBestTrade(found[i].pairList, tokenIn, tokenOut, amount) # {}
      PROVE  \E k \in DOMAIN items :
               items[k].name = found[i].protocol /\ items[k].output = GetBestTrade(found[i].pairList, tokenIn, tokenOut, amount)
  <2>1. i \in places \cap DOMAIN offers
    BY <1>3, <1>6
  <2>2. PICK k \in DOMAIN items : items[k] = offers[i]
    BY <1>5, <2>1
  <2> QED
    BY <1>3, <2>2
<1> QED
  BY <1>2, <1>6

LEMMA ExchangesAre == IsTable(Exchanges)
<1>1. IsTable(Protocols)
  BY TablesAssumption
<1> DEFINE P == {i \in DOMAIN Protocols : /\ {Protocols[i].name, Protocols[i].network} \subseteq Names
                                          /\ "useAMM" \in Protocols[i].uses}
           some == Filter(Protocols, P)
           Q == {i \in DOMAIN some : some[i].network = SwapChain /\ some[i].factory}
<1>2. Exchanges = Filter(some, Q)
  BY DEF Exchanges, OnApplicationBootstrap, ProtocolSearch
<1> HIDE DEF P
<1>3. IsTable(some)
  BY <1>1, FilteredTable
<1> HIDE DEF some, Q
<1>4. IsTable(Filter(some, Q))
  BY <1>3, FilteredTable
<1> QED
  BY <1>2, <1>4

\* Some items offer what the pairs of an exchange are good for.
OfferedBy(items, name, pairs) ==
  \A output \in Outputs(pairs, TokenIn, TokenOut, AmountIn, 3) :
    \E k \in DOMAIN items : items[k].name = name /\ output * 10000 <= Decode(items[k].output) * 10050

\* The reserves that came for an exchange are those its search goes by.
LEMMA SwapOffers ==
  ASSUME NEW rows, IsList(rows), rows # <<>>, \A i, j \in DOMAIN rows : rows[i] = rows[j] => i = j,
         NEW replies, IsList(replies), DOMAIN replies = DOMAIN ReserveInfoEncode(Exchanges, rows),
         \A k \in DOMAIN replies : HasReserves(replies[k]) => Decode(replies[k].data) \in Nat \X Nat,
         Search(GetProtocolPairs(Exchanges, rows, replies), TokenIn, TokenOut, AmountIn) # Reverted,
         NEW i \in DOMAIN Exchanges
  PROVE  OfferedBy(Decode(Search(GetProtocolPairs(Exchanges, rows, replies), TokenIn, TokenOut, AmountIn)),
                   Exchanges[i].name, ToldOf(Exchanges[i].name, ReserveInfoEncode(Exchanges, rows), replies))
<1> DEFINE found == GetProtocolPairs(Exchanges, rows, replies)
           calls == ReserveInfoEncode(Exchanges, rows)
           items == Decode(Search(found, TokenIn, TokenOut, AmountIn))
           pairs == found[i].pairList
           set == {pairs[k] : k \in DOMAIN pairs}
           best == GetBestTrade(pairs, TokenIn, TokenOut, AmountIn)
<1>1. IsTable(Exchanges)
  BY ExchangesAre
<1>2. /\ DOMAIN found = DOMAIN Exchanges
      /\ \A n \in DOMAIN Exchanges :
           /\ found[n].protocol = Exchanges[n].name
           /\ IsList(found[n].pairList)
           /\ {found[n].pairList[k] : k \in DOMAIN found[n].pairList} = ToldOf(Exchanges[n].name, calls, replies)
  <2>1. /\ IsTable(Exchanges) /\ IsList(rows) /\ rows # <<>> /\ \A j, n \in DOMAIN rows : rows[j] = rows[n] => j = n
        /\ IsList(replies) /\ DOMAIN replies = DOMAIN ReserveInfoEncode(Exchanges, rows)
    BY <1>1
  <2>2. PICK table : table = Exchanges
    OBVIOUS
  <2>3. /\ IsTable(table) /\ IsList(rows) /\ rows # <<>> /\ \A j, n \in DOMAIN rows : rows[j] = rows[n] => j = n
        /\ IsList(replies) /\ DOMAIN replies = DOMAIN ReserveInfoEncode(table, rows)
    BY <2>1, <2>2
  <2>4. FoundIs(GetProtocolPairs(table, rows, replies), table, rows, replies)
    BY ONLY <2>3, PairsFound
  <2>5. FoundIs(found, Exchanges, rows, replies)
    BY <2>2, <2>4
  <2> HIDE DEF found
  <2> QED
    BY ONLY <2>5 DEF FoundIs, calls
<1>3. /\ found[i].protocol = Exchanges[i].name /\ IsList(pairs)
      /\ set = ToldOf(Exchanges[i].name, calls, replies)
  BY <1>2
<1>4. IsList(found)
  <2>1. DOMAIN Exchanges = 1 .. Len(Exchanges) /\ Len(Exchanges) \in Nat
    BY <1>1, ListHas DEF IsTable
  <2>2. found = [n \in DOMAIN found |-> found[n]]
    BY DEF GetProtocolPairs
  <2> HIDE DEF found
  <2>3. found = [n \in 1 .. Len(Exchanges) |-> found[n]]
    BY <1>2, <2>1, <2>2
  <2> QED
    BY <2>1, <2>3, ListFrom
<1>5. Search(found, TokenIn, TokenOut, AmountIn) # Reverted
  OBVIOUS
<1> HIDE DEF found, calls
<1>6. best # {} => \E k \in DOMAIN items : items[k].name = Exchanges[i].name /\ items[k].output = best
  <2>1. i \in DOMAIN found
    BY <1>2
  <2>2. best # {} => \E k \in DOMAIN items : items[k].name = found[i].protocol /\ items[k].output = best
    BY <1>4, <1>5, <2>1, Searched
  <2> HIDE DEF best, items
  <2> QED
    BY <1>3, <2>2
<1>7. \A k \in DOMAIN pairs : pairs[k].reserves \in Nat \X Nat
  <2> TAKE k \in DOMAIN pairs
  <2>1. pairs[k] \in ToldOf(Exchanges[i].name, calls, replies)
    BY <1>3
  <2>2. PICK l \in DOMAIN replies : HasReserves(replies[l])
                                   /\ pairs[k] = [tokens |-> calls[l][2], reserves |-> Decode(replies[l].data)]
    BY <2>1 DEF ToldOf
  <2>3. pairs[k].reserves = Decode(replies[l].data)
    BY <2>2
  <2> QED
    BY <2>2, <2>3
<1> HIDE DEF pairs
<1>8. PICK m \in Nat : ArePairs(set, m)
  BY <1>3, <1>7, PairsHaveBound
<1>9. \A output \in Outputs(set, TokenIn, TokenOut, AmountIn, 3) : best # {} /\ output * 10000 <= Decode(best) * 10050
  <2>1. AmountIn \in Nat
    BY ScenesAssumption
  <2>2. m \in Nat /\ ArePairs({pairs[k] : k \in DOMAIN pairs}, m)
    BY <1>8
  <2> QED
    BY ONLY <2>1, <2>2, BestTradeIs
<1> HIDE DEF set, best, items
<1>10. \A output \in Outputs(set, TokenIn, TokenOut, AmountIn, 3) :
         \E k \in DOMAIN items : /\ items[k].name = Exchanges[i].name
                                 /\ output * 10000 <= Decode(items[k].output) * 10050
  <2> TAKE output \in Outputs(set, TokenIn, TokenOut, AmountIn, 3)
  <2>1. best # {} /\ output * 10000 <= Decode(best) * 10050
    BY <1>9
  <2>2. PICK k \in DOMAIN items : items[k].name = Exchanges[i].name /\ items[k].output = best
    BY <1>6, <2>1
  <2> QED
    BY <2>1, <2>2
<1>11. set = ToldOf(Exchanges[i].name, calls, replies)
  BY <1>3 DEF set
<1>12. OfferedBy(items, Exchanges[i].name, set)
  BY <1>10 DEF OfferedBy
<1> QED
  BY <1>11, <1>12 DEF items, found, calls

LEMMA SearchSwapsKeeps ==
  ASSUME RequestsInv, SearchSwaps
  PROVE  RequestsInv'
<1>1. RequestShape /\ TasksInv /\ WorldInv
  BY DEF RequestsInv
<1>2. PICK task \in Tasks("swap", "reserves") :
        LET calls == ReserveInfoEncode(Exchanges, task.rows)
            Offer(i) == IF calls[i] \in DOMAIN reserves THEN reserves[calls[i]] ELSE {}
        IN  \E missed \in Losses(calls) :
              /\ \A i \in missed : Offer(i) # {}
              /\ IF missed = {} THEN UNCHANGED faults ELSE Fault
              /\ replied' = {[call |-> calls[i], amount |-> Decode(Offer(i))]
                             : i \in {j \in DOMAIN calls \ missed : Offer(j) # {}}}
              /\ lost' = {calls[i] : i \in missed}
              /\ LET replies == [i \in DOMAIN calls |-> [success |-> i \notin missed,
                                                         data |-> IF i \in missed THEN {} ELSE Offer(i)]]
                 IN  DoneOr(task, Search(GetProtocolPairs(Exchanges, task.rows, replies), TokenIn, TokenOut, AmountIn))
  BY DEF SearchSwaps
<1>3. Unwritten
  BY DEF SearchSwaps
<1> DEFINE calls == ReserveInfoEncode(Exchanges, task.rows)
           Offer(i) == IF calls[i] \in DOMAIN reserves THEN reserves[calls[i]] ELSE {}
<1>4. PICK missed \in Losses(calls) :
        /\ \A i \in missed : Offer(i) # {}
        /\ IF missed = {} THEN UNCHANGED faults ELSE Fault
        /\ replied' = {[call |-> calls[i], amount |-> Decode(Offer(i))]
                       : i \in {j \in DOMAIN calls \ missed : Offer(j) # {}}}
        /\ lost' = {calls[i] : i \in missed}
        /\ LET replies == [i \in DOMAIN calls |-> [success |-> i \notin missed,
                                                   data |-> IF i \in missed THEN {} ELSE Offer(i)]]
           IN  DoneOr(task, Search(GetProtocolPairs(Exchanges, task.rows, replies), TokenIn, TokenOut, AmountIn))
  BY <1>2
<1> DEFINE replies == [i \in DOMAIN calls |-> [success |-> i \notin missed, data |-> IF i \in missed THEN {} ELSE Offer(i)]]
           result == Search(GetProtocolPairs(Exchanges, task.rows, replies), TokenIn, TokenOut, AmountIn)
<1>5. DoneOr(task, result)
  BY <1>4
<1>6. /\ request.kind = "swap" /\ task \in request.tasks /\ request.tasks = {task} /\ IsList(task.rows)
      /\ (TokenIn # TokenOut => task.rows # <<>>)
      /\ \A i, j \in DOMAIN task.rows : task.rows[i] = task.rows[j] => i = j
  <2>1. request.kind = "swap" /\ task \in request.tasks
    BY DEF Tasks
  <2>2. SwapTask(task)
    BY <1>1, <2>1 DEF TasksInv
  <2>3. IsList(task.rows)
    BY <1>1, <2>1 DEF RequestShape
  <2> QED
    BY <2>1, <2>2, <2>3 DEF SwapTask
<1>7. CASE result = Reverted
  <2>1. Fails
    BY <1>5, <1>7 DEF DoneOr
  <2> QED
    BY <1>3, <2>1, Failed
<1>8. CASE result # Reverted
  <2> DEFINE items == {Decode(result)[i] : i \in DOMAIN Decode(result)}
  <2>1. Await({}, items)
    <3>1. Done(task, items)
      BY <1>5, <1>8 DEF DoneOr
    <3>2. request.tasks \ {task} = {}
      BY <1>6
    <3> HIDE DEF items
    <3> QED
      BY <3>1, <3>2 DEF Done
  <2>2. /\ request'.kind = "swap" /\ request'.query = request.query /\ request'.tasks = {}
        /\ request'.items = request.items \cup items /\ request'.pc = "answered"
        /\ RequestShape'
    <3> HIDE DEF items
    <3> QED
      BY <1>1, <1>6, <2>1, Awaited
  <2>3. WorldInv'
    BY <1>1, <1>3, <1>6, <2>2, WorldStays
  <2>4. TasksInv' /\ ItemsInv' /\ WayInv'
    BY <2>2 DEF TasksInv, ItemsInv, WayInv
  <2>5. \A k \in DOMAIN replies : HasReserves(replies[k]) <=> k \notin missed /\ Offer(k) # {}
    BY DEF HasReserves, IsEmptyBytes
  <2>6. DOMAIN replies = DOMAIN calls /\ \A k \in DOMAIN calls \ missed : replies[k].data = Offer(k)
    OBVIOUS
  <2>7. \A k \in DOMAIN replies : HasReserves(replies[k]) => Decode(replies[k].data) \in Nat \X Nat
    <3> SUFFICES ASSUME NEW k \in DOMAIN replies, HasReserves(replies[k])
                 PROVE  Decode(replies[k].data) \in Nat \X Nat
      OBVIOUS
    <3>1. k \in DOMAIN calls \ missed /\ Offer(k) # {}
      BY <2>5, <2>6
    <3>2. replies[k].data = Offer(k)
      BY <2>6, <3>1
    <3> HIDE DEF replies
    <3>3. PICK call : call = calls[k]
      OBVIOUS
    <3>4. call \in DOMAIN reserves /\ Offer(k) = reserves[call]
      BY <3>1, <3>3
    <3>5. PICK offer \in reserves[call] : TRUE
      BY <3>1, <3>4
    <3>6. offer \in Nat \X Nat /\ reserves[call] = {offer}
      BY <1>1, <3>4, <3>5 DEF WorldInv
    <3>7. Decode(replies[k].data) = offer
      BY <3>2, <3>4, <3>6, DecodeOf
    <3> QED
      BY <3>6, <3>7
  <2>8. IsTable(Exchanges) /\ IsList(calls)
    <3>1. IsTable(Exchanges)
      BY ExchangesAre
    <3>2. PICK table : table = Exchanges
      OBVIOUS
    <3>3. IsTable(table) /\ IsList(task.rows) /\ \A j, n \in DOMAIN task.rows : task.rows[j] = task.rows[n] => j = n
      BY <1>6, <3>1, <3>2
    <3> DEFINE lists == [i \in DOMAIN table |-> [j \in DOMAIN task.rows |-> <<table[i].name, task.rows[j]>>]]
               asked == ReserveInfoEncode(table, task.rows)
    <3>4. asked = Flat(lists) /\ IsList(lists) /\ \A i \in DOMAIN lists : IsList(lists[i])
      BY ONLY <3>3, CallsOnce
    <3> HIDE DEF lists
    <3>5. IsList(asked)
      BY <3>4, Flattened
    <3> QED
      BY <3>1, <3>2, <3>5
  <2>9. IsList(replies)
    <3>1. DOMAIN calls = 1 .. Len(calls) /\ Len(calls) \in Nat
      BY <2>8, ListHas
    <3> DEFINE s == replies
    <3>2. s = [k \in DOMAIN calls |-> s[k]]
      OBVIOUS
    <3> HIDE DEF s, calls
    <3>3. s = [k \in 1 .. Len(calls) |-> s[k]]
      BY <3>1, <3>2
    <3>4. IsList(s)
      BY <3>1, <3>3, ListFrom
    <3> QED
      BY <3>4 DEF s
  <2>10. \A name : PairsOf(name)' = ToldOf(name, calls, replies)
    <3> TAKE name
    <3> DEFINE told == {[call |-> calls[i], amount |-> Decode(Offer(i))] : i \in {j \in DOMAIN calls \ missed : Offer(j) # {}}}
    <3>1. PairsOf(name)' = {[tokens |-> r.call[2], reserves |-> r.amount] : r \in {q \in replied' : q.call[1] = name}}
      BY DEF PairsOf
    <3>2. replied' = told
      BY <1>4
    <3> HIDE DEF calls, Offer, replies
    <3>3. ASSUME NEW pair \in PairsOf(name)' PROVE pair \in ToldOf(name, calls, replies)
      <4>1. PICK r \in told : r.call[1] = name /\ pair = [tokens |-> r.call[2], reserves |-> r.amount]
        BY <3>1, <3>2
      <4>2. PICK k \in DOMAIN calls \ missed : Offer(k) # {} /\ r = [call |-> calls[k], amount |-> Decode(Offer(k))]
        OBVIOUS
      <4>3. r.call = calls[k] /\ r.amount = Decode(replies[k].data)
        BY <2>6, <4>2
      <4>4. k \in DOMAIN replies /\ HasReserves(replies[k]) /\ calls[k][1] = name
        BY <2>5, <2>6, <4>1, <4>2, <4>3
      <4>5. pair = [tokens |-> calls[k][2], reserves |-> Decode(replies[k].data)]
        BY <4>1, <4>3
      <4> QED
        BY <4>4, <4>5 DEF ToldOf
    <3>4. ASSUME NEW pair \in ToldOf(name, calls, replies) PROVE pair \in PairsOf(name)'
      <4>1. PICK k \in DOMAIN replies : /\ HasReserves(replies[k]) /\ calls[k][1] = name
                                        /\ pair = [tokens |-> calls[k][2], reserves |-> Decode(replies[k].data)]
        BY DEF ToldOf
      <4>2. k \in DOMAIN calls \ missed /\ Offer(k) # {} /\ replies[k].data = Offer(k)
        BY <2>5, <2>6, <4>1
      <4>3. PICK r : r = [call |-> calls[k], amount |-> Decode(Offer(k))]
        OBVIOUS
      <4>4. r \in told /\ r.call = calls[k] /\ r.amount = Decode(Offer(k))
        BY <4>2, <4>3
      <4>5. pair = [tokens |-> r.call[2], reserves |-> r.amount] /\ r.call[1] = name
        BY <4>1, <4>2, <4>4
      <4> HIDE DEF told
      <4> QED
        BY <3>1, <3>2, <4>4, <4>5
    <3> QED
      BY <3>3, <3>4
  <2>11. ASSUME NEW i \in DOMAIN Exchanges, NEW output \in Outputs(PairsOf(Exchanges[i].name)', TokenIn, TokenOut, AmountIn, 3)
         PROVE  \E item \in request'.items : /\ item.name = Exchanges[i].name
                                             /\ output * 10000 <= Decode(item.output) * 10050
    <3>1. TokenIn # TokenOut
      BY <2>11, NoWayToItself
    <3>2. output \in Outputs(ToldOf(Exchanges[i].name, calls, replies), TokenIn, TokenOut, AmountIn, 3)
      BY <2>10, <2>11
    <3>3. /\ IsList(task.rows) /\ task.rows # <<>> /\ \A n, j \in DOMAIN task.rows : task.rows[n] = task.rows[j] => n = j
          /\ IsList(replies) /\ DOMAIN replies = DOMAIN ReserveInfoEncode(Exchanges, task.rows)
          /\ \A k \in DOMAIN replies : HasReserves(replies[k]) => Decode(replies[k].data) \in Nat \X Nat
          /\ Search(GetProtocolPairs(Exchanges, task.rows, replies), TokenIn, TokenOut, AmountIn) # Reverted
          /\ i \in DOMAIN Exchanges
      BY <1>6, <1>8, <2>6, <2>7, <2>9, <3>1
    <3> DEFINE list == Decode(Search(GetProtocolPairs(Exchanges, task.rows, replies), TokenIn, TokenOut, AmountIn))
    <3> HIDE DEF replies
    <3>4. OfferedBy(list, Exchanges[i].name, ToldOf(Exchanges[i].name, calls, replies))
      BY ONLY <3>3, SwapOffers
    <3> HIDE DEF list
    <3>5. PICK k \in DOMAIN list : list[k].name = Exchanges[i].name /\ output * 10000 <= Decode(list[k].output) * 10050
      BY <3>2, <3>4 DEF OfferedBy
    <3>6. list[k] \in items
      BY DEF list
    <3> HIDE DEF items
    <3> QED
      BY <2>2, <3>5, <3>6
  <2>12. NothingMuchBetterIsHidden'
    BY <2>11 DEF NothingMuchBetterIsHidden
  <2> QED
    BY <2>2, <2>3, <2>4, <2>12 DEF RequestsInv
<1> QED
  BY <1>7, <1>8

(***************************************************************************)
(* The theorems.                                                           *)
(***************************************************************************)
LEMMA InitHolds ==
  ASSUME Init
  PROVE  RequestsInv
<1>1. PICK scene \in Scenes :
        /\ held = scene.held /\ owned = scene.owned /\ reserves = scene.reserves /\ may = scene.may
        /\ request = [kind |-> scene.kind, query |-> scene.query, pc |-> "new",
                      addresses |-> {}, tasks |-> {}, items |-> {}]
        /\ kept = There
  BY DEF Init
<1>2. /\ scene.kind \in {"token", "farm", "nft", "lending", "swap"}
      /\ scene.query \in [page : Nat, limit : Nat, skipItems : Nat]
      /\ \A call \in scene.held \cup scene.may.calls : Worth(call) # Zero
      /\ \A contract \in DOMAIN scene.owned : IsWallet(scene.owned[contract])
      /\ scene.may.contracts \subseteq DOMAIN scene.owned
      /\ scene.kind = "nft" => NFTAddresses \subseteq DOMAIN scene.owned
      /\ \A call \in DOMAIN scene.reserves :
           \A offer \in scene.reserves[call] : offer \in Nat \X Nat /\ scene.reserves[call] = {offer}
  BY ScenesAssumption
<1>3. /\ DOMAIN request = {"kind", "query", "pc", "addresses", "tasks", "items"}
      /\ request.kind = scene.kind /\ request.query = scene.query /\ request.pc = "new"
      /\ request.tasks = {} /\ request.items = {}
  BY <1>1
<1>4. WorldInv
  <2>1. DOMAIN kept = {"names", "interacted", "held", "owned"} /\ \A f \in DOMAIN kept : kept[f] \subseteq There[f]
    BY <1>1 DEF There
  <2>2. /\ \A call \in held \cup may.calls : Worth(call) # Zero
        /\ \A contract \in DOMAIN owned : IsWallet(owned[contract])
        /\ may.contracts \subseteq DOMAIN owned
        /\ request.kind = "nft" => NFTAddresses \subseteq DOMAIN owned
        /\ \A call \in DOMAIN reserves :
             \A offer \in reserves[call] : offer \in Nat \X Nat /\ reserves[call] = {offer}
    BY <1>1, <1>2, <1>3
  <2> QED
    BY <2>1, <2>2 DEF WorldInv
<1>5. RequestShape
  BY <1>2, <1>3 DEF RequestShape
<1>6. TasksInv /\ ItemsInv
  BY <1>3 DEF TasksInv, ItemsInv
<1>7. WayInv
  <2>1. /\ \A farm : FarmOnItsWay(farm) /\ \A token : TokenOnItsWay(token)
        /\ \A item : NFTokenOnItsWay(item) /\ \A market : MarketOnItsWay(market)
    BY <1>3 DEF FarmOnItsWay, TokenOnItsWay, NFTokenOnItsWay, MarketOnItsWay
  <2> QED
    BY <2>1 DEF WayInv
<1>8. NothingMuchBetterIsHidden
  BY <1>3 DEF NothingMuchBetterIsHidden, Answered
<1> QED
  BY <1>4, <1>5, <1>6, <1>7, <1>8 DEF RequestsInv

LEMMA NextKeeps ==
  ASSUME RequestsInv, [Next]_vars
  PROVE  RequestsInv'
<1>1. CASE UNCHANGED vars
  BY <1>1, StutterKeeps DEF vars, database
<1>2. CASE RequestFails
  BY <1>2, RequestFailsKeeps
<1>3. CASE TokenFindInteractions
  BY <1>3, TokenFindInteractionsKeeps
<1>4. CASE SearchTokens
  BY <1>4, SearchTokensKeeps
<1>5. CASE GetWalletTokenBalances
  BY <1>5, GetWalletTokenBalancesKeeps
<1>6. CASE SearchFarmAddresses
  BY <1>6, SearchFarmAddressesKeeps
<1>7. CASE FarmFindInteractions
  BY <1>7, FarmFindInteractionsKeeps
<1>8. CASE SearchFarms
  BY <1>8, SearchFarmsKeeps
<1>9. CASE GetWalletFarmInfos
  BY <1>9, GetWalletFarmInfosKeeps
<1>10. CASE GetFarmRewarderRewardToken
  BY <1>10, GetFarmRewarderRewardTokenKeeps
<1>11. CASE SearchNFTProtocols
  BY <1>11, SearchNFTProtocolsKeeps
<1>12. CASE GetWalletNFTokens
  BY <1>12, GetWalletNFTokensKeeps
<1>13. CASE GetNFTokenBalance
  BY <1>13, GetNFTokenBalanceKeeps
<1>14. CASE GetNFTokensOfOwner
  BY <1>14, GetNFTokensOfOwnerKeeps
<1>15. CASE SearchNFTokens
  BY <1>15, SearchNFTokensKeeps
<1>16. CASE SearchLendingProtocols
  BY <1>16, SearchLendingProtocolsKeeps
<1>17. CASE GetWalletLendingMarket
  BY <1>17, GetWalletLendingMarketKeeps
<1>18. CASE SearchLendings
  BY <1>18, SearchLendingsKeeps
<1>19. CASE GetLendingWalletInfos
  BY <1>19, GetLendingWalletInfosKeeps
<1>20. CASE GetTokenSwapList
  BY <1>20, GetTokenSwapListKeeps
<1>21. CASE GetCommonPathTokenInstances
  BY <1>21, GetCommonPathTokenInstancesKeeps
<1>22. CASE SearchSwaps
  BY <1>22, SearchSwapsKeeps
<1>23. CASE \E name \in may.names : Switch(name)
  BY <1>23, SwitchKeeps
<1>24. CASE \E interaction \in may.interactions : AddInteraction(interaction)
  BY <1>24, AddInteractionKeeps
<1>25. CASE \E interaction \in may.interactions : FindInteraction(interaction.address)
  BY <1>25, FindInteractionKeeps
<1>26. CASE DeleteInteraction
  BY <1>26, DeleteInteractionKeeps
<1>27. CASE \E call \in may.calls : Move(call)
  BY <1>27, MoveKeeps
<1>28. CASE \E contract \in may.contracts, index \in 1 .. 3 : Receive(contract, index)
  BY <1>28, ReceiveKeeps
<1>29. CASE \E contract \in may.contracts : \E i \in DOMAIN owned[contract] : Send(contract, i)
  BY <1>29, SendKeeps
<1> QED
  BY <1>1, <1>2, <1>3, <1>4, <1>5, <1>6, <1>7, <1>8, <1>9, <1>10, <1>11, <1>12, <1>13, <1>14, <1>15,
     <1>16, <1>17, <1>18, <1>19, <1>20, <1>21, <1>22, <1>23, <1>24, <1>25, <1>26, <1>27, <1>28, <1>29
     DEF Next

(***************************************************************************)
(* The inductive invariant behind what a request is answered: its tasks    *)
(* are about rows and calls of its own, its items carry what was told, and *)
(* what is worth something is shown or on its way.                         *)
(***************************************************************************)
THEOREM RequestsSafety == Spec => []RequestsInv
<1>1. Init => RequestsInv
  BY InitHolds
<1>2. RequestsInv /\ [Next]_vars => RequestsInv'
  BY NextKeeps
<1> QED
  BY <1>1, <1>2, PTL DEF Spec

(***************************************************************************)
(* An item of an answer carries what the chain has said of that very item, *)
(* whatever the tables are, how many items are asked about in one batch,   *)
(* and whichever of the calls were lost.                                   *)
(***************************************************************************)
THEOREM AmountsStayOwn == Spec => []AmountsAreOwn
<1>1. RequestsInv => AmountsAreOwn
  BY DEF RequestsInv, ItemsInv, AmountsAreOwn, Answered
<1> QED
  BY <1>1, RequestsSafety, PTL

(***************************************************************************)
(* A request that asks for no page and is answered hides nothing that was  *)
(* on, interacted with and worth something all the time.                   *)
(***************************************************************************)
THEOREM NothingGetsHidden == Spec => []NothingOfWorthIsHidden
<1>1. RequestsInv => NothingOfWorthIsHidden
  <2>1. SUFFICES ASSUME RequestsInv, IsEmptyQuery(request.query), request.pc = "answered"
                 PROVE  NothingOfWorthIsHidden
    BY DEF NothingOfWorthIsHidden, Answered
  <2>2. request.tasks = {} /\ WayInv
    BY <2>1 DEF RequestsInv, RequestShape
  <2>3. /\ \A farm : FarmOnItsWay(farm) => Shown(farm.name)
        /\ \A token : TokenOnItsWay(token) => Shown(token.name)
        /\ \A item : NFTokenOnItsWay(item) => Shown(item.name)
        /\ \A market : MarketOnItsWay(market) => Shown(market.name)
    BY <2>1, <2>2 DEF FarmOnItsWay, TokenOnItsWay, NFTokenOnItsWay, MarketOnItsWay
  <2> QED
    BY <2>1, <2>2, <2>3 DEF WayInv, NothingOfWorthIsHidden, Answered
<1> QED
  BY <1>1, RequestsSafety, PTL

(***************************************************************************)
(* A swap hides no way over an exchange's pairs that is over half a        *)
(* percent better than what it shows of that exchange.                     *)
(***************************************************************************)
THEOREM NothingMuchBetterGetsHidden == Spec => []NothingMuchBetterIsHidden
<1>1. RequestsInv => NothingMuchBetterIsHidden
  BY DEF RequestsInv
<1> QED
  BY <1>1, RequestsSafety, PTL
=============================================================================
