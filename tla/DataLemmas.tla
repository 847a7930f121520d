----------------------------- MODULE DataLemmas -----------------------------
(***************************************************************************)
(* Facts about sequences and finite sets of positions that the proofs of   *)
(* several components cite.                                                *)
(***************************************************************************)
EXTENDS Naturals, Integers, Sequences, SequenceTheorems, WellFoundedInduction, TLAPS

(* A function on the positions of a sequence, with its values in T, is a   *)
(* sequence over T of the same length.                                     *)
LEMMA MapIsSeq ==
    ASSUME NEW S, NEW T, NEW s \in Seq(S), NEW f, f \in [DOMAIN s -> T]
    PROVE  f \in Seq(T) /\ Len(f) = Len(s) /\ DOMAIN f = DOMAIN s
<1>1. DOMAIN s = 1 .. Len(s) /\ Len(s) \in Nat
  BY LenProperties
<1>2. f \in [1 .. Len(s) -> T]
  BY <1>1
<1>3. f \in Seq(T)
  BY <1>1, <1>2, SeqDef
<1>4. DOMAIN f = 1 .. Len(f)  /\ Len(f) \in Nat
  BY <1>3, LenProperties
<1> QED
  BY <1>1, <1>2, <1>3, <1>4

(* A set of positions that is not empty has a last element. *)
LEMMA LastExists ==
    ASSUME NEW n \in Nat, NEW S, S \subseteq 1 .. n, S # {}
    PROVE  \E m \in S : \A k \in S : k <= m
<1> DEFINE T == {i \in Nat : n - i \in S}
<1>1. T \subseteq Nat /\ T # {}
  <2>1. PICK k \in S : TRUE
    OBVIOUS
  <2>2. k \in 1 .. n
    BY <2>1
  <2>3. n - k \in Nat /\ n - (n - k) = k
    BY <2>2
  <2> QED
    BY <2>1, <2>3
<1> HIDE DEF T
<1>2. PICK i \in T : \A j \in T : ~ (<<j, i>> \in OpToRel(<, Nat))
  BY <1>1, NatLessThanWellFounded, WFMin
<1>3. \A j \in T : ~ (j < i)
  BY <1>1, <1>2 DEF OpToRel
<1>4. i \in Nat /\ n - i \in S
  BY <1>1, <1>2 DEF T
<1>5. \A k \in S : k <= n - i
  <2>1. TAKE k \in S
  <2>2. k \in 1 .. n
    BY <2>1
  <2>3. n - k \in Nat /\ n - (n - k) = k
    BY <2>2
  <2>4. n - k \in T
    BY <2>3 DEF T
  <2> QED
    BY <1>3, <1>4, <2>2, <2>4
<1> QED
  BY <1>4, <1>5

(* Induction over the numbers up to n, with a set of numbers for the       *)
(* property.                                                               *)
LEMMA UpToInduction ==
    ASSUME NEW n \in Nat, NEW S, 0 \in S, \A i \in 1 .. n : i - 1 \in S => i \in S
    PROVE  \A i \in 0 .. n : i \in S
<1> DEFINE T == {i \in 0 .. n : i \notin S}
<1> SUFFICES ASSUME T # {} PROVE FALSE
  OBVIOUS
<1>1. T \subseteq Nat
  OBVIOUS
<1> HIDE DEF T
<1>2. PICK i \in T : \A j \in T : ~ (<<j, i>> \in OpToRel(<, Nat))
  BY <1>1, NatLessThanWellFounded, WFMin
<1>3. \A j \in T : ~ (j < i)
  BY <1>1, <1>2 DEF OpToRel
<1>4. i \in 1 .. n /\ i \notin S
  BY <1>1 DEF T
<1>5. i - 1 \notin T
  BY <1>3, <1>4
<1> QED
  BY <1>4, <1>5 DEF T

(* Sequences put one behind the other: the function that a recursive LET   *)
(* defines is there, its values are sequences, and the m-th holds what the *)
(* first m sequences hold and nothing else.                                *)
IsConcat(f, n, g) == f = [i \in 0 .. n |-> IF i = 0 THEN <<>> ELSE f[i - 1] \o g[i]]

HasFirst(s, m, g) ==
    /\ \A i \in 1 .. m : \A k \in DOMAIN g[i] : \E j \in DOMAIN s : s[j] = g[i][k]
    /\ \A j \in DOMAIN s : \E i \in 1 .. m : \E k \in DOMAIN g[i] : s[j] = g[i][k]

LEMMA ConcatExists ==
    ASSUME NEW n \in Nat, NEW g
    PROVE  \E f : IsConcat(f, n, g)
<1> DEFINE S == {m \in 0 .. n : \E f : IsConcat(f, m, g)}
<1>1. 0 \in S
  <2> DEFINE f == [i \in 0 .. 0 |-> <<>>]
  <2>1. IsConcat(f, 0, g)
    BY DEF IsConcat
  <2> HIDE DEF f
  <2> QED
    BY <2>1
<1>2. ASSUME NEW m \in 1 .. n, m - 1 \in S
      PROVE  m \in S
  <2>1. PICK f : IsConcat(f, m - 1, g)
    BY <1>2
  <2> DEFINE h == [i \in 0 .. m |-> IF i = m THEN f[m - 1] \o g[m] ELSE f[i]]
  <2>2. \A i \in 0 .. m : h[i] = IF i = 0 THEN <<>> ELSE h[i - 1] \o g[i]
    <3> TAKE i \in 0 .. m
    <3>1. CASE i = m
      <4>1. i # 0 /\ h[i] = f[m - 1] \o g[m] /\ h[m - 1] = f[m - 1]
        BY <3>1
      <4> QED
        BY <3>1, <4>1
    <3>2. CASE i # m
      <4>1. i \in 0 .. m - 1 /\ h[i] = f[i]
        BY <3>2
      <4>2. f[i] = IF i = 0 THEN <<>> ELSE f[i - 1] \o g[i]
        BY <2>1, <4>1 DEF IsConcat
      <4>3. i # 0 => h[i - 1] = f[i - 1]
        BY <4>1
      <4> QED
        BY <4>1, <4>2, <4>3
    <3> QED
      BY <3>1, <3>2
  <2>3. h = [i \in 0 .. m |-> h[i]]
    OBVIOUS
  <2> HIDE DEF h
  <2>5. IsConcat(h, m, g)
    BY <2>2, <2>3 DEF IsConcat
  <2> QED
    BY <2>5
<1> HIDE DEF S
<1>3. \A m \in 0 .. n : m \in S
  BY <1>1, <1>2, UpToInduction
<1> QED
  BY <1>3 DEF S

LEMMA ConcatHolds ==
    ASSUME NEW E, NEW n \in Nat, NEW g \in [1 .. n -> Seq(E)], NEW f, IsConcat(f, n, g)
    PROVE  \A m \in 0 .. n :
             f[m] \in Seq(E) /\ HasFirst(f[m], m, g)
<1> DEFINE S == {m \in 0 .. n : f[m] \in Seq(E) /\ HasFirst(f[m], m, g)}
<1>1. 0 \in S
  BY DEF IsConcat, HasFirst
<1>2. ASSUME NEW m \in 1 .. n, m - 1 \in S
      PROVE  m \in S
  <2>1. f[m] = f[m - 1] \o g[m]
    <3>1. m \in 0 .. n /\ m # 0
      OBVIOUS
    <3>2. f[m] = IF m = 0 THEN <<>> ELSE f[m - 1] \o g[m]
      BY <3>1, Zenon DEF IsConcat
    <3> QED
      BY <3>1, <3>2
  <2>2. f[m - 1] \in Seq(E) /\ g[m] \in Seq(E)
    BY <1>2
  <2>3. /\ f[m] \in Seq(E) /\ Len(f[m]) = Len(f[m - 1]) + Len(g[m])
        /\ \A j \in 1 .. Len(f[m - 1]) + Len(g[m]) :
             f[m][j] = IF j <= Len(f[m - 1]) THEN f[m - 1][j] ELSE g[m][j - Len(f[m - 1])]
    <3> DEFINE p == f[m - 1]
               q == g[m]
    <3>1. /\ p \o q \in Seq(E) /\ Len(p \o q) = Len(p) + Len(q)
          /\ \A j \in 1 .. Len(p) + Len(q) :
               (p \o q)[j] = IF j <= Len(p) THEN p[j] ELSE q[j - Len(p)]
      <4>1. p \in Seq(E) /\ q \in Seq(E)
        BY <2>2
      <4> HIDE DEF p, q
      <4> QED
        BY <4>1, ConcatProperties
    <3> QED
      BY <2>1, <3>1, Zenon
  <2>4. /\ DOMAIN f[m] = 1 .. Len(f[m]) /\ DOMAIN f[m - 1] = 1 .. Len(f[m - 1])
        /\ Len(f[m - 1]) \in Nat /\ Len(g[m]) \in Nat /\ DOMAIN g[m] = 1 .. Len(g[m])
    BY <2>2, <2>3, LenProperties
  <2>5. ASSUME NEW i \in 1 .. m, NEW k \in DOMAIN g[i]
        PROVE  \E j \in DOMAIN f[m] : f[m][j] = g[i][k]
    <3>1. CASE i = m
      <4>1. k \in 1 .. Len(g[m])
        BY <2>4, <3>1
      <4>2. /\ Len(f[m - 1]) + k \in 1 .. Len(f[m - 1]) + Len(g[m])
            /\ ~(Len(f[m - 1]) + k <= Len(f[m - 1]))
            /\ (Len(f[m - 1]) + k) - Len(f[m - 1]) = k
        <5> DEFINE a == Len(f[m - 1])
                   b == Len(g[m])
        <5>1. a \in Nat /\ b \in Nat /\ k \in 1 .. b
          BY <2>4, <4>1, Zenon
        <5> HIDE DEF a, b
        <5>2. a + k \in 1 .. a + b /\ ~(a + k <= a) /\ (a + k) - a = k
          BY <5>1
        <5> QED
          BY <5>2 DEF a, b
      <4>3. f[m][Len(f[m - 1]) + k] = g[m][k] /\ Len(f[m - 1]) + k \in DOMAIN f[m]
        BY <2>3, <2>4, <4>2
      <4> QED
        BY <3>1, <4>3
    <3>2. CASE i # m
      <4>1. PICK j \in DOMAIN f[m - 1] : f[m - 1][j] = g[i][k]
        <5>1. i \in 1 .. m - 1
          BY <3>2
        <5> QED
          BY <5>1, <1>2 DEF HasFirst
      <4>2. j \in 1 .. Len(f[m - 1]) + Len(g[m]) /\ j <= Len(f[m - 1])
        <5> DEFINE a == Len(f[m - 1])
                   b == Len(g[m])
        <5>1. a \in Nat /\ b \in Nat /\ j \in 1 .. a
          BY <2>4, <4>1, Zenon
        <5> HIDE DEF a, b
        <5>2. j \in 1 .. a + b /\ j <= a
          BY <5>1
        <5> QED
          BY <5>2 DEF a, b
      <4>3. f[m][j] = f[m - 1][j] /\ j \in DOMAIN f[m]
        BY <2>3, <2>4, <4>2
      <4> QED
        BY <4>1, <4>3
    <3> QED
      BY <3>1, <3>2
  <2>6. ASSUME NEW j \in DOMAIN f[m]
        PROVE  \E i \in 1 .. m : \E k \in DOMAIN g[i] : f[m][j] = g[i][k]
    <3> DEFINE a == Len(f[m - 1])
               b == Len(g[m])
    <3>1. a \in Nat /\ b \in Nat /\ j \in 1 .. a + b
      BY <2>3, <2>4
    <3>2. CASE j <= a
      <4>1. j \in DOMAIN f[m - 1] /\ f[m][j] = f[m - 1][j]
        <5>1. j \in 1 .. a
          BY <3>1, <3>2
        <5> QED
          BY <2>3, <2>4, <3>1, <3>2, <5>1
      <4>2. PICK i \in 1 .. m - 1 : \E k \in DOMAIN g[i] : f[m - 1][j] = g[i][k]
        BY <1>2, <4>1 DEF HasFirst
      <4>3. i \in 1 .. m
        OBVIOUS
      <4> QED
        BY <4>1, <4>2, <4>3
    <3>3. CASE ~(j <= a)
      <4>1. f[m][j] = g[m][j - a]
        BY <2>3, <3>1, <3>3
      <4>2. j - a \in DOMAIN g[m]
        <5>1. j - a \in 1 .. b
          <6> HIDE DEF a, b
          <6> QED
            BY <3>1, <3>3
        <5> QED
          BY <2>4, <5>1
      <4>3. m \in 1 .. m
        OBVIOUS
      <4> QED
        BY <4>1, <4>2, <4>3
    <3> QED
      BY <3>2, <3>3
  <2> QED
    BY <2>3, <2>5, <2>6 DEF HasFirst
<1> HIDE DEF S
<1>3. \A m \in 0 .. n : m \in S
  BY <1>1, <1>2, UpToInduction
<1> QED
  BY <1>3 DEF S
=============================================================================
