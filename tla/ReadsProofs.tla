------------------------------ MODULE ReadsProofs ------------------------------
(***************************************************************************)
(* Iterators: TypeOK, CursorCorrect and GapsReported for every set of keys,*)
(* every database and number of updates, every size of the blocks, restart *)
(* interval and snapshot, whichever blocks cannot be read.                 *)
(*                                                                         *)
(* From the bottom: a Block::Iter gets to the entry its method is called   *)
(* for, the binary search of Seek included; a TwoLevelIterator to the      *)
(* first or the last of the table's entries in its direction, unless a     *)
(* block failed; a MergingIterator leaves, in either direction, exactly the*)
(* visible entries ahead that are behind the one it showed (MovesTo),      *)
(* wherever its children stood and whatever the writer inserted. The loops *)
(* of DBIter are then about sets of entries that are ahead (CursorIs).     *)
(*                                                                         *)
(* SkipList: NoWildRead and SearchIsAtomic for every number of keys and    *)
(* every height of the nodes: a reader that takes no lock, and is only     *)
(* promised release and acquire, sees finished nodes and searches as if    *)
(* the list stood still. The proof is about the stores in their order,     *)
(* those that are planned with those that are done (History): what a       *)
(* pointer leads to was stored before the pointer. Whoever sees the pointer*)
(* then sees what it leads to, because it was acquired, or because it is   *)
(* the first one of a node that the reader sees already.                   *)
(***************************************************************************)
EXTENDS Iterators, SkipList, DataLemmas

-----------------------------------------------------------------------------
(* Numbers *)

(* A set of numbers up to n that is not empty has a greatest member. *)
LEMMA MaxIs ==
    ASSUME NEW n \in Nat, NEW S, S \subseteq 0 .. n, S # {}
    PROVE  Max(S) \in S /\ \A x \in S : Max(S) >= x
<1> DEFINE T == {m \in 1 .. n + 1 : m - 1 \in S}
<1>1. \A x \in S : x + 1 \in T
  OBVIOUS
<1>2. T \subseteq 1 .. n + 1 /\ n + 1 \in Nat /\ \A m \in T : m - 1 \in S
  OBVIOUS
<1>3. T # {}
  BY <1>1
<1> HIDE DEF T
<1>4. PICK m \in T : \A k \in T : k <= m
  BY <1>2, <1>3, LastExists
<1>5. \A y \in S : m - 1 >= y
  <2> TAKE y \in S
  <2>1. y + 1 \in T /\ y + 1 <= m /\ y \in 0 .. n /\ m \in 1 .. n + 1
    BY <1>1, <1>2, <1>4
  <2> QED
    BY <2>1
<1>6. m - 1 \in S
  BY <1>2
<1> QED
  BY <1>5, <1>6 DEF Max

LEMMA MinIs ==
    ASSUME NEW n \in Nat, NEW S, S \subseteq 0 .. n, S # {}
    PROVE  Min(S) \in S /\ \A x \in S : Min(S) <= x
<1> DEFINE T == {m \in 0 .. n : n - m \in S}
<1>1. \A x \in S : n - x \in T
  <2> TAKE x \in S
  <2>1. n - x \in 0 .. n /\ n - (n - x) = x
    OBVIOUS
  <2> QED
    BY <2>1
<1>2. T \subseteq 0 .. n /\ \A m \in T : n - m \in S
  OBVIOUS
<1>3. T # {}
  BY <1>1
<1> HIDE DEF T
<1>4. Max(T) \in T /\ \A k \in T : Max(T) >= k
  BY <1>2, <1>3, MaxIs
<1>5. \A y \in S : n - Max(T) <= y
  <2> TAKE y \in S
  <2>1. n - y \in T /\ Max(T) >= n - y /\ y \in 0 .. n /\ Max(T) \in 0 .. n
    BY <1>1, <1>2, <1>4
  <2> QED
    BY <2>1
<1>6. n - Max(T) \in S
  BY <1>2, <1>4
<1> QED
  BY <1>5, <1>6 DEF Min

(* The last restart point of n entries is one of them. *)
LEMMA Quotients ==
    ASSUME NEW n \in Nat, NEW r \in Nat \ {0}
    PROVE  n \div r \in 0 .. n /\ (n \div r) * r <= n /\ n < (n \div r + 1) * r
  OBVIOUS

LEMMA Products ==
    ASSUME NEW a \in Nat, NEW b \in Nat, NEW r \in Nat, a <= b
    PROVE  a * r <= b * r /\ a * r \in Nat /\ b * r \in Nat
  OBVIOUS

LEMMA RestartsAre ==
    ASSUME NEW n \in Nat \ {0}, NEW r \in Nat \ {0}
    PROVE  /\ Restarts(n, r) \subseteq 0 .. n - 1 /\ 0 \in Restarts(n, r)
           /\ Restarts(n, r) = 0 .. (n - 1) \div r /\ (n - 1) \div r \in Nat
           /\ \A j \in Restarts(n, r) : RestartPoint(r, j) \in 1 .. n
           /\ RestartPoint(r, 0) = 1
<1> DEFINE q == (n - 1) \div r
<1>1. n - 1 \in Nat /\ q \in 0 .. n - 1 /\ q * r <= n - 1
  BY Quotients
<1>2. Restarts(n, r) = 0 .. q
  BY DEF Restarts
<1> HIDE DEF q
<1>3. ASSUME NEW j \in 0 .. q
      PROVE  RestartPoint(r, j) \in 1 .. n
  <2>1. j * r <= q * r /\ j * r \in Nat /\ q * r \in Nat
    <3>1. j \in Nat /\ q \in Nat /\ j <= q
      BY <1>1
    <3> QED
      BY <3>1, Products
  <2> QED
    BY <1>1, <2>1 DEF RestartPoint
<1>4. RestartPoint(r, 0) = 1
  BY DEF RestartPoint
<1>5. q = (n - 1) \div r /\ q \in Nat
  BY <1>1 DEF q
<1> QED
  BY <1>1, <1>2, <1>3, <1>4, <1>5

-----------------------------------------------------------------------------
(* Block::Iter *)

(* A position in a block: an entry and a restart point that is there, or   *)
(* behind the end.                                                         *)
BIter(n, r, it) ==
    /\ it \in [at : 1 .. n + 1, restart : Nat]
    /\ it.at <= n => it.restart \in Restarts(n, r)

LEMMA BlockEndIs ==
    ASSUME NEW n \in Nat \ {0}, NEW r \in Nat \ {0}
    PROVE  BIter(n, r, BlockEnd(n, r)) /\ BlockEnd(n, r).at = n + 1
  BY RestartsAre DEF BIter, BlockEnd

(* ParseNextKey gets to the entry it is called for. *)
LEMMA ParsedIs ==
    ASSUME NEW n \in Nat \ {0}, NEW r \in Nat \ {0}, NEW at \in 1 .. n + 1, NEW restart,
           at <= n => restart \in Restarts(n, r)
    PROVE  BIter(n, r, Parsed(n, r, at, restart)) /\ Parsed(n, r, at, restart).at = at
<1>1. CASE at > n
  BY <1>1, BlockEndIs DEF Parsed
<1>2. CASE ~(at > n)
  <2> DEFINE S == {restart} \union {j \in Restarts(n, r) : RestartPoint(r, j) < at}
  <2>1. S \subseteq Restarts(n, r) /\ S \subseteq 0 .. n - 1 /\ S # {} /\ n - 1 \in Nat
    <3>1. Restarts(n, r) \subseteq 0 .. n - 1 /\ restart \in Restarts(n, r)
      BY <1>2, RestartsAre
    <3> QED
      BY <3>1
  <2>2. Parsed(n, r, at, restart) = [at |-> at, restart |-> Max(S)]
    BY <1>2 DEF Parsed
  <2> HIDE DEF S
  <2>3. Max(S) \in Restarts(n, r)
    BY <2>1, MaxIs
  <2>4. Max(S) \in Nat
    BY <2>3, RestartsAre
  <2> QED
    BY <1>2, <2>2, <2>3, <2>4 DEF BIter
<1> QED
  BY <1>1, <1>2

LEMMA BlockFirstIs ==
    ASSUME NEW n \in Nat \ {0}, NEW r \in Nat \ {0}
    PROVE  BIter(n, r, BlockFirst(n, r)) /\ BlockFirst(n, r).at = 1
<1>1. 1 \in 1 .. n + 1 /\ 0 \in Restarts(n, r)
  BY RestartsAre
<1> QED
  BY <1>1, ParsedIs DEF BlockFirst

LEMMA LastRestart ==
    ASSUME NEW n \in Nat \ {0}, NEW r \in Nat \ {0}
    PROVE  Max(Restarts(n, r)) \in Restarts(n, r)
<1>1. Restarts(n, r) \subseteq 0 .. n - 1 /\ Restarts(n, r) # {} /\ n - 1 \in Nat
  BY RestartsAre
<1> QED
  BY <1>1, MaxIs

LEMMA BlockLastIs ==
    ASSUME NEW n \in Nat \ {0}, NEW r \in Nat \ {0}
    PROVE  BIter(n, r, BlockLast(n, r)) /\ BlockLast(n, r).at = n
  BY ParsedIs, LastRestart DEF BlockLast

LEMMA BlockNextIs ==
    ASSUME NEW n \in Nat \ {0}, NEW r \in Nat \ {0}, NEW it, BIter(n, r, it), it.at <= n
    PROVE  BIter(n, r, BlockNext(n, r, it)) /\ BlockNext(n, r, it).at = it.at + 1
<1>1. it.at + 1 \in 1 .. n + 1 /\ it.restart \in Restarts(n, r)
  BY DEF BIter
<1> QED
  BY <1>1, ParsedIs DEF BlockNext

LEMMA BlockPrevIs ==
    ASSUME NEW n \in Nat \ {0}, NEW r \in Nat \ {0}, NEW it, BIter(n, r, it), it.at <= n
    PROVE  /\ BIter(n, r, BlockPrev(n, r, it))
           /\ BlockPrev(n, r, it).at = IF it.at = 1 THEN n + 1 ELSE it.at - 1
<1> DEFINE before == {j \in 0 .. it.restart : RestartPoint(r, j) < it.at}
<1>1. it.at \in 1 .. n /\ it.restart \in Restarts(n, r) /\ it.restart \in Nat
  BY DEF BIter
<1>2. \A j \in 0 .. it.restart : j \in Restarts(n, r)
  <2> DEFINE q == (n - 1) \div r
  <2>1. Restarts(n, r) = 0 .. q /\ q \in Nat
    BY RestartsAre
  <2> HIDE DEF q
  <2> QED
    BY <1>1, <2>1
<1>3. before \subseteq Restarts(n, r) /\ before \subseteq 0 .. n - 1 /\ n - 1 \in Nat
  <2>1. Restarts(n, r) \subseteq 0 .. n - 1
    BY RestartsAre
  <2> QED
    BY <1>2, <2>1
<1>4. CASE it.at = 1
  <2>1. before = {}
    <3> SUFFICES ASSUME NEW j \in before
                 PROVE  FALSE
      OBVIOUS
    <3>1. RestartPoint(r, j) \in 1 .. n
      BY <1>3, RestartsAre
    <3> QED
      BY <1>4, <3>1
  <2>2. BlockPrev(n, r, it) = BlockEnd(n, r)
    BY <2>1 DEF BlockPrev
  <2> QED
    BY <1>4, <2>2, BlockEndIs
<1>5. CASE it.at # 1
  <2>1. 0 \in before
    <3>1. RestartPoint(r, 0) < it.at /\ 0 \in 0 .. it.restart
      <4>1. RestartPoint(r, 0) = 1
        BY RestartsAre
      <4> HIDE DEF before
      <4> QED
        BY <1>1, <1>5, <4>1
    <3> QED
      BY <3>1
  <2>2. BlockPrev(n, r, it) = Parsed(n, r, it.at - 1, Max(before))
    BY <2>1 DEF BlockPrev
  <2> HIDE DEF before
  <2>3. Max(before) \in Restarts(n, r)
    BY <1>3, <2>1, MaxIs
  <2>4. it.at - 1 \in 1 .. n + 1
    BY <1>1, <1>5
  <2> QED
    BY <1>5, <2>2, <2>3, <2>4, ParsedIs
<1> QED
  BY <1>4, <1>5

LEMMA Middle ==
    ASSUME NEW a \in Nat, NEW b \in Nat, a < b
    PROVE  (a + b + 1) \div 2 \in a + 1 .. b
  OBVIOUS

(* What a recursive LET counts up to n, with step as the iterated function. *)
IsSearch(f, n, r, order, span) ==
    f = [k \in 0 .. n |-> IF k = 0 THEN span ELSE Narrowed(r, order, f[k - 1])]

LEMMA SearchExists ==
    ASSUME NEW n \in Nat, NEW r, NEW order, NEW span
    PROVE  \E f : IsSearch(f, n, r, order, span)
<1> DEFINE S == {m \in 0 .. n : \E f : IsSearch(f, m, r, order, span)}
<1>1. 0 \in S
  <2> DEFINE f == [i \in 0 .. 0 |-> span]
  <2>1. IsSearch(f, 0, r, order, span)
    BY DEF IsSearch
  <2> HIDE DEF f
  <2> QED
    BY <2>1
<1>2. ASSUME NEW m \in 1 .. n, m - 1 \in S
      PROVE  m \in S
  <2>1. PICK f : IsSearch(f, m - 1, r, order, span)
    BY <1>2
  <2> DEFINE h == [k \in 0 .. m |-> IF k = m THEN Narrowed(r, order, f[m - 1]) ELSE f[k]]
  <2>2. \A k \in 0 .. m : h[k] = IF k = 0 THEN span ELSE Narrowed(r, order, h[k - 1])
    <3> TAKE k \in 0 .. m
    <3>1. CASE k = m
      <4>1. k # 0 /\ h[k] = Narrowed(r, order, f[m - 1]) /\ h[m - 1] = f[m - 1]
        BY <3>1
      <4> QED
        BY <3>1, <4>1
    <3>2. CASE k # m
      <4>1. k \in 0 .. m - 1 /\ h[k] = f[k]
        BY <3>2
      <4>2. f[k] = IF k = 0 THEN span ELSE Narrowed(r, order, f[k - 1])
        BY <2>1, <4>1 DEF IsSearch
      <4>3. k # 0 => h[k - 1] = f[k - 1]
        BY <4>1
      <4> QED
        BY <4>1, <4>2, <4>3
    <3> QED
      BY <3>1, <3>2
  <2>3. h = [k \in 0 .. m |-> h[k]]
    OBVIOUS
  <2> HIDE DEF h
  <2>4. IsSearch(h, m, r, order, span)
    BY <2>2, <2>3 DEF IsSearch
  <2> QED
    BY <2>4
<1> HIDE DEF S
<1>3. \A m \in 0 .. n : m \in S
  BY <1>1, <1>2, UpToInduction
<1> QED
  BY <1>3 DEF S

(* The binary search ends where it began, or at a restart point that is    *)
(* before the target.                                                      *)
LEMMA SearchedIs ==
    ASSUME NEW n \in Nat \ {0}, NEW r \in Nat \ {0}, NEW order, NEW a \in Restarts(n, r),
           NEW b \in Restarts(n, r)
    PROVE  LET left == Searched(n, r, order, [left |-> a, right |-> b]).left
           IN  left \in Restarts(n, r) /\ (left = a \/ order[RestartPoint(r, left)] < 0)
<1> DEFINE span == [left |-> a, right |-> b]
           f == CHOOSE f : IsSearch(f, n, r, order, span)
           q == (n - 1) \div r
           Good(s) == /\ s \in [left : 0 .. q, right : 0 .. q]
                      /\ s.left = a \/ order[RestartPoint(r, s.left)] < 0
           S == {k \in 0 .. n : Good(f[k])}
<1>1. q \in Nat /\ Restarts(n, r) = 0 .. q
  BY RestartsAre
<1>2. IsSearch(f, n, r, order, span)
  BY SearchExists, Zenon
<1>3. Searched(n, r, order, span) = f[n]
  BY Zenon DEF Searched, IsSearch
<1> HIDE DEF q, f
<1>4. 0 \in S
  <2>1. f[0] = span
    BY <1>2 DEF IsSearch
  <2> QED
    BY <1>1, <2>1
<1>5. ASSUME NEW k \in 1 .. n, k - 1 \in S
      PROVE  k \in S
  <2> DEFINE s == f[k - 1]
             mid == (s.left + s.right + 1) \div 2
  <2>1. f[k] = Narrowed(r, order, s)
    BY <1>2 DEF IsSearch
  <2>2. Good(s)
    BY <1>5
  <2> HIDE DEF s
  <2>3. CASE s.left >= s.right
    <3>1. f[k] = s
      BY <2>1, <2>3 DEF Narrowed
    <3> QED
      BY <2>2, <3>1
  <2>4. CASE ~(s.left >= s.right)
    <3>1. mid \in s.left + 1 .. s.right /\ mid \in 0 .. q /\ mid - 1 \in 0 .. q
      <4>1. s.left \in 0 .. q /\ s.right \in 0 .. q /\ s.left < s.right
        BY <1>1, <2>2, <2>4
      <4>2. mid \in s.left + 1 .. s.right
        BY <1>1, <4>1, Middle
      <4> HIDE DEF mid
      <4> QED
        BY <1>1, <4>1, <4>2
    <3> HIDE DEF mid
    <3>2. f[k] = IF order[RestartPoint(r, mid)] < 0 THEN [s EXCEPT !.left = mid]
                 ELSE [s EXCEPT !.right = mid - 1]
      BY <2>1, <2>4 DEF Narrowed, mid
    <3>3. CASE order[RestartPoint(r, mid)] < 0
      BY <2>2, <3>1, <3>2, <3>3
    <3>4. CASE ~(order[RestartPoint(r, mid)] < 0)
      BY <2>2, <3>1, <3>2, <3>4
    <3> QED
      BY <3>3, <3>4
  <2> QED
    BY <2>3, <2>4
<1> HIDE DEF S
<1>6. \A k \in 0 .. n : k \in S
  BY <1>4, <1>5, UpToInduction
<1>7. Good(f[n])
  BY <1>6 DEF S
<1> QED
  BY <1>1, <1>3, <1>7

(* Ordered says that order compares ascending keys with one target. *)
Ordered(n, order) ==
    /\ order \in [1 .. n -> {-1, 0, 1}]
    /\ \A i, j \in 1 .. n : i < j /\ order[j] <= 0 => order[i] < 0

(* Seek finds the first entry that is not before the target, wherever it   *)
(* starts from.                                                            *)
LEMMA BlockSeekIs ==
    ASSUME NEW n \in Nat \ {0}, NEW r \in Nat \ {0}, NEW it, NEW order,
           BIter(n, r, it), Ordered(n, order)
    PROVE  LET to == BlockSeek(n, r, it, order)
           IN  /\ BIter(n, r, to)
               /\ \A i \in 1 .. n : i < to.at => order[i] < 0
               /\ to.at <= n => order[to.at] >= 0
<1> DEFINE here == IF it.at <= n THEN order[it.at] ELSE 0
           a    == IF here < 0 THEN it.restart ELSE 0
           b    == IF here > 0 THEN it.restart ELSE Max(Restarts(n, r))
           left == Searched(n, r, order, [left |-> a, right |-> b]).left
           from == IF left = it.restart /\ here < 0 THEN it.at + 1 ELSE RestartPoint(r, left)
           hits == {i \in from .. n : order[i] >= 0}
           to   == BlockSeek(n, r, it, order)
<1>1. to = IF it.at <= n /\ here = 0 THEN it
           ELSE IF hits = {} THEN BlockEnd(n, r) ELSE Parsed(n, r, Min(hits), left)
  BY DEF BlockSeek
<1>2. it.at \in 1 .. n + 1 /\ it.restart \in Nat /\ (it.at <= n => it.restart \in Restarts(n, r))
  BY DEF BIter
<1>3. order \in [1 .. n -> {-1, 0, 1}] /\ \A i, j \in 1 .. n : i < j /\ order[j] <= 0 => order[i] < 0
  BY DEF Ordered
<1>4. here \in {-1, 0, 1} /\ (here # 0 => it.at <= n /\ here = order[it.at])
  BY <1>2, <1>3
<1> HIDE DEF here, to
<1>5. a \in Restarts(n, r) /\ b \in Restarts(n, r)
  <2>1. 0 \in Restarts(n, r)
    BY RestartsAre
  <2>2. Max(Restarts(n, r)) \in Restarts(n, r)
    BY LastRestart
  <2>3. here # 0 => it.restart \in Restarts(n, r)
    BY <1>2, <1>4
  <2>4. here < 0 \/ here > 0 => here # 0
    BY <1>4
  <2> QED
    BY <2>1, <2>2, <2>3, <2>4
<1> HIDE DEF a, b
<1>6. left \in Restarts(n, r) /\ (left = a \/ order[RestartPoint(r, left)] < 0)
  BY <1>5, SearchedIs
<1> HIDE DEF left
<1>7. RestartPoint(r, left) \in 1 .. n
  BY <1>6, RestartsAre
<1>8. from \in 1 .. n + 1 /\ \A i \in 1 .. n : i < from => order[i] < 0
  <2>1. CASE left = it.restart /\ here < 0
    <3>1. from = it.at + 1 /\ it.at \in 1 .. n /\ order[it.at] < 0
      BY <1>2, <1>4, <2>1
    <3> QED
      BY <1>3, <3>1
  <2>2. CASE ~(left = it.restart /\ here < 0)
    <3>1. from = RestartPoint(r, left)
      BY <2>2
    <3>2. CASE order[RestartPoint(r, left)] < 0
      BY <1>3, <1>7, <3>1, <3>2
    <3>3. CASE ~(order[RestartPoint(r, left)] < 0)
      <4>1. left = 0
        BY <1>6, <2>2, <3>3 DEF a
      <4>2. from = 1
        BY <3>1, <4>1, RestartsAre
      <4> QED
        BY <4>2
    <3> QED
      BY <3>2, <3>3
  <2> QED
    BY <2>1, <2>2
<1> HIDE DEF from
<1>9. CASE it.at <= n /\ here = 0
  <2>1. to = it /\ it.at \in 1 .. n
    BY <1>1, <1>2, <1>9
  <2>2. order[it.at] = 0
    BY <1>9 DEF here
  <2> QED
    BY <1>3, <2>1, <2>2 DEF to
<1>10. CASE ~(it.at <= n /\ here = 0) /\ hits = {}
  <2>1. to = BlockEnd(n, r)
    BY <1>1, <1>10
  <2>2. BIter(n, r, to) /\ to.at = n + 1
    BY <2>1, BlockEndIs
  <2>3. \A i \in 1 .. n : order[i] < 0
    <3> TAKE i \in 1 .. n
    <3>1. CASE i < from
      BY <1>8, <3>1
    <3>2. CASE ~(i < from)
      <4>1. i \in from .. n /\ order[i] \in {-1, 0, 1}
        BY <1>3, <1>8, <3>2
      <4>2. ~(order[i] >= 0)
        BY <1>10, <4>1
      <4> QED
        BY <4>1, <4>2
    <3> QED
      BY <3>1, <3>2
  <2> QED
    BY <2>2, <2>3 DEF to
<1>11. CASE ~(it.at <= n /\ here = 0) /\ hits # {}
  <2>1. to = Parsed(n, r, Min(hits), left)
    BY <1>1, <1>11
  <2>2. hits \subseteq 0 .. n /\ n \in Nat /\ hits # {}
    BY <1>8, <1>11
  <2>3. Min(hits) \in hits /\ \A x \in hits : Min(hits) <= x
    BY <2>2, MinIs
  <2> DEFINE h == Min(hits)
  <2>4. h \in from .. n /\ order[h] >= 0 /\ \A i \in from .. n : order[i] >= 0 => h <= i
    BY <2>3
  <2> HIDE DEF h, hits
  <2>5. h \in 1 .. n + 1 /\ h \in 1 .. n
    BY <1>8, <2>4
  <2>6. BIter(n, r, to) /\ to.at = h
    BY <1>6, <2>1, <2>5, ParsedIs DEF h
  <2>7. \A i \in 1 .. n : i < h => order[i] < 0
    <3> TAKE i \in 1 .. n
    <3> HAVE i < h
    <3>1. CASE i < from
      BY <1>8, <3>1
    <3>2. CASE ~(i < from)
      <4>1. i \in from .. n /\ order[i] \in {-1, 0, 1}
        BY <1>3, <1>8, <3>2
      <4>2. ~(order[i] >= 0)
        BY <2>4, <2>5, <4>1
      <4> QED
        BY <4>1, <4>2
    <3> QED
      BY <3>1, <3>2
  <2> QED
    BY <2>4, <2>6, <2>7 DEF to
<1> QED
  BY <1>9, <1>10, <1>11

-----------------------------------------------------------------------------
(* The order of the entries *)

Entries == 1 .. MaxUpdates
Before(i, j) == Precedes(InternalKey(i), InternalKey(j))
UpdatesOK == updates \in [Entries -> [key : Keys, deletes : BOOLEAN]]

LEMMA KeysAre ==
    ASSUME UpdatesOK
    PROVE  \A i \in Entries : Key(i) \in Keys /\ Key(i) \in Nat
  BY IteratorsAssumption DEF UpdatesOK, Key

LEMMA BeforeIs ==
    \A i, j : Before(i, j) <=> Key(i) < Key(j) \/ (Key(i) = Key(j) /\ i > j)
  BY DEF Before, Precedes, InternalKey

LEMMA Order ==
    ASSUME UpdatesOK
    PROVE  /\ \A i \in Entries : ~Before(i, i)
           /\ \A i, j, k \in Entries : Before(i, j) /\ Before(j, k) => Before(i, k)
           /\ \A i, j \in Entries : i = j \/ Before(i, j) \/ Before(j, i)
           /\ \A i, j \in Entries : Before(i, j) => Key(i) <= Key(j)
           /\ \A i, j \in Entries : Key(i) < Key(j) => Before(i, j)
<1>1. \A i \in Entries : Key(i) \in Nat
  BY KeysAre
<1>2. Entries \subseteq Nat
  BY IteratorsAssumption DEF Entries
<1>3. \A i \in Entries : ~Before(i, i)
  BY <1>1, <1>2, BeforeIs
<1>4. \A i, j, k \in Entries : Before(i, j) /\ Before(j, k) => Before(i, k)
  BY <1>1, <1>2, BeforeIs
<1>5. \A i, j \in Entries : i = j \/ Before(i, j) \/ Before(j, i)
  BY <1>1, <1>2, BeforeIs
<1>6. \A i, j \in Entries : (Before(i, j) => Key(i) <= Key(j)) /\ (Key(i) < Key(j) => Before(i, j))
  BY <1>1, <1>2, BeforeIs
<1> QED
  BY <1>3, <1>4, <1>5, <1>6

(* What FirstOf and LastOf return *)
IsFirst(i, S) == IF S = {} THEN i = 0 ELSE i \in S /\ \A j \in S \ {i} : Before(i, j)
IsLast(i, S)  == IF S = {} THEN i = 0 ELSE i \in S /\ \A j \in S \ {i} : Before(j, i)

LEMMA FirstExists ==
    ASSUME UpdatesOK, NEW S, S \subseteq Entries, S # {}
    PROVE  \E i \in S : \A j \in S \ {i} : Before(i, j)
<1> DEFINE Has(T) == \E i \in T : \A j \in T \ {i} : Before(i, j)
           N == {m \in 0 .. MaxUpdates : \A T \in SUBSET (1 .. m) : T # {} => Has(T)}
<1>1. 0 \in N
  <2>1. 0 \in 0 .. MaxUpdates /\ 1 .. 0 = {}
    BY IteratorsAssumption
  <2> QED
    BY <2>1
<1>2. ASSUME NEW m \in 1 .. MaxUpdates, m - 1 \in N
      PROVE  m \in N
  <2> SUFFICES ASSUME NEW T \in SUBSET (1 .. m), T # {}
               PROVE  Has(T)
    BY IteratorsAssumption
  <2>1. m \in Entries /\ T \subseteq Entries
    BY IteratorsAssumption DEF Entries
  <2>2. CASE m \notin T
    <3>1. T \subseteq 1 .. m - 1
      BY <2>2
    <3> QED
      BY <1>2, <3>1
  <2>3. CASE T = {m}
    BY <2>3
  <2>4. CASE m \in T /\ T # {m}
    <3> DEFINE R == T \ {m}
    <3>1. R \subseteq 1 .. m - 1 /\ R # {} /\ R \subseteq T
      BY <2>4
    <3>2. PICK i \in R : \A j \in R \ {i} : Before(i, j)
      BY <1>2, <3>1
    <3>3. i \in T /\ i \in Entries /\ i # m
      BY <2>1, <3>1
    <3>4. CASE Before(i, m)
      BY <3>2, <3>3, <3>4
    <3>5. CASE Before(m, i)
      <4>1. \A j \in T \ {m} : Before(m, j)
        <5> TAKE j \in T \ {m}
        <5>1. CASE j = i
          BY <3>5, <5>1
        <5>2. CASE j # i
          <6>1. Before(i, j) /\ j \in Entries
            BY <2>1, <3>2, <5>2
          <6> QED
            BY <2>1, <3>3, <3>5, <6>1, Order
        <5> QED
          BY <5>1, <5>2
      <4> QED
        BY <2>4, <4>1
    <3> QED
      BY <2>1, <3>3, <3>4, <3>5, Order
  <2> QED
    BY <2>2, <2>3, <2>4
<1> HIDE DEF N
<1>3. MaxUpdates \in Nat
  BY IteratorsAssumption
<1>4. \A m \in 0 .. MaxUpdates : m \in N
  BY <1>1, <1>2, <1>3, UpToInduction
<1>5. MaxUpdates \in N
  BY <1>3, <1>4
<1> QED
  BY <1>5 DEF N, Entries

LEMMA LastExistsToo ==
    ASSUME UpdatesOK, NEW S, S \subseteq Entries, S # {}
    PROVE  \E i \in S : \A j \in S \ {i} : Before(j, i)
<1> DEFINE Has(T) == \E i \in T : \A j \in T \ {i} : Before(j, i)
           N == {m \in 0 .. MaxUpdates : \A T \in SUBSET (1 .. m) : T # {} => Has(T)}
<1>1. 0 \in N
  <2>1. 0 \in 0 .. MaxUpdates /\ 1 .. 0 = {}
    BY IteratorsAssumption
  <2> QED
    BY <2>1
<1>2. ASSUME NEW m \in 1 .. MaxUpdates, m - 1 \in N
      PROVE  m \in N
  <2> SUFFICES ASSUME NEW T \in SUBSET (1 .. m), T # {}
               PROVE  Has(T)
    BY IteratorsAssumption
  <2>1. m \in Entries /\ T \subseteq Entries
    BY IteratorsAssumption DEF Entries
  <2>2. CASE m \notin T
    <3>1. T \subseteq 1 .. m - 1
      BY <2>2
    <3> QED
      BY <1>2, <3>1
  <2>3. CASE T = {m}
    BY <2>3
  <2>4. CASE m \in T /\ T # {m}
    <3> DEFINE R == T \ {m}
    <3>1. R \subseteq 1 .. m - 1 /\ R # {} /\ R \subseteq T
      BY <2>4
    <3>2. PICK i \in R : \A j \in R \ {i} : Before(j, i)
      BY <1>2, <3>1
    <3>3. i \in T /\ i \in Entries /\ i # m
      BY <2>1, <3>1
    <3>4. CASE Before(m, i)
      BY <3>2, <3>3, <3>4
    <3>5. CASE Before(i, m)
      <4>1. \A j \in T \ {m} : Before(j, m)
        <5> TAKE j \in T \ {m}
        <5>1. CASE j = i
          BY <3>5, <5>1
        <5>2. CASE j # i
          <6>1. Before(j, i) /\ j \in Entries
            BY <2>1, <3>2, <5>2
          <6> QED
            BY <2>1, <3>3, <3>5, <6>1, Order
        <5> QED
          BY <5>1, <5>2
      <4> QED
        BY <2>4, <4>1
    <3> QED
      BY <2>1, <3>3, <3>4, <3>5, Order
  <2> QED
    BY <2>2, <2>3, <2>4
<1> HIDE DEF N
<1>3. MaxUpdates \in Nat
  BY IteratorsAssumption
<1>4. \A m \in 0 .. MaxUpdates : m \in N
  BY <1>1, <1>2, <1>3, UpToInduction
<1>5. MaxUpdates \in N
  BY <1>3, <1>4
<1> QED
  BY <1>5 DEF N, Entries

LEMMA FirstIs ==
    ASSUME UpdatesOK, NEW S, S \subseteq Entries
    PROVE  IsFirst(FirstOf(S), S) /\ \A i : IsFirst(i, S) => i = FirstOf(S)
<1>1. CASE S = {}
  BY <1>1 DEF IsFirst, FirstOf
<1>2. CASE S # {}
  <2>1. FirstOf(S) \in S /\ \A j \in S \ {FirstOf(S)} : Before(FirstOf(S), j)
    <3>1. FirstOf(S) = CHOOSE i \in S : \A j \in S \ {i} : Before(i, j)
      BY <1>2 DEF FirstOf, Before
    <3> QED
      BY <1>2, <3>1, FirstExists
  <2>2. ASSUME NEW i, IsFirst(i, S)
        PROVE  i = FirstOf(S)
    <3>1. i \in S /\ \A j \in S \ {i} : Before(i, j)
      BY <1>2, <2>2 DEF IsFirst
    <3> QED
      BY <2>1, <3>1, Order
  <2> QED
    BY <1>2, <2>1, <2>2 DEF IsFirst
<1> QED
  BY <1>1, <1>2

LEMMA LastIs ==
    ASSUME UpdatesOK, NEW S, S \subseteq Entries
    PROVE  IsLast(LastOf(S), S) /\ \A i : IsLast(i, S) => i = LastOf(S)
<1>1. CASE S = {}
  BY <1>1 DEF IsLast, LastOf
<1>2. CASE S # {}
  <2>1. LastOf(S) \in S /\ \A j \in S \ {LastOf(S)} : Before(j, LastOf(S))
    <3>1. LastOf(S) = CHOOSE i \in S : \A j \in S \ {i} : Before(j, i)
      BY <1>2 DEF LastOf, Before
    <3> QED
      BY <1>2, <3>1, LastExistsToo
  <2>2. ASSUME NEW i, IsLast(i, S)
        PROVE  i = LastOf(S)
    <3>1. i \in S /\ \A j \in S \ {i} : Before(j, i)
      BY <1>2, <2>2 DEF IsLast
    <3> QED
      BY <2>1, <3>1, Order
  <2> QED
    BY <1>2, <2>1, <2>2 DEF IsLast
<1> QED
  BY <1>1, <1>2

-----------------------------------------------------------------------------
(* The table: blocks that are not empty and hold every flushed entry, in   *)
(* order.                                                                  *)
Blocks == 1 .. Len(table)

TableHolds ==
    /\ Len(table) \in Nat \ {0}
    /\ \A b \in Blocks : /\ Len(table[b]) \in Nat \ {0}
                         /\ \A a \in 1 .. Len(table[b]) : table[b][a] \in 1 .. Flushed
    /\ \A b, c \in Blocks : \A a \in 1 .. Len(table[b]), d \in 1 .. Len(table[c]) :
          b < c \/ (b = c /\ a < d) => Before(table[b][a], table[c][d])
    /\ \A i \in 1 .. Flushed : \E b \in Blocks : \E a \in 1 .. Len(table[b]) : table[b][a] = i

(* How many blocks n entries make, w to a block. *)
LEMMA HowMany ==
    ASSUME NEW n \in Nat \ {0}, NEW w \in Nat \ {0}
    PROVE  LET k == (n + w - 1) \div w
           IN  /\ k \in Nat \ {0} /\ n <= k * w
               /\ \A b \in 1 .. k : (b - 1) * w \in 0 .. n - 1 /\ b * w = (b - 1) * w + w
<1> DEFINE k == (n + w - 1) \div w
<1>1. n + w - 1 \in Nat /\ k \in Nat /\ k * w <= n + w - 1 /\ n + w - 1 < (k + 1) * w
  <2>1. n + w - 1 \in Nat
    OBVIOUS
  <2> QED
    BY <2>1, Quotients
<1> HIDE DEF k
<1>2. (k + 1) * w = k * w + w /\ k * w \in Nat
  BY <1>1
<1>3. n <= k * w
  BY <1>1, <1>2
<1>4. k # 0
  BY <1>3
<1>5. ASSUME NEW b \in 1 .. k
      PROVE  (b - 1) * w \in 0 .. n - 1 /\ b * w = (b - 1) * w + w
  <2>1. b \in Nat /\ b - 1 \in Nat /\ b <= k
    BY <1>1
  <2>2. b * w <= k * w /\ b * w \in Nat
    BY <1>1, <2>1, Products
  <2>3. b * w = (b - 1) * w + w /\ (b - 1) * w \in Nat
    BY <2>1
  <2> QED
    BY <1>1, <2>2, <2>3
<1> QED
  BY <1>1, <1>3, <1>4, <1>5 DEF k

LEMMA CutHolds ==
    ASSUME UpdatesOK, NEW run \in [1 .. Flushed -> 1 .. Flushed],
           IsSortedRun(run, Flushed), table = Cut(run)
    PROVE  TableHolds
<1> DEFINE n == Flushed
           w == BlockEntries
           k == (n + w - 1) \div w
           Size0(b) == Min({b * w, n}) - (b - 1) * w
<1>1. n \in Nat \ {0} /\ w \in Nat \ {0}
  BY IteratorsAssumption
<1>2. run \in Seq(1 .. n) /\ Len(run) = n
  BY <1>1
<1>3. /\ k \in Nat \ {0} /\ n <= k * w
      /\ \A b \in 1 .. k : (b - 1) * w \in 0 .. n - 1 /\ b * w = (b - 1) * w + w
  BY <1>1, HowMany
<1>4. table = [b \in 1 .. k |-> SubSeq(run, (b - 1) * w + 1, Min({b * w, n}))]
  BY <1>2 DEF Cut
<1>5. \A i \in 1 .. n : \E p \in 1 .. n : run[p] = i
  BY DEF IsSortedRun
<1>6. \A p, q \in 1 .. n : p < q => Before(run[p], run[q])
  BY DEF IsSortedRun, Before
<1> HIDE DEF n, w, k
<1>7. Len(table) = k /\ Blocks = 1 .. k
  BY <1>3, <1>4 DEF Blocks
<1>8. ASSUME NEW b \in 1 .. k
      PROVE  /\ Size0(b) \in 1 .. w
             /\ (b - 1) * w + Size0(b) <= n
             /\ b * w <= n => Size0(b) = w
             /\ b * w > n => (b - 1) * w + Size0(b) = n
             /\ Len(table[b]) = Size0(b)
             /\ \A a \in 1 .. Size0(b) : table[b][a] = run[(b - 1) * w + a]
  <2> DEFINE lo == (b - 1) * w
             hi == b * w
             m  == Min({hi, n})
  <2>1. lo \in 0 .. n - 1 /\ hi = lo + w
    BY <1>3
  <2>2. table[b] = SubSeq(run, lo + 1, m)
    BY <1>4
  <2> HIDE DEF lo, hi
  <2>3. m = IF hi <= n THEN hi ELSE n
    <3>1. {hi, n} \subseteq 0 .. hi + n /\ {hi, n} # {} /\ hi + n \in Nat
      BY <1>1, <2>1
    <3>2. m \in {hi, n} /\ \A x \in {hi, n} : m <= x
      BY <3>1, MinIs
    <3> QED
      BY <1>1, <2>1, <3>2
  <2> HIDE DEF m
  <2>4. m \in lo + 1 .. n /\ m - lo \in 1 .. w /\ lo + (m - lo) = m
    BY <1>1, <2>1, <2>3
  <2>5. /\ Len(SubSeq(run, lo + 1, m)) = m - lo
        /\ \A a \in 1 .. m - lo : SubSeq(run, lo + 1, m)[a] = run[lo + a]
    <3>1. lo + 1 \in 1 .. Len(run) + 1 /\ m \in (lo + 1) - 1 .. Len(run)
      BY <1>1, <1>2, <2>1, <2>4
    <3>2. /\ Len(SubSeq(run, lo + 1, m)) = m - (lo + 1) + 1
          /\ \A a \in 1 .. m - (lo + 1) + 1 : SubSeq(run, lo + 1, m)[a] = run[(lo + 1) + a - 1]
      BY <1>2, <3>1, SubSeqProperties, SMTT(40)
    <3>3. m - (lo + 1) + 1 = m - lo /\ \A a \in 1 .. m - lo : (lo + 1) + a - 1 = lo + a
      <4>1. m \in Int /\ lo \in Int
        BY <1>1, <2>1, <2>4
      <4> QED
        BY <4>1
    <3> QED
      BY <3>2, <3>3
  <2>6. Size0(b) = m - lo
    BY DEF m, lo, hi
  <2> HIDE DEF Size0
  <2>7. b * w = hi /\ (b - 1) * w = lo
    BY DEF lo, hi
  <2> QED
    BY <1>1, <2>1, <2>2, <2>3, <2>4, <2>5, <2>6, <2>7
<1> HIDE DEF Size0
<1>9. ASSUME NEW b \in 1 .. k, NEW a \in 1 .. Size0(b)
      PROVE  (b - 1) * w + a \in 1 .. n
  <2> DEFINE lo == (b - 1) * w
             z  == Size0(b)
  <2>1. lo \in 0 .. n - 1
    BY <1>3
  <2>2. z \in 1 .. w /\ lo + z <= n /\ a \in 1 .. z
    BY <1>8
  <2> HIDE DEF lo, z
  <2>3. lo + a \in 1 .. n
    BY <1>1, <2>1, <2>2
  <2> QED
    BY <2>3 DEF lo
<1>10. ASSUME NEW b \in Blocks
       PROVE  /\ Len(table[b]) \in Nat \ {0}
              /\ \A a \in 1 .. Len(table[b]) : table[b][a] \in 1 .. n
  <2>1. Len(table[b]) = Size0(b) /\ Size0(b) \in 1 .. w
        /\ \A a \in 1 .. Size0(b) : table[b][a] = run[(b - 1) * w + a]
    BY <1>7, <1>8
  <2>2. \A a \in 1 .. Size0(b) : run[(b - 1) * w + a] \in 1 .. n
    <3> TAKE a \in 1 .. Size0(b)
    <3> DEFINE p == (b - 1) * w + a
    <3>1. p \in 1 .. n
      BY <1>7, <1>9
    <3> HIDE DEF p
    <3>2. run[p] \in 1 .. n
      BY <3>1 DEF n
    <3> QED
      BY <3>2 DEF p
  <2> QED
    BY <1>1, <2>1, <2>2
<1>11. ASSUME NEW b \in Blocks, NEW c \in Blocks, NEW a \in 1 .. Len(table[b]), NEW d \in 1 .. Len(table[c]),
              b < c \/ (b = c /\ a < d)
       PROVE  Before(table[b][a], table[c][d])
  <2> DEFINE p == (b - 1) * w + a
             q == (c - 1) * w + d
  <2>1. p \in 1 .. n /\ q \in 1 .. n /\ table[b][a] = run[p] /\ table[c][d] = run[q]
    BY <1>7, <1>8, <1>9
  <2>2. p < q
    <3>1. /\ (b - 1) * w \in Nat /\ (c - 1) * w \in Nat /\ b * w = (b - 1) * w + w
          /\ a \in 1 .. w /\ d \in 1 .. w
      <4>1. b \in 1 .. k /\ c \in 1 .. k
        BY <1>7
      <4>2. /\ (b - 1) * w \in 0 .. n - 1 /\ b * w = (b - 1) * w + w
            /\ (c - 1) * w \in 0 .. n - 1
        BY <1>3, <4>1
      <4>3. /\ Size0(b) \in 1 .. w /\ Len(table[b]) = Size0(b)
            /\ Size0(c) \in 1 .. w /\ Len(table[c]) = Size0(c)
        BY <1>8, <4>1
      <4> HIDE DEF p, q
      <4>4. a \in 1 .. w /\ d \in 1 .. w
        BY <1>1, <4>3
      <4> QED
        BY <4>2, <4>4
    <3>2. CASE b < c
      <4>1. b \in Nat /\ c - 1 \in Nat /\ b <= c - 1
        BY <1>3, <1>7, <3>2
      <4>2. b * w <= (c - 1) * w
        BY <1>1, <4>1, Products
      <4> QED
        BY <1>1, <3>1, <4>2
    <3>3. CASE b = c /\ a < d
      BY <3>1, <3>3
    <3> QED
      BY <1>11, <3>2, <3>3
  <2> QED
    BY <1>6, <2>1, <2>2
<1>12. ASSUME NEW i \in 1 .. n
       PROVE  \E b \in Blocks : \E a \in 1 .. Len(table[b]) : table[b][a] = i
  <2>1. PICK p \in 1 .. n : run[p] = i
    BY <1>5
  <2> DEFINE b == (p - 1) \div w + 1
             lo == (b - 1) * w
             a == p - lo
  <2>2. /\ (p - 1) \div w \in Nat /\ ((p - 1) \div w) * w <= p - 1 /\ p - 1 < ((p - 1) \div w + 1) * w
    <3>1. p - 1 \in Nat
      BY <1>1
    <3> QED
      BY <1>1, <3>1, Quotients
  <2>3. b - 1 = (p - 1) \div w
    BY <2>2
  <2>4. b - 1 \in Nat /\ b \in Nat /\ lo <= p - 1 /\ p - 1 < b * w
    BY <2>2, <2>3
  <2> HIDE DEF b
  <2>5. b \in 1 .. k
    <3>1. CASE b - 1 < k
      BY <1>3, <2>4, <3>1
    <3>2. CASE k <= b - 1
      <4>1. k * w <= (b - 1) * w
        BY <1>1, <1>3, <2>4, <3>2, Products
      <4>2. k * w \in Nat /\ lo \in Nat
        BY <1>1, <1>3, <2>4
      <4> QED
        BY <1>1, <1>3, <2>4, <4>1, <4>2
    <3> QED
      BY <1>3, <2>4, <3>1, <3>2
  <2>6. b * w = lo + w /\ lo \in Nat
    <3>1. (b - 1) * w \in 0 .. n - 1 /\ b * w = (b - 1) * w + w
      BY <1>3, <2>5
    <3> QED
      BY <3>1
  <2> HIDE DEF lo
  <2>7. a \in 1 .. w /\ lo + a = p
    BY <1>1, <2>4, <2>6
  <2>8. a \in 1 .. Size0(b)
    <3>1. Size0(b) \in 1 .. w /\ (b * w <= n => Size0(b) = w) /\ (b * w > n => lo + Size0(b) = n)
      BY <1>8, <2>5 DEF lo
    <3>2. CASE b * w <= n
      BY <2>7, <3>1, <3>2
    <3>3. CASE b * w > n
      BY <1>1, <2>6, <2>7, <3>1, <3>3
    <3> QED
      BY <1>1, <2>6, <3>2, <3>3
  <2>9. table[b][a] = run[lo + a] /\ Len(table[b]) = Size0(b)
    BY <1>8, <2>5, <2>8 DEF lo
  <2> QED
    BY <1>7, <2>1, <2>5, <2>7, <2>8, <2>9
<1> QED
  BY <1>3, <1>7, <1>10, <1>11, <1>12 DEF TableHolds, n

-----------------------------------------------------------------------------
(* Entries by the blocks they are in *)
InBlock(i, b) == \E a \in 1 .. Len(table[b]) : table[b][a] = i
From(b) == {i \in 1 .. Flushed : \E c \in Blocks : c >= b /\ InBlock(i, c)}
UpTo(b) == {i \in 1 .. Flushed : \E c \in Blocks : c <= b /\ InBlock(i, c)}
LastIn(b) == table[b][Len(table[b])]

LEMMA BlockFacts ==
    ASSUME UpdatesOK, TableHolds
    PROVE  /\ Len(table) \in Nat \ {0} /\ Blocks = 1 .. Len(table)
           /\ \A b \in Blocks : /\ Len(table[b]) \in Nat \ {0}
                                /\ \A a \in 1 .. Len(table[b]) : /\ table[b][a] \in 1 .. Flushed
                                                                 /\ table[b][a] \in Entries
           /\ 1 .. Flushed \subseteq Entries
           /\ \A i \in 1 .. Flushed : \E b \in Blocks : InBlock(i, b)
<1>1. 1 .. Flushed \subseteq Entries
  BY IteratorsAssumption DEF Entries
<1>2. /\ Len(table) \in Nat \ {0}
      /\ \A b \in Blocks : /\ Len(table[b]) \in Nat \ {0}
                           /\ \A a \in 1 .. Len(table[b]) : table[b][a] \in 1 .. Flushed
      /\ \A i \in 1 .. Flushed : \E b \in Blocks : \E a \in 1 .. Len(table[b]) : table[b][a] = i
  BY DEF TableHolds
<1>3. \A i \in 1 .. Flushed : \E b \in Blocks : InBlock(i, b)
  BY <1>2 DEF InBlock
<1> QED
  BY <1>1, <1>2, <1>3 DEF Blocks

(* Where an entry is, against another: in the order of the places. *)
LEMMA PlacesOrdered ==
    ASSUME UpdatesOK, TableHolds, NEW b \in Blocks, NEW a \in 1 .. Len(table[b]),
           NEW c \in Blocks, NEW d \in 1 .. Len(table[c])
    PROVE  /\ b < c \/ (b = c /\ a < d) <=> Before(table[b][a], table[c][d])
           /\ table[b][a] = table[c][d] => b = c /\ a = d
<1>1. /\ b < c \/ (b = c /\ a < d) => Before(table[b][a], table[c][d])
      /\ c < b \/ (c = b /\ d < a) => Before(table[c][d], table[b][a])
  BY DEF TableHolds
<1>2. table[b][a] \in Entries /\ table[c][d] \in Entries
  BY BlockFacts
<1>3. b \in Int /\ c \in Int
  BY BlockFacts
<1>4. a \in Int /\ d \in Int
  OBVIOUS
<1>5. b < c \/ c < b \/ b = c
  BY <1>3
<1>6. a < d \/ d < a \/ a = d
  BY <1>4
<1>7. ~(Before(table[b][a], table[c][d]) /\ Before(table[c][d], table[b][a]))
  BY <1>2, Order
<1>8. table[b][a] = table[c][d] => ~Before(table[b][a], table[c][d]) /\ ~Before(table[c][d], table[b][a])
  BY <1>2, Order
<1>9. b = c /\ a = d => ~Before(table[b][a], table[c][d])
  BY <1>2, Order
<1> QED
  BY <1>1, <1>3, <1>4, <1>5, <1>6, <1>7, <1>8, <1>9

LEMMA EndsOfBlocks ==
    ASSUME UpdatesOK, TableHolds
    PROVE  /\ From(1) = 1 .. Flushed /\ UpTo(Len(table)) = 1 .. Flushed
           /\ From(Len(table) + 1) = {} /\ UpTo(0) = {}
           /\ \A b \in Blocks : IsFirst(table[b][1], From(b)) /\ IsLast(LastIn(b), UpTo(b))
<1>1. /\ Len(table) \in Nat \ {0} /\ Blocks = 1 .. Len(table)
      /\ \A i \in 1 .. Flushed : \E b \in Blocks : InBlock(i, b)
      /\ \A b \in Blocks : /\ Len(table[b]) \in Nat \ {0}
                           /\ \A a \in 1 .. Len(table[b]) : table[b][a] \in 1 .. Flushed
  BY BlockFacts
<1>2. From(1) = 1 .. Flushed /\ UpTo(Len(table)) = 1 .. Flushed
  BY <1>1 DEF From, UpTo
<1>3. From(Len(table) + 1) = {} /\ UpTo(0) = {}
  BY <1>1 DEF From, UpTo
<1>4. ASSUME NEW b \in Blocks
      PROVE  IsFirst(table[b][1], From(b))
  <2>1. b \in Int /\ 1 \in 1 .. Len(table[b]) /\ table[b][1] \in 1 .. Flushed
    BY <1>1
  <2>2. InBlock(table[b][1], b)
    BY <2>1 DEF InBlock
  <2>3. table[b][1] \in From(b)
    BY <2>1, <2>2 DEF From
  <2>4. ASSUME NEW j \in From(b) \ {table[b][1]}
        PROVE  Before(table[b][1], j)
    <3>1. PICK c \in Blocks : c >= b /\ InBlock(j, c)
      BY DEF From
    <3>2. PICK d \in 1 .. Len(table[c]) : table[c][d] = j
      BY <3>1 DEF InBlock
    <3>3. c \in Int /\ d \in Int /\ d >= 1 /\ (b = c => d # 1)
      BY <1>1, <3>2
    <3>4. b < c \/ (b = c /\ 1 < d)
      BY <2>1, <3>1, <3>3
    <3> QED
      BY <2>1, <3>2, <3>4, PlacesOrdered
  <2> QED
    BY <2>3, <2>4 DEF IsFirst
<1>5. ASSUME NEW b \in Blocks
      PROVE  IsLast(LastIn(b), UpTo(b))
  <2> DEFINE z == Len(table[b])
  <2>1. b \in Int /\ z \in 1 .. Len(table[b]) /\ LastIn(b) = table[b][z] /\ LastIn(b) \in 1 .. Flushed /\ z \in Int
    BY <1>1 DEF LastIn
  <2>2. InBlock(LastIn(b), b)
    BY <2>1 DEF InBlock
  <2>3. LastIn(b) \in UpTo(b)
    BY <2>1, <2>2 DEF UpTo
  <2>4. ASSUME NEW j \in UpTo(b) \ {LastIn(b)}
        PROVE  Before(j, LastIn(b))
    <3>1. PICK c \in Blocks : c <= b /\ InBlock(j, c)
      BY DEF UpTo
    <3>2. PICK d \in 1 .. Len(table[c]) : table[c][d] = j
      BY <3>1 DEF InBlock
    <3>3. c \in Int /\ d \in Int /\ (b = c => d # z /\ d <= z)
      BY <1>1, <2>1, <3>2
    <3>4. c < b \/ (c = b /\ d < z)
      BY <2>1, <3>1, <3>3
    <3> QED
      BY <2>1, <3>2, <3>4, PlacesOrdered
  <2> QED
    BY <2>3, <2>4 DEF IsLast
<1> QED
  BY <1>2, <1>3, <1>4, <1>5

(* The neighbours of an entry, in its block or in the next. *)
LEMMA Neighbours ==
    ASSUME UpdatesOK, TableHolds, NEW b \in Blocks, NEW a \in 1 .. Len(table[b])
    PROVE  LET after  == {j \in 1 .. Flushed : Before(table[b][a], j)}
               before == {j \in 1 .. Flushed : Before(j, table[b][a])}
           IN  /\ a < Len(table[b]) => IsFirst(table[b][a + 1], after)
               /\ a = Len(table[b]) => after = From(b + 1)
               /\ a > 1 => IsLast(table[b][a - 1], before)
               /\ a = 1 => before = UpTo(b - 1)
<1> DEFINE after  == {j \in 1 .. Flushed : Before(table[b][a], j)}
           before == {j \in 1 .. Flushed : Before(j, table[b][a])}
           z == Len(table[b])
<1>1. /\ b \in Int /\ z \in Nat \ {0} /\ a \in 1 .. z
      /\ \A x \in 1 .. z : table[b][x] \in 1 .. Flushed
      /\ \A i \in 1 .. Flushed : \E c \in Blocks : InBlock(i, c)
  BY BlockFacts
<1>2. \A c \in Blocks : c \in Int /\ \A d \in 1 .. Len(table[c]) : d \in Int
  BY BlockFacts
<1>3. ASSUME a < z
      PROVE  IsFirst(table[b][a + 1], after)
  <2>1. a + 1 \in 1 .. z /\ a < a + 1
    BY <1>1, <1>3
  <2>2. table[b][a + 1] \in after
    BY <1>1, <2>1, PlacesOrdered
  <2>3. ASSUME NEW j \in after \ {table[b][a + 1]}
        PROVE  Before(table[b][a + 1], j)
    <3>0. PICK c \in Blocks : InBlock(j, c)
      BY <1>1
    <3>1. PICK d \in 1 .. Len(table[c]) : table[c][d] = j
      BY <3>0 DEF InBlock
    <3>2. b < c \/ (b = c /\ a < d)
      BY <3>1, PlacesOrdered
    <3>3. b = c => d # a + 1
      BY <3>1
    <3>4. b < c \/ (b = c /\ a + 1 < d)
      BY <1>1, <1>2, <3>2, <3>3
    <3> QED
      BY <2>1, <3>1, <3>4, PlacesOrdered
  <2> QED
    BY <2>2, <2>3 DEF IsFirst
<1>4. ASSUME a = z
      PROVE  after = From(b + 1)
  <2>1. ASSUME NEW j \in after
        PROVE  j \in From(b + 1)
    <3>0. PICK c \in Blocks : InBlock(j, c)
      BY <1>1
    <3>1. PICK d \in 1 .. Len(table[c]) : table[c][d] = j
      BY <3>0 DEF InBlock
    <3>2. b < c \/ (b = c /\ a < d)
      BY <3>1, PlacesOrdered
    <3>3. c >= b + 1
      BY <1>1, <1>2, <1>4, <3>2
    <3> QED
      BY <3>1, <3>3 DEF From, InBlock
  <2>2. ASSUME NEW j \in From(b + 1)
        PROVE  j \in after
    <3>1. PICK c \in Blocks : c >= b + 1 /\ InBlock(j, c)
      BY DEF From
    <3>2. PICK d \in 1 .. Len(table[c]) : table[c][d] = j
      BY <3>1 DEF InBlock
    <3>3. c \in Int /\ b \in Int
      BY <1>1, <1>2, <3>1
    <3>4. b < c
      BY <3>1, <3>3
    <3> QED
      BY <3>2, <3>4, PlacesOrdered DEF From
  <2> HIDE DEF after
  <2> QED
    BY <2>1, <2>2
<1>5. ASSUME a > 1
      PROVE  IsLast(table[b][a - 1], before)
  <2>1. a - 1 \in 1 .. z /\ a - 1 < a
    BY <1>1, <1>5
  <2>2. table[b][a - 1] \in before
    BY <1>1, <2>1, PlacesOrdered
  <2>3. ASSUME NEW j \in before \ {table[b][a - 1]}
        PROVE  Before(j, table[b][a - 1])
    <3>0. PICK c \in Blocks : InBlock(j, c)
      BY <1>1
    <3>1. PICK d \in 1 .. Len(table[c]) : table[c][d] = j
      BY <3>0 DEF InBlock
    <3>2. c < b \/ (c = b /\ d < a)
      BY <3>1, PlacesOrdered
    <3>3. b = c => d # a - 1
      BY <3>1
    <3>4. c < b \/ (c = b /\ d < a - 1)
      BY <1>1, <1>2, <3>2, <3>3
    <3> QED
      BY <2>1, <3>1, <3>4, PlacesOrdered
  <2> QED
    BY <2>2, <2>3 DEF IsLast
<1>6. ASSUME a = 1
      PROVE  before = UpTo(b - 1)
  <2>1. ASSUME NEW j \in before
        PROVE  j \in UpTo(b - 1)
    <3>0. PICK c \in Blocks : InBlock(j, c)
      BY <1>1
    <3>1. PICK d \in 1 .. Len(table[c]) : table[c][d] = j
      BY <3>0 DEF InBlock
    <3>2. c < b \/ (c = b /\ d < a)
      BY <3>1, PlacesOrdered
    <3>3. c <= b - 1
      BY <1>1, <1>2, <1>6, <3>2
    <3> QED
      BY <3>1, <3>3 DEF UpTo, InBlock
  <2>2. ASSUME NEW j \in UpTo(b - 1)
        PROVE  j \in before
    <3>1. PICK c \in Blocks : c <= b - 1 /\ InBlock(j, c)
      BY DEF UpTo
    <3>2. PICK d \in 1 .. Len(table[c]) : table[c][d] = j
      BY <3>1 DEF InBlock
    <3>3. c < b
      BY <1>1, <1>2, <3>1
    <3> QED
      BY <3>2, <3>3, PlacesOrdered DEF UpTo
  <2> HIDE DEF before
  <2> QED
    BY <2>1, <2>2
<1> QED
  BY <1>3, <1>4, <1>5, <1>6

-----------------------------------------------------------------------------
(* TwoLevelIterator *)

Positions == [at : Int, restart : Int]
DatabaseOK == UpdatesOK /\ TableHolds /\ unreadable \subseteq Blocks /\ loose \in BOOLEAN

TableIters == [index : Positions, data : Positions, block : Int, failed : BOOLEAN]

(* The data iterator is one of the block it was made for, *)
DataOK(t) ==
    \/ t.data = NoIter
    \/ /\ t.block \in Blocks
       /\ IF t.block \in unreadable THEN t.data = ErrorIter
          ELSE BIter(Size(t), RestartInterval, t.data)

(* which is the block of the index iterator, *)
Walks(t) ==
    /\ t \in TableIters /\ BIter(Len(table), 1, t.index) /\ DataOK(t)
    /\ IF IndexValid(t) THEN t.data # NoIter /\ t.block = t.index.at ELSE t.data = NoIter

(* and shows an entry of it between two calls. *)
TableOK(t) == Walks(t) /\ (DataValid(t) \/ ~IndexValid(t))

(* What else a step of the iterator keeps *)
Keeps(t, u) ==
    /\ Failed(t) => Failed(u)
    /\ unreadable = {} /\ ~Failed(t) => ~Failed(u)

LEMMA KeepsOn ==
    ASSUME NEW t, NEW u, NEW v, Keeps(t, u), Keeps(u, v)
    PROVE  Keeps(t, v)
  BY DEF Keeps

LEMMA BIterTypes ==
    ASSUME NEW n \in Nat, NEW r, NEW it, BIter(n, r, it)
    PROVE  it \in Positions /\ it.at \in 1 .. n + 1 /\ it # NoIter /\ it # ErrorIter
<1>1. it \in [at : 1 .. n + 1, restart : Nat]
  BY DEF BIter
<1>2. it.at \in 1 .. n + 1 /\ it \in Positions
  BY <1>1 DEF Positions
<1>3. NoIter.at = -1 /\ ErrorIter.at = 0
  BY DEF NoIter, ErrorIter
<1> QED
  BY <1>2, <1>3

LEMMA NoIters ==
    NoIter \in Positions /\ ErrorIter \in Positions /\ NoIter # ErrorIter
<1>1. NoIter \in Positions /\ ErrorIter \in Positions
  BY DEF NoIter, ErrorIter, Positions
<1>2. NoIter.at = -1 /\ ErrorIter.at = 0
  BY DEF NoIter, ErrorIter
<1> QED
  BY <1>1, <1>2

(* What walks, said without the nesting *)
LEMMA WalksCases ==
    ASSUME DatabaseOK, NEW t, Walks(t)
    PROVE  /\ t \in TableIters /\ t.index.at \in 1 .. Len(table) + 1 /\ Len(table) \in Nat \ {0}
           /\ IndexValid(t) <=> t.index.at \in Blocks
           /\ ~IndexValid(t) => t.data = NoIter /\ ~DataValid(t) /\ EntryAt(t) = 0
           /\ IndexValid(t) /\ t.block \in unreadable =>
                 t.block = t.index.at /\ t.data = ErrorIter /\ ~DataValid(t) /\ ~IsBlock(t) /\ Failed(t)
           /\ IndexValid(t) /\ t.block \notin unreadable =>
                 /\ t.block = t.index.at /\ IsBlock(t) /\ t.data # ErrorIter
                 /\ BIter(Size(t), RestartInterval, t.data)
                 /\ Size(t) = Len(table[t.index.at]) /\ Size(t) \in Nat \ {0}
                 /\ t.data.at \in 1 .. Size(t) + 1
                 /\ DataValid(t) <=> t.data.at \in 1 .. Size(t)
                 /\ DataValid(t) => EntryAt(t) = table[t.index.at][t.data.at]
<1>1. Len(table) \in Nat \ {0} /\ Blocks = 1 .. Len(table) /\ \A b \in Blocks : Len(table[b]) \in Nat \ {0}
  BY BlockFacts DEF DatabaseOK
<1>2. t \in TableIters /\ t.index.at \in 1 .. Len(table) + 1
  BY <1>1, BIterTypes DEF Walks
<1>3. IndexValid(t) <=> t.index.at \in Blocks
  BY <1>1, <1>2 DEF IndexValid
<1>4. CASE ~IndexValid(t)
  <2>1. t.data = NoIter
    BY <1>4 DEF Walks
  <2>2. ~DataValid(t) /\ EntryAt(t) = 0
    BY <2>1 DEF DataValid, IsBlock, EntryAt
  <2> QED
    BY <1>1, <1>2, <1>3, <1>4, <2>1, <2>2
<1>5. CASE IndexValid(t) /\ t.block \in unreadable
  <2>1. t.block = t.index.at /\ t.data = ErrorIter
    BY <1>5 DEF Walks, DataOK
  <2>2. ~DataValid(t) /\ ~IsBlock(t) /\ Failed(t)
    BY <2>1 DEF DataValid, IsBlock, Failed
  <2> QED
    BY <1>1, <1>2, <1>3, <1>5, <2>1, <2>2
<1>6. CASE IndexValid(t) /\ t.block \notin unreadable
  <2>1. t.block = t.index.at /\ BIter(Size(t), RestartInterval, t.data)
    BY <1>6 DEF Walks, DataOK
  <2>2. Size(t) = Len(table[t.index.at]) /\ Size(t) \in Nat \ {0}
    BY <1>1, <1>3, <1>6, <2>1 DEF Size
  <2>3. t.data.at \in 1 .. Size(t) + 1 /\ t.data # NoIter /\ t.data # ErrorIter
    BY <2>1, <2>2, BIterTypes
  <2>4. IsBlock(t)
    BY <2>3 DEF IsBlock
  <2>5. DataValid(t) <=> t.data.at \in 1 .. Size(t)
    BY <2>2, <2>3, <2>4 DEF DataValid
  <2>6. DataValid(t) => EntryAt(t) = table[t.index.at][t.data.at]
    BY <2>1 DEF EntryAt
  <2> QED
    BY <1>1, <1>2, <1>3, <1>6, <2>1, <2>2, <2>3, <2>4, <2>5, <2>6
<1> QED
  BY <1>4, <1>5, <1>6

(* InitDataBlock makes the data iterator one of the index's block. *)
LEMMA InitDataBlockIs ==
    ASSUME DatabaseOK, NEW t, t \in TableIters, BIter(Len(table), 1, t.index), DataOK(t)
    PROVE  LET u == InitDataBlock(t)
           IN  Walks(u) /\ u.index = t.index /\ Keeps(t, u)
<1> DEFINE u == InitDataBlock(t)
           n == Len(table)
<1>1. n \in Nat \ {0} /\ Blocks = 1 .. n /\ \A b \in Blocks : Len(table[b]) \in Nat \ {0}
  BY BlockFacts DEF DatabaseOK
<1>2. t.index.at \in 1 .. n + 1 /\ (IndexValid(t) <=> t.index.at \in Blocks)
  BY <1>1, BIterTypes DEF IndexValid
<1>3. RestartInterval \in Nat \ {0}
  BY IteratorsAssumption
<1>4. t.failed \in BOOLEAN /\ Failed(t) \in BOOLEAN
  BY DEF TableIters, Failed
<1>5. CASE ~IndexValid(t)
  <2>1. u = [t EXCEPT !.data = NoIter, !.failed = Failed(t)]
    BY <1>5 DEF InitDataBlock, SetDataIterator
  <2>2. /\ u \in TableIters /\ u.index = t.index /\ u.data = NoIter /\ u.failed = Failed(t)
    BY <1>4, <2>1, NoIters DEF TableIters
  <2>3. ~IndexValid(u)
    BY <1>5, <2>2 DEF IndexValid
  <2>4. Walks(u)
    BY <2>2, <2>3 DEF Walks, DataOK
  <2>5. Failed(u) = Failed(t)
    BY <2>2, NoIters DEF Failed
  <2> QED
    BY <2>2, <2>4, <2>5 DEF Keeps
<1>6. CASE IndexValid(t) /\ t.data # NoIter /\ t.block = t.index.at
  <2>1. u = t
    BY <1>6 DEF InitDataBlock
  <2>2. Walks(u)
    BY <1>6, <2>1 DEF Walks
  <2> QED
    BY <2>1, <2>2 DEF Keeps
<1>7. CASE IndexValid(t) /\ ~(t.data # NoIter /\ t.block = t.index.at)
  <2> DEFINE b == t.index.at
             data == IF b \in unreadable THEN ErrorIter ELSE BlockEnd(Len(table[b]), RestartInterval)
  <2>1. u = [[t EXCEPT !.data = data, !.failed = Failed(t)] EXCEPT !.block = b]
    BY <1>7 DEF InitDataBlock, SetDataIterator
  <2>2. b \in Blocks /\ b \in Int /\ Len(table[b]) \in Nat \ {0}
    BY <1>1, <1>2, <1>7
  <2>3. /\ data \in Positions /\ data # NoIter
        /\ b \notin unreadable => BIter(Len(table[b]), RestartInterval, data) /\ data # ErrorIter
    BY <1>3, <2>2, BlockEndIs, BIterTypes, NoIters
  <2>4. b \in unreadable => data = ErrorIter
    OBVIOUS
  <2> HIDE DEF data
  <2>5. /\ u \in TableIters /\ u.index = t.index /\ u.data = data /\ u.failed = Failed(t) /\ u.block = b
    BY <1>4, <2>1, <2>2, <2>3 DEF TableIters
  <2>6. IndexValid(u) /\ Size(u) = Len(table[b])
    BY <1>7, <2>5 DEF IndexValid, Size
  <2>7. Walks(u)
    BY <2>2, <2>3, <2>4, <2>5, <2>6 DEF Walks, DataOK
  <2>8. Failed(u) <=> Failed(t) \/ b \in unreadable
    BY <2>3, <2>4, <2>5 DEF Failed
  <2> QED
    BY <2>5, <2>7, <2>8 DEF Keeps
<1> QED
  BY <1>5, <1>6, <1>7

(* A move of the data iterator within its block *)
LEMMA DataMoved ==
    ASSUME DatabaseOK, NEW t, Walks(t), IsBlock(t), NEW data,
           BIter(Size(t), RestartInterval, data)
    PROVE  LET u == [t EXCEPT !.data = data]
           IN  /\ Walks(u) /\ u.index = t.index /\ u.data = data /\ Keeps(t, u)
               /\ t.block \notin unreadable /\ IndexValid(u) /\ u.block \notin unreadable
               /\ Size(u) = Size(t)
<1> DEFINE u == [t EXCEPT !.data = data]
<1>1. IndexValid(t) /\ t.block \notin unreadable /\ t.data # ErrorIter /\ t.data # NoIter
      /\ Size(t) \in Nat /\ t \in TableIters
  BY WalksCases DEF IsBlock
<1>2. data \in Positions /\ data # NoIter /\ data # ErrorIter
  BY <1>1, BIterTypes
<1>3. /\ u \in TableIters /\ u.index = t.index /\ u.data = data /\ u.block = t.block
      /\ u.failed = t.failed
  BY <1>1, <1>2 DEF TableIters
<1> HIDE DEF u
<1>4. Size(u) = Size(t) /\ (IndexValid(u) <=> IndexValid(t))
  BY <1>3 DEF Size, IndexValid
<1>5. t.block \in Blocks /\ t.block = t.index.at /\ BIter(Len(table), 1, t.index)
  BY <1>1 DEF Walks, DataOK
<1>6. Walks(u)
  BY <1>1, <1>2, <1>3, <1>4, <1>5 DEF Walks, DataOK
<1>7. Failed(u) <=> Failed(t)
  BY <1>1, <1>2, <1>3 DEF Failed
<1> QED
  BY <1>1, <1>3, <1>4, <1>6, <1>7 DEF Keeps, u

LEMMA IndexMoved ==
    ASSUME DatabaseOK, NEW t, Walks(t), NEW x, BIter(Len(table), 1, x)
    PROVE  LET u == [t EXCEPT !.index = x]
           IN  /\ u \in TableIters /\ u.index = x /\ BIter(Len(table), 1, u.index) /\ DataOK(u)
               /\ Keeps(t, u)
<1> DEFINE u == [t EXCEPT !.index = x]
<1>1. Len(table) \in Nat /\ t \in TableIters /\ DataOK(t)
  BY BlockFacts DEF DatabaseOK, Walks
<1>2. x \in Positions
  BY <1>1, BIterTypes
<1>3. u \in TableIters /\ u.index = x /\ u.data = t.data /\ u.block = t.block /\ u.failed = t.failed
  BY <1>1, <1>2 DEF TableIters
<1> HIDE DEF u
<1>4. Size(u) = Size(t)
  BY <1>3 DEF Size
<1>5. DataOK(u)
  BY <1>1, <1>3, <1>4 DEF DataOK
<1>6. Failed(u) <=> Failed(t)
  BY <1>3 DEF Failed
<1> QED
  BY <1>3, <1>5, <1>6 DEF Keeps, u

(* The ends of a block, in its data iterator *)
LEMMA BlockStarts ==
    ASSUME DatabaseOK, NEW t, t \in TableIters, BIter(Len(table), 1, t.index), DataOK(t)
    PROVE  LET u == DataFirst(InitDataBlock(t))
           IN  /\ Walks(u) /\ u.index = t.index /\ Keeps(t, u)
               /\ IndexValid(u) /\ ~Failed(u) => DataValid(u) /\ EntryAt(u) = table[t.index.at][1]
<1> DEFINE s == InitDataBlock(t)
           u == DataFirst(s)
<1>1. Walks(s) /\ s.index = t.index /\ Keeps(t, s)
  BY InitDataBlockIs
<1> HIDE DEF s
<1>2. CASE ~IsBlock(s)
  <2>1. u = s
    BY <1>2 DEF DataFirst
  <2>2. ~(IndexValid(s) /\ ~Failed(s))
    BY <1>1, <1>2, WalksCases
  <2> QED
    BY <1>1, <2>1, <2>2 DEF s
<1>3. CASE IsBlock(s)
  <2> DEFINE data == BlockFirst(Size(s), RestartInterval)
  <2>1. u = [s EXCEPT !.data = data]
    BY <1>3 DEF DataFirst
  <2>2. IndexValid(s) /\ s.block \notin unreadable
    BY <1>1, <1>3, WalksCases DEF IsBlock
  <2>3. Size(s) \in Nat \ {0}
    BY <1>1, <2>2, WalksCases
  <2>4. BIter(Size(s), RestartInterval, data) /\ data.at = 1
    BY <2>3, BlockFirstIs, IteratorsAssumption
  <2> HIDE DEF data
  <2>5. /\ Walks(u) /\ u.index = s.index /\ u.data = data /\ Keeps(s, u)
        /\ IndexValid(u) /\ u.block \notin unreadable /\ Size(u) = Size(s)
    BY <1>1, <1>3, <2>1, <2>4, DataMoved
  <2> HIDE DEF u
  <2>6. DataValid(u) /\ EntryAt(u) = table[t.index.at][1]
    BY <1>1, <2>3, <2>4, <2>5, WalksCases, SMTT(40)
  <2>7. Keeps(t, u)
    BY <1>1, <2>5, KeepsOn
  <2> QED
    BY <1>1, <2>5, <2>6, <2>7 DEF u, s
<1> QED
  BY <1>2, <1>3

LEMMA BlockEnds ==
    ASSUME DatabaseOK, NEW t, t \in TableIters, BIter(Len(table), 1, t.index), DataOK(t)
    PROVE  LET u == DataLast(InitDataBlock(t))
           IN  /\ Walks(u) /\ u.index = t.index /\ Keeps(t, u)
               /\ IndexValid(u) /\ ~Failed(u) => DataValid(u) /\ EntryAt(u) = LastIn(t.index.at)
<1> DEFINE s == InitDataBlock(t)
           u == DataLast(s)
<1>1. Walks(s) /\ s.index = t.index /\ Keeps(t, s)
  BY InitDataBlockIs
<1> HIDE DEF s
<1>2. CASE ~IsBlock(s)
  <2>1. u = s
    BY <1>2 DEF DataLast
  <2>2. ~(IndexValid(s) /\ ~Failed(s))
    BY <1>1, <1>2, WalksCases
  <2> QED
    BY <1>1, <2>1, <2>2 DEF s
<1>3. CASE IsBlock(s)
  <2> DEFINE data == BlockLast(Size(s), RestartInterval)
  <2>1. u = [s EXCEPT !.data = data]
    BY <1>3 DEF DataLast
  <2>2. IndexValid(s) /\ s.block \notin unreadable
    BY <1>1, <1>3, WalksCases DEF IsBlock
  <2>3. Size(s) \in Nat \ {0} /\ Size(s) = Len(table[t.index.at])
    BY <1>1, <2>2, WalksCases
  <2>4. BIter(Size(s), RestartInterval, data) /\ data.at = Size(s)
    BY <2>3, BlockLastIs, IteratorsAssumption
  <2> HIDE DEF data
  <2>5. /\ Walks(u) /\ u.index = s.index /\ u.data = data /\ Keeps(s, u)
        /\ IndexValid(u) /\ u.block \notin unreadable /\ Size(u) = Size(s)
    BY <1>1, <1>3, <2>1, <2>4, DataMoved
  <2> HIDE DEF u
  <2>6. DataValid(u) /\ EntryAt(u) = table[t.index.at][Size(s)]
    <3>1. u.data.at \in 1 .. Size(u) /\ u.index.at = t.index.at
      BY <1>1, <2>3, <2>4, <2>5
    <3>2. DataValid(u) /\ EntryAt(u) = table[u.index.at][u.data.at]
      BY <2>5, <3>1, WalksCases
    <3> QED
      BY <2>4, <2>5, <3>1, <3>2
  <2>7. Keeps(t, u)
    BY <1>1, <2>5, KeepsOn
  <2> QED
    BY <1>1, <2>3, <2>5, <2>6, <2>7 DEF u, s, LastIn
<1> QED
  BY <1>2, <1>3

(* An iterator on its way to the first or the last of the entries W *)
LeadsOn(t, W) ==
    \/ Failed(t)
    \/ IF DataValid(t) THEN IsFirst(EntryAt(t), W)
       ELSE W = IF IndexValid(t) THEN From(t.index.at + 1) ELSE {}
LeadsBack(t, W) ==
    \/ Failed(t)
    \/ IF DataValid(t) THEN IsLast(EntryAt(t), W)
       ELSE W = IF IndexValid(t) THEN UpTo(t.index.at - 1) ELSE {}
LeadsTo(t, W, way) == IF way = "forward" THEN LeadsOn(t, W) ELSE LeadsBack(t, W)

LEMMA FirstLeads ==
    ASSUME DatabaseOK, NEW t, t \in TableIters, BIter(Len(table), 1, t.index), DataOK(t),
           NEW W, W = IF t.index.at \in Blocks THEN From(t.index.at) ELSE {}
    PROVE  LET u == DataFirst(InitDataBlock(t))
           IN  Walks(u) /\ u.index = t.index /\ Keeps(t, u) /\ LeadsOn(u, W)
<1> DEFINE u == DataFirst(InitDataBlock(t))
<1>1. /\ Walks(u) /\ u.index = t.index /\ Keeps(t, u)
      /\ IndexValid(u) /\ ~Failed(u) => DataValid(u) /\ EntryAt(u) = table[t.index.at][1]
  BY BlockStarts
<1> HIDE DEF u
<1>2. LeadsOn(u, W)
  <2>1. CASE Failed(u)
    BY <2>1 DEF LeadsOn
  <2>2. CASE ~Failed(u) /\ IndexValid(u)
    <3>1. t.index.at \in Blocks
      BY <1>1, <2>2, WalksCases
    <3>2. IsFirst(table[t.index.at][1], W)
      BY <3>1, EndsOfBlocks DEF DatabaseOK
    <3> QED
      BY <1>1, <2>2, <3>2 DEF LeadsOn
  <2>3. CASE ~IndexValid(u)
    <3>1. t.index.at \notin Blocks /\ ~DataValid(u)
      BY <1>1, <2>3, WalksCases
    <3> QED
      BY <2>3, <3>1 DEF LeadsOn
  <2> QED
    BY <2>1, <2>2, <2>3
<1> QED
  BY <1>1, <1>2 DEF u

LEMMA LastLeads ==
    ASSUME DatabaseOK, NEW t, t \in TableIters, BIter(Len(table), 1, t.index), DataOK(t),
           NEW W, W = IF t.index.at \in Blocks THEN UpTo(t.index.at) ELSE {}
    PROVE  LET u == DataLast(InitDataBlock(t))
           IN  Walks(u) /\ u.index = t.index /\ Keeps(t, u) /\ LeadsBack(u, W)
<1> DEFINE u == DataLast(InitDataBlock(t))
<1>1. /\ Walks(u) /\ u.index = t.index /\ Keeps(t, u)
      /\ IndexValid(u) /\ ~Failed(u) => DataValid(u) /\ EntryAt(u) = LastIn(t.index.at)
  BY BlockEnds
<1> HIDE DEF u
<1>2. LeadsBack(u, W)
  <2>1. CASE Failed(u)
    BY <2>1 DEF LeadsBack
  <2>2. CASE ~Failed(u) /\ IndexValid(u)
    <3>1. t.index.at \in Blocks
      BY <1>1, <2>2, WalksCases
    <3>2. IsLast(LastIn(t.index.at), W)
      BY <3>1, EndsOfBlocks DEF DatabaseOK
    <3> QED
      BY <1>1, <2>2, <3>2 DEF LeadsBack
  <2>3. CASE ~IndexValid(u)
    <3>1. t.index.at \notin Blocks /\ ~DataValid(u)
      BY <1>1, <2>3, WalksCases
    <3> QED
      BY <2>3, <3>1 DEF LeadsBack
  <2> QED
    BY <2>1, <2>2, <2>3
<1> QED
  BY <1>1, <1>2 DEF u

LEMMA ForwardIs ==
    ASSUME DatabaseOK, NEW t, Walks(t), IndexValid(t), ~DataValid(t), NEW W, LeadsOn(t, W)
    PROVE  LET u == Forward(t)
           IN  Walks(u) /\ Keeps(t, u) /\ LeadsOn(u, W) /\ u.index.at = t.index.at + 1
<1> DEFINE n == Len(table)
           x == BlockNext(n, 1, t.index)
           s == [t EXCEPT !.index = x]
           u == DataFirst(InitDataBlock(s))
           V == IF s.index.at \in Blocks THEN From(s.index.at) ELSE {}
<1>1. n \in Nat \ {0} /\ Blocks = 1 .. n /\ t.index.at \in 1 .. n /\ BIter(n, 1, t.index)
  BY WalksCases DEF Walks, Blocks
<1>2. BIter(n, 1, x) /\ x.at = t.index.at + 1
  BY <1>1, BlockNextIs
<1> HIDE DEF x
<1>3. s \in TableIters /\ s.index = x /\ BIter(n, 1, s.index) /\ DataOK(s) /\ Keeps(t, s)
  BY <1>2, IndexMoved
<1> HIDE DEF s
<1>4. Walks(u) /\ u.index = s.index /\ Keeps(s, u) /\ LeadsOn(u, V)
  BY <1>3, FirstLeads
<1>5. Forward(t) = u
  BY DEF Forward, s, x
<1> HIDE DEF u
<1>6. Keeps(t, u)
  BY <1>3, <1>4, KeepsOn
<1>7. LeadsOn(u, W)
  <2>1. CASE Failed(t)
    BY <1>6, <2>1 DEF Keeps, LeadsOn
  <2>2. CASE ~Failed(t)
    <3>1. W = From(x.at)
      BY <1>2, <2>2 DEF LeadsOn
    <3>2. x.at \notin Blocks => x.at = n + 1
      BY <1>1, <1>2
    <3>3. W = V
      BY <1>3, <3>1, <3>2, EndsOfBlocks DEF DatabaseOK
    <3> QED
      BY <1>4, <3>3
  <2> QED
    BY <2>1, <2>2
<1> QED
  BY <1>2, <1>3, <1>4, <1>5, <1>6, <1>7

LEMMA BackwardIs ==
    ASSUME DatabaseOK, NEW t, Walks(t), IndexValid(t), ~DataValid(t), NEW W, LeadsBack(t, W)
    PROVE  LET u == Backward(t)
           IN  /\ Walks(u) /\ Keeps(t, u) /\ LeadsBack(u, W)
               /\ u.index.at = IF t.index.at = 1 THEN Len(table) + 1 ELSE t.index.at - 1
<1> DEFINE n == Len(table)
           x == BlockPrev(n, 1, t.index)
           s == [t EXCEPT !.index = x]
           u == DataLast(InitDataBlock(s))
           V == IF s.index.at \in Blocks THEN UpTo(s.index.at) ELSE {}
<1>1. n \in Nat \ {0} /\ Blocks = 1 .. n /\ t.index.at \in 1 .. n /\ BIter(n, 1, t.index)
  BY WalksCases DEF Walks, Blocks
<1>2. BIter(n, 1, x) /\ x.at = IF t.index.at = 1 THEN n + 1 ELSE t.index.at - 1
  BY <1>1, BlockPrevIs
<1> HIDE DEF x
<1>3. s \in TableIters /\ s.index = x /\ BIter(n, 1, s.index) /\ DataOK(s) /\ Keeps(t, s)
  BY <1>2, IndexMoved
<1> HIDE DEF s
<1>4. Walks(u) /\ u.index = s.index /\ Keeps(s, u) /\ LeadsBack(u, V)
  BY <1>3, LastLeads
<1>5. Backward(t) = u
  BY DEF Backward, s, x
<1> HIDE DEF u
<1>6. Keeps(t, u)
  BY <1>3, <1>4, KeepsOn
<1>7. LeadsBack(u, W)
  <2>1. CASE Failed(t)
    BY <1>6, <2>1 DEF Keeps, LeadsBack
  <2>2. CASE ~Failed(t)
    <3>1. W = UpTo(t.index.at - 1)
      BY <2>2 DEF LeadsBack
    <3>2. IF t.index.at = 1 THEN x.at \notin Blocks /\ t.index.at - 1 = 0
          ELSE x.at \in Blocks /\ x.at = t.index.at - 1
      BY <1>1, <1>2
    <3>3. W = V
      BY <1>3, <3>1, <3>2, EndsOfBlocks DEF DatabaseOK
    <3> QED
      BY <1>4, <3>3
  <2> QED
    BY <2>1, <2>2
<1> QED
  BY <1>2, <1>3, <1>4, <1>5, <1>6, <1>7

-----------------------------------------------------------------------------
(* SkipEmptyDataBlocksForward and Backward *)

(* How far there is to go: to the block after the last, or before the first *)
Left(t, way) == IF way = "forward" THEN Len(table) + 1 - t.index.at
                ELSE IF IndexValid(t) THEN t.index.at ELSE 0
OnTheWay(t, u, W, way) == Walks(u) /\ Keeps(t, u) /\ LeadsTo(u, W, way)
Arrived(u)             == TableOK(u)

LEMMA SkippedOneIs ==
    ASSUME DatabaseOK, NEW t, Walks(t), NEW W, NEW way \in {"forward", "backward"},
           LeadsTo(t, W, way)
    PROVE  LET u == SkippedOne(t, way)
           IN  /\ OnTheWay(t, u, W, way)
               /\ TableOK(t) => Arrived(u)
               /\ Arrived(u) \/ (Left(u, way) <= Left(t, way) - 1)
<1> DEFINE u == SkippedOne(t, way)
<1>1. t.index.at \in 1 .. Len(table) + 1 /\ Len(table) \in Nat \ {0}
      /\ (IndexValid(t) <=> t.index.at \in 1 .. Len(table))
  BY WalksCases DEF Blocks
<1>2. CASE DataValid(t)
  <2>1. u = t /\ TableOK(t)
    BY <1>2 DEF SkippedOne, TableOK
  <2> QED
    BY <2>1 DEF OnTheWay, Arrived, Keeps
<1>3. CASE ~DataValid(t) /\ ~IndexValid(t)
  <2>1. u = SetDataIterator(t, NoIter)
    BY <1>3 DEF SkippedOne
  <2>2. t \in TableIters /\ t.data = NoIter /\ TableOK(t)
    BY <1>3, WalksCases DEF TableOK
  <2>3. u \in TableIters /\ u.index = t.index /\ u.data = t.data /\ u.block = t.block
        /\ u.failed = Failed(t)
    BY <2>1, <2>2 DEF SetDataIterator, TableIters, Failed
  <2> HIDE DEF u
  <2>4. Failed(u) <=> Failed(t)
    BY <2>3 DEF Failed
  <2>5. IndexValid(u) = IndexValid(t) /\ DataValid(u) = DataValid(t) /\ EntryAt(u) = EntryAt(t)
        /\ Size(u) = Size(t)
    BY <2>3 DEF IndexValid, DataValid, EntryAt, Size, IsBlock
  <2>6. Walks(u)
    BY <2>3, <2>5 DEF Walks, DataOK
  <2>7. LeadsTo(u, W, way)
    BY <2>3, <2>4, <2>5 DEF LeadsTo, LeadsOn, LeadsBack
  <2>8. Arrived(u)
    BY <2>6, <2>5, <1>3 DEF Arrived, TableOK
  <2> QED
    BY <2>4, <2>6, <2>7, <2>8 DEF OnTheWay, Keeps, u
<1>4. CASE ~DataValid(t) /\ IndexValid(t)
  <2>1. ~TableOK(t)
    BY <1>4 DEF TableOK
  <2>2. CASE way = "forward"
    <3>1. u = Forward(t) /\ LeadsOn(t, W)
      BY <1>4, <2>2 DEF SkippedOne, LeadsTo
    <3> HIDE DEF u
    <3>2. Walks(u) /\ Keeps(t, u) /\ LeadsOn(u, W) /\ u.index.at = t.index.at + 1
      BY <1>4, <3>1, ForwardIs
    <3>3. Left(u, way) <= Left(t, way) - 1
      BY <1>1, <2>2, <3>2 DEF Left
    <3> QED
      BY <2>1, <2>2, <3>2, <3>3 DEF OnTheWay, LeadsTo, u
  <2>3. CASE way = "backward"
    <3>1. u = Backward(t) /\ LeadsBack(t, W)
      BY <1>4, <2>3 DEF SkippedOne, LeadsTo
    <3> HIDE DEF u
    <3>2. Walks(u) /\ Keeps(t, u) /\ LeadsBack(u, W)
          /\ u.index.at = IF t.index.at = 1 THEN Len(table) + 1 ELSE t.index.at - 1
      BY <1>4, <3>1, BackwardIs
    <3>3. IndexValid(u) <=> t.index.at # 1
      BY <1>1, <1>4, <3>2 DEF IndexValid
    <3>4. Left(u, way) <= Left(t, way) - 1
      BY <1>1, <1>4, <2>3, <3>2, <3>3 DEF Left
    <3> QED
      BY <2>1, <2>3, <3>2, <3>4 DEF OnTheWay, LeadsTo, u
  <2> QED
    BY <2>2, <2>3
<1> QED
  BY <1>2, <1>3, <1>4

IsSkip(f, n, t, way) ==
    f = [k \in 0 .. n |-> IF k = 0 THEN t ELSE SkippedOne(f[k - 1], way)]

LEMMA SkipExists ==
    ASSUME NEW n \in Nat, NEW t, NEW way
    PROVE  \E f : IsSkip(f, n, t, way)
<1> DEFINE S == {m \in 0 .. n : \E f : IsSkip(f, m, t, way)}
<1>1. 0 \in S
  <2> DEFINE f == [i \in 0 .. 0 |-> t]
  <2>1. IsSkip(f, 0, t, way)
    BY DEF IsSkip
  <2> HIDE DEF f
  <2> QED
    BY <2>1
<1>2. ASSUME NEW m \in 1 .. n, m - 1 \in S
      PROVE  m \in S
  <2>1. PICK f : IsSkip(f, m - 1, t, way)
    BY <1>2
  <2> DEFINE h == [k \in 0 .. m |-> IF k = m THEN SkippedOne(f[m - 1], way) ELSE f[k]]
  <2>2. \A k \in 0 .. m : h[k] = IF k = 0 THEN t ELSE SkippedOne(h[k - 1], way)
    <3> TAKE k \in 0 .. m
    <3>1. CASE k = m
      <4>1. k # 0 /\ h[k] = SkippedOne(f[m - 1], way) /\ h[m - 1] = f[m - 1]
        BY <3>1
      <4> QED
        BY <3>1, <4>1
    <3>2. CASE k # m
      <4>1. k \in 0 .. m - 1 /\ h[k] = f[k]
        BY <3>2
      <4>2. f[k] = IF k = 0 THEN t ELSE SkippedOne(f[k - 1], way)
        BY <2>1, <4>1 DEF IsSkip
      <4>3. k # 0 => h[k - 1] = f[k - 1]
        BY <4>1
      <4> QED
        BY <4>1, <4>2, <4>3
    <3> QED
      BY <3>1, <3>2
  <2>3. h = [k \in 0 .. m |-> h[k]]
    OBVIOUS
  <2> HIDE DEF h
  <2>4. IsSkip(h, m, t, way)
    BY <2>2, <2>3 DEF IsSkip
  <2> QED
    BY <2>4
<1> HIDE DEF S
<1>3. \A m \in 0 .. n : m \in S
  BY <1>1, <1>2, UpToInduction
<1> QED
  BY <1>3 DEF S

(* The loop ends at an entry or outside the table, and passes no entry of  *)
(* a block that can be read.                                               *)
LEMMA SkippedIs ==
    ASSUME DatabaseOK, NEW t, Walks(t), NEW W, NEW way \in {"forward", "backward"},
           LeadsTo(t, W, way)
    PROVE  LET u == Skipped(t, way)
           IN  TableOK(u) /\ Keeps(t, u) /\ LeadsTo(u, W, way)
<1> DEFINE n == Len(table) + 2
           f == CHOOSE f : IsSkip(f, Len(table) + 2, t, way)
           Good(k) == /\ OnTheWay(t, f[k], W, way)
                      /\ Arrived(f[k]) \/ Left(f[k], way) <= n - 1 - k
           S == {k \in 0 .. n : Good(k)}
<1>1. n \in Nat /\ Len(table) \in Nat
  BY BlockFacts DEF DatabaseOK
<1>2. IsSkip(f, n, t, way)
  BY <1>1, SkipExists, Zenon
<1>3. Skipped(t, way) = f[n]
  BY Zenon DEF Skipped, IsSkip
<1> HIDE DEF f
<1>4. \A u : Walks(u) => Left(u, way) \in 0 .. n - 1
  <2> TAKE u
  <2> HAVE Walks(u)
  <2>1. u.index.at \in 1 .. Len(table) + 1
    BY WalksCases
  <2> QED
    BY <1>1, <2>1 DEF Left
<1>5. 0 \in S
  <2>1. f[0] = t
    BY <1>1, <1>2 DEF IsSkip
  <2>2. OnTheWay(t, t, W, way)
    BY DEF OnTheWay, Keeps
  <2>3. Left(t, way) <= n - 1 - 0
    BY <1>1, <1>4
  <2> QED
    BY <1>1, <2>1, <2>2, <2>3
<1>6. ASSUME NEW k \in 1 .. n, k - 1 \in S
      PROVE  k \in S
  <2>1. f[k] = SkippedOne(f[k - 1], way)
    BY <1>2 DEF IsSkip
  <2>2. OnTheWay(t, f[k - 1], W, way) /\ (Arrived(f[k - 1]) \/ Left(f[k - 1], way) <= n - 1 - (k - 1))
    BY <1>6
  <2>3. Walks(f[k - 1]) /\ Keeps(t, f[k - 1]) /\ LeadsTo(f[k - 1], W, way)
    BY <2>2 DEF OnTheWay
  <2>4. /\ OnTheWay(f[k - 1], f[k], W, way)
        /\ TableOK(f[k - 1]) => Arrived(f[k])
        /\ Arrived(f[k]) \/ Left(f[k], way) <= Left(f[k - 1], way) - 1
    BY <2>1, <2>3, SkippedOneIs
  <2>5. OnTheWay(t, f[k], W, way)
    BY <2>3, <2>4, KeepsOn DEF OnTheWay
  <2>6. CASE Arrived(f[k - 1])
    BY <2>4, <2>5, <2>6 DEF Arrived
  <2>7. CASE ~Arrived(f[k - 1]) /\ ~Arrived(f[k])
    <3>1. Left(f[k - 1], way) \in Int /\ Left(f[k], way) \in Int
      BY <1>1, <1>4, <2>3, <2>5 DEF OnTheWay
    <3>2. Left(f[k], way) <= n - 1 - k
      BY <1>1, <2>2, <2>4, <2>7, <3>1
    <3> QED
      BY <2>5, <3>2
  <2> QED
    BY <2>5, <2>6, <2>7
<1> HIDE DEF S
<1>7. \A k \in 0 .. n : k \in S
  BY <1>1, <1>5, <1>6, UpToInduction
<1>8. Good(n)
  BY <1>1, <1>7 DEF S
<1>9. Walks(f[n])
  BY <1>8 DEF OnTheWay
<1>10. Arrived(f[n])
  <2>1. Left(f[n], way) \in 0 .. n - 1
    BY <1>4, <1>9
  <2> QED
    BY <1>1, <1>8, <2>1
<1> QED
  BY <1>3, <1>8, <1>10 DEF Arrived, OnTheWay

-----------------------------------------------------------------------------
(* The operations of TwoLevelIterator: but for blocks that cannot be read, *)
(* those of an iterator over the flushed entries.                          *)

Flushes == 1 .. Flushed

(* An operation gets from t to u, at the first or the last entry of W. *)
GetsToFirst(t, u, W) == TableOK(u) /\ Keeps(t, u) /\ (Failed(u) \/ IsFirst(EntryAt(u), W))
GetsToLast(t, u, W)  == TableOK(u) /\ Keeps(t, u) /\ (Failed(u) \/ IsLast(EntryAt(u), W))

LEMMA SkipForwardIs ==
    ASSUME DatabaseOK, NEW t, Walks(t), NEW W, LeadsOn(t, W)
    PROVE  GetsToFirst(t, SkipForward(t), W)
<1> DEFINE u == Skipped(t, "forward")
<1>1. TableOK(u) /\ Keeps(t, u) /\ LeadsOn(u, W)
  BY SkippedIs DEF LeadsTo
<1>2. SkipForward(t) = u
  BY DEF SkipForward
<1> HIDE DEF u
<1>3. CASE ~Failed(u) /\ ~DataValid(u)
  <2>1. ~IndexValid(u) /\ Walks(u)
    BY <1>1, <1>3 DEF TableOK
  <2>2. W = {} /\ EntryAt(u) = 0
    BY <1>1, <1>3, <2>1 DEF LeadsOn, EntryAt
  <2> QED
    BY <1>1, <1>2, <2>2 DEF GetsToFirst, IsFirst
<1>4. CASE Failed(u) \/ DataValid(u)
  BY <1>1, <1>2, <1>4 DEF GetsToFirst, LeadsOn
<1> QED
  BY <1>3, <1>4

LEMMA SkipBackwardIs ==
    ASSUME DatabaseOK, NEW t, Walks(t), NEW W, LeadsBack(t, W)
    PROVE  GetsToLast(t, SkipBackward(t), W)
<1> DEFINE u == Skipped(t, "backward")
<1>1. TableOK(u) /\ Keeps(t, u) /\ LeadsBack(u, W)
  BY SkippedIs DEF LeadsTo
<1>2. SkipBackward(t) = u
  BY DEF SkipBackward
<1> HIDE DEF u
<1>3. CASE ~Failed(u) /\ ~DataValid(u)
  <2>1. ~IndexValid(u) /\ Walks(u)
    BY <1>1, <1>3 DEF TableOK
  <2>2. W = {} /\ EntryAt(u) = 0
    BY <1>1, <1>3, <2>1 DEF LeadsBack, EntryAt
  <2> QED
    BY <1>1, <1>2, <2>2 DEF GetsToLast, IsLast
<1>4. CASE Failed(u) \/ DataValid(u)
  BY <1>1, <1>2, <1>4 DEF GetsToLast, LeadsBack
<1> QED
  BY <1>3, <1>4

LEMMA TableFirstIs ==
    ASSUME DatabaseOK, NEW t, TableOK(t)
    PROVE  GetsToFirst(t, TableFirst(t), Flushes)
<1> DEFINE n == Len(table)
           x == BlockFirst(n, 1)
           s == [t EXCEPT !.index = x]
           u == DataFirst(InitDataBlock(s))
           W == IF s.index.at \in Blocks THEN From(s.index.at) ELSE {}
<1>1. n \in Nat \ {0} /\ Blocks = 1 .. n
  BY BlockFacts DEF DatabaseOK
<1>2. BIter(n, 1, x) /\ x.at = 1
  BY <1>1, BlockFirstIs
<1> HIDE DEF x
<1>3. s \in TableIters /\ s.index = x /\ BIter(n, 1, s.index) /\ DataOK(s) /\ Keeps(t, s)
  BY <1>2, IndexMoved DEF TableOK
<1> HIDE DEF s
<1>4. Walks(u) /\ Keeps(s, u) /\ LeadsOn(u, W)
  BY <1>3, FirstLeads
<1>5. W = Flushes
  BY <1>1, <1>2, <1>3, EndsOfBlocks DEF DatabaseOK, Flushes
<1>6. TableFirst(t) = SkipForward(u)
  BY DEF TableFirst, s, x
<1> HIDE DEF u
<1>7. GetsToFirst(u, SkipForward(u), Flushes)
  BY <1>4, <1>5, SkipForwardIs
<1> QED
  BY <1>3, <1>4, <1>6, <1>7, KeepsOn DEF GetsToFirst

LEMMA TableLastIs ==
    ASSUME DatabaseOK, NEW t, TableOK(t)
    PROVE  GetsToLast(t, TableLast(t), Flushes)
<1> DEFINE n == Len(table)
           x == BlockLast(n, 1)
           s == [t EXCEPT !.index = x]
           u == DataLast(InitDataBlock(s))
           W == IF s.index.at \in Blocks THEN UpTo(s.index.at) ELSE {}
<1>1. n \in Nat \ {0} /\ Blocks = 1 .. n
  BY BlockFacts DEF DatabaseOK
<1>2. BIter(n, 1, x) /\ x.at = n
  BY <1>1, BlockLastIs
<1> HIDE DEF x
<1>3. s \in TableIters /\ s.index = x /\ BIter(n, 1, s.index) /\ DataOK(s) /\ Keeps(t, s)
  BY <1>2, IndexMoved DEF TableOK
<1> HIDE DEF s
<1>4. Walks(u) /\ Keeps(s, u) /\ LeadsBack(u, W)
  BY <1>3, LastLeads
<1>5. W = Flushes
  BY <1>1, <1>2, <1>3, EndsOfBlocks DEF DatabaseOK, Flushes
<1>6. TableLast(t) = SkipBackward(u)
  BY DEF TableLast, s, x
<1> HIDE DEF u
<1>7. GetsToLast(u, SkipBackward(u), Flushes)
  BY <1>4, <1>5, SkipBackwardIs
<1> QED
  BY <1>3, <1>4, <1>6, <1>7, KeepsOn DEF GetsToLast

LEMMA TableNextIs ==
    ASSUME DatabaseOK, NEW t, TableOK(t), DataValid(t)
    PROVE  GetsToFirst(t, TableNext(t), {j \in Flushes : Before(EntryAt(t), j)})
<1> DEFINE data == BlockNext(Size(t), RestartInterval, t.data)
           u == [t EXCEPT !.data = data]
           W == {j \in Flushes : Before(EntryAt(t), j)}
           b == t.index.at
           a == t.data.at
<1>1. Walks(t) /\ IndexValid(t) /\ t.block \notin unreadable /\ IsBlock(t)
  BY WalksCases DEF TableOK
<1>2. /\ b \in Blocks /\ Size(t) = Len(table[b]) /\ Size(t) \in Nat \ {0} /\ a \in 1 .. Size(t)
      /\ BIter(Size(t), RestartInterval, t.data) /\ EntryAt(t) = table[b][a]
  BY <1>1, WalksCases
<1>3. BIter(Size(t), RestartInterval, data) /\ data.at = a + 1
  BY <1>2, BlockNextIs, IteratorsAssumption, SMTT(40)
<1> HIDE DEF data
<1>4. /\ Walks(u) /\ u.index = t.index /\ u.data = data /\ Keeps(t, u)
      /\ IndexValid(u) /\ u.block \notin unreadable /\ Size(u) = Size(t)
  BY <1>1, <1>3, DataMoved
<1>5. TableNext(t) = SkipForward(u)
  BY DEF TableNext, data
<1> HIDE DEF u
<1>6. /\ a < Size(t) => IsFirst(table[b][a + 1], W)
      /\ a = Size(t) => W = From(b + 1)
  <2> DEFINE V == {j \in 1 .. Flushed : Before(table[b][a], j)}
  <2>1. W = V
    BY <1>2 DEF Flushes
  <2>2. b \in Blocks /\ a \in 1 .. Len(table[b]) /\ UpdatesOK /\ TableHolds
    BY <1>2 DEF DatabaseOK
  <2> HIDE DEF W, a, b
  <2>3. /\ a < Len(table[b]) => IsFirst(table[b][a + 1], V)
        /\ a = Len(table[b]) => V = From(b + 1)
    BY <2>2, Neighbours
  <2> QED
    BY <1>2, <2>1, <2>3
<1>7. DataValid(u) <=> a + 1 \in 1 .. Size(t)
  BY <1>3, <1>4, WalksCases
<1>8. DataValid(u) => EntryAt(u) = table[b][a + 1]
  BY <1>3, <1>4, WalksCases
<1>9. LeadsOn(u, W)
  <2>1. CASE DataValid(u)
    <3>1. a < Size(t)
      BY <1>2, <1>7, <2>1
    <3> QED
      BY <1>6, <1>8, <2>1, <3>1 DEF LeadsOn
  <2>2. CASE ~DataValid(u)
    <3>1. a = Size(t)
      BY <1>2, <1>7, <2>2
    <3> QED
      BY <1>4, <1>6, <2>2, <3>1 DEF LeadsOn
  <2> QED
    BY <2>1, <2>2
<1> HIDE DEF W
<1>10. GetsToFirst(u, SkipForward(u), W)
  BY <1>4, <1>9, SkipForwardIs
<1> QED
  BY <1>4, <1>5, <1>10, KeepsOn DEF GetsToFirst, W

LEMMA TablePrevIs ==
    ASSUME DatabaseOK, NEW t, TableOK(t), DataValid(t)
    PROVE  GetsToLast(t, TablePrev(t), {j \in Flushes : Before(j, EntryAt(t))})
<1> DEFINE data == BlockPrev(Size(t), RestartInterval, t.data)
           u == [t EXCEPT !.data = data]
           W == {j \in Flushes : Before(j, EntryAt(t))}
           b == t.index.at
           a == t.data.at
<1>1. Walks(t) /\ IndexValid(t) /\ t.block \notin unreadable /\ IsBlock(t)
  BY WalksCases DEF TableOK
<1>2. /\ b \in Blocks /\ Size(t) = Len(table[b]) /\ Size(t) \in Nat \ {0} /\ a \in 1 .. Size(t)
      /\ BIter(Size(t), RestartInterval, t.data) /\ EntryAt(t) = table[b][a]
  BY <1>1, WalksCases
<1>3. BIter(Size(t), RestartInterval, data) /\ data.at = IF a = 1 THEN Size(t) + 1 ELSE a - 1
  BY <1>2, BlockPrevIs, IteratorsAssumption
<1> HIDE DEF data
<1>4. /\ Walks(u) /\ u.index = t.index /\ u.data = data /\ Keeps(t, u)
      /\ IndexValid(u) /\ u.block \notin unreadable /\ Size(u) = Size(t)
  BY <1>1, <1>3, DataMoved
<1>5. TablePrev(t) = SkipBackward(u)
  BY DEF TablePrev, data
<1> HIDE DEF u
<1>6. /\ a > 1 => IsLast(table[b][a - 1], W)
      /\ a = 1 => W = UpTo(b - 1)
  <2> DEFINE V == {j \in 1 .. Flushed : Before(j, table[b][a])}
  <2>1. W = V
    BY <1>2 DEF Flushes
  <2>2. b \in Blocks /\ a \in 1 .. Len(table[b]) /\ UpdatesOK /\ TableHolds
    BY <1>2 DEF DatabaseOK
  <2> HIDE DEF W, a, b
  <2>3. /\ a > 1 => IsLast(table[b][a - 1], V)
        /\ a = 1 => V = UpTo(b - 1)
    BY <2>2, Neighbours
  <2> QED
    BY <1>2, <2>1, <2>3
<1>7. DataValid(u) <=> data.at \in 1 .. Size(t)
  BY <1>4, WalksCases
<1>8. DataValid(u) => EntryAt(u) = table[b][data.at]
  BY <1>4, WalksCases
<1>9. LeadsBack(u, W)
  <2>1. CASE a > 1
    <3>1. DataValid(u) /\ data.at = a - 1
      BY <1>2, <1>3, <1>7, <2>1
    <3> QED
      BY <1>6, <1>8, <2>1, <3>1 DEF LeadsBack
  <2>2. CASE a = 1
    <3>1. ~DataValid(u)
      BY <1>2, <1>3, <1>7, <2>2
    <3> QED
      BY <1>4, <1>6, <2>2, <3>1 DEF LeadsBack
  <2> QED
    BY <1>2, <2>1, <2>2
<1> HIDE DEF W
<1>10. GetsToLast(u, SkipBackward(u), W)
  BY <1>4, <1>9, SkipBackwardIs
<1> QED
  BY <1>4, <1>5, <1>10, KeepsOn DEF GetsToLast, W

(* The entries that Seek stops at, for a target *)
Reaches(i, target) == ~Precedes(InternalKey(i), target)

LEMMA Targets ==
    ASSUME UpdatesOK, NEW target \in Nat \X Nat
    PROVE  /\ \A i \in Entries : /\ Compare(InternalKey(i), target) \in {-1, 0, 1}
                                 /\ Compare(InternalKey(i), target) < 0 <=> ~Reaches(i, target)
                                 /\ Compare(InternalKey(i), target) = 0 => Key(i) = target[1] /\ i = target[2]
                                 /\ Key(i) < target[1] => ~Reaches(i, target)
                                 /\ Key(i) > target[1] => Reaches(i, target)
           /\ \A i, j \in Entries : Before(i, j) /\ Reaches(i, target) => Reaches(j, target)
           /\ \A i, j \in Entries : Before(i, j) /\ Compare(InternalKey(j), target) = 0 => ~Reaches(i, target)
<1>1. Entries \subseteq Nat /\ (\A i \in Entries : Key(i) \in Nat) /\ target[1] \in Nat /\ target[2] \in Nat
  BY KeysAre, IteratorsAssumption DEF Entries
<1>2. ASSUME NEW i \in Entries
      PROVE  /\ Reaches(i, target) <=> ~(Key(i) < target[1] \/ (Key(i) = target[1] /\ i > target[2]))
             /\ Compare(InternalKey(i), target) =
                  IF ~Reaches(i, target) THEN -1
                  ELSE IF target[1] < Key(i) \/ (target[1] = Key(i) /\ target[2] > i) THEN 1 ELSE 0
  BY DEF Reaches, Compare, Precedes, InternalKey
<1>3. ASSUME NEW i \in Entries
      PROVE  /\ Compare(InternalKey(i), target) \in {-1, 0, 1}
             /\ Compare(InternalKey(i), target) < 0 <=> ~Reaches(i, target)
             /\ Compare(InternalKey(i), target) = 0 => Key(i) = target[1] /\ i = target[2]
             /\ Key(i) < target[1] => ~Reaches(i, target)
             /\ Key(i) > target[1] => Reaches(i, target)
  <2> DEFINE c == Compare(InternalKey(i), target)
  <2>1. /\ Reaches(i, target) <=> ~(Key(i) < target[1] \/ (Key(i) = target[1] /\ i > target[2]))
        /\ c = IF ~Reaches(i, target) THEN -1
               ELSE IF target[1] < Key(i) \/ (target[1] = Key(i) /\ target[2] > i) THEN 1 ELSE 0
    BY <1>2
  <2> HIDE DEF c
  <2>2. i \in Nat /\ Key(i) \in Nat
    BY <1>1
  <2> QED
    BY <1>1, <2>1, <2>2 DEF c
<1>4. ASSUME NEW i \in Entries, NEW j \in Entries, Before(i, j)
      PROVE  /\ Reaches(i, target) => Reaches(j, target)
             /\ Compare(InternalKey(j), target) = 0 => ~Reaches(i, target)
  <2>1. Key(i) < Key(j) \/ (Key(i) = Key(j) /\ i > j)
    BY <1>4, BeforeIs
  <2>2. i \in Nat /\ Key(i) \in Nat /\ j \in Nat /\ Key(j) \in Nat
    BY <1>1
  <2>3. Reaches(i, target) => Reaches(j, target)
    BY <1>1, <1>2, <2>1, <2>2
  <2>4. Compare(InternalKey(j), target) = 0 => ~Reaches(i, target)
    <3>1. Compare(InternalKey(j), target) = 0 => Key(j) = target[1] /\ j = target[2]
      BY <1>3
    <3> QED
      BY <1>1, <1>2, <2>1, <2>2, <3>1
  <2> QED
    BY <2>3, <2>4
<1> QED
  BY <1>3, <1>4

(* What the index says of a block: its last entry is before the target, or *)
(* the entries behind it are not.                                          *)
LEMMA IndexOrderIs ==
    ASSUME DatabaseOK, NEW target \in Nat \X Nat, NEW b \in Blocks
    PROVE  LET order == IndexOrder(target)
           IN  /\ order[b] \in {-1, 0, 1}
               /\ order[b] < 0 => ~Reaches(LastIn(b), target)
               /\ order[b] = 0 => Compare(InternalKey(LastIn(b)), target) = 0
               /\ order[b] >= 0 /\ b < Len(table) => Reaches(table[b + 1][1], target)
               /\ order[b] >= 0 /\ b < Len(table) /\ ~Reaches(LastIn(b), target) =>
                     target[1] < Key(table[b + 1][1])
<1> DEFINE n == Len(table)
           o == IndexOrder(target)[b]
           x == LastIn(b)
           y == table[b + 1][1]
           c == Compare(InternalKey(x), target)
<1>1. n \in Nat \ {0} /\ b \in 1 .. n /\ x \in Entries
  BY BlockFacts DEF DatabaseOK, LastIn
<1>2. b < n => y \in Entries /\ Before(x, y) /\ Key(x) <= Key(y)
  <2> SUFFICES ASSUME b < n PROVE y \in Entries /\ Before(x, y) /\ Key(x) <= Key(y)
    OBVIOUS
  <2>1. b + 1 \in Blocks /\ Len(table[b]) \in 1 .. Len(table[b]) /\ b < b + 1
    BY <1>1, BlockFacts DEF DatabaseOK
  <2>2. 1 \in 1 .. Len(table[b + 1])
    BY <2>1, BlockFacts DEF DatabaseOK
  <2>3. y \in Entries
    BY <2>1, <2>2, BlockFacts DEF DatabaseOK
  <2>4. Before(x, y)
    BY <2>1, <2>2 DEF TableHolds, DatabaseOK, LastIn
  <2> QED
    BY <1>1, <2>3, <2>4, Order DEF DatabaseOK
<1>3. o = IF b = n THEN (IF loose THEN 1 ELSE c)
          ELSE IF loose /\ Key(x) # Key(y) THEN (IF target[1] < Key(y) THEN 1 ELSE -1)
          ELSE c
  BY <1>1 DEF IndexOrder, Last, LastIn, InternalKey
<1>4. target[1] \in Nat /\ Key(x) \in Nat /\ (b < n => Key(y) \in Nat)
  BY <1>1, <1>2, KeysAre DEF DatabaseOK
<1>5. /\ c \in {-1, 0, 1} /\ (c < 0 <=> ~Reaches(x, target))
      /\ Key(x) < target[1] => ~Reaches(x, target)
  BY <1>1, Targets DEF DatabaseOK
<1>6. b < n => /\ Key(y) > target[1] => Reaches(y, target)
               /\ Reaches(x, target) => Reaches(y, target)
  BY <1>1, <1>2, Targets DEF DatabaseOK
<1> HIDE DEF o, c, x, y, n
<1>7. CASE b = n
  <2>1. ~(b < n)
    BY <1>1, <1>7
  <2>2. o = IF loose THEN 1 ELSE c
    BY <1>3, <1>7
  <2> QED
    BY <1>5, <2>1, <2>2 DEF o, c, x, y, n
<1>8. CASE b # n /\ loose /\ Key(x) # Key(y)
  <2>1. b < n
    BY <1>1, <1>8
  <2>2. o = IF target[1] < Key(y) THEN 1 ELSE -1
    BY <1>3, <1>8
  <2>3. Key(x) < Key(y)
    BY <1>2, <1>4, <1>8, <2>1
  <2>4. o = -1 => Key(x) < target[1]
    BY <1>4, <2>1, <2>2, <2>3
  <2>5. o >= 0 => target[1] < Key(y) /\ Key(y) > target[1]
    BY <1>4, <2>1, <2>2
  <2>6. o \in {-1, 1}
    BY <2>2
  <2> QED
    BY <1>5, <1>6, <2>1, <2>4, <2>5, <2>6 DEF o, c, x, y, n
<1>9. CASE b # n /\ ~(loose /\ Key(x) # Key(y))
  <2>1. b < n
    BY <1>1, <1>9
  <2>2. o = c
    BY <1>3, <1>9
  <2> QED
    BY <1>5, <1>6, <2>1, <2>2 DEF o, c, x, y, n
<1> QED
  BY <1>7, <1>8, <1>9

(* Where the entries of a block are, against the ends of another *)
LEMMA BlocksInOrder ==
    ASSUME DatabaseOK, NEW b \in Blocks, NEW i, InBlock(i, b)
    PROVE  /\ i \in Entries /\ i \in Flushes
           /\ \A c \in Blocks : /\ LastIn(c) \in Entries /\ table[c][1] \in Entries
                                /\ b <= c => i = LastIn(c) \/ Before(i, LastIn(c))
                                /\ c <= b => i = table[c][1] \/ Before(table[c][1], i)
<1>1. PICK a \in 1 .. Len(table[b]) : table[b][a] = i
  BY DEF InBlock
<1>2. i \in Entries /\ i \in Flushes
  BY <1>1, BlockFacts DEF DatabaseOK, Flushes
<1>3. ASSUME NEW c \in Blocks
      PROVE  /\ LastIn(c) \in Entries /\ table[c][1] \in Entries
             /\ b <= c => i = LastIn(c) \/ Before(i, LastIn(c))
             /\ c <= b => i = table[c][1] \/ Before(table[c][1], i)
  <2>1. b \in Int /\ c \in Int /\ Len(table[c]) \in Nat \ {0} /\ a \in Int /\ Len(table[b]) \in Nat \ {0}
    BY <1>1, BlockFacts DEF DatabaseOK
  <2>2. Len(table[c]) \in 1 .. Len(table[c]) /\ 1 \in 1 .. Len(table[c])
    BY <2>1
  <2>3. LastIn(c) \in Entries /\ table[c][1] \in Entries
    BY <2>2, BlockFacts DEF DatabaseOK, LastIn
  <2>4. ASSUME b <= c
        PROVE  i = LastIn(c) \/ Before(i, LastIn(c))
    <3>1. b < c \/ (b = c /\ a < Len(table[c])) \/ (b = c /\ a = Len(table[c]))
      BY <1>1, <2>1, <2>4
    <3>2. b < c \/ (b = c /\ a < Len(table[c])) => Before(table[b][a], table[c][Len(table[c])])
      BY <2>2, PlacesOrdered DEF DatabaseOK
    <3> QED
      BY <1>1, <3>1, <3>2 DEF LastIn
  <2>5. ASSUME c <= b
        PROVE  i = table[c][1] \/ Before(table[c][1], i)
    <3>1. c < b \/ (c = b /\ 1 < a) \/ (b = c /\ a = 1)
      BY <1>1, <2>1, <2>5
    <3>2. c < b \/ (c = b /\ 1 < a) => Before(table[c][1], table[b][a])
      BY <2>2, PlacesOrdered DEF DatabaseOK
    <3> QED
      BY <1>1, <3>1, <3>2
  <2> QED
    BY <2>3, <2>4, <2>5
<1> QED
  BY <1>2, <1>3

(* Index keys are in order, and so is what Compare says of them. *)
LEMMA IndexIsOrdered ==
    ASSUME DatabaseOK, NEW target \in Nat \X Nat
    PROVE  Ordered(Len(table), IndexOrder(target))
<1> DEFINE n == Len(table)
           order == IndexOrder(target)
<1>1. n \in Nat \ {0} /\ Blocks = 1 .. n /\ DOMAIN order = 1 .. n /\ order = [b \in 1 .. n |-> order[b]]
  BY BlockFacts DEF DatabaseOK, IndexOrder
<1> HIDE DEF order
<1>2. ASSUME NEW b \in 1 .. n, NEW c \in 1 .. n, b < c, order[c] <= 0, ~(order[b] < 0)
      PROVE  FALSE
  <2> DEFINE y == table[b + 1][1]
  <2>1. b \in Blocks /\ c \in Blocks /\ b + 1 \in Blocks /\ b < n /\ b + 1 <= c /\ b <= c /\ b \in Int /\ c \in Int
    BY <1>1, <1>2
  <2>2. order[b] \in {-1, 0, 1} /\ order[c] \in {-1, 0, 1}
    BY <2>1, IndexOrderIs DEF order
  <2>3. order[b] >= 0 /\ (order[c] < 0 \/ order[c] = 0)
    BY <1>2, <2>2
  <2>4. Reaches(y, target) /\ (~Reaches(LastIn(b), target) => target[1] < Key(y))
    BY <2>1, <2>3, IndexOrderIs DEF order
  <2>5. y \in Entries /\ LastIn(b) \in Entries /\ LastIn(c) \in Entries
        /\ (y = LastIn(c) \/ Before(y, LastIn(c)))
        /\ (LastIn(b) = LastIn(c) \/ Before(LastIn(b), LastIn(c)))
    <3>1. 1 \in 1 .. Len(table[b + 1]) /\ Len(table[b]) \in 1 .. Len(table[b])
      BY <2>1, BlockFacts DEF DatabaseOK
    <3>2. InBlock(y, b + 1) /\ InBlock(LastIn(b), b)
      BY <3>1 DEF InBlock, LastIn
    <3> QED
      BY <2>1, <3>2, BlocksInOrder
  <2>6. Reaches(LastIn(c), target)
    BY <2>4, <2>5, Targets DEF DatabaseOK
  <2>7. order[c] = 0
    BY <2>1, <2>3, <2>6, IndexOrderIs DEF order
  <2>8. Compare(InternalKey(LastIn(c)), target) = 0
    BY <2>1, <2>7, IndexOrderIs DEF order
  <2>9. Key(LastIn(c)) = target[1]
    BY <2>5, <2>8, Targets DEF DatabaseOK
  <2>10. Before(LastIn(b), LastIn(c))
    <3>1. Len(table[b]) \in 1 .. Len(table[b]) /\ Len(table[c]) \in 1 .. Len(table[c])
      BY <2>1, BlockFacts DEF DatabaseOK
    <3> QED
      BY <1>2, <2>1, <3>1 DEF DatabaseOK, TableHolds, LastIn
  <2>11. ~Reaches(LastIn(b), target)
    BY <2>5, <2>8, <2>10, Targets DEF DatabaseOK
  <2>12. Key(y) <= Key(LastIn(c))
    <3>1. CASE y = LastIn(c)
      <4>1. Key(y) \in Nat
        BY <2>5, KeysAre DEF DatabaseOK
      <4> QED
        BY <3>1, <4>1
    <3>2. CASE Before(y, LastIn(c))
      BY <2>5, <3>2, Order DEF DatabaseOK
    <3> QED
      BY <2>5, <3>1, <3>2
  <2>13. Key(y) \in Nat /\ target[1] \in Nat
    BY <2>5, KeysAre DEF DatabaseOK
  <2> QED
    BY <2>4, <2>9, <2>11, <2>12, <2>13
<1>3. \A b \in 1 .. n : order[b] \in {-1, 0, 1}
  BY <1>1, IndexOrderIs DEF order
<1>4. order \in [1 .. n -> {-1, 0, 1}]
  BY <1>1, <1>3
<1> QED
  BY <1>2, <1>4 DEF Ordered, order

(* The entries of the blocks up to one whose last is before the target *)
LEMMA BlocksBefore ==
    ASSUME DatabaseOK, NEW target \in Nat \X Nat, NEW b \in Blocks,
           ~Reaches(LastIn(b), target), NEW c \in Blocks, c <= b, NEW j, InBlock(j, c)
    PROVE  ~Reaches(j, target)
<1>1. j \in Entries /\ LastIn(b) \in Entries /\ (j = LastIn(b) \/ Before(j, LastIn(b)))
  BY BlocksInOrder
<1> QED
  BY <1>1, Targets DEF DatabaseOK

LEMMA BlocksBehind ==
    ASSUME DatabaseOK, NEW target \in Nat \X Nat, NEW b \in Blocks,
           Reaches(table[b][1], target), NEW c \in Blocks, b <= c, NEW j, InBlock(j, c)
    PROVE  Reaches(j, target)
<1>1. j \in Entries /\ table[b][1] \in Entries /\ (j = table[b][1] \/ Before(table[b][1], j))
  BY BlocksInOrder
<1> QED
  BY <1>1, Targets DEF DatabaseOK

LEMMA DataIsOrdered ==
    ASSUME DatabaseOK, NEW target \in Nat \X Nat, NEW b \in Blocks
    PROVE  Ordered(Len(table[b]), [i \in 1 .. Len(table[b]) |-> Compare(InternalKey(table[b][i]), target)])
<1> DEFINE n == Len(table[b])
           order == [i \in 1 .. n |-> Compare(InternalKey(table[b][i]), target)]
<1>1. \A i \in 1 .. n : table[b][i] \in Entries
  BY BlockFacts DEF DatabaseOK
<1>2. order \in [1 .. n -> {-1, 0, 1}]
  BY <1>1, Targets DEF DatabaseOK
<1>3. ASSUME NEW i \in 1 .. n, NEW j \in 1 .. n, i < j, order[j] <= 0
      PROVE  order[i] < 0
  <2> DEFINE x == table[b][i]
             y == table[b][j]
  <2>1. Before(x, y)
    BY <1>3 DEF DatabaseOK, TableHolds
  <2>2. x \in Entries /\ y \in Entries
    BY <1>1
  <2>3. order[i] = Compare(InternalKey(x), target) /\ order[j] = Compare(InternalKey(y), target)
    OBVIOUS
  <2> HIDE DEF order, x, y
  <2>4. order[j] \in {-1, 0, 1}
    BY <1>2
  <2>5. order[j] < 0 \/ order[j] = 0
    BY <1>3, <2>4
  <2>6. ~Reaches(x, target)
    <3>1. CASE order[j] < 0
      <4>1. ~Reaches(y, target)
        BY <2>2, <2>3, <3>1, Targets DEF DatabaseOK
      <4> QED
        BY <2>1, <2>2, <4>1, Targets DEF DatabaseOK
    <3>2. CASE order[j] = 0
      BY <2>1, <2>2, <2>3, <3>2, Targets DEF DatabaseOK
    <3> QED
      BY <2>5, <3>1, <3>2
  <2> QED
    BY <2>2, <2>3, <2>6, Targets DEF DatabaseOK
<1> HIDE DEF order
<1> QED
  BY <1>2, <1>3 DEF Ordered, order, n

(* A seek in a block that the index leads to *)
LEMMA DataSeekLeads ==
    ASSUME DatabaseOK, NEW target \in Nat \X Nat, NEW t, Walks(t),
           IndexValid(t) => IndexOrder(target)[t.index.at] >= 0,
           \A c \in Blocks : c < t.index.at => ~Reaches(LastIn(c), target)
    PROVE  LET u == DataSeek(t, target)
           IN  Walks(u) /\ Keeps(t, u) /\ LeadsOn(u, {j \in Flushes : Reaches(j, target)})
<1> DEFINE u == DataSeek(t, target)
           W == {j \in Flushes : Reaches(j, target)}
           b == t.index.at
<1>0. Len(table) \in Nat \ {0} /\ Blocks = 1 .. Len(table) /\ (IndexValid(t) <=> b \in Blocks)
      /\ b \in 1 .. Len(table) + 1
  BY WalksCases DEF Blocks
<1>1. \A j \in Flushes : \E c \in Blocks : InBlock(j, c)
  BY BlockFacts DEF DatabaseOK, Flushes
<1>2. ASSUME NEW c \in Blocks, c < b, NEW j, InBlock(j, c)
      PROVE  ~Reaches(j, target)
  <2>1. ~Reaches(LastIn(c), target) /\ c <= c
    BY <1>0, <1>2
  <2> QED
    BY <1>2, <2>1, BlocksBefore
<1>3. CASE ~IndexValid(t)
  <2>1. u = t /\ ~DataValid(t)
    BY <1>3, WalksCases DEF DataSeek, Walks, IsBlock
  <2>2. W = {}
    <3> SUFFICES ASSUME NEW j \in Flushes, Reaches(j, target) PROVE FALSE
      OBVIOUS
    <3>1. PICK c \in Blocks : InBlock(j, c)
      BY <1>1
    <3>2. c < b
      BY <1>0, <1>3
    <3> QED
      BY <1>2, <3>1, <3>2
  <2> HIDE DEF u, W
  <2> QED
    BY <1>3, <2>1, <2>2 DEF Keeps, LeadsOn, u, W
<1>4. CASE IndexValid(t) /\ t.block \in unreadable
  <2>1. u = t /\ Failed(t)
    BY <1>4, WalksCases DEF DataSeek
  <2> QED
    BY <2>1 DEF Keeps, LeadsOn
<1>5. CASE IndexValid(t) /\ t.block \notin unreadable
  <2> DEFINE n == Len(table[b])
             order == [i \in 1 .. Size(t) |-> Compare(InternalKey(table[t.block][i]), target)]
             data == BlockSeek(Size(t), RestartInterval, t.data, order)
  <2>1. /\ b \in Blocks /\ t.block = b /\ IsBlock(t) /\ Size(t) = n /\ n \in Nat \ {0}
        /\ BIter(n, RestartInterval, t.data)
    BY <1>5, WalksCases
  <2>2. u = [t EXCEPT !.data = data]
    BY <2>1 DEF DataSeek
  <2>3. order = [i \in 1 .. n |-> Compare(InternalKey(table[b][i]), target)]
    BY <2>1
  <2>4. Ordered(n, order)
    BY <2>1, <2>3, DataIsOrdered
  <2>5. \A i \in 1 .. n : order[i] = Compare(InternalKey(table[b][i]), target) /\ table[b][i] \in Entries
    BY <2>1, <2>3, BlockFacts DEF DatabaseOK
  <2> HIDE DEF order
  <2>6. /\ BIter(n, RestartInterval, data)
        /\ \A i \in 1 .. n : i < data.at => order[i] < 0
        /\ data.at <= n => order[data.at] >= 0
    BY <2>1, <2>4, BlockSeekIs, IteratorsAssumption
  <2> HIDE DEF data
  <2>7. data.at \in 1 .. n + 1
    BY <2>1, <2>6, BIterTypes
  <2>8. \A i \in 1 .. n : i < data.at => ~Reaches(table[b][i], target)
    BY <2>5, <2>6, Targets DEF DatabaseOK
  <2>9. data.at \in 1 .. n => Reaches(table[b][data.at], target)
    <3>1. data.at \in 1 .. n => data.at <= n /\ order[data.at] >= 0 /\ order[data.at] \in {-1, 0, 1}
      BY <2>1, <2>4, <2>6 DEF Ordered
    <3>2. data.at \in 1 .. n => ~(order[data.at] < 0)
      BY <3>1
    <3> QED
      BY <2>5, <3>2, Targets DEF DatabaseOK
  <2>10. /\ Walks(u) /\ u.index = t.index /\ u.data = data /\ Keeps(t, u)
         /\ IndexValid(u) /\ u.block \notin unreadable /\ Size(u) = n
    BY <2>1, <2>2, <2>6, DataMoved
  <2> HIDE DEF u
  <2>11. /\ DataValid(u) <=> data.at \in 1 .. n
         /\ DataValid(u) => EntryAt(u) = table[b][data.at]
    BY <2>10, WalksCases
  <2>12. CASE data.at \in 1 .. n
    <3> DEFINE e == table[b][data.at]
    <3>1. e \in W /\ e \in Entries
      BY <2>1, <2>5, <2>9, <2>12, BlockFacts DEF DatabaseOK, Flushes
    <3>2. ASSUME NEW j \in W \ {e}
          PROVE  Before(e, j)
      <4>1. PICK c \in Blocks : InBlock(j, c)
        BY <1>1
      <4>2. PICK d \in 1 .. Len(table[c]) : table[c][d] = j
        BY <4>1 DEF InBlock
      <4>3. ~(c < b)
        BY <1>2, <4>1
      <4>4. ~(c = b /\ d < data.at)
        BY <2>8, <4>2
      <4>5. ~(c = b /\ d = data.at)
        BY <4>2
      <4>6. b < c \/ (b = c /\ data.at < d)
        BY <1>0, <2>1, <2>12, <4>3, <4>4, <4>5
      <4> QED
        <5>1. Before(table[b][data.at], table[c][d])
          <6>1. data.at \in 1 .. Len(table[b]) /\ UpdatesOK /\ TableHolds
            BY <2>12 DEF DatabaseOK
          <6> QED
            BY <2>1, <4>6, <6>1, PlacesOrdered, SMTT(40)
        <5> QED
          BY <4>2, <5>1
    <3> HIDE DEF e, W
    <3>3. IsFirst(e, W)
      BY <3>1, <3>2 DEF IsFirst
    <3> QED
      BY <2>10, <2>11, <2>12, <3>3 DEF LeadsOn, e, u, W
  <2>13. CASE data.at \notin 1 .. n
    <3>1. ASSUME NEW j \in W
          PROVE  j \in From(b + 1)
      <4>1. PICK c \in Blocks : InBlock(j, c)
        BY <1>1
      <4>2. PICK d \in 1 .. Len(table[c]) : table[c][d] = j
        BY <4>1 DEF InBlock
      <4>3. ~(c < b)
        BY <1>2, <4>1
      <4>4. c = b => d < data.at
        BY <2>1, <2>7, <2>13, <4>2
      <4>5. c # b
        BY <2>8, <4>2, <4>4
      <4>6. c >= b + 1
        BY <1>0, <2>1, <4>3, <4>5
      <4> QED
        BY <4>1, <4>6 DEF From, Flushes
    <3>2. ASSUME NEW j \in From(b + 1)
          PROVE  j \in W
      <4>1. PICK c \in Blocks : c >= b + 1 /\ InBlock(j, c)
        BY DEF From
      <4>2. b < Len(table) /\ b + 1 \in Blocks /\ b + 1 <= c
        <5>1. c \in 1 .. Len(table) /\ b \in 1 .. Len(table) /\ Len(table) \in Nat /\ c >= b + 1
          BY <1>0, <2>1, <4>1
        <5> HIDE DEF b
        <5> QED
          BY <5>1 DEF Blocks
      <4>3. Reaches(table[b + 1][1], target)
        BY <1>5, <2>1, <4>2, IndexOrderIs
      <4>4. Reaches(j, target)
        BY <4>1, <4>2, <4>3, BlocksBehind
      <4> QED
        BY <4>4 DEF From, Flushes
    <3> HIDE DEF W
    <3>3. W = From(b + 1)
      BY <3>1, <3>2
    <3> QED
      BY <2>10, <2>11, <2>13, <3>3 DEF LeadsOn, u, W
  <2> QED
    BY <2>12, <2>13
<1> QED
  BY <1>3, <1>4, <1>5

LEMMA TableSeekIs ==
    ASSUME DatabaseOK, NEW t, TableOK(t), NEW target \in Nat \X Nat
    PROVE  GetsToFirst(t, TableSeek(t, target), {j \in Flushes : Reaches(j, target)})
<1> DEFINE n == Len(table)
           order == IndexOrder(target)
           x == BlockSeek(n, 1, t.index, order)
           s == [t EXCEPT !.index = x]
           v == InitDataBlock(s)
           u == DataSeek(v, target)
           W == {j \in Flushes : Reaches(j, target)}
<1>1. n \in Nat \ {0} /\ Blocks = 1 .. n /\ Walks(t) /\ BIter(n, 1, t.index)
  BY BlockFacts DEF DatabaseOK, TableOK, Walks
<1>2. Ordered(n, order)
  BY IndexIsOrdered
<1> HIDE DEF order
<1>3. /\ BIter(n, 1, x)
      /\ \A i \in 1 .. n : i < x.at => order[i] < 0
      /\ x.at <= n => order[x.at] >= 0
  BY <1>1, <1>2, BlockSeekIs
<1> HIDE DEF x
<1>4. s \in TableIters /\ s.index = x /\ BIter(n, 1, s.index) /\ DataOK(s) /\ Keeps(t, s)
  BY <1>1, <1>3, IndexMoved
<1> HIDE DEF s
<1>5. Walks(v) /\ v.index = x /\ Keeps(s, v)
  BY <1>4, InitDataBlockIs
<1> HIDE DEF v
<1>6. \A c \in Blocks : c < v.index.at => ~Reaches(LastIn(c), target)
  BY <1>1, <1>3, <1>5, IndexOrderIs DEF order
<1>7. IndexValid(v) => IndexOrder(target)[v.index.at] >= 0
  BY <1>3, <1>5 DEF IndexValid, order
<1>8. Walks(u) /\ Keeps(v, u) /\ LeadsOn(u, W)
  BY <1>5, <1>6, <1>7, DataSeekLeads
<1>9. TableSeek(t, target) = SkipForward(u)
  BY DEF TableSeek, u, v, s, x, order
<1> HIDE DEF u, W
<1>10. GetsToFirst(u, SkipForward(u), W)
  BY <1>8, SkipForwardIs
<1>11. Keeps(t, u)
  BY <1>4, <1>5, <1>8, KeepsOn
<1> QED
  BY <1>9, <1>10, <1>11, KeepsOn DEF GetsToFirst, W

-----------------------------------------------------------------------------
(* MergingIterator *)

Visibles == 1 .. snapshot
ReadsOK(n) == DatabaseOK /\ n \in Flushed .. MaxUpdates /\ snapshot \in 1 .. n

MergeIters == [mem : Int, table : TableIters, current : Children \union {"none"}, forward : BOOLEAN]

(* The children, of which the memtable's has n updates *)
ChildrenOK(m, n) == m \in MergeIters /\ m.mem \in {0} \union InMem(n) /\ TableOK(m.table)

(* current is the child with the smallest or the largest key. *)
CurrentOK(m) ==
    /\ m.current = "none" => m.mem = 0 /\ EntryAt(m.table) = 0
    /\ m.current # "none" =>
         /\ MergeEntry(m) # 0
         /\ \A c \in Children \ {m.current} : EntryOf(m, c) # 0 =>
               IF m.forward THEN Before(MergeEntry(m), EntryOf(m, c))
               ELSE Before(EntryOf(m, c), MergeEntry(m))

MergeOK(m, n) == ChildrenOK(m, n) /\ CurrentOK(m)

(* The visible entries that are still to come, in the direction of the     *)
(* iterator: the present one and those behind it, child by child.          *)
Child(v) == IF v <= Flushed THEN "table" ELSE "mem"
IsAhead(x, v, forward) == x # 0 /\ (v = x \/ IF forward THEN Before(x, v) ELSE Before(v, x))
Ahead(m) == {v \in Visibles : IsAhead(EntryOf(m, Child(v)), v, m.forward)}

(* A child that is at x has the visible entries of V ahead. *)
ChildAt(x, c, V, forward) == \A v \in Visibles : Child(v) = c => (IsAhead(x, v, forward) <=> v \in V)

(* A method gets the merging iterator from t, its old table, to m. *)
MovesTo(t, m, n, forward, V) ==
    /\ MergeOK(m, n) /\ m.forward = forward /\ Keeps(t, m.table)
    /\ Failed(m.table) \/ Ahead(m) = V

LEMMA Numbers ==
    ASSUME NEW n, ReadsOK(n)
    PROVE  /\ n \in Nat /\ snapshot \in Nat /\ Flushed \in Nat /\ MaxUpdates \in Nat
           /\ Visibles \subseteq Entries /\ InMem(n) \subseteq Entries /\ Flushes \subseteq Entries
           /\ 0 \notin Entries /\ UpdatesOK
           /\ \A v \in Visibles : /\ Child(v) = "mem" => v \in InMem(n)
                                  /\ Child(v) = "table" => v \in Flushes
                                  /\ Child(v) \in Children
           /\ \A v \in InMem(n) : Child(v) = "mem"
           /\ \A v \in Flushes : Child(v) = "table"
<1>1. n \in Nat /\ snapshot \in Nat /\ Flushed \in Nat /\ MaxUpdates \in Nat /\ n <= MaxUpdates
      /\ Flushed <= n /\ snapshot <= n
  BY IteratorsAssumption DEF ReadsOK
<1>2. Visibles \subseteq Entries /\ InMem(n) \subseteq Entries /\ Flushes \subseteq Entries /\ 0 \notin Entries
  BY <1>1 DEF Visibles, Entries, InMem, Flushes
<1>3. \A v \in Visibles : /\ Child(v) = "mem" => v \in InMem(n)
                          /\ Child(v) = "table" => v \in Flushes
                          /\ Child(v) \in Children
  BY <1>1 DEF Visibles, Child, InMem, Flushes, Children
<1>4. \A v \in InMem(n) : Child(v) = "mem"
  BY <1>1 DEF Child, InMem
<1>5. \A v \in Flushes : Child(v) = "table"
  BY <1>1 DEF Child, Flushes
<1> QED
  BY <1>1, <1>2, <1>3, <1>4, <1>5 DEF ReadsOK, DatabaseOK

(* What the children are at *)
LEMMA EntriesAre ==
    ASSUME NEW n, ReadsOK(n), NEW m, ChildrenOK(m, n)
    PROVE  /\ m.mem # 0 => m.mem \in InMem(n) /\ m.mem \in Entries /\ Child(m.mem) = "mem"
           /\ EntryAt(m.table) # 0 => /\ EntryAt(m.table) \in Flushes /\ EntryAt(m.table) \in Entries
                                      /\ Child(EntryAt(m.table)) = "table" /\ DataValid(m.table)
           /\ DataValid(m.table) => EntryAt(m.table) # 0
<1> DEFINE t == m.table
<1>1. Walks(t) /\ (DataValid(t) \/ ~IndexValid(t))
  BY DEF ChildrenOK, TableOK
<1>2. DataValid(t) => EntryAt(t) \in Flushes
  <2> SUFFICES ASSUME DataValid(t) PROVE EntryAt(t) \in Flushes
    OBVIOUS
  <2>1. /\ t.index.at \in Blocks /\ t.data.at \in 1 .. Len(table[t.index.at])
        /\ EntryAt(t) = table[t.index.at][t.data.at]
    BY <1>1, WalksCases DEF ReadsOK
  <2> QED
    BY <2>1, BlockFacts DEF ReadsOK, DatabaseOK, Flushes
<1>3. ~DataValid(t) => EntryAt(t) = 0
  BY DEF EntryAt
<1>4. 0 \notin Flushes
  BY Numbers
<1>5. m.mem # 0 => m.mem \in InMem(n)
  BY DEF ChildrenOK
<1> QED
  BY <1>2, <1>3, <1>4, <1>5, Numbers

LEMMA FirstAhead ==
    ASSUME UpdatesOK, NEW O, O \subseteq Entries, NEW W, W \subseteq O, NEW x, IsFirst(x, W),
           \A i \in W, j \in O : Before(i, j) => j \in W
    PROVE  \A v \in O : IsAhead(x, v, TRUE) <=> v \in W
<1>1. 0 \notin Entries
  BY IteratorsAssumption DEF Entries
<1>2. x # 0 => x \in W
  BY DEF IsFirst
<1>3. \A v \in W : x # 0 /\ (v = x \/ Before(x, v))
  BY <1>1 DEF IsFirst
<1> QED
  BY <1>2, <1>3 DEF IsAhead

LEMMA LastAhead ==
    ASSUME UpdatesOK, NEW O, O \subseteq Entries, NEW W, W \subseteq O, NEW x, IsLast(x, W),
           \A i \in W, j \in O : Before(j, i) => j \in W
    PROVE  \A v \in O : IsAhead(x, v, FALSE) <=> v \in W
<1>1. 0 \notin Entries
  BY IteratorsAssumption DEF Entries
<1>2. x # 0 => x \in W
  BY DEF IsLast
<1>3. \A v \in W : x # 0 /\ (v = x \/ Before(v, x))
  BY <1>1 DEF IsLast
<1> QED
  BY <1>2, <1>3 DEF IsAhead

(* Both children move; W is what a child moves to the first or last of. *)
LEMMA MemFirstAt ==
    ASSUME NEW n, ReadsOK(n), NEW W, W \subseteq InMem(n), NEW V,
           \A i \in W, j \in InMem(n) : Before(i, j) => j \in W,
           \A v \in Visibles : Child(v) = "mem" => (v \in W <=> v \in V)
    PROVE  FirstOf(W) \in {0} \union InMem(n) /\ ChildAt(FirstOf(W), "mem", V, TRUE)
<1>1. UpdatesOK /\ InMem(n) \subseteq Entries /\ \A v \in Visibles : Child(v) = "mem" => v \in InMem(n)
  BY Numbers
<1>2. IsFirst(FirstOf(W), W)
  BY <1>1, FirstIs
<1>3. \A v \in InMem(n) : IsAhead(FirstOf(W), v, TRUE) <=> v \in W
  BY <1>1, <1>2, FirstAhead
<1>4. FirstOf(W) \in {0} \union InMem(n)
  BY <1>2 DEF IsFirst
<1> QED
  BY <1>1, <1>3, <1>4 DEF ChildAt

LEMMA MemLastAt ==
    ASSUME NEW n, ReadsOK(n), NEW W, W \subseteq InMem(n), NEW V,
           \A i \in W, j \in InMem(n) : Before(j, i) => j \in W,
           \A v \in Visibles : Child(v) = "mem" => (v \in W <=> v \in V)
    PROVE  LastOf(W) \in {0} \union InMem(n) /\ ChildAt(LastOf(W), "mem", V, FALSE)
<1>1. UpdatesOK /\ InMem(n) \subseteq Entries /\ \A v \in Visibles : Child(v) = "mem" => v \in InMem(n)
  BY Numbers
<1>2. IsLast(LastOf(W), W)
  BY <1>1, LastIs
<1>3. \A v \in InMem(n) : IsAhead(LastOf(W), v, FALSE) <=> v \in W
  BY <1>1, <1>2, LastAhead
<1>4. LastOf(W) \in {0} \union InMem(n)
  BY <1>2 DEF IsLast
<1> QED
  BY <1>1, <1>3, <1>4 DEF ChildAt

TableAt(t, V, forward) == Failed(t) \/ ChildAt(EntryAt(t), "table", V, forward)

LEMMA TableFirstAt ==
    ASSUME NEW n, ReadsOK(n), NEW t, NEW u, NEW W, W \subseteq Flushes, GetsToFirst(t, u, W), NEW V,
           \A i \in W, j \in Flushes : Before(i, j) => j \in W,
           \A v \in Visibles : Child(v) = "table" => (v \in W <=> v \in V)
    PROVE  TableOK(u) /\ Keeps(t, u) /\ TableAt(u, V, TRUE)
<1>1. UpdatesOK /\ Flushes \subseteq Entries /\ \A v \in Visibles : Child(v) = "table" => v \in Flushes
  BY Numbers
<1>2. TableOK(u) /\ Keeps(t, u) /\ (Failed(u) \/ IsFirst(EntryAt(u), W))
  BY DEF GetsToFirst
<1>3. IsFirst(EntryAt(u), W) => \A v \in Flushes : IsAhead(EntryAt(u), v, TRUE) <=> v \in W
  BY <1>1, FirstAhead
<1> QED
  BY <1>1, <1>2, <1>3 DEF ChildAt, TableAt

LEMMA TableLastAt ==
    ASSUME NEW n, ReadsOK(n), NEW t, NEW u, NEW W, W \subseteq Flushes, GetsToLast(t, u, W), NEW V,
           \A i \in W, j \in Flushes : Before(j, i) => j \in W,
           \A v \in Visibles : Child(v) = "table" => (v \in W <=> v \in V)
    PROVE  TableOK(u) /\ Keeps(t, u) /\ TableAt(u, V, FALSE)
<1>1. UpdatesOK /\ Flushes \subseteq Entries /\ \A v \in Visibles : Child(v) = "table" => v \in Flushes
  BY Numbers
<1>2. TableOK(u) /\ Keeps(t, u) /\ (Failed(u) \/ IsLast(EntryAt(u), W))
  BY DEF GetsToLast
<1>3. IsLast(EntryAt(u), W) => \A v \in Flushes : IsAhead(EntryAt(u), v, FALSE) <=> v \in W
  BY <1>1, LastAhead
<1> QED
  BY <1>1, <1>2, <1>3 DEF ChildAt, TableAt

(* FindSmallest and FindLargest *)
LEMMA SelectIs ==
    ASSUME NEW n, ReadsOK(n), NEW m, ChildrenOK(m, n), NEW best, NEW forward, m.forward = forward,
           LET S == {EntryOf(m, c) : c \in Children} \ {0}
           IN  IF forward THEN IsFirst(best, S) ELSE IsLast(best, S),
           NEW u, u = [m EXCEPT !.current = IF best = 0 THEN "none"
                                            ELSE CHOOSE c \in Children : EntryOf(m, c) = best]
    PROVE  MergeOK(u, n) /\ u.forward = forward /\ u.mem = m.mem /\ u.table = m.table
<1> DEFINE S == {EntryOf(m, c) : c \in Children} \ {0}
           cur == IF best = 0 THEN "none" ELSE CHOOSE c \in Children : EntryOf(m, c) = best
<1>1. /\ m \in MergeIters
      /\ EntryOf(m, "mem") = m.mem /\ EntryOf(m, "table") = EntryAt(m.table) /\ Children = {"mem", "table"}
  BY DEF ChildrenOK, EntryOf, Children
<1>2. best = 0 <=> S = {}
  BY DEF IsFirst, IsLast
<1>3. best # 0 => best \in S /\ \A j \in S \ {best} : IF forward THEN Before(best, j) ELSE Before(j, best)
  BY <1>2 DEF IsFirst, IsLast
<1>4. best # 0 => \E c \in Children : EntryOf(m, c) = best
  BY <1>3
<1>5. /\ best # 0 => cur \in Children /\ EntryOf(m, cur) = best
      /\ best = 0 => cur = "none"
  BY <1>4
<1> HIDE DEF cur
<1>6. /\ u \in MergeIters /\ u.forward = forward /\ u.mem = m.mem /\ u.table = m.table /\ u.current = cur
  BY <1>1, <1>5 DEF MergeIters, cur
<1>7. \A c : EntryOf(u, c) = EntryOf(m, c)
  BY <1>6 DEF EntryOf
<1>8. ChildrenOK(u, n)
  BY <1>6 DEF ChildrenOK
<1>9. CurrentOK(u)
  <2>1. CASE best = 0
    <3>1. cur = "none" /\ m.mem = 0 /\ EntryAt(m.table) = 0
      BY <1>1, <1>2, <1>5, <2>1
    <3> QED
      BY <1>6, <3>1 DEF CurrentOK
  <2>2. CASE best # 0
    <3>1. cur # "none" /\ MergeEntry(u) = best
      <4>1. cur \in {"mem", "table"} /\ EntryOf(m, cur) = best
        BY <1>1, <1>5, <2>2
      <4>2. cur # "none" /\ EntryOf(u, cur) = best
        BY <1>7, <4>1
      <4> QED
        BY <1>6, <4>2 DEF MergeEntry
    <3>2. ASSUME NEW c \in Children \ {cur}, EntryOf(m, c) # 0
          PROVE  EntryOf(m, c) # best
      <4>1. m.mem # EntryAt(m.table) \/ m.mem = 0
        BY EntriesAre
      <4>2. EntryOf(m, cur) = best /\ cur \in Children
        BY <1>5, <2>2
      <4> QED
        BY <1>1, <3>2, <4>1, <4>2
    <3>3. \A c \in Children \ {cur} : EntryOf(m, c) # 0 =>
             IF forward THEN Before(best, EntryOf(m, c)) ELSE Before(EntryOf(m, c), best)
      BY <1>3, <2>2, <3>2
    <3>4. u.current # "none" /\ MergeEntry(u) # 0
      BY <1>6, <2>2, <3>1
    <3> QED
      BY <1>6, <1>7, <3>1, <3>3, <3>4 DEF CurrentOK
  <2> QED
    BY <2>1, <2>2
<1> QED
  BY <1>6, <1>8, <1>9 DEF MergeOK

LEMMA FindSmallestIs ==
    ASSUME NEW n, ReadsOK(n), NEW m, ChildrenOK(m, n), NEW t, Keeps(t, m.table),
           NEW V, V \subseteq Visibles, ChildAt(m.mem, "mem", V, TRUE), TableAt(m.table, V, TRUE)
    PROVE  MovesTo(t, FindSmallest(m), n, TRUE, V)
<1> DEFINE k == [m EXCEPT !.forward = TRUE]
           S == {EntryOf(k, c) : c \in Children} \ {0}
           best == FirstOf(S)
           u == FindSmallest(m)
<1>1. /\ Children = {"mem", "table"}
      /\ EntryOf(k, "mem") = k.mem /\ EntryOf(k, "table") = EntryAt(k.table)
  BY DEF EntryOf, Children
<1>2. k \in MergeIters /\ k.mem = m.mem /\ k.table = m.table /\ k.forward = TRUE /\ ChildrenOK(k, n)
  BY DEF ChildrenOK, MergeIters
<1>3. u = [k EXCEPT !.current = IF best = 0 THEN "none" ELSE CHOOSE c \in Children : EntryOf(k, c) = best]
  BY DEF FindSmallest, Select
<1> HIDE DEF k
<1>4. S \subseteq Entries
  BY <1>1, <1>2, EntriesAre
<1>5. IsFirst(best, S)
  BY <1>4, FirstIs DEF ReadsOK, DatabaseOK
<1> HIDE DEF u, best
<1>6. MergeOK(u, n) /\ u.forward = TRUE /\ u.mem = m.mem /\ u.table = m.table
  <2>1. MergeOK(u, n) /\ u.forward = TRUE /\ u.mem = k.mem /\ u.table = k.table
    BY <1>2, <1>3, <1>5, SelectIs
  <2> QED
    BY <1>2, <2>1
<1>7. Failed(u.table) \/ Ahead(u) = V
  <2> SUFFICES ASSUME ~Failed(u.table) PROVE Ahead(u) = V
    OBVIOUS
  <2>1. ChildAt(EntryAt(m.table), "table", V, TRUE)
    BY <1>6 DEF TableAt
  <2>2. ASSUME NEW v \in Visibles
        PROVE  IsAhead(EntryOf(u, Child(v)), v, TRUE) <=> v \in V
    <3>1. Child(v) \in Children
      BY Numbers
    <3>2. CASE Child(v) = "mem"
      BY <1>6, <3>2 DEF ChildAt, EntryOf
    <3>3. CASE Child(v) = "table"
      BY <1>6, <2>1, <3>3 DEF ChildAt, EntryOf
    <3> QED
      BY <3>1, <3>2, <3>3 DEF Children
  <2> QED
    BY <1>6, <2>2 DEF Ahead
<1> QED
  BY <1>6, <1>7 DEF MovesTo, u

LEMMA FindLargestIs ==
    ASSUME NEW n, ReadsOK(n), NEW m, ChildrenOK(m, n), NEW t, Keeps(t, m.table),
           NEW V, V \subseteq Visibles, ChildAt(m.mem, "mem", V, FALSE), TableAt(m.table, V, FALSE)
    PROVE  MovesTo(t, FindLargest(m), n, FALSE, V)
<1> DEFINE k == [m EXCEPT !.forward = FALSE]
           S == {EntryOf(k, c) : c \in Children} \ {0}
           best == LastOf(S)
           u == FindLargest(m)
<1>1. /\ Children = {"mem", "table"}
      /\ EntryOf(k, "mem") = k.mem /\ EntryOf(k, "table") = EntryAt(k.table)
  BY DEF EntryOf, Children
<1>2. k \in MergeIters /\ k.mem = m.mem /\ k.table = m.table /\ k.forward = FALSE /\ ChildrenOK(k, n)
  BY DEF ChildrenOK, MergeIters
<1>3. u = [k EXCEPT !.current = IF best = 0 THEN "none" ELSE CHOOSE c \in Children : EntryOf(k, c) = best]
  BY DEF FindLargest, Select
<1> HIDE DEF k
<1>4. S \subseteq Entries
  BY <1>1, <1>2, EntriesAre
<1>5. IsLast(best, S)
  BY <1>4, LastIs DEF ReadsOK, DatabaseOK
<1> HIDE DEF u, best
<1>6. MergeOK(u, n) /\ u.forward = FALSE /\ u.mem = m.mem /\ u.table = m.table
  <2>1. MergeOK(u, n) /\ u.forward = FALSE /\ u.mem = k.mem /\ u.table = k.table
    BY <1>2, <1>3, <1>5, SelectIs
  <2> QED
    BY <1>2, <2>1
<1>7. Failed(u.table) \/ Ahead(u) = V
  <2> SUFFICES ASSUME ~Failed(u.table) PROVE Ahead(u) = V
    OBVIOUS
  <2>1. ChildAt(EntryAt(m.table), "table", V, FALSE)
    BY <1>6 DEF TableAt
  <2>2. ASSUME NEW v \in Visibles
        PROVE  IsAhead(EntryOf(u, Child(v)), v, FALSE) <=> v \in V
    <3>1. Child(v) \in Children
      BY Numbers
    <3>2. CASE Child(v) = "mem"
      BY <1>6, <3>2 DEF ChildAt, EntryOf
    <3>3. CASE Child(v) = "table"
      BY <1>6, <2>1, <3>3 DEF ChildAt, EntryOf
    <3> QED
      BY <3>1, <3>2, <3>3 DEF Children
  <2> QED
    BY <1>6, <2>2 DEF Ahead
<1> QED
  BY <1>6, <1>7 DEF MovesTo, u

(* The children's moves, by the visible entries they leave ahead *)
LEMMA MemNextAt ==
    ASSUME NEW n, ReadsOK(n), NEW e \in Entries, NEW V,
           \A v \in Visibles : Child(v) = "mem" => (v \in V <=> Before(e, v))
    PROVE  MemNext(InMem(n), e) \in {0} \union InMem(n) /\ ChildAt(MemNext(InMem(n), e), "mem", V, TRUE)
<1> DEFINE W == {j \in InMem(n) : Before(e, j)}
<1>1. MemNext(InMem(n), e) = FirstOf(W)
  BY DEF MemNext, Before
<1>2. \A v \in Visibles : Child(v) = "mem" => (v \in W <=> v \in V)
  BY Numbers
<1>3. \A i \in W, j \in InMem(n) : Before(i, j) => j \in W
  BY Numbers, Order
<1>4. W \subseteq InMem(n)
  OBVIOUS
<1> HIDE DEF W
<1> QED
  BY <1>1, <1>2, <1>3, <1>4, MemFirstAt

LEMMA MemPrevAt ==
    ASSUME NEW n, ReadsOK(n), NEW e \in Entries, NEW V,
           \A v \in Visibles : Child(v) = "mem" => (v \in V <=> Before(v, e))
    PROVE  MemPrev(InMem(n), e) \in {0} \union InMem(n) /\ ChildAt(MemPrev(InMem(n), e), "mem", V, FALSE)
<1> DEFINE W == {j \in InMem(n) : Before(j, e)}
<1>1. MemPrev(InMem(n), e) = LastOf(W)
  BY DEF MemPrev, Before
<1>2. \A v \in Visibles : Child(v) = "mem" => (v \in W <=> v \in V)
  BY Numbers
<1>3. \A i \in W, j \in InMem(n) : Before(j, i) => j \in W
  BY Numbers, Order
<1>4. W \subseteq InMem(n)
  OBVIOUS
<1> HIDE DEF W
<1> QED
  BY <1>1, <1>2, <1>3, <1>4, MemLastAt

LEMMA MemSeekAt ==
    ASSUME NEW n, ReadsOK(n), NEW target \in Nat \X Nat, NEW V,
           \A v \in Visibles : Child(v) = "mem" => (v \in V <=> Reaches(v, target))
    PROVE  /\ MemSeek(InMem(n), target) \in {0} \union InMem(n)
           /\ ChildAt(MemSeek(InMem(n), target), "mem", V, TRUE)
<1> DEFINE W == {j \in InMem(n) : Reaches(j, target)}
<1>1. MemSeek(InMem(n), target) = FirstOf(W)
  BY DEF MemSeek, Reaches
<1>2. \A v \in Visibles : Child(v) = "mem" => (v \in W <=> v \in V)
  BY Numbers
<1>3. \A i \in W, j \in InMem(n) : Before(i, j) => j \in W
  BY Numbers, Targets
<1>4. W \subseteq InMem(n)
  OBVIOUS
<1> HIDE DEF W
<1> QED
  BY <1>1, <1>2, <1>3, <1>4, MemFirstAt

LEMMA TableNextAt ==
    ASSUME NEW n, ReadsOK(n), NEW t, TableOK(t), DataValid(t), EntryAt(t) \in Entries, NEW V,
           \A v \in Visibles : Child(v) = "table" => (v \in V <=> Before(EntryAt(t), v))
    PROVE  TableOK(TableNext(t)) /\ Keeps(t, TableNext(t)) /\ TableAt(TableNext(t), V, TRUE)
<1> DEFINE W == {j \in Flushes : Before(EntryAt(t), j)}
<1>1. GetsToFirst(t, TableNext(t), W)
  BY TableNextIs DEF ReadsOK
<1>2. \A v \in Visibles : Child(v) = "table" => (v \in W <=> v \in V)
  BY Numbers
<1>3. \A i \in W, j \in Flushes : Before(i, j) => j \in W
  BY Numbers, Order
<1>4. W \subseteq Flushes
  OBVIOUS
<1> HIDE DEF W
<1> QED
  BY <1>1, <1>2, <1>3, <1>4, TableFirstAt

LEMMA TablePrevAt ==
    ASSUME NEW n, ReadsOK(n), NEW t, TableOK(t), DataValid(t), EntryAt(t) \in Entries, NEW V,
           \A v \in Visibles : Child(v) = "table" => (v \in V <=> Before(v, EntryAt(t)))
    PROVE  TableOK(TablePrev(t)) /\ Keeps(t, TablePrev(t)) /\ TableAt(TablePrev(t), V, FALSE)
<1> DEFINE W == {j \in Flushes : Before(j, EntryAt(t))}
<1>1. GetsToLast(t, TablePrev(t), W)
  BY TablePrevIs DEF ReadsOK
<1>2. \A v \in Visibles : Child(v) = "table" => (v \in W <=> v \in V)
  BY Numbers
<1>3. \A i \in W, j \in Flushes : Before(j, i) => j \in W
  BY Numbers, Order
<1>4. W \subseteq Flushes
  OBVIOUS
<1> HIDE DEF W
<1> QED
  BY <1>1, <1>2, <1>3, <1>4, TableLastAt

LEMMA TableSeekAt ==
    ASSUME NEW n, ReadsOK(n), NEW t, TableOK(t), NEW target \in Nat \X Nat, NEW V,
           \A v \in Visibles : Child(v) = "table" => (v \in V <=> Reaches(v, target))
    PROVE  /\ TableOK(TableSeek(t, target)) /\ Keeps(t, TableSeek(t, target))
           /\ TableAt(TableSeek(t, target), V, TRUE)
<1> DEFINE W == {j \in Flushes : Reaches(j, target)}
<1>1. GetsToFirst(t, TableSeek(t, target), W)
  BY TableSeekIs DEF ReadsOK
<1>2. \A v \in Visibles : Child(v) = "table" => (v \in W <=> v \in V)
  BY Numbers
<1>3. \A i \in W, j \in Flushes : Before(i, j) => j \in W
  BY Numbers, Targets
<1>4. W \subseteq Flushes
  OBVIOUS
<1> HIDE DEF W
<1> QED
  BY <1>1, <1>2, <1>3, <1>4, TableFirstAt

(* An entry as a target *)
LEMMA EntryTarget ==
    ASSUME UpdatesOK, NEW e \in Entries
    PROVE  /\ InternalKey(e) \in Nat \X Nat
           /\ \A j \in Entries : j # e => (Reaches(j, InternalKey(e)) <=> Before(e, j))
<1>1. e \in Nat /\ Key(e) \in Nat
  BY KeysAre, IteratorsAssumption DEF Entries
<1>2. \A j : Reaches(j, InternalKey(e)) <=> ~Before(j, e)
  BY DEF Reaches, Before
<1> QED
  BY <1>1, <1>2, Order DEF InternalKey

(* The child that was behind the current one, turned backwards: it seeks   *)
(* and steps back, to before what the seek found.                          *)
LEMMA TableTurnsBack ==
    ASSUME NEW n, ReadsOK(n), NEW t, TableOK(t), NEW e \in Entries, Child(e) # "table", NEW V,
           \A v \in Visibles : Child(v) = "table" => (v \in V <=> Before(v, e))
    PROVE  LET s == TableSeek(t, InternalKey(e))
               u == IF DataValid(s) THEN TablePrev(s) ELSE TableLast(s)
           IN  TableOK(u) /\ Keeps(t, u) /\ TableAt(u, V, FALSE)
<1> DEFINE s == TableSeek(t, InternalKey(e))
           u == IF DataValid(s) THEN TablePrev(s) ELSE TableLast(s)
           W == {j \in Flushes : Before(e, j)}
           B == {j \in Flushes : Before(j, e)}
<1>1. /\ \A j \in Flushes : j \in Entries /\ j # e
      /\ UpdatesOK /\ DatabaseOK /\ Flushes \subseteq Entries
      /\ \A v \in Visibles : Child(v) = "table" => v \in Flushes
  BY Numbers DEF ReadsOK
<1>2. {j \in Flushes : Reaches(j, InternalKey(e))} = W /\ InternalKey(e) \in Nat \X Nat
  BY <1>1, EntryTarget
<1>3. GetsToFirst(t, s, W)
  BY <1>1, <1>2, TableSeekIs
<1>4. TableOK(s) /\ Keeps(t, s) /\ (Failed(s) \/ IsFirst(EntryAt(s), W))
  BY <1>3 DEF GetsToFirst
<1>5. \A v \in Visibles : Child(v) = "table" => (v \in B <=> v \in V)
  BY <1>1
<1>6. \A i \in B, j \in Flushes : Before(j, i) => j \in B
  BY <1>1, Order
<1> HIDE DEF s
<1>7. GetsToLast(s, u, B)
  <2>1. CASE DataValid(s)
    <3> DEFINE x == EntryAt(s)
               D == {j \in Flushes : Before(j, x)}
    <3>1. GetsToLast(s, u, D)
      BY <1>1, <1>4, <2>1, TablePrevIs
    <3>2. x \in Flushes
      <4>1. Walks(s)
        BY <1>4 DEF TableOK
      <4>2. IndexValid(s) /\ s.block \notin unreadable
        BY <1>1, <2>1, <4>1, WalksCases
      <4>3. s.index.at \in Blocks /\ s.data.at \in 1 .. Len(table[s.index.at]) /\ x = table[s.index.at][s.data.at]
        BY <1>1, <2>1, <4>1, <4>2, WalksCases
      <4> QED
        BY <1>1, <4>3, BlockFacts DEF DatabaseOK, Flushes
    <3>3. IsFirst(x, W) => D = B
      <4> SUFFICES ASSUME IsFirst(x, W), NEW j \in Flushes PROVE Before(j, x) <=> Before(j, e)
        OBVIOUS
      <4>1. x \in W /\ Before(e, x)
        <5>1. 0 \notin Flushes
          BY Numbers
        <5> QED
          BY <3>2, <5>1 DEF IsFirst
      <4>2. j \in W => j = x \/ Before(x, j)
        BY <4>1 DEF IsFirst
      <4> QED
        BY <1>1, <3>2, <4>1, <4>2, Order
    <3> HIDE DEF u, D, B
    <3> QED
      BY <1>4, <3>1, <3>3 DEF GetsToLast, Keeps
  <2>2. CASE ~DataValid(s)
    <3>1. GetsToLast(s, u, Flushes)
      BY <1>1, <1>4, <2>2, TableLastIs
    <3>2. EntryAt(s) = 0
      BY <2>2 DEF EntryAt
    <3>3. IsFirst(EntryAt(s), W) => B = Flushes
      <4> SUFFICES ASSUME IsFirst(0, W), NEW j \in Flushes PROVE Before(j, e)
        BY <3>2
      <4>1. j \notin W
        <5>1. 0 \notin W
          BY Numbers
        <5> QED
          BY <5>1 DEF IsFirst
      <4> QED
        BY <1>1, <4>1, Order
    <3> HIDE DEF u, B
    <3> QED
      BY <1>4, <3>1, <3>3 DEF GetsToLast, Keeps
  <2> QED
    BY <2>1, <2>2
<1> HIDE DEF u
<1>8. B \subseteq Flushes
  OBVIOUS
<1> HIDE DEF B
<1>9. TableOK(u) /\ Keeps(s, u) /\ TableAt(u, V, FALSE)
  BY <1>5, <1>6, <1>7, <1>8, TableLastAt
<1> QED
  BY <1>4, <1>9, KeepsOn DEF u, s

(* The memtable's iterator likewise; the writer may have put entries       *)
(* between the two, but none that the snapshot shows.                      *)
LEMMA MemTurnsBack ==
    ASSUME NEW n, ReadsOK(n), NEW k, ReadsOK(k), n <= k, NEW e \in Entries, Child(e) # "mem", NEW V,
           \A v \in Visibles : Child(v) = "mem" => (v \in V <=> Before(v, e))
    PROVE  LET i == MemSeek(InMem(n), InternalKey(e))
               x == IF i # 0 THEN MemPrev(InMem(k), i) ELSE LastOf(InMem(k))
           IN  x \in {0} \union InMem(k) /\ ChildAt(x, "mem", V, FALSE)
<1> DEFINE i == MemSeek(InMem(n), InternalKey(e))
           x == IF i # 0 THEN MemPrev(InMem(k), i) ELSE LastOf(InMem(k))
           W == {j \in InMem(n) : Before(e, j)}
<1>1. /\ \A j \in InMem(n) : j \in Entries /\ j # e
      /\ UpdatesOK /\ InMem(n) \subseteq Entries /\ InMem(k) \subseteq Entries /\ 0 \notin Entries
      /\ \A v \in Visibles : v \in Entries /\ (Child(v) = "mem" => v \in InMem(n) /\ v \in InMem(k))
  BY Numbers
<1>2. {j \in InMem(n) : Reaches(j, InternalKey(e))} = W
  BY <1>1, EntryTarget
<1>3. i = FirstOf(W)
  BY <1>2 DEF MemSeek, Reaches
<1>4. IsFirst(i, W)
  BY <1>1, <1>3, FirstIs
<1> HIDE DEF i
<1>5. CASE i # 0
  <2>1. i \in W /\ i \in Entries /\ Before(e, i)
    BY <1>1, <1>4, <1>5 DEF IsFirst
  <2>2. ASSUME NEW v \in Visibles, Child(v) = "mem"
        PROVE  v \in V <=> Before(v, i)
    <3>1. v \in InMem(n) /\ v \in Entries /\ v # e
      BY <1>1, <2>2
    <3>2. v \in W => v = i \/ Before(i, v)
      BY <1>4, <2>1 DEF IsFirst
    <3>3. Before(v, i) <=> Before(v, e)
      BY <1>1, <2>1, <3>1, <3>2, Order
    <3> QED
      BY <2>2, <3>3
  <2>3. x = MemPrev(InMem(k), i)
    BY <1>5
  <2> HIDE DEF x
  <2>4. x \in {0} \union InMem(k) /\ ChildAt(x, "mem", V, FALSE)
    BY <2>1, <2>2, <2>3, MemPrevAt
  <2> QED
    BY <2>4 DEF x, i
<1>6. CASE i = 0
  <2>1. W = {}
    BY <1>1, <1>4, <1>6 DEF IsFirst
  <2>2. ASSUME NEW v \in Visibles, Child(v) = "mem"
        PROVE  v \in V <=> v \in InMem(k)
    <3>1. v \in InMem(n) /\ v \in InMem(k) /\ v \in Entries /\ v # e /\ v \notin W
      BY <1>1, <2>1, <2>2
    <3>2. Before(v, e)
      BY <1>1, <3>1, Order
    <3> QED
      BY <2>2, <3>1, <3>2
  <2>3. x = LastOf(InMem(k))
    BY <1>6
  <2> HIDE DEF x
  <2>4. x \in {0} \union InMem(k) /\ ChildAt(x, "mem", V, FALSE)
    BY <1>1, <2>2, <2>3, MemLastAt
  <2> QED
    BY <2>4 DEF x, i
<1> QED
  BY <1>5, <1>6

(* The methods of MergingIterator, by what is ahead afterwards: first those *)
(* that go to a place, *)
LEMMA ChildTypes ==
    ASSUME NEW n, ReadsOK(n), NEW x \in {0} \union InMem(n), NEW t, TableOK(t)
    PROVE  x \in Int /\ t \in TableIters
<1>1. x \in Int
  BY Numbers, IteratorsAssumption DEF Entries
<1>2. t \in TableIters
  BY DEF TableOK, Walks
<1> QED
  BY <1>1, <1>2

LEMMA MergeFirstIs ==
    ASSUME NEW n, NEW k, ReadsOK(k), NEW m, MergeOK(m, n)
    PROVE  MovesTo(m.table, MergeFirst(m, k), k, TRUE, Visibles)
<1> DEFINE x == FirstOf(InMem(k))
           t == TableFirst(m.table)
           u == [m EXCEPT !.mem = x, !.table = t]
<1>1. m \in MergeIters /\ TableOK(m.table)
  BY DEF MergeOK, ChildrenOK
<1>2. x \in {0} \union InMem(k) /\ ChildAt(x, "mem", Visibles, TRUE)
  <2>1. \A v \in Visibles : Child(v) = "mem" => (v \in InMem(k) <=> v \in Visibles)
    BY Numbers
  <2> QED
    BY <2>1, MemFirstAt
<1>3. TableOK(t) /\ Keeps(m.table, t) /\ TableAt(t, Visibles, TRUE)
  <2>1. \A v \in Visibles : Child(v) = "table" => (v \in Flushes <=> v \in Visibles)
    BY Numbers
  <2>2. GetsToFirst(m.table, t, Flushes)
    BY <1>1, TableFirstIs DEF ReadsOK
  <2> HIDE DEF t
  <2> QED
    BY <2>1, <2>2, TableFirstAt
<1>4. MergeFirst(m, k) = FindSmallest(u)
  BY DEF MergeFirst
<1> HIDE DEF x, t
<1>5. ChildrenOK(u, k) /\ u.mem = x /\ u.table = t
  BY <1>1, <1>2, <1>3, ChildTypes DEF ChildrenOK, MergeIters
<1> HIDE DEF u
<1> QED
  BY <1>2, <1>3, <1>4, <1>5, FindSmallestIs

LEMMA MergeLastIs ==
    ASSUME NEW n, NEW k, ReadsOK(k), NEW m, MergeOK(m, n)
    PROVE  MovesTo(m.table, MergeLast(m, k), k, FALSE, Visibles)
<1> DEFINE x == LastOf(InMem(k))
           t == TableLast(m.table)
           u == [m EXCEPT !.mem = x, !.table = t]
<1>1. m \in MergeIters /\ TableOK(m.table)
  BY DEF MergeOK, ChildrenOK
<1>2. x \in {0} \union InMem(k) /\ ChildAt(x, "mem", Visibles, FALSE)
  <2>1. \A v \in Visibles : Child(v) = "mem" => (v \in InMem(k) <=> v \in Visibles)
    BY Numbers
  <2> QED
    BY <2>1, MemLastAt
<1>3. TableOK(t) /\ Keeps(m.table, t) /\ TableAt(t, Visibles, FALSE)
  <2>1. \A v \in Visibles : Child(v) = "table" => (v \in Flushes <=> v \in Visibles)
    BY Numbers
  <2>2. GetsToLast(m.table, t, Flushes)
    BY <1>1, TableLastIs DEF ReadsOK
  <2> HIDE DEF t
  <2> QED
    BY <2>1, <2>2, TableLastAt
<1>4. MergeLast(m, k) = FindLargest(u)
  BY DEF MergeLast
<1> HIDE DEF x, t
<1>5. ChildrenOK(u, k) /\ u.mem = x /\ u.table = t
  BY <1>1, <1>2, <1>3, ChildTypes DEF ChildrenOK, MergeIters
<1> HIDE DEF u
<1> QED
  BY <1>2, <1>3, <1>4, <1>5, FindLargestIs

LEMMA MergeSeekIs ==
    ASSUME NEW n, NEW k, ReadsOK(k), NEW m, MergeOK(m, n), NEW target \in Nat \X Nat
    PROVE  MovesTo(m.table, MergeSeek(m, target, k), k, TRUE, {v \in Visibles : Reaches(v, target)})
<1> DEFINE x == MemSeek(InMem(k), target)
           t == TableSeek(m.table, target)
           u == [m EXCEPT !.mem = x, !.table = t]
           V == {v \in Visibles : Reaches(v, target)}
<1>1. m \in MergeIters /\ TableOK(m.table)
  BY DEF MergeOK, ChildrenOK
<1>2. x \in {0} \union InMem(k) /\ ChildAt(x, "mem", V, TRUE)
  <2>1. \A v \in Visibles : Child(v) = "mem" => (v \in V <=> Reaches(v, target))
    OBVIOUS
  <2> HIDE DEF V
  <2> QED
    BY <2>1, MemSeekAt
<1>3. TableOK(t) /\ Keeps(m.table, t) /\ TableAt(t, V, TRUE)
  <2>1. \A v \in Visibles : Child(v) = "table" => (v \in V <=> Reaches(v, target))
    OBVIOUS
  <2> HIDE DEF V
  <2> QED
    BY <1>1, <2>1, TableSeekAt
<1>4. MergeSeek(m, target, k) = FindSmallest(u)
  BY DEF MergeSeek
<1>5. V \subseteq Visibles
  OBVIOUS
<1> HIDE DEF x, t, V
<1>6. ChildrenOK(u, k) /\ u.mem = x /\ u.table = t
  BY <1>1, <1>2, <1>3, ChildTypes DEF ChildrenOK, MergeIters
<1> HIDE DEF u
<1>7. MovesTo(m.table, FindSmallest(u), k, TRUE, V)
  BY <1>2, <1>3, <1>5, <1>6, FindSmallestIs
<1> QED
  BY <1>4, <1>7 DEF V

(* then Next and Prev, from an entry e. Whoever goes on leaves e behind;   *)
(* whoever turns leaves what is on the other side of it.                   *)
Behind(e)        == {v \in Visibles : Before(e, v)}
InFront(e)       == {v \in Visibles : Before(v, e)}
AheadAfterNext(m) == IF m.forward THEN Ahead(m) \ {MergeEntry(m)} ELSE Behind(MergeEntry(m))
AheadAfterPrev(m) == IF ~m.forward THEN Ahead(m) \ {MergeEntry(m)} ELSE InFront(MergeEntry(m))

LEMMA CurrentIs ==
    ASSUME NEW n, ReadsOK(n), NEW m, MergeOK(m, n), MergeEntry(m) # 0
    PROVE  /\ m.current = "mem" => /\ MergeEntry(m) = m.mem /\ Child(MergeEntry(m)) = "mem"
                                   /\ MergeEntry(m) \in InMem(n)
           /\ m.current # "mem" => /\ m.current = "table" /\ MergeEntry(m) = EntryAt(m.table)
                                   /\ Child(MergeEntry(m)) = "table" /\ DataValid(m.table)
           /\ MergeEntry(m) \in Entries /\ InternalKey(MergeEntry(m)) \in Nat \X Nat
           /\ m \in MergeIters /\ TableOK(m.table) /\ m.mem \in {0} \union InMem(n)
<1>1. m \in MergeIters /\ TableOK(m.table) /\ m.mem \in {0} \union InMem(n) /\ ChildrenOK(m, n)
  BY DEF MergeOK, ChildrenOK
<1>2. m.current \in {"mem", "table", "none"}
  BY <1>1 DEF MergeIters, Children
<1>3. m.current = "mem" => /\ MergeEntry(m) = m.mem /\ Child(MergeEntry(m)) = "mem"
                           /\ MergeEntry(m) \in InMem(n) /\ MergeEntry(m) \in Entries
  BY <1>1, EntriesAre DEF MergeEntry, EntryOf
<1>4. m.current # "mem" => /\ m.current = "table" /\ MergeEntry(m) = EntryAt(m.table)
                           /\ Child(MergeEntry(m)) = "table" /\ DataValid(m.table)
                           /\ MergeEntry(m) \in Entries
  BY <1>1, <1>2, EntriesAre DEF MergeEntry, EntryOf
<1>5. MergeEntry(m) \in Entries
  BY <1>3, <1>4
<1>6. InternalKey(MergeEntry(m)) \in Nat \X Nat
  BY <1>5, EntryTarget DEF ReadsOK, DatabaseOK
<1> QED
  BY <1>1, <1>3, <1>4, <1>5, <1>6

(* What is ahead, child by child *)
LEMMA StaysAhead ==
    ASSUME NEW n, ReadsOK(n), NEW m, NEW c, NEW e, NEW V,
           V = Ahead(m) \ {e}, Child(e) # c
    PROVE  ChildAt(EntryOf(m, c), c, V, m.forward)
  BY DEF ChildAt, Ahead

LEMMA LeavesBehind ==
    ASSUME NEW n, ReadsOK(n), NEW m, NEW c, NEW e \in Entries, e = EntryOf(m, c), m.forward \in BOOLEAN,
           NEW V, V = Ahead(m) \ {e}, NEW v \in Visibles, Child(v) = c
    PROVE  /\ m.forward => (v \in V <=> Before(e, v))
           /\ ~m.forward => (v \in V <=> Before(v, e))
<1>1. v \in Entries /\ 0 \notin Entries /\ UpdatesOK
  BY Numbers
<1>2. v \in V <=> v # e /\ (v = e \/ IF m.forward THEN Before(e, v) ELSE Before(v, e))
  BY <1>1 DEF Ahead, IsAhead
<1>3. ~Before(e, e)
  BY <1>1, Order
<1> QED
  BY <1>2, <1>3

LEMMA MergeNextIs ==
    ASSUME NEW n, ReadsOK(n), NEW k, ReadsOK(k), n <= k, NEW m, MergeOK(m, n), MergeEntry(m) # 0
    PROVE  MovesTo(m.table, MergeNext(m, n, k), k, TRUE, AheadAfterNext(m))
<1> DEFINE e   == MergeEntry(m)
           key == InternalKey(e)
           V   == AheadAfterNext(m)
           xTurned == MemSeek(InMem(n), key)
           tTurned == TableSeek(m.table, key)
           x == IF m.current = "mem" THEN MemNext(InMem(k), e) ELSE IF m.forward THEN m.mem ELSE xTurned
           t == IF m.current # "mem" THEN TableNext(m.table) ELSE IF m.forward THEN m.table ELSE tTurned
           w == IF m.current = "mem" THEN [TurnForward(m, n) EXCEPT !.mem = MemNext(InMem(k), @)]
                ELSE [TurnForward(m, n) EXCEPT !.table = TableNext(@)]
<1>1. /\ m.current = "mem" => e = m.mem /\ Child(e) = "mem" /\ e = EntryOf(m, "mem")
      /\ m.current # "mem" => /\ m.current = "table" /\ e = EntryAt(m.table) /\ Child(e) = "table"
                              /\ DataValid(m.table) /\ e = EntryOf(m, "table")
      /\ e \in Entries /\ key \in Nat \X Nat
      /\ m \in MergeIters /\ TableOK(m.table) /\ m.mem \in {0} \union InMem(n)
  BY CurrentIs DEF EntryOf
<1>2. m.forward \in BOOLEAN /\ UpdatesOK
  BY <1>1 DEF MergeIters, ReadsOK, DatabaseOK
<1>3. InMem(n) \subseteq InMem(k)
  BY Numbers DEF InMem
<1>4. m.forward => V = Ahead(m) \ {e} /\ m.forward = TRUE
  BY <1>2 DEF AheadAfterNext
<1>5. ~m.forward => V = {v \in Visibles : Before(e, v)}
  BY DEF AheadAfterNext, Behind
<1>6. V \subseteq Visibles
  BY DEF AheadAfterNext, Behind, Ahead
<1>7. MergeEntry(m) # 0 /\ e # 0
  OBVIOUS
<1> HIDE DEF V, e
<1>8. x \in {0} \union InMem(k) /\ ChildAt(x, "mem", V, TRUE)
  <2>1. CASE m.current = "mem"
    <3>1. \A v \in Visibles : Child(v) = "mem" => (v \in V <=> Before(e, v))
      <4>1. CASE m.forward
        BY <1>1, <1>2, <1>4, <2>1, <4>1, LeavesBehind
      <4>2. CASE ~m.forward
        BY <1>5, <4>2
      <4> QED
        BY <4>1, <4>2
    <3> QED
      BY <1>1, <2>1, <3>1, MemNextAt
  <2>2. CASE m.current # "mem" /\ m.forward
    <3>1. ChildAt(EntryOf(m, "mem"), "mem", V, TRUE)
      <4>1. Child(e) # "mem" /\ m.forward = TRUE
        BY <1>1, <1>4, <2>2
      <4>2. ChildAt(EntryOf(m, "mem"), "mem", V, m.forward)
        BY <1>4, <2>2, <4>1, StaysAhead
      <4> QED
        BY <4>1, <4>2
    <3> QED
      BY <1>1, <1>3, <2>2, <3>1 DEF EntryOf
  <2>3. CASE m.current # "mem" /\ ~m.forward
    <3>1. \A v \in Visibles : Child(v) = "mem" => (v \in V <=> Reaches(v, key))
      BY <1>1, <1>2, <1>5, <2>3, EntryTarget, Numbers
    <3>2. xTurned \in {0} \union InMem(n) /\ ChildAt(xTurned, "mem", V, TRUE)
      BY <1>1, <3>1, MemSeekAt
    <3> HIDE DEF xTurned
    <3> QED
      BY <1>3, <2>3, <3>2
  <2> QED
    BY <1>2, <2>1, <2>2, <2>3
<1>9. TableOK(t) /\ Keeps(m.table, t) /\ TableAt(t, V, TRUE)
  <2>1. CASE m.current # "mem"
    <3>1. \A v \in Visibles : Child(v) = "table" => (v \in V <=> Before(e, v))
      <4>1. CASE m.forward
        BY <1>1, <1>2, <1>4, <2>1, <4>1, LeavesBehind
      <4>2. CASE ~m.forward
        BY <1>5, <4>2
      <4> QED
        BY <4>1, <4>2
    <3> QED
      BY <1>1, <2>1, <3>1, TableNextAt
  <2>2. CASE m.current = "mem" /\ m.forward
    <3>1. ChildAt(EntryOf(m, "table"), "table", V, TRUE)
      <4>1. Child(e) # "table" /\ m.forward = TRUE
        BY <1>1, <1>4, <2>2
      <4>2. ChildAt(EntryOf(m, "table"), "table", V, m.forward)
        BY <1>4, <2>2, <4>1, StaysAhead
      <4> QED
        BY <4>1, <4>2
    <3>2. t = m.table /\ EntryOf(m, "table") = EntryAt(m.table)
      BY <2>2 DEF EntryOf
    <3> HIDE DEF t
    <3> QED
      BY <1>1, <3>1, <3>2 DEF TableAt, Keeps
  <2>3. CASE m.current = "mem" /\ ~m.forward
    <3>1. \A v \in Visibles : Child(v) = "table" => (v \in V <=> Reaches(v, key))
      BY <1>1, <1>2, <1>5, <2>3, EntryTarget, Numbers
    <3>2. TableOK(tTurned) /\ Keeps(m.table, tTurned) /\ TableAt(tTurned, V, TRUE)
      BY <1>1, <3>1, TableSeekAt
    <3> HIDE DEF tTurned
    <3> QED
      BY <2>3, <3>2
  <2> QED
    BY <1>2, <2>1, <2>2, <2>3
<1>10. MergeNext(m, n, k) = FindSmallest(w)
  BY DEF MergeNext
<1>11. x \in Int /\ t \in TableIters
  BY <1>8, <1>9, ChildTypes
<1>12. w \in [mem : {x}, table : {t}, current : Children \union {"none"}, forward : BOOLEAN]
  <2>1. TurnForward(m, n) = IF m.forward THEN m ELSE IF m.current = "mem" THEN [m EXCEPT !.table = tTurned]
                            ELSE [m EXCEPT !.mem = xTurned]
    BY DEF TurnForward, e
  <2> HIDE DEF tTurned, xTurned
  <2> QED
    BY <1>1, <1>2, <2>1 DEF MergeIters
<1>13. ChildrenOK(w, k) /\ w.mem = x /\ w.table = t
  <2>1. w.mem = x /\ w.table = t
    BY <1>12
  <2> HIDE DEF x, t, w
  <2> QED
    BY <1>8, <1>9, <1>11, <1>12, <2>1 DEF ChildrenOK, MergeIters
<1> HIDE DEF w, x, t
<1>14. MovesTo(m.table, FindSmallest(w), k, TRUE, V)
  BY <1>6, <1>8, <1>9, <1>13, FindSmallestIs
<1> QED
  BY <1>10, <1>14 DEF V

LEMMA MergePrevIs ==
    ASSUME NEW n, ReadsOK(n), NEW k, ReadsOK(k), n <= k, NEW m, MergeOK(m, n), MergeEntry(m) # 0
    PROVE  MovesTo(m.table, MergePrev(m, n, k), k, FALSE, AheadAfterPrev(m))
<1> DEFINE e   == MergeEntry(m)
           key == InternalKey(e)
           V   == AheadAfterPrev(m)
           xTurned == IF MemSeek(InMem(n), key) # 0 THEN MemPrev(InMem(k), MemSeek(InMem(n), key))
                      ELSE LastOf(InMem(k))
           tTurned == IF DataValid(TableSeek(m.table, key)) THEN TablePrev(TableSeek(m.table, key))
                      ELSE TableLast(TableSeek(m.table, key))
           x == IF m.current = "mem" THEN MemPrev(InMem(k), e) ELSE IF ~m.forward THEN m.mem ELSE xTurned
           t == IF m.current # "mem" THEN TablePrev(m.table) ELSE IF ~m.forward THEN m.table ELSE tTurned
           w == IF m.current = "mem" THEN [TurnBackward(m, n, k) EXCEPT !.mem = MemPrev(InMem(k), @)]
                ELSE [TurnBackward(m, n, k) EXCEPT !.table = TablePrev(@)]
<1>1. /\ m.current = "mem" => e = m.mem /\ Child(e) = "mem" /\ e = EntryOf(m, "mem")
      /\ m.current # "mem" => /\ m.current = "table" /\ e = EntryAt(m.table) /\ Child(e) = "table"
                              /\ DataValid(m.table) /\ e = EntryOf(m, "table")
      /\ e \in Entries /\ key \in Nat \X Nat
      /\ m \in MergeIters /\ TableOK(m.table) /\ m.mem \in {0} \union InMem(n)
  BY CurrentIs DEF EntryOf
<1>2. m.forward \in BOOLEAN /\ UpdatesOK
  BY <1>1 DEF MergeIters, ReadsOK, DatabaseOK
<1>3. InMem(n) \subseteq InMem(k)
  BY Numbers DEF InMem
<1>4. ~m.forward => V = Ahead(m) \ {e} /\ m.forward = FALSE
  BY <1>2 DEF AheadAfterPrev
<1>5. m.forward => V = {v \in Visibles : Before(v, e)}
  BY DEF AheadAfterPrev, InFront
<1>6. V \subseteq Visibles
  BY DEF AheadAfterPrev, InFront, Ahead
<1>7. MergeEntry(m) # 0 /\ e # 0
  OBVIOUS
<1> HIDE DEF V, e
<1>8. x \in {0} \union InMem(k) /\ ChildAt(x, "mem", V, FALSE)
  <2>1. CASE m.current = "mem"
    <3>1. \A v \in Visibles : Child(v) = "mem" => (v \in V <=> Before(v, e))
      <4>1. CASE ~m.forward
        BY <1>1, <1>2, <1>4, <2>1, <4>1, LeavesBehind
      <4>2. CASE m.forward
        BY <1>5, <4>2
      <4> QED
        BY <4>1, <4>2
    <3> QED
      BY <1>1, <2>1, <3>1, MemPrevAt
  <2>2. CASE m.current # "mem" /\ ~m.forward
    <3>1. ChildAt(EntryOf(m, "mem"), "mem", V, FALSE)
      <4>1. Child(e) # "mem" /\ m.forward = FALSE
        BY <1>1, <1>4, <2>2
      <4>2. ChildAt(EntryOf(m, "mem"), "mem", V, m.forward)
        BY <1>4, <2>2, <4>1, StaysAhead
      <4> QED
        BY <4>1, <4>2
    <3> QED
      BY <1>1, <1>3, <2>2, <3>1 DEF EntryOf
  <2>3. CASE m.current # "mem" /\ m.forward
    <3>1. \A v \in Visibles : Child(v) = "mem" => (v \in V <=> Before(v, e))
      BY <1>5, <2>3
    <3>2. xTurned \in {0} \union InMem(k) /\ ChildAt(xTurned, "mem", V, FALSE)
      <4>1. Child(e) # "mem"
        BY <1>1, <2>3
      <4> QED
        BY <1>1, <3>1, <4>1, MemTurnsBack
    <3> HIDE DEF xTurned
    <3> QED
      BY <1>3, <2>3, <3>2
  <2> QED
    BY <1>2, <2>1, <2>2, <2>3
<1>9. TableOK(t) /\ Keeps(m.table, t) /\ TableAt(t, V, FALSE)
  <2>1. CASE m.current # "mem"
    <3>1. \A v \in Visibles : Child(v) = "table" => (v \in V <=> Before(v, e))
      <4>1. CASE ~m.forward
        BY <1>1, <1>2, <1>4, <2>1, <4>1, LeavesBehind
      <4>2. CASE m.forward
        BY <1>5, <4>2
      <4> QED
        BY <4>1, <4>2
    <3> QED
      BY <1>1, <2>1, <3>1, TablePrevAt
  <2>2. CASE m.current = "mem" /\ ~m.forward
    <3>1. ChildAt(EntryOf(m, "table"), "table", V, FALSE)
      <4>1. Child(e) # "table" /\ m.forward = FALSE
        BY <1>1, <1>4, <2>2
      <4>2. ChildAt(EntryOf(m, "table"), "table", V, m.forward)
        BY <1>4, <2>2, <4>1, StaysAhead
      <4> QED
        BY <4>1, <4>2
    <3>2. t = m.table /\ EntryOf(m, "table") = EntryAt(m.table)
      BY <2>2 DEF EntryOf
    <3> HIDE DEF t
    <3> QED
      BY <1>1, <3>1, <3>2 DEF TableAt, Keeps
  <2>3. CASE m.current = "mem" /\ m.forward
    <3>1. \A v \in Visibles : Child(v) = "table" => (v \in V <=> Before(v, e))
      BY <1>5, <2>3
    <3>2. TableOK(tTurned) /\ Keeps(m.table, tTurned) /\ TableAt(tTurned, V, FALSE)
      <4>1. Child(e) # "table"
        BY <1>1, <2>3
      <4> QED
        BY <1>1, <3>1, <4>1, TableTurnsBack
    <3> HIDE DEF tTurned
    <3> QED
      BY <2>3, <3>2
  <2> QED
    BY <1>2, <2>1, <2>2, <2>3
<1>10. MergePrev(m, n, k) = FindLargest(w)
  BY DEF MergePrev
<1>11. x \in Int /\ t \in TableIters
  BY <1>8, <1>9, ChildTypes
<1>12. w \in [mem : {x}, table : {t}, current : Children \union {"none"}, forward : BOOLEAN]
  <2>1. TurnBackward(m, n, k) = IF ~m.forward THEN m
                                ELSE IF m.current = "mem" THEN [m EXCEPT !.table = tTurned]
                            ELSE [m EXCEPT !.mem = xTurned]
    BY DEF TurnBackward, e
  <2> HIDE DEF tTurned, xTurned
  <2> QED
    BY <1>1, <1>2, <2>1 DEF MergeIters
<1>13. ChildrenOK(w, k) /\ w.mem = x /\ w.table = t
  <2>1. w.mem = x /\ w.table = t
    BY <1>12
  <2> HIDE DEF x, t, w
  <2> QED
    BY <1>8, <1>9, <1>11, <1>12, <2>1 DEF ChildrenOK, MergeIters
<1> HIDE DEF w, x, t
<1>14. MovesTo(m.table, FindLargest(w), k, FALSE, V)
  BY <1>6, <1>8, <1>9, <1>13, FindLargestIs
<1> QED
  BY <1>10, <1>14 DEF V

-----------------------------------------------------------------------------
(* DBIter, by the visible entries A that are ahead and the entry e that    *)
(* the internal iterator is at.                                            *)

Heads(e, A, forward) ==
    /\ A \subseteq Visibles
    /\ e = 0 => A = {}
    /\ e # 0 => /\ e \in Entries
                /\ \A v \in A : v = e \/ IF forward THEN Before(e, v) ELSE Before(v, e)
    /\ e \in Visibles => e \in A

(* What the loops have still to choose from *)
Upcoming(A, it)  == {i \in Live \cap A : ~(it.skipping /\ Key(i) <= it.key)}
Preceding(A, it) == {i \in Live : i \in A \/ (it.found /\ i = it.value)}
CutBack(A)       == \A v \in Visibles \ A, x \in A : Before(x, v)

(* Between two calls: what Next and Prev count on *)
IdleIs(e, A, forward, it, w) ==
    /\ ~it.valid => w = 0
    /\ it.valid /\ it.forward =>
          forward /\ e \in Visibles /\ w = e /\ \A v \in Visibles \ A : Before(v, e)
    /\ it.valid /\ ~it.forward =>
          /\ ~forward /\ w = it.value /\ A = {v \in Visibles : Key(v) < it.key}
          /\ e # 0 => e \in Visibles /\ Key(e) < it.key

(* In FindNextUserEntry: older entries of a key that was passed are        *)
(* skipped. *)
NextIs(A, forward, it, w) ==
    /\ forward
    /\ \A v \in Visibles \ A, x \in A :
          Before(v, x) /\ (Key(v) = Key(x) => it.skipping /\ Key(x) <= it.key)
    /\ it.skipping => \A v \in A : Key(v) >= it.key
    /\ IsFirst(w, Upcoming(A, it))

(* In the loop of Prev *)
ScanIs(e, A, forward, it, w) ==
    /\ ~it.found /\ Key(e) >= it.key /\ IsLast(w, {i \in Live : Key(i) < it.key})
    /\ forward => e \in Visibles /\ Key(e) = it.key
    /\ ~forward => CutBack(A) /\ \A v \in Visibles : Key(v) < it.key => v \in A

(* In FindPrevUserEntry: what is saved is the newest put so far of its key. *)
PrevIs(A, forward, it, w) ==
    /\ ~forward /\ CutBack(A)
    /\ it.found => /\ it.value \in Visibles /\ it.key = Key(it.value) /\ ~updates[it.value].deletes
                   /\ A = {v \in Visibles : Before(v, it.value)}
    /\ IsLast(w, Preceding(A, it))

CursorIs(e, A, forward, it, p, w) ==
    /\ p = "idle" => IdleIs(e, A, forward, it, w)
    /\ p = "next" => NextIs(A, forward, it, w)
    /\ p = "scan" => ScanIs(e, A, forward, it, w)
    /\ p = "prev" => PrevIs(A, forward, it, w)

LEMMA Facts ==
    ASSUME NEW n, ReadsOK(n)
    PROVE  /\ Visibles \subseteq Entries /\ Live \subseteq Visibles /\ 0 \notin Entries
           /\ \A i \in Entries : Key(i) \in Nat /\ ~Before(i, i)
           /\ \A i, j, k \in Entries : Before(i, j) /\ Before(j, k) => Before(i, k)
           /\ \A i, j \in Entries : /\ i = j \/ Before(i, j) \/ Before(j, i)
                                    /\ Before(i, j) => Key(i) <= Key(j)
                                    /\ Key(i) < Key(j) => Before(i, j)
           /\ \A i \in Live : ~updates[i].deletes /\ \A j \in Visibles : Key(j) = Key(i) => ~Before(j, i)
           /\ \A i \in Visibles : ~updates[i].deletes /\ (\A j \in Visibles : Key(j) = Key(i) => ~Before(j, i))
                                     => i \in Live
<1>1. Visibles \subseteq Entries /\ 0 \notin Entries /\ UpdatesOK /\ snapshot \in Nat
  BY Numbers
<1>2. \A i \in Entries : Key(i) \in Nat
  BY <1>1, KeysAre
<1>3. \A i, j \in Entries : /\ i = j \/ Before(i, j) \/ Before(j, i)
                            /\ Before(i, j) => Key(i) <= Key(j)
                            /\ Key(i) < Key(j) => Before(i, j)
  BY <1>1, Order
<1>4. /\ \A i \in Entries : ~Before(i, i)
      /\ \A i, j, k \in Entries : Before(i, j) /\ Before(j, k) => Before(i, k)
  BY <1>1, Order
<1>5. Live \subseteq Visibles
  BY DEF Live, Visibles
<1>6. ASSUME NEW i \in Visibles, NEW j \in Visibles, Key(j) = Key(i)
      PROVE  Before(j, i) <=> j \in (i + 1) .. snapshot
  <2>1. i \in Nat /\ j \in Nat /\ j <= snapshot /\ Key(i) \in Nat
    BY <1>1, <1>2 DEF Visibles
  <2> QED
    BY <1>1, <1>6, <2>1, BeforeIs
<1>7. ASSUME NEW i \in Visibles, NEW j \in (i + 1) .. snapshot
      PROVE  j \in Visibles
  BY <1>1, <1>7 DEF Visibles
<1>8. ASSUME NEW i \in Live
      PROVE  ~updates[i].deletes /\ \A j \in Visibles : Key(j) = Key(i) => ~Before(j, i)
  <2>1. /\ i \in Visibles /\ ~updates[i].deletes
        /\ \A j \in (i + 1) .. snapshot : Key(j) # Key(i)
    BY DEF Live, Visibles
  <2> QED
    BY <1>6, <2>1
<1>9. ASSUME NEW i \in Visibles, ~updates[i].deletes, \A j \in Visibles : Key(j) = Key(i) => ~Before(j, i)
      PROVE  i \in Live
  <2>1. \A j \in (i + 1) .. snapshot : Key(j) # Key(i)
    BY <1>6, <1>7, <1>9
  <2> QED
    BY <1>9, <2>1 DEF Live, Visibles
<1> QED
  BY <1>1, <1>2, <1>3, <1>4, <1>5, <1>8, <1>9

(* What a merging iterator shows of what it has ahead *)
LEMMA HeadsAre ==
    ASSUME NEW n, ReadsOK(n), NEW m, MergeOK(m, n)
    PROVE  Heads(MergeEntry(m), Ahead(m), m.forward) /\ m.forward \in BOOLEAN
<1> DEFINE e == MergeEntry(m)
<1>1. m \in MergeIters /\ ChildrenOK(m, n) /\ CurrentOK(m)
  BY DEF MergeOK, ChildrenOK
<1>2. m.forward \in BOOLEAN /\ m.current \in {"mem", "table", "none"}
  BY <1>1 DEF MergeIters, Children
<1>3. Ahead(m) \subseteq Visibles
  BY DEF Ahead
<1>4. CASE e = 0
  <2>1. m.current = "none"
    BY <1>1, <1>4 DEF CurrentOK
  <2>2. m.mem = 0 /\ EntryAt(m.table) = 0
    BY <1>1, <2>1 DEF CurrentOK
  <2>3. \A c : EntryOf(m, c) = 0
    BY <2>2 DEF EntryOf
  <2>4. Ahead(m) = {}
    BY <2>3 DEF Ahead, IsAhead
  <2> QED
    BY <1>2, <1>3, <1>4, <2>4, Facts DEF Heads
<1>5. CASE e # 0
  <2>1. m.current \in {"mem", "table"} /\ m.current \in Children /\ e = EntryOf(m, m.current)
    BY <1>2, <1>5 DEF MergeEntry, Children
  <2>2. e \in Entries /\ Child(e) = m.current
    BY <1>2, <1>5, CurrentIs
  <2>3. e \in Visibles => e \in Ahead(m)
    BY <1>5, <2>1, <2>2 DEF Ahead, IsAhead
  <2>4. ASSUME NEW c \in Children, EntryOf(m, c) # 0
        PROVE  EntryOf(m, c) \in Entries
    BY <1>1, <2>4, EntriesAre DEF Children, EntryOf
  <2>5. ASSUME NEW v \in Ahead(m)
        PROVE  v = e \/ IF m.forward THEN Before(e, v) ELSE Before(v, e)
    <3> DEFINE x == EntryOf(m, Child(v))
    <3>1. v \in Visibles /\ v \in Entries /\ Child(v) \in Children /\ x # 0
          /\ (v = x \/ IF m.forward THEN Before(x, v) ELSE Before(v, x))
      BY Numbers DEF Ahead, IsAhead
    <3>2. x \in Entries
      BY <2>4, <3>1
    <3>3. x = e \/ IF m.forward THEN Before(e, x) ELSE Before(x, e)
      BY <1>1, <2>1, <3>1 DEF CurrentOK
    <3> HIDE DEF x
    <3> QED
      BY <2>2, <3>1, <3>2, <3>3, Facts
  <2> QED
    BY <1>2, <1>3, <1>5, <2>2, <2>3, <2>5 DEF Heads
<1> QED
  BY <1>4, <1>5

(* Where a forward loop begins: at a key, *)
LEMMA SeekBegins ==
    ASSUME NEW n, ReadsOK(n), NEW k, k \in Nat, NEW it, it.skipping = FALSE,
           NEW A, A = {v \in Visibles : Key(v) >= k}, NEW w, IsFirst(w, {i \in Live : Key(i) >= k})
    PROVE  NextIs(A, TRUE, it, w)
<1>1. \A v \in Visibles \ A, x \in A : Key(v) < Key(x) /\ Before(v, x)
  BY Facts
<1>2. \A v \in Visibles \ A, x \in A : Key(v) # Key(x)
  <2> TAKE v \in Visibles \ A, x \in A
  <2>1. Key(v) < Key(x) /\ Key(v) \in Nat /\ Key(x) \in Nat
    BY <1>1, Facts
  <2> QED
    BY <2>1
<1>3. Upcoming(A, it) = {i \in Live : Key(i) >= k}
  BY Facts DEF Upcoming
<1> QED
  BY <1>1, <1>2, <1>3 DEF NextIs

(* at the beginning, *)
LEMMA FirstBegins ==
    ASSUME NEW n, ReadsOK(n), NEW it, it.skipping = FALSE, NEW w, IsFirst(w, Live)
    PROVE  NextIs(Visibles, TRUE, it, w)
<1>1. Upcoming(Visibles, it) = Live
  BY Facts DEF Upcoming
<1> QED
  BY <1>1 DEF NextIs

(* behind the entry shown, *)
LEMMA NextBegins ==
    ASSUME NEW n, ReadsOK(n), NEW e, NEW A, Heads(e, A, TRUE), e \in Visibles,
           \A v \in Visibles \ A : Before(v, e),
           NEW it, it.skipping = TRUE, it.key = Key(e), NEW w, IsFirst(w, {i \in Live : Key(i) > Key(e)})
    PROVE  NextIs(A \ {e}, TRUE, it, w)
<1>1. e \in Entries /\ A \subseteq Visibles /\ \A v \in A : v = e \/ Before(e, v)
  BY Facts DEF Heads
<1>2. ASSUME NEW v \in Visibles \ (A \ {e}), NEW x \in A \ {e}
      PROVE  Before(v, x) /\ (Key(v) = Key(x) => Key(x) <= Key(e))
  <2>1. v \in Entries /\ x \in Entries /\ Before(e, x) /\ (v = e \/ Before(v, e))
    BY <1>1, Facts
  <2>2. Key(v) <= Key(e)
    BY <1>1, <2>1, Facts
  <2> QED
    BY <1>1, <2>1, <2>2, Facts
<1>3. \A v \in A \ {e} : Key(v) >= Key(e)
  BY <1>1, Facts
<1>4. Upcoming(A \ {e}, it) = {i \in Live : Key(i) > Key(e)}
  <2>1. ASSUME NEW i \in Live, Key(i) > Key(e)
        PROVE  i \in A \ {e}
    <3>1. i \in Visibles /\ i \in Entries /\ Key(i) \in Nat /\ Key(e) \in Nat
      BY <1>1, Facts
    <3>2. ~Before(i, e) /\ i # e
      BY <1>1, <2>1, <3>1, Facts
    <3> QED
      BY <3>1, <3>2
  <2>2. \A i \in Live : Key(i) \in Nat /\ Key(e) \in Nat
    BY <1>1, Facts
  <2> QED
    BY <2>1, <2>2 DEF Upcoming
<1> QED
  BY <1>2, <1>3, <1>4 DEF NextIs

(* or behind the entries of the key shown, when the iterator is in front   *)
(* of them: at the last entry of an earlier key, or nowhere.               *)
LEMMA NextTurns ==
    ASSUME NEW n, ReadsOK(n), NEW e, NEW A, Heads(e, A, FALSE), e \in Visibles, NEW k \in Nat,
           A = {v \in Visibles : Key(v) < k}, Key(e) < k,
           NEW it, it.skipping = TRUE, it.key = k, NEW w, IsFirst(w, {i \in Live : Key(i) > k})
    PROVE  NextIs(Behind(e), TRUE, it, w)
<1>1. e \in Entries /\ \A v \in A : v = e \/ Before(v, e)
  BY Facts DEF Heads
<1>2. ASSUME NEW v \in Visibles \ Behind(e), NEW x \in Behind(e)
      PROVE  Before(v, x) /\ (Key(v) = Key(x) => Key(x) <= k)
  <2>1. v \in Entries /\ x \in Entries /\ Before(e, x) /\ (v = e \/ Before(v, e))
    BY <1>1, Facts DEF Behind
  <2>2. Key(v) <= Key(e) /\ Key(e) \in Nat /\ Key(v) \in Nat
    BY <1>1, <2>1, Facts
  <2> QED
    BY <1>1, <2>1, <2>2, Facts
<1>3. \A v \in Behind(e) : Key(v) >= k
  <2> TAKE v \in Behind(e)
  <2>1. v \in Visibles /\ v \in Entries /\ Before(e, v) /\ Key(v) \in Nat
    BY Facts DEF Behind
  <2>2. v \notin A
    BY <1>1, <2>1, Facts
  <2> QED
    BY <2>1, <2>2
<1>4. Upcoming(Behind(e), it) = {i \in Live : Key(i) > k}
  <2>1. ASSUME NEW i \in Live, Key(i) > k
        PROVE  i \in Behind(e)
    <3>1. i \in Visibles /\ i \in Entries /\ Key(i) \in Nat /\ Key(e) \in Nat
      BY <1>1, Facts
    <3>2. Key(e) < Key(i)
      BY <2>1, <3>1
    <3> QED
      BY <1>1, <3>1, <3>2, Facts DEF Behind
  <2>2. \A i \in Live : Key(i) \in Nat
    BY <1>1, Facts
  <2> QED
    BY <2>1, <2>2 DEF Upcoming
<1> QED
  BY <1>2, <1>3, <1>4 DEF NextIs

LEMMA NextRestarts ==
    ASSUME NEW n, ReadsOK(n), NEW k \in Nat, {v \in Visibles : Key(v) < k} = {},
           NEW it, it.skipping = TRUE, it.key = k, NEW w, IsFirst(w, {i \in Live : Key(i) > k})
    PROVE  NextIs(Visibles, TRUE, it, w)
<1>1. \A v \in Visibles : Key(v) >= k
  BY Facts
<1>2. Upcoming(Visibles, it) = {i \in Live : Key(i) > k}
  <2>1. \A i \in Live : Key(i) \in Nat /\ i \in Visibles
    BY Facts
  <2> QED
    BY <2>1 DEF Upcoming
<1> QED
  BY <1>1, <1>2 DEF NextIs

(* FindNextUserEntry shows an entry: no newer one of its key was passed. *)
LEMMA NextShows ==
    ASSUME NEW n, ReadsOK(n), NEW e, NEW A, Heads(e, A, TRUE), NEW it, NEW w, NextIs(A, TRUE, it, w),
           e \in Visibles, ~updates[e].deletes, ~(it.skipping /\ Key(e) <= it.key)
    PROVE  w = e /\ \A v \in Visibles \ A : Before(v, e)
<1>1. e \in A /\ e \in Entries /\ \A v \in A : v = e \/ Before(e, v)
  BY Facts DEF Heads
<1>2. \A v \in Visibles \ A : Before(v, e) /\ Key(v) # Key(e)
  BY <1>1 DEF NextIs
<1>3. e \in Live
  <2>1. ASSUME NEW j \in Visibles, Key(j) = Key(e)
        PROVE  ~Before(j, e)
    <3>1. j \in A /\ j \in Entries
      BY <1>2, <2>1, Facts
    <3> QED
      BY <1>1, <3>1, Facts
  <2> QED
    BY <2>1, Facts
<1>4. e \in Upcoming(A, it)
  BY <1>1, <1>3 DEF Upcoming
<1>5. w \in Upcoming(A, it) /\ (w # e => Before(w, e))
  BY <1>4 DEF NextIs, IsFirst
<1>6. w \in A /\ w \in Entries
  BY <1>5, Facts DEF Upcoming
<1>7. w = e
  BY <1>1, <1>5, <1>6, Facts
<1> QED
  BY <1>2, <1>7

(* It goes on from a deletion, whose key it skips from now on, *)
LEMMA NextHides ==
    ASSUME NEW n, ReadsOK(n), NEW e, NEW A, Heads(e, A, TRUE), NEW it, it.key \in Nat,
           NEW w, NextIs(A, TRUE, it, w),
           e \in Visibles, updates[e].deletes, NEW to, to.skipping = TRUE, to.key = Key(e)
    PROVE  NextIs(A \ {e}, TRUE, to, w)
<1>1. e \in A /\ e \in Entries /\ A \subseteq Visibles /\ \A v \in A : v = e \/ Before(e, v)
  BY Facts DEF Heads
<1>2. \A v \in Visibles \ A : Before(v, e)
  BY <1>1 DEF NextIs
<1>3. ASSUME NEW v \in Visibles \ (A \ {e}), NEW x \in A \ {e}
      PROVE  Before(v, x) /\ (Key(v) = Key(x) => Key(x) <= Key(e))
  <2>1. v \in Entries /\ x \in Entries /\ Before(e, x) /\ (v = e \/ Before(v, e))
    BY <1>1, <1>2, Facts
  <2>2. Key(v) <= Key(e)
    BY <1>1, <2>1, Facts
  <2> QED
    BY <1>1, <2>1, <2>2, Facts
<1>4. \A v \in A \ {e} : Key(v) >= Key(e)
  BY <1>1, Facts
<1>5. ASSUME NEW i \in Upcoming(A, it)
      PROVE  i \in Upcoming(A \ {e}, to)
  <2>1. i \in Live /\ i \in A /\ i \in Visibles /\ i \in Entries /\ Key(i) \in Nat /\ Key(e) \in Nat
    BY <1>1, Facts DEF Upcoming
  <2>2. i # e /\ Before(e, i) /\ Key(e) <= Key(i)
    BY <1>1, <2>1, Facts
  <2>3. Key(i) # Key(e)
    BY <2>1, <2>2, Facts
  <2> QED
    BY <2>1, <2>2, <2>3 DEF Upcoming
<1>6. ASSUME NEW i \in Upcoming(A \ {e}, to)
      PROVE  i \in Upcoming(A, it)
  <2>1. i \in Live /\ i \in A /\ ~(Key(i) <= Key(e)) /\ Key(i) \in Nat /\ Key(e) \in Nat
    BY <1>1, Facts DEF Upcoming
  <2>2. it.skipping => Key(e) >= it.key
    BY <1>1 DEF NextIs
  <2> QED
    BY <2>1, <2>2 DEF Upcoming
<1>7. Upcoming(A \ {e}, to) = Upcoming(A, it)
  BY <1>5, <1>6
<1> QED
  BY <1>3, <1>4, <1>7 DEF NextIs

(* from an entry that is skipped, and from one the snapshot does not show. *)
LEMMA NextSkips ==
    ASSUME NEW n, ReadsOK(n), NEW e, NEW A, Heads(e, A, TRUE), NEW it, it.key \in Nat,
           NEW w, NextIs(A, TRUE, it, w),
           e \in Visibles => it.skipping /\ Key(e) <= it.key
    PROVE  NextIs(A \ {e}, TRUE, it, w)
<1>1. CASE e \notin Visibles
  <2>1. A \ {e} = A
    BY <1>1 DEF Heads
  <2> QED
    BY <2>1
<1>2. CASE e \in Visibles
  <2>1. e \in A /\ e \in Entries /\ A \subseteq Visibles /\ \A v \in A : v = e \/ Before(e, v)
    BY <1>2, Facts DEF Heads
  <2>2. ASSUME NEW v \in Visibles \ (A \ {e}), NEW x \in A \ {e}
        PROVE  Before(v, x) /\ (Key(v) = Key(x) => it.skipping /\ Key(x) <= it.key)
    <3>1. CASE v = e
      BY <1>2, <2>1, <3>1
    <3>2. CASE v # e
      BY <3>2 DEF NextIs
    <3> QED
      BY <3>1, <3>2
  <2>3. it.skipping => \A v \in A \ {e} : Key(v) >= it.key
    BY DEF NextIs
  <2>4. Upcoming(A \ {e}, it) = Upcoming(A, it)
    BY <1>2 DEF Upcoming
  <2> QED
    BY <2>2, <2>3, <2>4 DEF NextIs
<1> QED
  BY <1>1, <1>2

LEMMA NextEnds ==
    ASSUME NEW it, NEW w, NextIs({}, TRUE, it, w)
    PROVE  w = 0
<1>1. Upcoming({}, it) = {}
  BY DEF Upcoming
<1> QED
  BY <1>1 DEF NextIs, IsFirst

(* The loop of Prev turns, and leaves the entries of the key behind. *)
LEMMA ScanTurns ==
    ASSUME NEW n, ReadsOK(n), NEW e, NEW A, NEW it, it.key \in Nat, NEW w, ScanIs(e, A, TRUE, it, w)
    PROVE  CutBack(InFront(e)) /\ \A v \in Visibles : Key(v) < it.key => v \in InFront(e)
<1>1. e \in Visibles /\ e \in Entries /\ Key(e) = it.key
  BY Facts DEF ScanIs
<1>2. CutBack(InFront(e))
  <2> SUFFICES ASSUME NEW v \in Visibles \ InFront(e), NEW x \in InFront(e) PROVE Before(x, v)
    BY DEF CutBack
  <2>1. v \in Entries /\ x \in Entries /\ Before(x, e) /\ ~Before(v, e)
    BY Facts DEF InFront
  <2>2. v = e \/ Before(e, v)
    BY <1>1, <2>1, Facts
  <2> QED
    BY <1>1, <2>1, <2>2, Facts
<1>3. \A v \in Visibles : Key(v) < it.key => v \in InFront(e)
  BY <1>1, Facts DEF InFront
<1> QED
  BY <1>2, <1>3

LEMMA ScanGoesOn ==
    ASSUME NEW n, ReadsOK(n), NEW e, NEW A, Heads(e, A, FALSE), NEW it, it.key \in Nat, Key(e) \in Nat,
           NEW w, ScanIs(e, A, FALSE, it, w)
    PROVE  CutBack(A \ {e}) /\ \A v \in Visibles : Key(v) < it.key => v \in A \ {e}
<1>1. CutBack(A) /\ (\A v \in Visibles : Key(v) < it.key => v \in A) /\ Key(e) >= it.key
  BY DEF ScanIs
<1>2. e # 0 => \A v \in A : v = e \/ Before(v, e)
  BY DEF Heads
<1>3. e = 0 => A = {}
  BY DEF Heads
<1>4. CutBack(A \ {e})
  BY <1>1, <1>2, <1>3 DEF CutBack
<1>5. \A v \in Visibles : Key(v) < it.key => v # e
  BY <1>1
<1> QED
  BY <1>1, <1>4, <1>5

(* Where the loop leads: before the entries of the key *)
LEMMA ScanLeads ==
    ASSUME NEW n, ReadsOK(n), NEW e, NEW A, Heads(e, A, FALSE), NEW it, it.key \in Nat, NEW w,
           ~it.found, IsLast(w, {i \in Live : Key(i) < it.key}),
           CutBack(A), \A v \in Visibles : Key(v) < it.key => v \in A
    PROVE  /\ e = 0 => w = 0
           /\ e # 0 /\ Key(e) >= it.key => ScanIs(e, A, FALSE, it, w)
           /\ \A to : e # 0 /\ Key(e) < it.key /\ ~to.found => PrevIs(A, FALSE, to, w)
<1>1. e = 0 => w = 0
  <2> SUFFICES ASSUME e = 0 PROVE w = 0
    OBVIOUS
  <2>1. A = {}
    BY DEF Heads
  <2>2. {i \in Live : Key(i) < it.key} = {}
    BY <2>1, Facts
  <2> QED
    BY <2>2 DEF IsLast
<1>2. e # 0 /\ Key(e) >= it.key => ScanIs(e, A, FALSE, it, w)
  BY DEF ScanIs
<1>3. ASSUME NEW to, e # 0, Key(e) < it.key, ~to.found
      PROVE  PrevIs(A, FALSE, to, w)
  <2>1. e \in Entries /\ Key(e) \in Nat /\ A \subseteq Visibles /\ \A v \in A : v = e \/ Before(v, e)
    BY <1>3, Facts DEF Heads
  <2>2. \A v \in A : Key(v) <= Key(e) /\ Key(v) \in Nat
    BY <2>1, Facts
  <2>3. \A v \in A : Key(v) < it.key
    BY <1>3, <2>1, <2>2
  <2>4. Preceding(A, to) = {i \in Live : Key(i) < it.key}
    BY <1>3, <2>3, Facts DEF Preceding
  <2> QED
    BY <1>3, <2>4 DEF PrevIs
<1> QED
  BY <1>1, <1>2, <1>3

(* FindPrevUserEntry begins, behind everything *)
LEMMA LastBegins ==
    ASSUME NEW n, ReadsOK(n), NEW it, ~it.found, NEW w, IsLast(w, Live)
    PROVE  PrevIs(Visibles, FALSE, it, w)
<1>1. Preceding(Visibles, it) = Live
  BY Facts DEF Preceding
<1> QED
  BY <1>1 DEF PrevIs, CutBack

(* or where a call left the iterator, *)
LEMMA PrevBegins ==
    ASSUME NEW n, ReadsOK(n), NEW k \in Nat, NEW A, A = {v \in Visibles : Key(v) < k},
           NEW it, ~it.found, NEW w, IsLast(w, {i \in Live : Key(i) < k})
    PROVE  PrevIs(A, FALSE, it, w)
<1>1. Preceding(A, it) = {i \in Live : Key(i) < k}
  BY Facts DEF Preceding
<1>2. CutBack(A)
  <2> SUFFICES ASSUME NEW v \in Visibles \ A, NEW x \in A PROVE Before(x, v)
    BY DEF CutBack
  <2>1. Key(v) \in Nat /\ Key(x) \in Nat /\ v \in Entries /\ x \in Entries /\ Key(x) < k /\ ~(Key(v) < k)
    BY Facts
  <2>2. Key(x) < Key(v)
    BY <2>1
  <2> QED
    BY <2>1, <2>2, Facts
<1> QED
  BY <1>1, <1>2 DEF PrevIs

(* goes on, *)
LEMMA PrevGoesOn ==
    ASSUME NEW n, ReadsOK(n), NEW e, NEW A, Heads(e, A, FALSE), e # 0, NEW it, it.key \in Nat,
           NEW w, PrevIs(A, FALSE, it, w),
           e \in Visibles => ~(it.found /\ Key(e) < it.key)
    PROVE  /\ e \notin Visibles => PrevIs(A \ {e}, FALSE, it, w)
           /\ \A to : e \in Visibles /\ updates[e].deletes /\ ~to.found => PrevIs(A \ {e}, FALSE, to, w)
           /\ \A to : e \in Visibles /\ ~updates[e].deletes /\ to.found /\ to.key = Key(e) /\ to.value = e
                        => PrevIs(A \ {e}, FALSE, to, w)
<1>1. e \in Entries /\ A \subseteq Visibles /\ (\A v \in A : v = e \/ Before(v, e)) /\ Key(e) \in Nat
  BY Facts DEF Heads
<1>2. CutBack(A) /\ CutBack(A \ {e})
  BY <1>1 DEF PrevIs, CutBack
<1>3. CASE e \notin Visibles
  <2>1. A \ {e} = A
    BY <1>1, <1>3
  <2> QED
    BY <1>3, <2>1
<1>4. CASE e \in Visibles
  <2>1. e \in A
    BY <1>4 DEF Heads
  <2>2. it.found => it.value \notin Live
    <3> SUFFICES ASSUME it.found, it.value \in Live PROVE FALSE
      OBVIOUS
    <3> DEFINE x == it.value
    <3>1. x \in Visibles /\ x \in Entries /\ it.key = Key(x) /\ A = {v \in Visibles : Before(v, x)}
      BY Facts DEF PrevIs
    <3>2. Before(e, x)
      BY <2>1, <3>1
    <3>3. Key(e) = Key(x)
      <4>1. Key(e) <= Key(x) /\ Key(x) \in Nat
        BY <1>1, <3>1, <3>2, Facts
      <4> QED
        BY <1>1, <1>4, <3>1, <4>1
    <3> QED
      BY <1>4, <3>2, <3>3, Facts
  <2>3. Preceding(A, it) = Live \cap A
    BY <2>2 DEF Preceding
  <2>4. IsLast(w, Live \cap A)
    BY <2>3 DEF PrevIs
  <2>5. ASSUME NEW to, updates[e].deletes, ~to.found
        PROVE  PrevIs(A \ {e}, FALSE, to, w)
    <3>1. Preceding(A \ {e}, to) = Live \cap A
      BY <2>5, Facts DEF Preceding
    <3> QED
      BY <1>2, <2>4, <2>5, <3>1 DEF PrevIs
  <2>6. ASSUME NEW to, ~updates[e].deletes, to.found, to.key = Key(e), to.value = e
        PROVE  PrevIs(A \ {e}, FALSE, to, w)
    <3>1. Preceding(A \ {e}, to) = Live \cap A
      BY <2>1, <2>6, Facts DEF Preceding
    <3>2. A \ {e} = {v \in Visibles : Before(v, e)}
      <4>1. \A v \in Visibles : Before(v, e) => v \in A /\ v # e
        <5> SUFFICES ASSUME NEW v \in Visibles, Before(v, e) PROVE v \in A /\ v # e
          OBVIOUS
        <5>1. v # e /\ v \in Entries
          BY <1>1, Facts
        <5>2. v \notin A => Before(e, v)
          BY <1>2, <2>1 DEF CutBack
        <5> QED
          BY <1>1, <5>1, <5>2, Facts
      <4> QED
        BY <1>1, <4>1
    <3> QED
      BY <1>2, <1>4, <2>4, <2>6, <3>1, <3>2 DEF PrevIs
  <2> QED
    BY <1>4, <2>5, <2>6
<1> QED
  BY <1>3, <1>4

(* and shows what it saved when it is past the key, or nothing. *)
LEMMA PrevShows ==
    ASSUME NEW n, ReadsOK(n), NEW e, NEW A, Heads(e, A, FALSE), NEW it, it.key \in Nat,
           NEW w, PrevIs(A, FALSE, it, w), it.found,
           e = 0 \/ (e \in Visibles /\ Key(e) < it.key)
    PROVE  w = it.value /\ A = {v \in Visibles : Key(v) < it.key}
<1> DEFINE x == it.value
<1>1. /\ x \in Visibles /\ x \in Entries /\ it.key = Key(x) /\ ~updates[x].deletes
      /\ A = {v \in Visibles : Before(v, x)}
  BY Facts DEF PrevIs
<1>2. \A v \in A : Key(v) < Key(x) /\ v # x
  <2> TAKE v \in A
  <2>1. e # 0 /\ v \in Entries /\ (v = e \/ Before(v, e)) /\ e \in Entries
    BY Facts DEF Heads
  <2>2. Key(v) <= Key(e) /\ Key(e) < Key(x) /\ Key(v) \in Nat /\ Key(e) \in Nat /\ Key(x) \in Nat
    BY <1>1, <2>1, Facts
  <2> QED
    BY <2>2
<1>3. A = {v \in Visibles : Key(v) < it.key}
  BY <1>1, <1>2, Facts
<1>4. x \in Live
  <2>1. ASSUME NEW j \in Visibles, Key(j) = Key(x)
        PROVE  ~Before(j, x)
    <3>1. j \notin A
      BY <1>1, <1>2, <2>1, Facts
    <3> QED
      BY <1>1, <3>1
  <2> QED
    BY <1>1, <2>1, Facts
<1>5. x \in Preceding(A, it)
  BY <1>4 DEF Preceding
<1>6. w \in Preceding(A, it) /\ (w # x => Before(x, w))
  BY <1>5 DEF PrevIs, IsLast
<1>7. w = x \/ w \in A
  BY <1>6 DEF Preceding
<1>8. w \in A => Before(w, x) /\ w \in Entries
  BY <1>1, Facts
<1>9. w = x
  BY <1>1, <1>6, <1>7, <1>8, Facts
<1> QED
  BY <1>3, <1>9

LEMMA PrevEnds ==
    ASSUME NEW it, ~it.found, NEW w, PrevIs({}, FALSE, it, w)
    PROVE  w = 0
<1>1. Preceding({}, it) = {}
  BY DEF Preceding
<1> QED
  BY <1>1 DEF PrevIs, IsLast

-----------------------------------------------------------------------------
(* The inductive invariant. What does not depend on what is ahead holds    *)
(* even when a block could not be read.                                    *)

IterRecords == [forward : BOOLEAN, valid : BOOLEAN, key : Keys \union {0}, value : 0 .. snapshot,
                skipping : BOOLEAN, found : BOOLEAN]

SavedOK(it) == it.value \in Visibles /\ it.key = Key(it.value)

StateOK(n, m, it, p, w) ==
    /\ ReadsOK(n) /\ MergeOK(m, n) /\ it \in IterRecords
    /\ p \in {"idle", "next", "scan", "prev"} /\ w \in 0 .. snapshot
    /\ p \in {"next", "scan"} => MergeEntry(m) # 0 /\ it.forward
    /\ p = "next" => m.forward
    /\ p = "scan" => ~it.found
    /\ p = "prev" => ~it.forward /\ (it.found => SavedOK(it))
    /\ p = "idle" /\ it.valid => IF it.forward THEN MergeEntry(m) # 0 ELSE SavedOK(it)
    /\ unreadable = {} => ~Failed(m.table)

CursorOK(m, it, p, w) == Failed(m.table) \/ CursorIs(MergeEntry(m), Ahead(m), m.forward, it, p, w)

InvOf(n, m, it, p, w) == StateOK(n, m, it, p, w) /\ CursorOK(m, it, p, w)

IInv == InvOf(written, merge, iter, pc, wanted)

(* The invariant of the next state, over the database, which is the same *)
InvNext == InvOf(written', merge', iter', pc', wanted')

LEMMA SavedKeys ==
    \A k \in Keys \union {0} : k \in Nat
  BY IteratorsAssumption

(* DBIter's members as the methods set them *)
LEMMA IterIs ==
    ASSUME NEW K, NEW N, 0 \in N,
           NEW it \in [forward : BOOLEAN, valid : BOOLEAN, key : K, value : N,
                       skipping : BOOLEAN, found : BOOLEAN],
           NEW k \in K, NEW b \in BOOLEAN, NEW z \in K, NEW v \in N
    PROVE  /\ [it EXCEPT !.valid = FALSE, !.key = z, !.value = 0] \in
                 [forward : BOOLEAN, valid : BOOLEAN, key : K, value : N, skipping : BOOLEAN, found : BOOLEAN]
           /\ [[it EXCEPT !.forward = TRUE, !.skipping = b, !.value = 0] EXCEPT !.key = k] \in
                 [forward : BOOLEAN, valid : BOOLEAN, key : K, value : N, skipping : BOOLEAN, found : BOOLEAN]
           /\ [it EXCEPT !.forward = FALSE, !.found = FALSE, !.value = 0] \in
                 [forward : BOOLEAN, valid : BOOLEAN, key : K, value : N, skipping : BOOLEAN, found : BOOLEAN]
           /\ [it EXCEPT !.valid = TRUE, !.key = k] \in
                 [forward : BOOLEAN, valid : BOOLEAN, key : K, value : N, skipping : BOOLEAN, found : BOOLEAN]
           /\ [it EXCEPT !.key = k, !.skipping = TRUE] \in
                 [forward : BOOLEAN, valid : BOOLEAN, key : K, value : N, skipping : BOOLEAN, found : BOOLEAN]
           /\ [it EXCEPT !.key = k, !.found = FALSE] \in
                 [forward : BOOLEAN, valid : BOOLEAN, key : K, value : N, skipping : BOOLEAN, found : BOOLEAN]
           /\ [it EXCEPT !.forward = FALSE] \in
                 [forward : BOOLEAN, valid : BOOLEAN, key : K, value : N, skipping : BOOLEAN, found : BOOLEAN]
           /\ [it EXCEPT !.valid = TRUE] \in
                 [forward : BOOLEAN, valid : BOOLEAN, key : K, value : N, skipping : BOOLEAN, found : BOOLEAN]
           /\ [it EXCEPT !.valid = FALSE, !.key = z, !.value = 0, !.forward = TRUE] \in
                 [forward : BOOLEAN, valid : BOOLEAN, key : K, value : N, skipping : BOOLEAN, found : BOOLEAN]
           /\ [it EXCEPT !.found = FALSE, !.key = z, !.value = 0] \in
                 [forward : BOOLEAN, valid : BOOLEAN, key : K, value : N, skipping : BOOLEAN, found : BOOLEAN]
           /\ [it EXCEPT !.found = TRUE, !.key = k, !.value = v] \in
                 [forward : BOOLEAN, valid : BOOLEAN, key : K, value : N, skipping : BOOLEAN, found : BOOLEAN]
  OBVIOUS

LEMMA IterTypes ==
    ASSUME NEW n, ReadsOK(n), NEW it \in IterRecords, NEW k \in Keys \union {0}, NEW b \in BOOLEAN,
           NEW v \in 0 .. snapshot
    PROVE  /\ [it EXCEPT !.valid = FALSE, !.key = 0, !.value = 0] \in IterRecords
           /\ [[it EXCEPT !.forward = TRUE, !.skipping = b, !.value = 0] EXCEPT !.key = k] \in IterRecords
           /\ [it EXCEPT !.forward = FALSE, !.found = FALSE, !.value = 0] \in IterRecords
           /\ [it EXCEPT !.valid = TRUE, !.key = 0] \in IterRecords
           /\ [it EXCEPT !.key = k, !.skipping = TRUE] \in IterRecords
           /\ [it EXCEPT !.key = k, !.found = FALSE] \in IterRecords
           /\ [it EXCEPT !.forward = FALSE] \in IterRecords
           /\ [it EXCEPT !.valid = TRUE] \in IterRecords
           /\ [it EXCEPT !.valid = FALSE, !.key = 0, !.value = 0, !.forward = TRUE] \in IterRecords
           /\ [it EXCEPT !.found = FALSE, !.key = 0, !.value = 0] \in IterRecords
           /\ [it EXCEPT !.found = TRUE, !.key = k, !.value = v] \in IterRecords
<1> DEFINE K == Keys \union {0}
           N == 0 .. snapshot
           R == [forward : BOOLEAN, valid : BOOLEAN, key : K, value : N, skipping : BOOLEAN, found : BOOLEAN]
<1>1. IterRecords = R
  BY DEF IterRecords
<1>2. snapshot \in Nat
  BY Numbers
<1>3. 0 \in K /\ 0 \in N /\ k \in K /\ v \in N
  BY <1>2
<1>4. it \in R
  BY <1>1, Zenon
<1> HIDE DEF K, N
<1>5. /\ [it EXCEPT !.valid = FALSE, !.key = 0, !.value = 0] \in R
      /\ [[it EXCEPT !.forward = TRUE, !.skipping = b, !.value = 0] EXCEPT !.key = k] \in R
      /\ [it EXCEPT !.forward = FALSE, !.found = FALSE, !.value = 0] \in R
      /\ [it EXCEPT !.valid = TRUE, !.key = 0] \in R
      /\ [it EXCEPT !.key = k, !.skipping = TRUE] \in R
      /\ [it EXCEPT !.key = k, !.found = FALSE] \in R
      /\ [it EXCEPT !.forward = FALSE] \in R
      /\ [it EXCEPT !.valid = TRUE] \in R
      /\ [it EXCEPT !.valid = FALSE, !.key = 0, !.value = 0, !.forward = TRUE] \in R
      /\ [it EXCEPT !.found = FALSE, !.key = 0, !.value = 0] \in R
      /\ [it EXCEPT !.found = TRUE, !.key = k, !.value = v] \in R
  BY <1>3, <1>4
<1> HIDE DEF R
<1> QED
  BY <1>1, <1>5, Zenon

LEMMA IInvHas ==
    ASSUME IInv
    PROVE  /\ ReadsOK(written) /\ MergeOK(merge, written) /\ iter \in IterRecords /\ wanted \in 0 .. snapshot
           /\ Heads(MergeEntry(merge), Ahead(merge), merge.forward) /\ merge.forward \in BOOLEAN
           /\ iter.key \in Nat /\ snapshot \in Nat /\ DatabaseOK
           /\ unreadable = {} => ~Failed(merge.table)
           /\ Failed(merge.table) \/ CursorIs(MergeEntry(merge), Ahead(merge), merge.forward, iter, pc, wanted)
<1>1. /\ ReadsOK(written) /\ MergeOK(merge, written) /\ iter \in IterRecords /\ wanted \in 0 .. snapshot
      /\ unreadable = {} => ~Failed(merge.table)
      /\ Failed(merge.table) \/ CursorIs(MergeEntry(merge), Ahead(merge), merge.forward, iter, pc, wanted)
  BY DEF IInv, InvOf, StateOK, CursorOK
<1>2. iter.key \in Nat
  <2>1. iter.key \in Keys \union {0}
    BY <1>1 DEF IterRecords
  <2> QED
    BY <2>1, SavedKeys, Zenon
<1>3. snapshot \in Nat /\ DatabaseOK
  BY <1>1, Numbers DEF ReadsOK
<1> QED
  BY <1>1, <1>2, <1>3, HeadsAre

LEMMA ReadsGoOn ==
    ASSUME NEW n, ReadsOK(n), NEW k \in n .. MaxUpdates
    PROVE  ReadsOK(k) /\ n <= k
<1>1. n \in Nat /\ MaxUpdates \in Nat /\ Flushed \in Nat /\ snapshot \in Nat
  BY Numbers
<1> QED
  BY <1>1 DEF ReadsOK

LEMMA WantedTypes ==
    ASSUME NEW n, ReadsOK(n), NEW S, S \subseteq Live
    PROVE  /\ IsFirst(FirstOf(S), S) /\ FirstOf(S) \in 0 .. snapshot
           /\ IsLast(LastOf(S), S) /\ LastOf(S) \in 0 .. snapshot
<1>1. S \subseteq Entries /\ S \subseteq Visibles /\ UpdatesOK /\ snapshot \in Nat
  BY Facts, Numbers
<1>2. IsFirst(FirstOf(S), S) /\ IsLast(LastOf(S), S)
  BY <1>1, FirstIs, LastIs
<1>3. FirstOf(S) \in {0} \union Visibles /\ LastOf(S) \in {0} \union Visibles
  BY <1>1, <1>2 DEF IsFirst, IsLast
<1> QED
  BY <1>1, <1>2, <1>3 DEF Visibles

(* A step that ends in FindNextIf, having got to V *)
LEMMA FindNextIfOK ==
    ASSUME IInv, written' \in written .. MaxUpdates, NEW V,
           MovesTo(merge.table, merge', written', TRUE, V),
           NEW after, after \in IterRecords, after.forward = TRUE, FindNextIf(after),
           wanted' \in 0 .. snapshot,
           Failed(merge.table) \/ NextIs(V, TRUE, after, wanted')
    PROVE  InvNext
<1>1. /\ MergeOK(merge', written') /\ merge'.forward = TRUE /\ Keeps(merge.table, merge'.table)
      /\ Failed(merge'.table) \/ Ahead(merge') = V
  BY DEF MovesTo
<1>2. ReadsOK(written') /\ (unreadable = {} => ~Failed(merge.table))
  BY IInvHas, ReadsGoOn
<1>3. /\ unreadable = {} => ~Failed(merge'.table)
      /\ Failed(merge'.table) \/ (Ahead(merge') = V /\ NextIs(V, TRUE, after, wanted'))
  BY <1>1, <1>2 DEF Keeps
<1>4. Heads(MergeEntry(merge'), Ahead(merge'), merge'.forward)
  BY <1>1, <1>2, HeadsAre
<1>5. CASE MergeEntry(merge') = 0
  <2>1. pc' = "idle" /\ iter' = [after EXCEPT !.valid = FALSE, !.key = 0, !.value = 0]
    BY <1>5 DEF FindNextIf, Stop
  <2>2. iter' \in IterRecords /\ iter'.valid = FALSE
    <3>0. snapshot \in Nat
      BY IInvHas
    <3>a. 0 \in Keys \union {0} /\ TRUE \in BOOLEAN /\ 0 \in 0 .. snapshot
      BY <3>0
    <3>1. [after EXCEPT !.valid = FALSE, !.key = 0, !.value = 0] \in IterRecords
      BY <1>2, <3>a, IterTypes, Zenon
    <3>2. [after EXCEPT !.valid = FALSE, !.key = 0, !.value = 0].valid = FALSE
      BY DEF IterRecords
    <3> QED
      BY <2>1, <3>1, <3>2
  <2>3. Failed(merge'.table) \/ wanted' = 0
    <3> SUFFICES ASSUME ~Failed(merge'.table) PROVE wanted' = 0
      OBVIOUS
    <3>1. V = {} /\ NextIs(V, TRUE, after, wanted')
      BY <1>3, <1>4, <1>5 DEF Heads
    <3> QED
      BY <3>1, NextEnds
  <2>4. StateOK(written', merge', iter', pc', wanted')
    BY <1>1, <1>2, <1>3, <2>1, <2>2 DEF StateOK
  <2>5. CursorOK(merge', iter', pc', wanted')
    BY <2>1, <2>2, <2>3 DEF CursorOK, CursorIs, IdleIs
  <2> QED
    BY <2>4, <2>5 DEF InvNext, InvOf
<1>6. CASE MergeEntry(merge') # 0
  <2>1. pc' = "next" /\ iter' = after
    BY <1>6 DEF FindNextIf
  <2>2. StateOK(written', merge', iter', pc', wanted')
    BY <1>1, <1>2, <1>3, <1>6, <2>1 DEF StateOK
  <2>3. CursorOK(merge', iter', pc', wanted')
    BY <1>1, <1>3, <2>1 DEF CursorOK, CursorIs
  <2> QED
    BY <2>2, <2>3 DEF InvNext, InvOf
<1> QED
  BY <1>5, <1>6

(* What the forward calls set before they look *)
LEMMA StartsForward ==
    ASSUME IInv, NEW b \in BOOLEAN, NEW k \in Keys \union {0}
    PROVE  LET after == [StartForward(b) EXCEPT !.key = k]
           IN  after \in IterRecords /\ after.forward = TRUE /\ after.skipping = b /\ after.key = k
<1>1. ReadsOK(written) /\ iter \in IterRecords /\ snapshot \in Nat
  BY IInvHas
<1>2. 0 \in 0 .. snapshot
  BY <1>1
<1>3. [[iter EXCEPT !.forward = TRUE, !.skipping = b, !.value = 0] EXCEPT !.key = k] \in IterRecords
  BY <1>1, <1>2, IterTypes, Zenon
<1> QED
  BY <1>1, <1>3 DEF StartForward, IterRecords

LEMMA SeekStep ==
    ASSUME IInv, NEW k \in Keys, Seek(k)
    PROVE  InvNext
<1> DEFINE target == <<k, snapshot>>
           V == {v \in Visibles : Reaches(v, target)}
           S == {i \in Live : Key(i) >= k}
           after == [StartForward(FALSE) EXCEPT !.key = 0]
<1>1. PICK more \in written .. MaxUpdates : written' = more /\ merge' = MergeSeek(merge, target, more)
  BY DEF Seek, Moves
<1>2. FindNextIf(after) /\ wanted' = FirstOf(S)
  BY DEF Seek
<1>3. k \in Nat /\ target \in Nat \X Nat /\ snapshot \in Nat
  BY IInvHas, IteratorsAssumption
<1>4. ReadsOK(written) /\ ReadsOK(more)
  BY IInvHas, ReadsGoOn
<1>5. MovesTo(merge.table, merge', written', TRUE, V)
  BY <1>1, <1>3, <1>4, IInvHas, MergeSeekIs
<1>6. after \in IterRecords /\ after.forward = TRUE /\ after.skipping = FALSE
  BY StartsForward
<1>7. V = {v \in Visibles : Key(v) >= k}
  <2>1. ASSUME NEW v \in Visibles
        PROVE  Reaches(v, target) <=> Key(v) >= k
    <3>1. v \in 1 .. snapshot /\ Key(v) \in Nat
      BY <1>4, Facts DEF Visibles
    <3> QED
      BY <1>3, <3>1 DEF Reaches, Precedes, InternalKey
  <2> QED
    BY <2>1
<1>8. IsFirst(wanted', S) /\ wanted' \in 0 .. snapshot
  BY <1>2, <1>4, WantedTypes
<1> HIDE DEF V, after
<1>9. NextIs(V, TRUE, after, wanted')
  BY <1>3, <1>4, <1>6, <1>7, <1>8, SeekBegins
<1> QED
  BY <1>1, <1>2, <1>5, <1>6, <1>8, <1>9, FindNextIfOK

LEMMA SeekToFirstStep ==
    ASSUME IInv, SeekToFirst
    PROVE  InvNext
<1> DEFINE after == [StartForward(FALSE) EXCEPT !.key = 0]
<1>1. PICK more \in written .. MaxUpdates : written' = more /\ merge' = MergeFirst(merge, more)
  BY DEF SeekToFirst, Moves
<1>2. FindNextIf(after) /\ wanted' = FirstOf(Live)
  BY DEF SeekToFirst
<1>3. ReadsOK(written) /\ ReadsOK(more)
  BY IInvHas, ReadsGoOn
<1>4. MovesTo(merge.table, merge', written', TRUE, Visibles)
  BY <1>1, <1>3, IInvHas, MergeFirstIs
<1>5. after \in IterRecords /\ after.forward = TRUE /\ after.skipping = FALSE
  BY StartsForward
<1>6. IsFirst(wanted', Live) /\ wanted' \in 0 .. snapshot
  BY <1>2, <1>3, WantedTypes
<1> HIDE DEF after
<1>7. NextIs(Visibles, TRUE, after, wanted')
  BY <1>3, <1>5, <1>6, FirstBegins
<1> QED
  BY <1>1, <1>2, <1>4, <1>5, <1>6, <1>7, FindNextIfOK

(* What a call knows when it begins at an entry that is shown *)
LEMMA ShownIs ==
    ASSUME IInv, pc = "idle", iter.valid
    PROVE  /\ ShownKey \in Keys /\ ShownKey \in Nat
           /\ iter.forward => MergeEntry(merge) # 0 /\ ShownKey = Key(MergeEntry(merge))
           /\ ~iter.forward => SavedOK(iter) /\ ShownKey = iter.key
           /\ Failed(merge.table) \/ IdleIs(MergeEntry(merge), Ahead(merge), merge.forward, iter, wanted)
<1>1. /\ iter.forward => MergeEntry(merge) # 0
      /\ ~iter.forward => SavedOK(iter)
  BY DEF IInv, InvOf, StateOK
<1>2. Failed(merge.table) \/ IdleIs(MergeEntry(merge), Ahead(merge), merge.forward, iter, wanted)
  BY DEF IInv, InvOf, CursorOK, CursorIs
<1>3. /\ iter.forward => ShownKey = Key(MergeEntry(merge))
      /\ ~iter.forward => ShownKey = iter.key
  BY DEF ShownKey
<1>4. UpdatesOK /\ Visibles \subseteq Entries
  BY IInvHas, Numbers
<1>5. MergeEntry(merge) # 0 => MergeEntry(merge) \in Entries
  BY IInvHas DEF Heads
<1>6. ShownKey \in Keys /\ ShownKey \in Nat
  BY <1>1, <1>3, <1>4, <1>5, KeysAre DEF SavedOK
<1> QED
  BY <1>1, <1>2, <1>3, <1>6

LEMMA NextUserStep ==
    ASSUME IInv, NextUser
    PROVE  InvNext
<1> DEFINE e == MergeEntry(merge)
           A == Ahead(merge)
           k == ShownKey
           S == {i \in Live : Key(i) > k}
           after == [StartForward(TRUE) EXCEPT !.key = k]
<1>1. pc = "idle" /\ iter.valid /\ FindNextIf(after) /\ wanted' = FirstOf(S)
  BY DEF NextUser
<1>2. PICK more \in written .. MaxUpdates :
        /\ written' = more
        /\ merge' = IF ~iter.forward /\ e = 0 THEN MergeFirst(merge, more)
                    ELSE MergeNext(merge, written, more)
  BY DEF NextUser, Moves
<1>3. /\ ReadsOK(written) /\ ReadsOK(more) /\ written <= more /\ MergeOK(merge, written)
      /\ Heads(e, A, merge.forward) /\ merge.forward \in BOOLEAN
  BY IInvHas, ReadsGoOn
<1>4. /\ k \in Keys /\ k \in Nat
      /\ iter.forward => e # 0 /\ k = Key(e)
      /\ ~iter.forward => SavedOK(iter) /\ k = iter.key
      /\ Failed(merge.table) \/ IdleIs(e, A, merge.forward, iter, wanted)
  BY <1>1, ShownIs
<1>5. after \in IterRecords /\ after.forward = TRUE /\ after.skipping = TRUE /\ after.key = k
  <2>1. k \in Keys \union {0} /\ TRUE \in BOOLEAN
    BY <1>4
  <2> HIDE DEF k
  <2> QED
    BY <2>1, StartsForward
<1>6. IsFirst(wanted', S) /\ wanted' \in 0 .. snapshot
  <2>1. S \subseteq Live
    OBVIOUS
  <2> HIDE DEF S
  <2> QED
    BY <1>1, <1>3, <2>1, WantedTypes
<1>7. iter.forward \in BOOLEAN
  BY IInvHas DEF IterRecords
<1> HIDE DEF after, k
<1>8. CASE ~iter.forward /\ e = 0
  <2>1. MovesTo(merge.table, merge', written', TRUE, Visibles)
    BY <1>2, <1>3, <1>8, MergeFirstIs
  <2>2. Failed(merge.table) \/ NextIs(Visibles, TRUE, after, wanted')
    <3> SUFFICES ASSUME ~Failed(merge.table) PROVE NextIs(Visibles, TRUE, after, wanted')
      OBVIOUS
    <3>1. A = {v \in Visibles : Key(v) < k} /\ A = {}
      BY <1>1, <1>3, <1>4, <1>8 DEF IdleIs, Heads
    <3> QED
      BY <1>3, <1>4, <1>5, <1>6, <3>1, NextRestarts
  <2> QED
    BY <1>1, <1>2, <1>5, <1>6, <2>1, <2>2, FindNextIfOK
<1>9. CASE e # 0
  <2> DEFINE V == AheadAfterNext(merge)
  <2>1. MovesTo(merge.table, merge', written', TRUE, V)
    BY <1>2, <1>3, <1>9, MergeNextIs
  <2>2. Failed(merge.table) \/ NextIs(V, TRUE, after, wanted')
    <3> SUFFICES ASSUME ~Failed(merge.table) PROVE NextIs(V, TRUE, after, wanted')
      OBVIOUS
    <3>1. CASE iter.forward
      <4>1. merge.forward /\ e \in Visibles /\ \A v \in Visibles \ A : Before(v, e)
        BY <1>1, <1>4, <3>1 DEF IdleIs
      <4>2. V = A \ {e}
        BY <4>1 DEF AheadAfterNext
      <4>3. Heads(e, A, TRUE) /\ k = Key(e)
        BY <1>3, <1>4, <3>1, <4>1
      <4>4. NextIs(A \ {e}, TRUE, after, wanted')
        BY <1>3, <1>5, <1>6, <4>1, <4>3, NextBegins
      <4> QED
        BY <4>2, <4>4
    <3>2. CASE ~iter.forward
      <4>1. ~merge.forward /\ A = {v \in Visibles : Key(v) < k} /\ e \in Visibles /\ Key(e) < k
        BY <1>1, <1>4, <1>9, <3>2 DEF IdleIs
      <4>2. V = Behind(e)
        BY <4>1 DEF AheadAfterNext
      <4>3. Heads(e, A, FALSE)
        BY <1>3, <4>1
      <4>4. NextIs(Behind(e), TRUE, after, wanted')
        BY <1>3, <1>4, <1>5, <1>6, <4>1, <4>3, NextTurns
      <4> QED
        BY <4>2, <4>4
    <3> QED
      BY <3>1, <3>2
  <2> HIDE DEF V
  <2> QED
    BY <1>1, <1>2, <1>5, <1>6, <2>1, <2>2, FindNextIfOK
<1> QED
  BY <1>4, <1>7, <1>8, <1>9

LEMMA FindNextUserEntryStep ==
    ASSUME IInv, FindNextUserEntry
    PROVE  InvNext
<1> DEFINE e     == MergeEntry(merge)
           A     == Ahead(merge)
           hides == Visible(e) /\ updates[e].deletes
           shows == Visible(e) /\ ~updates[e].deletes /\ ~(iter.skipping /\ Key(e) <= iter.key)
           after == IF hides THEN [iter EXCEPT !.key = Key(e), !.skipping = TRUE] ELSE iter
           V     == AheadAfterNext(merge)
<1>1. pc = "next" /\ wanted' = wanted /\ wanted \in 0 .. snapshot
  BY IInvHas DEF FindNextUserEntry
<1>2. /\ ReadsOK(written) /\ MergeOK(merge, written) /\ iter \in IterRecords
      /\ Heads(e, A, merge.forward) /\ iter.key \in Nat
      /\ unreadable = {} => ~Failed(merge.table)
  BY IInvHas
<1>3. e # 0 /\ iter.forward /\ merge.forward = TRUE
  BY <1>1, <1>2, IInvHas DEF IInv, InvOf, StateOK
<1>4. Failed(merge.table) \/ NextIs(A, TRUE, iter, wanted)
  BY <1>1, <1>3 DEF IInv, InvOf, CursorOK, CursorIs
<1>5. /\ Visible(e) <=> e \in Visibles
      /\ e \in Entries /\ Key(e) \in Keys /\ snapshot \in Nat
  BY <1>2, <1>3, Numbers, KeysAre DEF Visible, Visibles, Heads
<1>6. \/ /\ shows /\ pc' = "idle" /\ iter' = [iter EXCEPT !.valid = TRUE, !.key = 0]
         /\ written' = written /\ merge' = merge
      \/ /\ ~shows /\ Moves(LAMBDA more : MergeNext(merge, written, more))
         /\ FindNextIf(after)
  BY DEF FindNextUserEntry
<1>7. CASE /\ shows /\ pc' = "idle" /\ iter' = [iter EXCEPT !.valid = TRUE, !.key = 0]
           /\ written' = written /\ merge' = merge
  <2>1. iter' \in IterRecords
    <3>1. 0 \in Keys \union {0} /\ TRUE \in BOOLEAN /\ 0 \in 0 .. snapshot
      BY <1>5
    <3>2. [iter EXCEPT !.valid = TRUE, !.key = 0] \in IterRecords
      BY <1>2, <3>1, IterTypes, Zenon
    <3> QED
      BY <1>7, <3>2
  <2>2. iter'.valid /\ iter'.forward
    BY <1>2, <1>3, <1>7 DEF IterRecords
  <2>3. StateOK(written', merge', iter', pc', wanted')
    BY <1>1, <1>2, <1>3, <1>7, <2>1, <2>2 DEF StateOK
  <2>4. CursorOK(merge', iter', pc', wanted')
    <3> SUFFICES ASSUME ~Failed(merge.table) PROVE IdleIs(e, A, TRUE, iter', wanted)
      BY <1>1, <1>3, <1>7 DEF CursorOK, CursorIs
    <3>1. wanted = e /\ \A v \in Visibles \ A : Before(v, e)
      BY <1>2, <1>3, <1>4, <1>5, <1>7, NextShows
    <3> QED
      BY <1>5, <1>7, <2>2, <3>1 DEF IdleIs
  <2> QED
    BY <2>3, <2>4 DEF InvNext, InvOf
<1>8. CASE /\ ~shows /\ Moves(LAMBDA more : MergeNext(merge, written, more))
           /\ FindNextIf(after)
  <2>1. PICK more \in written .. MaxUpdates : written' = more /\ merge' = MergeNext(merge, written, more)
    BY <1>8 DEF Moves
  <2>2. ReadsOK(more) /\ written <= more
    BY <1>2, ReadsGoOn
  <2>3. MovesTo(merge.table, merge', written', TRUE, V)
    BY <1>2, <1>3, <2>1, <2>2, MergeNextIs
  <2>4. V = A \ {e}
    BY <1>3 DEF AheadAfterNext
  <2>5. after \in IterRecords /\ after.forward = TRUE
        /\ (hides => after.skipping = TRUE /\ after.key = Key(e))
    <3>1. Key(e) \in Keys \union {0} /\ TRUE \in BOOLEAN /\ 0 \in 0 .. snapshot
      BY <1>5
    <3>2. [iter EXCEPT !.key = Key(e), !.skipping = TRUE] \in IterRecords
      BY <1>2, <3>1, IterTypes, Zenon
    <3>3. CASE hides
      <4>1. after = [iter EXCEPT !.key = Key(e), !.skipping = TRUE]
        BY <3>3
      <4>2. iter.forward = TRUE
        BY <1>2, <1>3 DEF IterRecords
      <4> HIDE DEF after
      <4> QED
        BY <1>2, <3>2, <4>1, <4>2 DEF IterRecords
    <3>4. CASE ~hides
      BY <1>2, <1>3, <3>4 DEF IterRecords
    <3> QED
      BY <3>3, <3>4
  <2>6. Failed(merge.table) \/ NextIs(V, TRUE, after, wanted')
    <3> SUFFICES ASSUME ~Failed(merge.table) PROVE NextIs(A \ {e}, TRUE, after, wanted)
      BY <1>1, <2>4
    <3>1. NextIs(A, TRUE, iter, wanted) /\ Heads(e, A, TRUE)
      BY <1>2, <1>3, <1>4
    <3>2. CASE hides
      <4>1. e \in Visibles /\ updates[e].deletes /\ after.skipping = TRUE /\ after.key = Key(e)
        BY <1>5, <2>5, <3>2
      <4> HIDE DEF after
      <4> QED
        BY <1>2, <3>1, <4>1, NextHides
    <3>3. CASE ~hides
      <4>1. e \in Visibles => iter.skipping /\ Key(e) <= iter.key
        BY <1>5, <1>8, <3>3
      <4>2. after = iter
        BY <3>3
      <4> HIDE DEF after
      <4>3. NextIs(A \ {e}, TRUE, iter, wanted)
        BY <1>2, <3>1, <4>1, NextSkips
      <4> QED
        BY <4>2, <4>3
    <3> QED
      BY <3>2, <3>3
  <2>7. FindNextIf(after)
    BY <1>8
  <2> HIDE DEF V, after
  <2> QED
    BY <1>1, <2>1, <2>3, <2>5, <2>6, <2>7, FindNextIfOK
<1> QED
  BY <1>6, <1>7, <1>8

LEMMA InsertStep ==
    ASSUME IInv, Insert
    PROVE  InvNext
<1>1. /\ written' = written + 1 /\ written < MaxUpdates /\ merge' = merge /\ iter' = iter
      /\ pc' = pc /\ wanted' = wanted
  BY DEF Insert
<1>2. ReadsOK(written) /\ MergeOK(merge, written)
  BY IInvHas
<1>3. written \in Nat /\ MaxUpdates \in Nat /\ Flushed \in Nat
  BY <1>2, Numbers
<1>4. ReadsOK(written')
  BY <1>1, <1>2, <1>3 DEF ReadsOK
<1>5. InMem(written) \subseteq InMem(written')
  BY <1>1, <1>3 DEF InMem
<1>6. MergeOK(merge, written')
  BY <1>2, <1>5 DEF MergeOK, ChildrenOK
<1> QED
  BY <1>1, <1>4, <1>6 DEF IInv, InvNext, InvOf, StateOK

(* A step that goes back, which leaves the loop of FindPrevUserEntry in    *)
(* front of what MergePrev got to                                          *)
LEMMA GoesBack ==
    ASSUME IInv, NEW V, MovesTo(merge.table, merge', written', FALSE, V),
           written' \in written .. MaxUpdates, pc' = "prev", wanted' \in 0 .. snapshot,
           iter' \in IterRecords, ~iter'.forward, iter'.found => SavedOK(iter'),
           Failed(merge'.table) \/ PrevIs(V, FALSE, iter', wanted')
    PROVE  InvNext
<1>1. /\ MergeOK(merge', written') /\ merge'.forward = FALSE /\ Keeps(merge.table, merge'.table)
      /\ Failed(merge'.table) \/ Ahead(merge') = V
  BY DEF MovesTo
<1>2. ReadsOK(written') /\ (unreadable = {} => ~Failed(merge.table))
  BY IInvHas, ReadsGoOn
<1>3. unreadable = {} => ~Failed(merge'.table)
  BY <1>1, <1>2 DEF Keeps
<1>4. StateOK(written', merge', iter', pc', wanted')
  <2>1. /\ ReadsOK(written') /\ MergeOK(merge', written') /\ iter' \in IterRecords
        /\ pc' \in {"idle", "next", "scan", "prev"} /\ wanted' \in 0 .. snapshot
    BY <1>1, <1>2
  <2>2. /\ pc' \notin {"idle", "next", "scan"} /\ ~iter'.forward /\ (iter'.found => SavedOK(iter'))
    OBVIOUS
  <2> QED
    BY <1>3, <2>1, <2>2 DEF StateOK
<1>5. CursorOK(merge', iter', pc', wanted')
  BY <1>1 DEF CursorOK, CursorIs
<1> QED
  BY <1>4, <1>5 DEF InvNext, InvOf

LEMMA SeekToLastStep ==
    ASSUME IInv, SeekToLast
    PROVE  InvNext
<1>1. PICK more \in written .. MaxUpdates : written' = more /\ merge' = MergeLast(merge, more)
  BY DEF SeekToLast, Moves
<1>2. /\ pc' = "prev" /\ iter' = [iter EXCEPT !.forward = FALSE, !.found = FALSE, !.value = 0]
      /\ wanted' = LastOf(Live)
  BY DEF SeekToLast
<1>3. ReadsOK(written) /\ ReadsOK(more) /\ iter \in IterRecords /\ snapshot \in Nat
  BY IInvHas, ReadsGoOn
<1>4. MovesTo(merge.table, merge', written', FALSE, Visibles)
  BY <1>1, <1>3, IInvHas, MergeLastIs
<1>5. iter' \in IterRecords /\ ~iter'.forward /\ ~iter'.found
  <2>1. 0 \in Keys \union {0} /\ TRUE \in BOOLEAN /\ 0 \in 0 .. snapshot
    BY <1>3
  <2>2. [iter EXCEPT !.forward = FALSE, !.found = FALSE, !.value = 0] \in IterRecords
    BY <1>3, <2>1, IterTypes, Zenon
  <2> QED
    BY <1>2, <1>3, <2>2 DEF IterRecords
<1>6. IsLast(wanted', Live) /\ wanted' \in 0 .. snapshot
  BY <1>2, <1>3, WantedTypes
<1>7. PrevIs(Visibles, FALSE, iter', wanted')
  BY <1>3, <1>5, <1>6, LastBegins
<1> QED
  BY <1>1, <1>2, <1>4, <1>5, <1>6, <1>7, GoesBack

LEMMA PrevStep ==
    ASSUME IInv, Prev
    PROVE  InvNext
<1> DEFINE e == MergeEntry(merge)
           A == Ahead(merge)
           k == ShownKey
           S == {i \in Live : Key(i) < k}
<1>1. /\ pc = "idle" /\ iter.valid /\ pc' = (IF iter.forward THEN "scan" ELSE "prev")
      /\ iter' = [iter EXCEPT !.key = k, !.found = FALSE]
      /\ wanted' = LastOf(S) /\ written' = written /\ merge' = merge
  BY DEF Prev
<1>2. /\ ReadsOK(written) /\ MergeOK(merge, written) /\ iter \in IterRecords /\ snapshot \in Nat
      /\ Heads(e, A, merge.forward)
      /\ unreadable = {} => ~Failed(merge.table)
  BY IInvHas
<1>3. /\ k \in Keys /\ k \in Nat
      /\ iter.forward => e # 0 /\ k = Key(e)
      /\ ~iter.forward => k = iter.key
      /\ Failed(merge.table) \/ IdleIs(e, A, merge.forward, iter, wanted)
  BY <1>1, ShownIs
<1>4. IsLast(wanted', S) /\ wanted' \in 0 .. snapshot
  <2>1. S \subseteq Live
    OBVIOUS
  <2> HIDE DEF S
  <2> QED
    BY <1>1, <1>2, <2>1, WantedTypes
<1> HIDE DEF k
<1>5. iter' \in IterRecords /\ iter'.forward = iter.forward /\ ~iter'.found /\ iter'.key = k
  <2>1. k \in Keys \union {0} /\ TRUE \in BOOLEAN /\ 0 \in 0 .. snapshot
    BY <1>2, <1>3
  <2>2. [iter EXCEPT !.key = k, !.found = FALSE] \in IterRecords
    BY <1>2, <2>1, IterTypes, Zenon
  <2> QED
    BY <1>1, <1>2, <2>2 DEF IterRecords
<1>6. iter.forward \in BOOLEAN
  BY <1>2 DEF IterRecords
<1>7. StateOK(written', merge', iter', pc', wanted')
  BY <1>1, <1>2, <1>3, <1>4, <1>5, <1>6 DEF StateOK
<1>8. CursorOK(merge', iter', pc', wanted')
  <2> SUFFICES ASSUME ~Failed(merge.table) PROVE CursorIs(e, A, merge.forward, iter', pc', wanted')
    BY <1>1 DEF CursorOK
  <2>1. CASE iter.forward
    <3>1. merge.forward /\ e \in Visibles /\ Key(e) = k
      BY <1>1, <1>3, <2>1 DEF IdleIs
    <3>2. ScanIs(e, A, merge.forward, iter', wanted')
      BY <1>3, <1>4, <1>5, <3>1 DEF ScanIs
    <3> QED
      BY <1>1, <2>1, <3>2 DEF CursorIs
  <2>2. CASE ~iter.forward
    <3>1. ~merge.forward /\ A = {v \in Visibles : Key(v) < k}
      BY <1>1, <1>3, <2>2 DEF IdleIs
    <3>2. PrevIs(A, FALSE, iter', wanted')
      BY <1>2, <1>3, <1>4, <1>5, <3>1, PrevBegins
    <3>3. PrevIs(A, merge.forward, iter', wanted')
      BY <3>1, <3>2 DEF PrevIs
    <3> QED
      BY <1>1, <2>2, <3>3 DEF CursorIs
  <2> QED
    BY <2>1, <2>2
<1> QED
  BY <1>7, <1>8 DEF InvNext, InvOf

LEMMA TurnAroundStep ==
    ASSUME IInv, TurnAround
    PROVE  InvNext
<1> DEFINE e == MergeEntry(merge)
           A == Ahead(merge)
           x == MergeEntry(merge')
           V == AheadAfterPrev(merge)
<1>1. pc = "scan" /\ wanted' = wanted /\ wanted \in 0 .. snapshot
  BY IInvHas DEF TurnAround
<1>2. /\ ReadsOK(written) /\ MergeOK(merge, written) /\ iter \in IterRecords /\ snapshot \in Nat
      /\ Heads(e, A, merge.forward) /\ merge.forward \in BOOLEAN /\ iter.key \in Nat
      /\ unreadable = {} => ~Failed(merge.table)
  BY IInvHas
<1>3. e # 0 /\ iter.forward /\ ~iter.found
  BY <1>1 DEF IInv, InvOf, StateOK
<1>4. Failed(merge.table) \/ ScanIs(e, A, merge.forward, iter, wanted)
  BY <1>1 DEF IInv, InvOf, CursorOK, CursorIs
<1>5. PICK more \in written .. MaxUpdates : written' = more /\ merge' = MergePrev(merge, written, more)
  BY DEF TurnAround, Moves
<1>6. ReadsOK(more) /\ written <= more
  BY <1>2, ReadsGoOn
<1>7. MovesTo(merge.table, merge', written', FALSE, V)
  BY <1>2, <1>3, <1>5, <1>6, MergePrevIs
<1>8. /\ MergeOK(merge', written') /\ merge'.forward = FALSE /\ Keeps(merge.table, merge'.table)
      /\ Failed(merge'.table) \/ Ahead(merge') = V
  BY <1>7 DEF MovesTo
<1>9. Heads(x, Ahead(merge'), FALSE)
  BY <1>5, <1>6, <1>8, HeadsAre
<1>10. unreadable = {} => ~Failed(merge'.table)
  BY <1>2, <1>8 DEF Keeps
<1>11. ASSUME ~Failed(merge'.table)
       PROVE  /\ Ahead(merge') = V /\ ~iter.found
              /\ x = 0 => wanted = 0
              /\ x # 0 /\ Key(x) >= iter.key => ScanIs(x, V, FALSE, iter, wanted)
              /\ \A to : x # 0 /\ Key(x) < iter.key /\ ~to.found => PrevIs(V, FALSE, to, wanted)
  <2>1. Ahead(merge') = V /\ ScanIs(e, A, merge.forward, iter, wanted)
    BY <1>4, <1>8, <1>11 DEF Keeps
  <2>2. CutBack(V) /\ \A v \in Visibles : Key(v) < iter.key => v \in V
    <3>1. CASE merge.forward
      <4>1. V = InFront(e) /\ ScanIs(e, A, TRUE, iter, wanted)
        BY <2>1, <3>1 DEF AheadAfterPrev, ScanIs
      <4> HIDE DEF V
      <4>2. CutBack(InFront(e)) /\ \A v \in Visibles : Key(v) < iter.key => v \in InFront(e)
        BY <1>2, <4>1, ScanTurns
      <4> QED
        BY <4>1, <4>2
    <3>2. CASE ~merge.forward
      <4>1. V = A \ {e} /\ ScanIs(e, A, FALSE, iter, wanted) /\ Heads(e, A, FALSE)
        BY <1>2, <2>1, <3>2 DEF AheadAfterPrev, ScanIs
      <4>2. e \in Entries /\ Key(e) \in Nat
        BY <1>2, <1>3, <4>1, Facts DEF Heads
      <4> HIDE DEF V
      <4>3. CutBack(A \ {e}) /\ \A v \in Visibles : Key(v) < iter.key => v \in A \ {e}
        BY <1>2, <4>1, <4>2, ScanGoesOn
      <4> QED
        BY <4>1, <4>3
    <3> QED
      BY <3>1, <3>2
  <2>3. ~iter.found /\ IsLast(wanted, {i \in Live : Key(i) < iter.key}) /\ Heads(x, V, FALSE)
    BY <1>9, <2>1 DEF ScanIs
  <2>4. x # 0 => x \in Entries /\ Key(x) \in Nat
    BY <1>2, <2>3, Facts DEF Heads
  <2> HIDE DEF V, x
  <2>5. /\ x = 0 => wanted = 0
        /\ x # 0 /\ Key(x) >= iter.key => ScanIs(x, V, FALSE, iter, wanted)
        /\ \A to : x # 0 /\ Key(x) < iter.key /\ ~to.found => PrevIs(V, FALSE, to, wanted)
    BY <1>2, <2>2, <2>3, ScanLeads, Zenon
  <2> QED
    BY <2>1, <2>3, <2>5
<1> HIDE DEF V
<1>12. \/ x = 0 /\ Stop(iter)
       \/ x # 0 /\ Key(x) < iter.key /\ pc' = "prev" /\ iter' = [iter EXCEPT !.forward = FALSE]
       \/ x # 0 /\ Key(x) >= iter.key /\ pc' = pc /\ iter' = iter
  BY DEF TurnAround
<1>13. 0 \in Keys \union {0} /\ TRUE \in BOOLEAN /\ 0 \in 0 .. snapshot
  BY <1>2
<1>14. CASE x = 0 /\ Stop(iter)
  <2>1. pc' = "idle" /\ iter' = [iter EXCEPT !.valid = FALSE, !.key = 0, !.value = 0]
    BY <1>14 DEF Stop
  <2>2. iter' \in IterRecords /\ ~iter'.valid
    <3>1. [iter EXCEPT !.valid = FALSE, !.key = 0, !.value = 0] \in IterRecords
      BY <1>2, <1>13, IterTypes, Zenon
    <3> QED
      BY <1>2, <2>1, <3>1 DEF IterRecords
  <2>3. StateOK(written', merge', iter', pc', wanted')
    BY <1>1, <1>5, <1>6, <1>8, <1>10, <2>1, <2>2 DEF StateOK
  <2>4. CursorOK(merge', iter', pc', wanted')
    BY <1>1, <1>11, <1>14, <2>1, <2>2 DEF CursorOK, CursorIs, IdleIs
  <2> QED
    BY <2>3, <2>4 DEF InvNext, InvOf
<1>15. CASE x # 0 /\ Key(x) < iter.key /\ pc' = "prev" /\ iter' = [iter EXCEPT !.forward = FALSE]
  <2>1. iter' \in IterRecords /\ ~iter'.forward /\ iter'.found = iter.found
    <3>1. [iter EXCEPT !.forward = FALSE] \in IterRecords
      BY <1>2, <1>13, IterTypes, Zenon
    <3> QED
      BY <1>2, <1>15, <3>1 DEF IterRecords
  <2>2. iter.found = FALSE
    BY <1>2, <1>3 DEF IterRecords
  <2>3. Failed(merge'.table) \/ PrevIs(V, FALSE, iter', wanted')
    BY <1>1, <1>11, <1>15, <2>1
  <2> QED
    BY <1>1, <1>5, <1>7, <1>15, <2>1, <2>2, <2>3, GoesBack
<1>16. CASE x # 0 /\ Key(x) >= iter.key /\ pc' = pc /\ iter' = iter
  <2>1. StateOK(written', merge', iter', pc', wanted')
    BY <1>1, <1>2, <1>3, <1>5, <1>6, <1>8, <1>10, <1>16 DEF StateOK
  <2>2. CursorOK(merge', iter', pc', wanted')
    BY <1>1, <1>8, <1>11, <1>16 DEF CursorOK, CursorIs
  <2> QED
    BY <2>1, <2>2 DEF InvNext, InvOf
<1> QED
  BY <1>12, <1>14, <1>15, <1>16

LEMMA FindPrevUserEntryStep ==
    ASSUME IInv, FindPrevUserEntry
    PROVE  InvNext
<1> DEFINE e    == MergeEntry(merge)
           A    == Ahead(merge)
           done == e = 0 \/ ReachesPrevious(e)
           V    == AheadAfterPrev(merge)
           after == IF ~Visible(e) THEN iter
                    ELSE IF updates[e].deletes THEN [iter EXCEPT !.found = FALSE, !.key = 0, !.value = 0]
                    ELSE [iter EXCEPT !.found = TRUE, !.key = Key(e), !.value = e]
<1>1. pc = "prev" /\ wanted' = wanted /\ wanted \in 0 .. snapshot
  BY IInvHas DEF FindPrevUserEntry
<1>2. /\ ReadsOK(written) /\ MergeOK(merge, written) /\ iter \in IterRecords /\ snapshot \in Nat
      /\ Heads(e, A, merge.forward) /\ merge.forward \in BOOLEAN /\ iter.key \in Nat
      /\ unreadable = {} => ~Failed(merge.table)
  BY IInvHas
<1>3. ~iter.forward /\ (iter.found => SavedOK(iter)) /\ iter.found \in BOOLEAN
  BY <1>1, <1>2 DEF IInv, InvOf, StateOK, IterRecords
<1>4. Failed(merge.table) \/ (PrevIs(A, FALSE, iter, wanted) /\ ~merge.forward)
  <2>1. Failed(merge.table) \/ PrevIs(A, merge.forward, iter, wanted)
    BY <1>1 DEF IInv, InvOf, CursorOK, CursorIs
  <2>2. PrevIs(A, merge.forward, iter, wanted) => ~merge.forward /\ PrevIs(A, FALSE, iter, wanted)
    BY DEF PrevIs
  <2> QED
    BY <2>1, <2>2
<1>5. Visible(e) <=> e \in Visibles
  BY <1>2 DEF Visible, Visibles
<1>6. 0 \in Keys \union {0} /\ TRUE \in BOOLEAN /\ 0 \in 0 .. snapshot
  BY <1>2
<1>7. \/ /\ done /\ iter.found /\ pc' = "idle" /\ iter' = [iter EXCEPT !.valid = TRUE]
         /\ written' = written /\ merge' = merge
      \/ /\ done /\ ~iter.found /\ pc' = "idle"
         /\ iter' = [iter EXCEPT !.valid = FALSE, !.key = 0, !.value = 0, !.forward = TRUE]
         /\ written' = written /\ merge' = merge
      \/ /\ ~done /\ iter' = after /\ pc' = pc
         /\ Moves(LAMBDA more : MergePrev(merge, written, more))
  BY DEF FindPrevUserEntry
<1>8. CASE /\ done /\ iter.found /\ pc' = "idle" /\ iter' = [iter EXCEPT !.valid = TRUE]
           /\ written' = written /\ merge' = merge
  <2>1. /\ iter' \in IterRecords /\ iter'.valid = TRUE /\ iter'.forward = iter.forward
        /\ iter'.value = iter.value /\ iter'.key = iter.key
    <3>1. [iter EXCEPT !.valid = TRUE] \in IterRecords
      BY <1>2, <1>6, IterTypes, Zenon
    <3> QED
      BY <1>2, <1>8, <3>1 DEF IterRecords
  <2>2. SavedOK(iter')
    BY <1>3, <1>8, <2>1 DEF SavedOK
  <2>3. StateOK(written', merge', iter', pc', wanted')
    BY <1>1, <1>2, <1>3, <1>8, <2>1, <2>2 DEF StateOK
  <2>4. CursorOK(merge', iter', pc', wanted')
    <3> SUFFICES ASSUME ~Failed(merge.table) PROVE IdleIs(e, A, merge.forward, iter', wanted)
      BY <1>1, <1>8 DEF CursorOK, CursorIs
    <3>1. PrevIs(A, FALSE, iter, wanted) /\ ~merge.forward /\ Heads(e, A, FALSE)
      BY <1>2, <1>4
    <3>2. e = 0 \/ (e \in Visibles /\ Key(e) < iter.key)
      BY <1>5, <1>8 DEF ReachesPrevious
    <3>3. wanted = iter.value /\ A = {v \in Visibles : Key(v) < iter.key}
      BY <1>2, <1>8, <3>1, <3>2, PrevShows
    <3> QED
      BY <1>3, <2>1, <3>1, <3>2, <3>3 DEF IdleIs
  <2> QED
    BY <2>3, <2>4 DEF InvNext, InvOf
<1>9. CASE /\ done /\ ~iter.found /\ pc' = "idle"
           /\ iter' = [iter EXCEPT !.valid = FALSE, !.key = 0, !.value = 0, !.forward = TRUE]
           /\ written' = written /\ merge' = merge
  <2>1. iter' \in IterRecords /\ ~iter'.valid
    <3>1. [iter EXCEPT !.valid = FALSE, !.key = 0, !.value = 0, !.forward = TRUE] \in IterRecords
      BY <1>2, <1>6, IterTypes, Zenon
    <3> QED
      BY <1>2, <1>9, <3>1 DEF IterRecords
  <2>2. StateOK(written', merge', iter', pc', wanted')
    BY <1>1, <1>2, <1>9, <2>1 DEF StateOK
  <2>3. CursorOK(merge', iter', pc', wanted')
    <3> SUFFICES ASSUME ~Failed(merge.table) PROVE wanted = 0
      BY <1>1, <1>9, <2>1 DEF CursorOK, CursorIs, IdleIs
    <3>1. A = {}
      BY <1>2, <1>9 DEF ReachesPrevious, Heads
    <3>2. PrevIs({}, FALSE, iter, wanted)
      BY <1>4, <3>1
    <3> QED
      BY <1>9, <3>2, PrevEnds
  <2> QED
    BY <2>2, <2>3 DEF InvNext, InvOf
<1>10. CASE /\ ~done /\ iter' = after /\ pc' = pc
            /\ Moves(LAMBDA more : MergePrev(merge, written, more))
  <2>1. PICK more \in written .. MaxUpdates : written' = more /\ merge' = MergePrev(merge, written, more)
    BY <1>10 DEF Moves
  <2>2. ReadsOK(more) /\ written <= more /\ e # 0
    BY <1>2, <1>10, ReadsGoOn
  <2>3. MovesTo(merge.table, merge', written', FALSE, V)
    BY <1>2, <2>1, <2>2, MergePrevIs
  <2>4. e \in Entries /\ Key(e) \in Keys
    BY <1>2, <2>2, Numbers, KeysAre DEF Heads
  <2>5. e \in Visibles => Key(e) \in Keys \union {0} /\ e \in 0 .. snapshot
    BY <1>2, <2>4 DEF Visibles
  <2>6. /\ e \notin Visibles => iter' = iter
        /\ e \in Visibles /\ updates[e].deletes => iter' = [iter EXCEPT !.found = FALSE, !.key = 0, !.value = 0]
        /\ e \in Visibles /\ ~updates[e].deletes =>
              iter' = [iter EXCEPT !.found = TRUE, !.key = Key(e), !.value = e]
    BY <1>5, <1>10
  <2>7. CASE e \notin Visibles
    <3>1. iter' \in IterRecords /\ ~iter'.forward /\ (iter'.found => SavedOK(iter'))
      BY <1>2, <1>3, <2>6, <2>7
    <3>2. Failed(merge.table) \/ PrevIs(V, FALSE, iter', wanted')
      <4> SUFFICES ASSUME ~Failed(merge.table) PROVE PrevIs(V, FALSE, iter, wanted)
        BY <1>1, <2>6, <2>7
      <4>1. PrevIs(A, FALSE, iter, wanted) /\ Heads(e, A, FALSE) /\ V = A \ {e}
        BY <1>2, <1>4 DEF AheadAfterPrev
      <4> HIDE DEF V
      <4>2. PrevIs(A \ {e}, FALSE, iter, wanted)
        BY <1>2, <2>2, <2>7, <4>1, PrevGoesOn
      <4> QED
        BY <4>1, <4>2
    <3>3. Failed(merge'.table) \/ PrevIs(V, FALSE, iter', wanted')
      BY <2>3, <3>2 DEF MovesTo, Keeps
    <3> HIDE DEF V
    <3> QED
      BY <1>1, <1>10, <2>1, <2>3, <3>1, <3>3, GoesBack
  <2>8. CASE e \in Visibles /\ updates[e].deletes
    <3>1. iter' \in IterRecords /\ ~iter'.forward /\ ~iter'.found
      <4>1. [iter EXCEPT !.found = FALSE, !.key = 0, !.value = 0] \in IterRecords
        BY <1>2, <1>6, IterTypes, Zenon
      <4> QED
        BY <1>2, <1>3, <2>6, <2>8, <4>1 DEF IterRecords
    <3>2. Failed(merge.table) \/ PrevIs(V, FALSE, iter', wanted')
      <4> SUFFICES ASSUME ~Failed(merge.table) PROVE PrevIs(V, FALSE, iter', wanted)
        BY <1>1
      <4>1. PrevIs(A, FALSE, iter, wanted) /\ Heads(e, A, FALSE) /\ V = A \ {e}
        BY <1>2, <1>4 DEF AheadAfterPrev
      <4>2. ~(iter.found /\ Key(e) < iter.key)
        BY <1>5, <1>10, <2>8 DEF ReachesPrevious
      <4> HIDE DEF V
      <4>3. PrevIs(A \ {e}, FALSE, iter', wanted)
        BY <1>2, <2>2, <2>8, <3>1, <4>1, <4>2, PrevGoesOn
      <4> QED
        BY <4>1, <4>3
    <3>3. Failed(merge'.table) \/ PrevIs(V, FALSE, iter', wanted')
      BY <2>3, <3>2 DEF MovesTo, Keeps
    <3> HIDE DEF V
    <3> QED
      BY <1>1, <1>10, <2>1, <2>3, <3>1, <3>3, GoesBack
  <2>9. CASE e \in Visibles /\ ~updates[e].deletes
    <3>1. /\ iter' \in IterRecords /\ ~iter'.forward /\ iter'.found /\ iter'.key = Key(e) /\ iter'.value = e
      <4>1. [iter EXCEPT !.found = TRUE, !.key = Key(e), !.value = e] \in IterRecords
        BY <1>2, <1>6, <2>5, <2>9, IterTypes, Zenon
      <4> QED
        BY <1>2, <1>3, <2>6, <2>9, <4>1 DEF IterRecords
    <3>2. Failed(merge.table) \/ PrevIs(V, FALSE, iter', wanted')
      <4> SUFFICES ASSUME ~Failed(merge.table) PROVE PrevIs(V, FALSE, iter', wanted)
        BY <1>1
      <4>1. PrevIs(A, FALSE, iter, wanted) /\ Heads(e, A, FALSE) /\ V = A \ {e}
        BY <1>2, <1>4 DEF AheadAfterPrev
      <4>2. ~(iter.found /\ Key(e) < iter.key)
        BY <1>5, <1>10, <2>9 DEF ReachesPrevious
      <4> HIDE DEF V
      <4>3. PrevIs(A \ {e}, FALSE, iter', wanted)
        BY <1>2, <2>2, <2>9, <3>1, <4>1, <4>2, PrevGoesOn
      <4> QED
        BY <4>1, <4>3
    <3>3. SavedOK(iter')
      BY <2>9, <3>1 DEF SavedOK
    <3>4. Failed(merge'.table) \/ PrevIs(V, FALSE, iter', wanted')
      BY <2>3, <3>2 DEF MovesTo, Keeps
    <3> HIDE DEF V
    <3> QED
      BY <1>1, <1>10, <2>1, <2>3, <3>1, <3>3, <3>4, GoesBack
  <2> QED
    BY <2>7, <2>8, <2>9
<1> QED
  BY <1>7, <1>8, <1>9, <1>10

(* The database is the same in the next state, and so is what the          *)
(* invariant says of it. *)
LEMMA SameDatabase ==
    ASSUME UNCHANGED database
    PROVE  /\ updates' = updates /\ table' = table /\ unreadable' = unreadable /\ snapshot' = snapshot
           /\ (MergeEntry(merge))' = MergeEntry(merge') /\ (Ahead(merge))' = Ahead(merge')
           /\ (Failed(merge.table))' <=> Failed(merge'.table)
           /\ Live' = Live
           /\ DatabaseOK => DatabaseOK'
<1>1. updates' = updates /\ table' = table /\ unreadable' = unreadable /\ snapshot' = snapshot /\ loose' = loose
  BY DEF database
<1>2. (MergeEntry(merge))' = MergeEntry(merge')
  BY <1>1 DEF MergeEntry, EntryOf, EntryAt, DataValid, IsBlock, Size
<1>3. (Ahead(merge))' = Ahead(merge')
  BY <1>1 DEF Ahead, IsAhead, Child, Visibles, EntryOf, EntryAt, DataValid, IsBlock, Size,
              Before, Precedes, InternalKey, Key
<1>4. (Failed(merge.table))' <=> Failed(merge'.table)
  BY DEF Failed
<1>5. Live' = Live
  BY <1>1 DEF Live, Key
<1>6. ASSUME DatabaseOK
      PROVE  DatabaseOK'
  <2>1. UpdatesOK'
    BY <1>1, <1>6 DEF DatabaseOK, UpdatesOK
  <2>2. TableHolds'
    <3>1. TableHolds
      BY <1>6 DEF DatabaseOK
    <3>2. updates' = updates /\ table' = table
      BY <1>1
    <3>3. (/\ Len(table) \in Nat \ {0}
           /\ \A b \in Blocks : /\ Len(table[b]) \in Nat \ {0}
                                /\ \A a \in 1 .. Len(table[b]) : table[b][a] \in 1 .. Flushed
           /\ \A i \in 1 .. Flushed : \E b \in Blocks : \E a \in 1 .. Len(table[b]) : table[b][a] = i)'
      <4>1. /\ Len(table) \in Nat \ {0}
            /\ \A b \in Blocks : /\ Len(table[b]) \in Nat \ {0}
                                 /\ \A a \in 1 .. Len(table[b]) : table[b][a] \in 1 .. Flushed
            /\ \A i \in 1 .. Flushed : \E b \in Blocks : \E a \in 1 .. Len(table[b]) : table[b][a] = i
        BY <3>1 DEF TableHolds
      <4> QED
        BY <3>2, <4>1, Zenon DEF Blocks
    <3>4. (\A b, c \in Blocks : \A a \in 1 .. Len(table[b]), d \in 1 .. Len(table[c]) :
              b < c \/ (b = c /\ a < d) => Before(table[b][a], table[c][d]))'
      <4> SUFFICES ASSUME NEW b \in 1 .. Len(table'), NEW c \in 1 .. Len(table'),
                          NEW a \in 1 .. Len(table'[b]), NEW d \in 1 .. Len(table'[c]),
                          b < c \/ (b = c /\ a < d)
                   PROVE  (Before(table[b][a], table[c][d]))'
        BY DEF Blocks
      <4>1. Before(table[b][a], table[c][d])
        BY <3>1, <3>2 DEF TableHolds, Blocks
      <4> QED
        BY <3>2, <4>1 DEF Before, Precedes, InternalKey, Key
    <3> QED
      BY <3>3, <3>4, Zenon DEF TableHolds
  <2> QED
    BY <1>1, <1>6, <2>1, <2>2 DEF DatabaseOK, Blocks
<1> QED
  BY <1>1, <1>2, <1>3, <1>4, <1>5, <1>6

LEMMA SameMerge ==
    ASSUME UNCHANGED database, MergeOK(merge', written')
    PROVE  (MergeOK(merge, written))'
<1>1. updates' = updates /\ table' = table /\ unreadable' = unreadable
  BY SameDatabase
<1>2. TableOK(merge'.table)
  BY DEF MergeOK, ChildrenOK
<1>3. (TableOK(merge.table))'
  <2>1. (Walks(merge.table))'
    BY <1>1, <1>2 DEF TableOK, Walks, DataOK, BIter, IndexValid, Size, Blocks
  <2>2. (DataValid(merge.table) \/ ~IndexValid(merge.table))'
    BY <1>1, <1>2 DEF TableOK, DataValid, IndexValid, Size, IsBlock
  <2> QED
    BY <2>1, <2>2 DEF TableOK
<1>4. (ChildrenOK(merge, written))'
  BY <1>3 DEF MergeOK, ChildrenOK
<1>5. (CurrentOK(merge))'
  <2>1. CurrentOK(merge')
    BY DEF MergeOK
  <2>2. /\ (MergeEntry(merge))' = MergeEntry(merge') /\ (EntryAt(merge.table))' = EntryAt(merge'.table)
        /\ \A c : (EntryOf(merge, c))' = EntryOf(merge', c)
    BY <1>1 DEF MergeEntry, EntryOf, EntryAt, DataValid, IsBlock, Size
  <2>3. \A c : /\ (Before(MergeEntry(merge), EntryOf(merge, c)))' <=>
                     Before(MergeEntry(merge'), EntryOf(merge', c))
               /\ (Before(EntryOf(merge, c), MergeEntry(merge)))' <=>
                     Before(EntryOf(merge', c), MergeEntry(merge'))
    BY <1>1, <2>2 DEF Before, Precedes, InternalKey, Key
  <2> QED
    BY <2>1, <2>2, <2>3 DEF CurrentOK
<1> QED
  BY <1>4, <1>5 DEF MergeOK

LEMMA SameCursor ==
    ASSUME UNCHANGED database, CursorOK(merge', iter', pc', wanted')
    PROVE  (CursorOK(merge, iter, pc, wanted))'
<1> DEFINE e == MergeEntry(merge)
           A == Ahead(merge)
<1>1. /\ updates' = updates /\ snapshot' = snapshot /\ Live' = Live
      /\ e' = MergeEntry(merge') /\ A' = Ahead(merge')
      /\ (Failed(merge.table))' <=> Failed(merge'.table)
  BY SameDatabase
<1>2. CASE Failed(merge'.table)
  BY <1>1, <1>2 DEF CursorOK
<1>3. CASE ~Failed(merge'.table)
  <2>1. CursorIs(MergeEntry(merge'), Ahead(merge'), merge'.forward, iter', pc', wanted')
    BY <1>3 DEF CursorOK
  <2>2. (pc = "idle" => IdleIs(e, A, merge.forward, iter, wanted))'
    BY <1>1, <2>1 DEF CursorIs, IdleIs, Visibles, Before, Precedes, InternalKey, Key
  <2>3. (pc = "next" => NextIs(A, merge.forward, iter, wanted))'
    <3>1. (Upcoming(A, iter))' = Upcoming(Ahead(merge'), iter')
      BY <1>1 DEF Upcoming, Key
    <3> QED
      BY <1>1, <2>1, <3>1 DEF CursorIs, NextIs, Visibles, Before, Precedes, InternalKey, Key, IsFirst
  <2>4. (pc = "scan" => ScanIs(e, A, merge.forward, iter, wanted))'
    <3>1. ({i \in Live : Key(i) < iter.key})' = {i \in Live : Key(i) < iter'.key}
      BY <1>1 DEF Key
    <3> QED
      BY <1>1, <2>1, <3>1 DEF CursorIs, ScanIs, Visibles, Before, Precedes, InternalKey, Key, IsLast, CutBack
  <2>5. (pc = "prev" => PrevIs(A, merge.forward, iter, wanted))'
    <3>1. (Preceding(A, iter))' = Preceding(Ahead(merge'), iter')
      BY <1>1 DEF Preceding
    <3>2. ({v \in Visibles : Before(v, iter.value)})' = {v \in Visibles : Before(v, iter'.value)}
      BY <1>1 DEF Visibles, Before, Precedes, InternalKey, Key
    <3> QED
      BY <1>1, <2>1, <3>1, <3>2
         DEF CursorIs, PrevIs, Visibles, Before, Precedes, InternalKey, Key, IsLast, CutBack
  <2>6. (CursorIs(e, A, merge.forward, iter, pc, wanted))'
    BY <2>2, <2>3, <2>4, <2>5 DEF CursorIs
  <2> QED
    BY <2>6 DEF CursorOK
<1> QED
  BY <1>2, <1>3

LEMMA SameInv ==
    ASSUME UNCHANGED database, InvNext
    PROVE  IInv'
<1>1. StateOK(written', merge', iter', pc', wanted') /\ CursorOK(merge', iter', pc', wanted')
  BY DEF InvNext, InvOf
<1>2. /\ updates' = updates /\ unreadable' = unreadable /\ snapshot' = snapshot
      /\ (MergeEntry(merge))' = MergeEntry(merge')
      /\ (Failed(merge.table))' <=> Failed(merge'.table)
      /\ DatabaseOK => DatabaseOK'
  BY SameDatabase
<1>3. (ReadsOK(written))'
  BY <1>1, <1>2 DEF StateOK, ReadsOK
<1>4. (MergeOK(merge, written))'
  BY <1>1, SameMerge DEF StateOK
<1>5. (iter \in IterRecords)' /\ ((SavedOK(iter))' <=> SavedOK(iter'))
  <2>1. IterRecords' = IterRecords
    BY <1>2 DEF IterRecords
  <2>2. (SavedOK(iter))' <=> SavedOK(iter')
    BY <1>2 DEF SavedOK, Visibles, Key
  <2> QED
    BY <1>1, <2>1, <2>2 DEF StateOK
<1>6. (StateOK(written, merge, iter, pc, wanted))'
  BY <1>1, <1>2, <1>3, <1>4, <1>5 DEF StateOK
<1>7. (CursorOK(merge, iter, pc, wanted))'
  BY <1>1, SameCursor
<1> QED
  BY <1>6, <1>7 DEF IInv, InvOf

LEMMA IInvNext ==
    ASSUME IInv, IterNext
    PROVE  IInv'
<1>1. InvNext
  <2>1. ASSUME NEW k \in Keys, Seek(k)
        PROVE  InvNext
    BY <2>1, SeekStep
  <2>2. CASE SeekToFirst
    BY <2>2, SeekToFirstStep
  <2>3. CASE SeekToLast
    BY <2>3, SeekToLastStep
  <2>4. CASE NextUser
    BY <2>4, NextUserStep
  <2>5. CASE Prev
    BY <2>5, PrevStep
  <2>6. CASE FindNextUserEntry
    BY <2>6, FindNextUserEntryStep
  <2>7. CASE TurnAround
    BY <2>7, TurnAroundStep
  <2>8. CASE FindPrevUserEntry
    BY <2>8, FindPrevUserEntryStep
  <2>9. CASE Insert
    BY <2>9, InsertStep
  <2> QED
    BY <2>1, <2>2, <2>3, <2>4, <2>5, <2>6, <2>7, <2>8, <2>9 DEF IterNext
<1>2. UNCHANGED database
  BY DEF IterNext, Seek, SeekToFirst, SeekToLast, NextUser, Prev, FindNextUserEntry, TurnAround,
         FindPrevUserEntry, Insert
<1> QED
  BY <1>1, <1>2, SameInv

LEMMA IInvInit ==
    ASSUME IterInit
    PROVE  IInv
<1>1. UpdatesOK
  BY DEF IterInit, UpdatesOK, Entries
<1>2. PICK run \in [1 .. Flushed -> 1 .. Flushed] : IsSortedRun(run, Flushed) /\ table = Cut(run)
  BY DEF IterInit
<1>3. TableHolds
  BY <1>1, <1>2, CutHolds
<1>4. DOMAIN table = Blocks
  <2> DEFINE k == (Len(run) + BlockEntries - 1) \div BlockEntries
             F(b) == SubSeq(run, (b - 1) * BlockEntries + 1, Min({b * BlockEntries, Len(run)}))
  <2>1. table = [b \in 1 .. k |-> F(b)]
    BY <1>2 DEF Cut
  <2>2. k \in Nat
    <3>1. BlockEntries \in Nat \ {0} /\ Flushed \in Nat \ {0}
      BY IteratorsAssumption
    <3>2. Len(run) = Flushed
      BY <3>1
    <3>3. k = (Flushed + BlockEntries - 1) \div BlockEntries
      BY <3>2
    <3> QED
      BY <3>1, <3>3, HowMany
  <2> HIDE DEF k, F
  <2>3. DOMAIN table = 1 .. k /\ Len(table) = k
    BY <2>1, <2>2
  <2> QED
    BY <2>3 DEF Blocks
<1>5. DatabaseOK
  BY <1>1, <1>3, <1>4 DEF DatabaseOK, IterInit
<1>6. /\ Flushed \in Nat /\ MaxUpdates \in Nat /\ Flushed <= MaxUpdates
      /\ snapshot \in 1 .. MaxUpdates /\ written = Max({snapshot, Flushed})
  BY IteratorsAssumption DEF IterInit
<1>7. written \in Flushed .. MaxUpdates /\ snapshot \in 1 .. written
  <2> DEFINE S == {snapshot, Flushed}
  <2>1. S \subseteq 0 .. MaxUpdates /\ S # {}
    BY <1>6
  <2>2. \A x \in S : x = snapshot \/ x = Flushed
    OBVIOUS
  <2>3. snapshot \in S /\ Flushed \in S
    OBVIOUS
  <2> HIDE DEF S
  <2>4. Max(S) \in S /\ \A x \in S : Max(S) >= x
    BY <1>6, <2>1, MaxIs
  <2>5. written = Max(S)
    BY <1>6 DEF S
  <2>6. (written = snapshot \/ written = Flushed) /\ written >= snapshot /\ written >= Flushed
    BY <2>2, <2>3, <2>4, <2>5
  <2>7. snapshot \in Nat /\ 1 <= snapshot /\ snapshot <= MaxUpdates
    BY <1>6
  <2>8. written \in Nat /\ written <= MaxUpdates
    BY <1>6, <2>6, <2>7
  <2> QED
    BY <1>6, <2>6, <2>7, <2>8
<1>8. ReadsOK(written)
  BY <1>5, <1>7 DEF ReadsOK
<1>9. /\ merge = [mem |-> 0, table |-> NewTableIterator, current |-> "none", forward |-> TRUE]
      /\ iter = [forward |-> TRUE, valid |-> FALSE, key |-> 0, value |-> 0, skipping |-> FALSE, found |-> FALSE]
      /\ pc = "idle" /\ wanted = 0
  BY DEF IterInit
<1> DEFINE t == NewTableIterator
<1>10. /\ TableOK(t) /\ t \in TableIters /\ EntryAt(t) = 0 /\ ~Failed(t)
  <2>1. Len(table) \in Nat \ {0} /\ 1 \in Nat \ {0}
    BY <1>3 DEF TableHolds
  <2>2. /\ t = [index |-> BlockEnd(Len(table), 1), data |-> NoIter, block |-> 0, failed |-> FALSE]
        /\ BIter(Len(table), 1, BlockEnd(Len(table), 1)) /\ BlockEnd(Len(table), 1).at = Len(table) + 1
    BY <2>1, BlockEndIs DEF NewTableIterator
  <2>3. BlockEnd(Len(table), 1) \in Positions /\ NoIter \in Positions /\ NoIter # ErrorIter
    BY <2>1, <2>2, BIterTypes DEF NoIter, ErrorIter, Positions
  <2>4. t \in TableIters
    BY <2>2, <2>3 DEF TableIters
  <2>5. ~IndexValid(t) /\ ~IsBlock(t)
    BY <2>1, <2>2 DEF IndexValid, IsBlock
  <2>6. TableOK(t)
    BY <2>2, <2>4, <2>5 DEF TableOK, Walks, DataOK
  <2>7. EntryAt(t) = 0 /\ ~Failed(t)
    BY <2>2, <2>3, <2>5 DEF EntryAt, DataValid, Failed
  <2> QED
    BY <2>4, <2>6, <2>7
<1> HIDE DEF t
<1>11. MergeOK(merge, written) /\ MergeEntry(merge) = 0 /\ ~Failed(merge.table)
  <2>1. merge.mem = 0 /\ merge.table = t /\ merge.current = "none" /\ merge.forward = TRUE
    BY <1>9 DEF t
  <2>2. merge \in MergeIters
    BY <1>9, <1>10 DEF MergeIters, t
  <2> QED
    BY <1>10, <2>1, <2>2 DEF MergeOK, ChildrenOK, CurrentOK, MergeEntry
<1>12. iter \in IterRecords
  <2> DEFINE K == Keys \union {0}
             N == 0 .. snapshot
  <2>1. 0 \in K /\ 0 \in N
    BY <1>6
  <2>2. IterRecords = [forward : BOOLEAN, valid : BOOLEAN, key : K, value : N, skipping : BOOLEAN, found : BOOLEAN]
    BY DEF IterRecords
  <2> HIDE DEF K, N
  <2> QED
    BY <1>9, <2>1, <2>2
<1>13. StateOK(written, merge, iter, pc, wanted)
  <2>1. iter.valid = FALSE /\ wanted \in 0 .. snapshot
    BY <1>6, <1>9
  <2> QED
    BY <1>8, <1>9, <1>11, <1>12, <2>1 DEF StateOK
<1>14. CursorOK(merge, iter, pc, wanted)
  BY <1>9 DEF CursorOK, CursorIs, IdleIs
<1> QED
  BY <1>13, <1>14 DEF IInv, InvOf

LEMMA IInvStutters ==
    ASSUME IInv, UNCHANGED iterVars
    PROVE  IInv'
<1>1. InvNext /\ UNCHANGED database
  BY DEF iterVars, IInv, InvNext
<1> QED
  BY <1>1, SameInv

(* The invariant holds in every state: the merging iterator is where its   *)
(* two children put it, and what DBIter kept from earlier steps is true.   *)
THEOREM IInvAlways == IterSpec => []IInv
<1>1. IterInit => IInv
  BY IInvInit
<1>2. IInv /\ [IterNext]_iterVars => IInv'
  BY IInvNext, IInvStutters
<1> QED
  BY <1>1, <1>2, PTL DEF IterSpec

(* TypeOK always holds: what db_iter.cc asserts of its internal iterator,  *)
(* also after a block could not be read.                                   *)
THEOREM TypeOKAlways == IterSpec => []TypeOK
<1>1. ASSUME IInv
      PROVE  TypeOK
  <2>1. StateOK(written, merge, iter, pc, wanted)
    BY <1>1 DEF IInv, InvOf
  <2>2. ReadsOK(written) /\ MergeOK(merge, written) /\ iter \in IterRecords /\ snapshot \in Nat
    BY <1>1, IInvHas
  <2>3. written \in Flushed .. MaxUpdates /\ snapshot \in 1 .. written
    BY <2>2 DEF ReadsOK
  <2>4. /\ merge.current \in Children \union {"none"} /\ merge.mem \in {0} \union InMem(written)
        /\ merge.current # "none" => EntryOf(merge, merge.current) # 0
    BY <2>2 DEF MergeOK, ChildrenOK, CurrentOK, MergeIters, MergeEntry
  <2>5. iter.key \in Keys \union {0} /\ iter.value \in 0 .. snapshot
    BY <2>2 DEF IterRecords
  <2>6. pc = "idle" /\ iter.valid => Shown # 0 /\ Key(Shown) = ShownKey
    BY <2>1, <2>2 DEF StateOK, SavedOK, Shown, ShownKey, Visibles
  <2> QED
    BY <2>1, <2>3, <2>4, <2>5, <2>6 DEF TypeOK, StateOK
<1> QED
  BY <1>1, IInvAlways, PTL

(* Whatever calls of Seek, SeekToFirst, SeekToLast, Next and Prev were made *)
(* before and wherever the writer came in between, DBIter shows the newest *)
(* visible value of the next key in the call's direction, and no other.    *)
THEOREM CursorCorrectAlways == IterSpec => []CursorCorrect
<1>1. ASSUME IInv
      PROVE  CursorCorrect
  <2> SUFFICES ASSUME pc = "idle", unreadable = {} PROVE Shown = wanted /\ ~Failed(merge.table)
    BY DEF CursorCorrect
  <2>1. ~Failed(merge.table) /\ IdleIs(MergeEntry(merge), Ahead(merge), merge.forward, iter, wanted)
    BY <1>1, IInvHas DEF CursorIs
  <2> QED
    BY <2>1 DEF IdleIs, Shown
<1> QED
  BY <1>1, IInvAlways, PTL

(* When a call shows something else, a block could not be read, and the    *)
(* status of the TwoLevelIterator says so, in this call and in later ones. *)
THEOREM GapsReportedAlways == IterSpec => []GapsReported
<1>1. ASSUME IInv
      PROVE  GapsReported
  <2> SUFFICES ASSUME pc = "idle", ~Failed(merge.table) PROVE Shown = wanted
    BY DEF GapsReported
  <2>1. IdleIs(MergeEntry(merge), Ahead(merge), merge.forward, iter, wanted)
    BY <1>1, IInvHas DEF CursorIs
  <2> QED
    BY <2>1 DEF IdleIs, Shown
<1> QED
  BY <1>1, IInvAlways, PTL

-----------------------------------------------------------------------------
(* The skip list *)

Nodes  == 0 .. MaxKey
Levels == 0 .. MaxHeight - 1
Store  == [cell : (Nodes \X Levels) \union {MaxHeightCell}, value : Int, release : BOOLEAN]

History == stores \o plan

-----------------------------------------------------------------------------
(* The recursions of FindGreaterOrEqual *)

(* To the right, as far as g leads to numbers up to b.                     *)
IsAscent(f, lo, n, b, g) ==
    f = [x \in lo .. n |-> IF g[x] \in x + 1 .. b THEN f[g[x]] ELSE x]

LEMMA AscentExists ==
    ASSUME NEW n \in Nat, NEW b \in Int, b <= n, NEW g
    PROVE  \E f : IsAscent(f, 0, n, b, g)
<1> DEFINE S == {m \in 0 .. n : \E f : IsAscent(f, n - m, n, b, g)}
<1>1. 0 \in S
  <2> DEFINE f == [x \in n .. n |-> x]
  <2>1. \A x \in n .. n : g[x] \notin x + 1 .. b
    OBVIOUS
  <2>2. f = [x \in n .. n |-> IF g[x] \in x + 1 .. b THEN f[g[x]] ELSE x]
    BY <2>1
  <2>3. IsAscent(f, n - 0, n, b, g)
    BY <2>2 DEF IsAscent
  <2> HIDE DEF f
  <2> QED
    BY <2>3
<1>2. ASSUME NEW m \in 1 .. n, m - 1 \in S
      PROVE  m \in S
  <2>1. PICK f : IsAscent(f, n - (m - 1), n, b, g)
    BY <1>2
  <2> DEFINE lo == n - m
             h == [x \in lo .. n |-> IF x = lo THEN (IF g[x] \in x + 1 .. b THEN f[g[x]] ELSE x)
                                     ELSE f[x]]
  <2>2. lo \in 0 .. n - 1 /\ n - (m - 1) = lo + 1
    OBVIOUS
  <2> HIDE DEF lo
  <2>3. \A x \in lo + 1 .. n : f[x] = IF g[x] \in x + 1 .. b THEN f[g[x]] ELSE x
    BY <2>1, <2>2 DEF IsAscent
  <2>4. \A x \in lo .. n : h[x] = IF g[x] \in x + 1 .. b THEN h[g[x]] ELSE x
    <3> TAKE x \in lo .. n
    <3>1. g[x] \in x + 1 .. b => g[x] \in lo .. n /\ g[x] # lo
      BY <2>2
    <3>2. g[x] \in x + 1 .. b => h[g[x]] = f[g[x]]
      BY <3>1
    <3>3. CASE x = lo
      BY <3>2, <3>3
    <3>4. CASE x # lo
      <4>1. x \in lo + 1 .. n
        BY <2>2, <3>4
      <4> QED
        BY <2>3, <3>2, <3>4, <4>1
    <3> QED
      BY <3>3, <3>4
  <2>5. h = [x \in lo .. n |-> h[x]]
    OBVIOUS
  <2> HIDE DEF h
  <2>6. IsAscent(h, lo, n, b, g)
    BY <2>4, <2>5 DEF IsAscent
  <2> QED
    BY <2>6 DEF lo
<1> HIDE DEF S
<1>3. n \in S
  BY <1>1, <1>2, UpToInduction
<1> QED
  <2>1. n - n = 0
    OBVIOUS
  <2> QED
    BY <1>3, <2>1 DEF S

(* Where it comes to from a place in a set it does not leave.              *)
LEMMA AscentHolds ==
    ASSUME NEW n \in Nat, NEW b \in Int, b <= n, NEW g, NEW f, IsAscent(f, 0, n, b, g),
           NEW C, C \subseteq 0 .. b, \A x \in C : g[x] \in x + 1 .. b => g[x] \in C
    PROVE  \A x \in C : f[x] \in C /\ g[f[x]] \notin f[x] + 1 .. b
<1> DEFINE P(x) == f[x] \in C /\ g[f[x]] \notin f[x] + 1 .. b
           S == {m \in 0 .. n : \A x \in C : x >= n - m => P(x)}
<1>0. \A x \in C : f[x] = IF g[x] \in x + 1 .. b THEN f[g[x]] ELSE x
  BY DEF IsAscent
<1>1. 0 \in S
  <2>1. ASSUME NEW x \in C, x >= n - 0
        PROVE  P(x)
    <3>1. g[x] \notin x + 1 .. b
      BY <2>1
    <3> QED
      BY <1>0, <3>1
  <2> QED
    BY <2>1
<1>2. ASSUME NEW m \in 1 .. n, m - 1 \in S
      PROVE  m \in S
  <2>1. ASSUME NEW x \in C, x >= n - m
        PROVE  P(x)
    <3>1. CASE g[x] \in x + 1 .. b
      <4>1. g[x] \in C /\ g[x] >= n - (m - 1)
        BY <2>1, <3>1
      <4>2. P(g[x])
        BY <1>2, <4>1
      <4> QED
        BY <1>0, <3>1, <4>2
    <3>2. CASE g[x] \notin x + 1 .. b
      BY <1>0, <3>2
    <3> QED
      BY <3>1, <3>2
  <2> QED
    BY <2>1
<1> HIDE DEF S
<1>3. n \in S
  BY <1>1, <1>2, UpToInduction
<1>4. \A x \in C : x >= n - n
  OBVIOUS
<1> QED
  BY <1>3, <1>4 DEF S

(* Down from level n, beginning at 0 in level c - 1.                       *)
IsDescent(f, lo, n, c, w) ==
    f = [l \in lo .. n |-> IF l >= c THEN 0 ELSE w[l][f[l + 1]]]

LEMMA DescentExists ==
    ASSUME NEW n \in Nat, NEW c \in Int, c <= n, NEW w
    PROVE  \E f : IsDescent(f, 0, n, c, w)
<1> DEFINE S == {m \in 0 .. n : \E f : IsDescent(f, n - m, n, c, w)}
<1>1. 0 \in S
  <2> DEFINE f == [l \in n .. n |-> 0]
  <2>1. \A l \in n .. n : l >= c
    OBVIOUS
  <2>2. f = [l \in n .. n |-> IF l >= c THEN 0 ELSE w[l][f[l + 1]]]
    BY <2>1
  <2>3. IsDescent(f, n - 0, n, c, w)
    BY <2>2 DEF IsDescent
  <2> HIDE DEF f
  <2> QED
    BY <2>3
<1>2. ASSUME NEW m \in 1 .. n, m - 1 \in S
      PROVE  m \in S
  <2>1. PICK f : IsDescent(f, n - (m - 1), n, c, w)
    BY <1>2
  <2> DEFINE lo == n - m
             h == [l \in lo .. n |-> IF l = lo THEN (IF l >= c THEN 0 ELSE w[l][f[l + 1]])
                                     ELSE f[l]]
  <2>2. lo \in 0 .. n - 1 /\ n - (m - 1) = lo + 1
    OBVIOUS
  <2> HIDE DEF lo
  <2>3. \A l \in lo + 1 .. n : f[l] = IF l >= c THEN 0 ELSE w[l][f[l + 1]]
    BY <2>1, <2>2 DEF IsDescent
  <2>4. \A l \in lo .. n : h[l] = IF l >= c THEN 0 ELSE w[l][h[l + 1]]
    <3> TAKE l \in lo .. n
    <3>1. l < c => h[l + 1] = f[l + 1]
      BY <2>2
    <3>2. CASE l = lo
      BY <3>1, <3>2
    <3>3. CASE l # lo
      <4>1. l \in lo + 1 .. n
        BY <2>2, <3>3
      <4> QED
        BY <2>3, <3>1, <3>3, <4>1
    <3> QED
      BY <3>2, <3>3
  <2>5. h = [l \in lo .. n |-> h[l]]
    OBVIOUS
  <2> HIDE DEF h
  <2>6. IsDescent(h, lo, n, c, w)
    BY <2>4, <2>5 DEF IsDescent
  <2> QED
    BY <2>6 DEF lo
<1> HIDE DEF S
<1>3. n \in S
  BY <1>1, <1>2, UpToInduction
<1> QED
  <2>1. n - n = 0
    OBVIOUS
  <2> QED
    BY <1>3, <2>1 DEF S

-----------------------------------------------------------------------------
(* The stores s, in their order                                            *)

Stored(s, cell, m)   == \E i \in 1 .. m : s[i].cell = cell
Tower(s, k, l, m)    == \A l2 \in 0 .. l : Stored(s, <<k, l2>>, m)
IsLink(s, i, k)      == s[i].release /\ s[i].value = k /\ \E n \in Nodes : s[i].cell = <<n, 0>>
Listed(s, k, m)      == \E i \in 1 .. m : IsLink(s, i, k)
LastStore(s, cell, m, i) ==
    i \in 1 .. m /\ s[i].cell = cell /\ \A j \in 1 .. m : s[j].cell = cell => j <= i

(* What head_ and max_height_ are in the beginning is stored first.        *)
HeadStored(s) ==
    /\ Len(s) > MaxHeight
    /\ \A l \in Levels : \E i \in 1 .. MaxHeight + 1 : s[i].cell = <<HeadNode, l>>
    /\ s[1].cell = MaxHeightCell

(* Pointers lead to larger keys, max_height_ is a height.                  *)
Ascends(s) ==
    /\ \A i \in 1 .. Len(s), n \in Nodes, l \in Levels :
          s[i].cell = <<n, l>> => s[i].value \in n + 1 .. Null
    /\ \A i \in 1 .. Len(s) : s[i].cell = MaxHeightCell => s[i].value \in 1 .. MaxHeight

(* What a pointer leads to has all its levels up to the pointer's, and is  *)
(* in the list, before the pointer is stored.                              *)
PointersBuilt(s) ==
    \A i \in 1 .. Len(s), n \in Nodes, l \in Levels :
       s[i].cell = <<n, l>> /\ s[i].value # Null
          => Tower(s, s[i].value, l, i - 1) /\ Listed(s, s[i].value, i)

(* Only the first store to a pointer does without release.                 *)
RelaxedFirst(s) ==
    \A i \in 1 .. Len(s), n \in Nodes, l \in Levels :
       s[i].cell = <<n, l>> /\ ~s[i].release => \A j \in 1 .. i - 1 : s[j].cell # <<n, l>>

BottomFirst(s) ==
    \A i \in 1 .. Len(s), n \in Nodes, l \in Levels :
       s[i].cell = <<n, l>> => Stored(s, <<n, 0>>, i)

(* Nothing is linked above max_height_.                                    *)
HighNull(s, top) ==
    \A i \in 1 .. Len(s), n \in Nodes, l \in Levels :
       s[i].cell = <<n, l>> /\ l >= top => s[i].value = Null

(* Level 0 is in order at every moment, with nothing left out.             *)
SortedAt(s, m) ==
    \A n \in Nodes, i \in 1 .. m :
       (n = HeadNode \/ Listed(s, n, m)) /\ LastStore(s, <<n, 0>>, m, i)
          => /\ s[i].value = Null \/ Listed(s, s[i].value, m)
             /\ \A k \in 1 .. MaxKey : Listed(s, k, m) => ~(n < k /\ k < s[i].value)

Sorted(s) == \A m \in 1 .. Len(s) : SortedAt(s, m)

StoresGood(s, top) ==
    /\ s \in Seq(Store) /\ HeadStored(s) /\ Ascends(s) /\ PointersBuilt(s) /\ RelaxedFirst(s)
    /\ BottomFirst(s) /\ HighNull(s, top) /\ Sorted(s)

WriterInv ==
    /\ stores \in Seq(Store) /\ plan \in Seq(Store)
    /\ height \in 1 .. MaxHeight
    /\ published \in MaxHeight + 1 .. Len(stores)
    /\ StoresGood(History, height)

(* The reader has come to a node that is in the list as it sees it, with   *)
(* all levels down from where it searches.                                 *)
Find == {"none", "from", "less"}
ReaderShape ==
    reader \in [view : Nat, start : Nat, node : 1 .. Null, find : Find, did : Find,
                key : 0 .. Null, x : Nodes, level : Levels, wild : BOOLEAN]

Searching ==
    reader.find # "none" =>
       /\ reader.x < reader.key
       /\ reader.x = HeadNode \/ Listed(History, reader.x, reader.view)
       /\ Tower(History, reader.x, reader.level, reader.view)

ReaderInv ==
    /\ ReaderShape
    /\ reader.view \in MaxHeight + 1 .. Len(stores) /\ reader.start <= reader.view
    /\ reader.node # Null => Listed(History, reader.node, reader.view)
    /\ Searching

(* What an atomic search at moment m comes to. *)
IsResult(s, did, key, node, m) ==
    IF did = "from"
    THEN /\ node = Null \/ (Listed(s, node, m) /\ node >= key)
         /\ \A k \in 1 .. MaxKey : Listed(s, k, m) => ~(key <= k /\ k < node)
    ELSE \/ node # Null /\ Listed(s, node, m) /\ node < key
            /\ \A k \in 1 .. MaxKey : Listed(s, k, m) => ~(node < k /\ k < key)
         \/ node = Null /\ \A k \in 1 .. MaxKey : Listed(s, k, m) => ~(k < key)

Atomic ==
    reader.find = "none" /\ reader.did # "none" =>
       \E m \in reader.start .. Len(stores) :
          IsResult(History, reader.did, reader.key, reader.node, m)

SkipInv == WriterInv /\ ReaderInv /\ NoWildRead /\ Atomic

-----------------------------------------------------------------------------
(* What the operators of the model find in the history                     *)

LEMMA HistoryBegins ==
    ASSUME stores \in Seq(Store), plan \in Seq(Store)
    PROVE  /\ Len(stores) \in Nat /\ Len(plan) \in Nat /\ History \in Seq(Store)
           /\ Len(History) = Len(stores) + Len(plan)
           /\ \A i \in 1 .. Len(stores) : History[i] = stores[i]
           /\ \A i \in 1 .. Len(plan) : History[Len(stores) + i] = plan[i]
  BY ConcatProperties, LenProperties DEF History

LEMMA StoreAtIs ==
    ASSUME stores \in Seq(Store), plan \in Seq(Store), NEW m \in 0 .. Len(stores), NEW cell
    PROVE  \/ StoreAt(cell, m) = 0 /\ ~Stored(History, cell, m)
           \/ LastStore(History, cell, m, StoreAt(cell, m))
<1> DEFINE S == {i \in 1 .. m : stores[i].cell = cell}
           T == {0} \union S
<1>1. m \in Nat /\ \A i \in 1 .. m : History[i] = stores[i]
  BY HistoryBegins
<1>2. StoreAt(cell, m) = CHOOSE x \in T : \A y \in T : x >= y
  BY DEF StoreAt, Max
<1>3. CASE S = {}
  <2>1. \A x \in T : x = 0
    BY <1>3
  <2>2. StoreAt(cell, m) = 0
    BY <1>2, <2>1
  <2>3. ~Stored(History, cell, m)
    BY <1>1, <1>3 DEF Stored
  <2> QED
    BY <2>2, <2>3
<1>4. CASE S # {}
  <2>1. PICK x \in S : \A k \in S : k <= x
    BY <1>1, <1>4, LastExists
  <2>2. \A y \in T : x >= y
    BY <2>1
  <2> DEFINE z == StoreAt(cell, m)
  <2>3. z \in T /\ \A y \in T : z >= y
    <3> HIDE DEF S
    <3> QED
      BY <1>2, <2>1, <2>2
  <2>4. z \in S /\ \A y \in S : y <= z
    BY <2>1, <2>3
  <2> QED
    BY <1>1, <2>4 DEF LastStore
<1> QED
  BY <1>3, <1>4

LEMMA StoredThere ==
    ASSUME stores \in Seq(Store), plan \in Seq(Store), NEW m \in 0 .. Len(stores), NEW cell,
           NEW v \in 0 .. m, Stored(History, cell, v)
    PROVE  /\ LastStore(History, cell, m, StoreAt(cell, m))
           /\ StoreAt(cell, m) \in 1 .. m
           /\ ValueOf(StoreAt(cell, m)) = History[StoreAt(cell, m)].value
<1>1. Stored(History, cell, m)
  BY DEF Stored
<1>2. LastStore(History, cell, m, StoreAt(cell, m))
  BY <1>1, StoreAtIs
<1>3. StoreAt(cell, m) \in 1 .. m
  BY <1>2 DEF LastStore
<1> QED
  BY <1>2, <1>3, HistoryBegins DEF ValueOf

LEMMA InListIs ==
    ASSUME WriterInv, NEW m \in 0 .. Len(stores)
    PROVE  InList(m) = {k \in 1 .. MaxKey : Listed(History, k, m)}
<1> USE SkipListAssumption
<1>1. stores \in Seq(Store) /\ plan \in Seq(Store) /\ Ascends(History) /\ History \in Seq(Store)
  BY DEF WriterInv, StoresGood
<1>2. /\ \A i \in 1 .. m : i \in 1 .. Len(History) /\ History[i] = stores[i] /\ History[i] \in Store
  BY <1>1, HistoryBegins, ElementOfSeq
<1> DEFINE J == {j \in 1 .. m : stores[j].cell[1] >= 0 /\ stores[j].cell[2] = 0 /\ stores[j].release}
<1>3. \A j \in J : /\ \E n \in Nodes : stores[j].cell = <<n, 0>>
                   /\ stores[j].value \in 1 .. Null
  <2> TAKE j \in J
  <2>1. stores[j].cell \in (Nodes \X Levels) \union {MaxHeightCell}
    BY <1>2 DEF Store
  <2>2. stores[j].cell # MaxHeightCell
    BY DEF MaxHeightCell
  <2>3. PICK n \in Nodes, l \in Levels : stores[j].cell = <<n, l>>
    BY <2>1, <2>2
  <2>4. l = 0
    BY <2>3
  <2>5. stores[j].value \in n + 1 .. Null
    BY <1>1, <1>2, <2>3 DEF Ascends
  <2> QED
    BY <2>3, <2>4, <2>5 DEF Nodes, Null
<1>4. ASSUME NEW k \in InList(m)
      PROVE  k \in 1 .. MaxKey /\ Listed(History, k, m)
  <2>1. PICK j \in J : k = stores[j].value /\ k # Null
    BY DEF InList
  <2>2. k \in 1 .. MaxKey
    BY <1>3, <2>1 DEF Null
  <2>3. IsLink(History, j, k)
    BY <1>2, <1>3, <2>1 DEF IsLink
  <2> QED
    BY <2>1, <2>2, <2>3 DEF Listed
<1>5. ASSUME NEW k \in 1 .. MaxKey, Listed(History, k, m)
      PROVE  k \in InList(m)
  <2>1. PICK j \in 1 .. m : IsLink(History, j, k)
    BY <1>5 DEF Listed
  <2>2. stores[j].release /\ stores[j].value = k
    BY <1>2, <2>1 DEF IsLink
  <2>3. PICK n \in Nodes : stores[j].cell = <<n, 0>>
    BY <1>2, <2>1 DEF IsLink
  <2>4. j \in J
    BY <2>2, <2>3 DEF Nodes
  <2>5. k # Null
    BY DEF Null
  <2> QED
    BY <2>2, <2>4, <2>5 DEF InList
<1> QED
  BY <1>4, <1>5

(* SearchIsAtomic, as it is stated, from Atomic.                           *)
LEMMA ResultIsAtomic ==
    ASSUME WriterInv, ReaderShape, reader.find = "none", reader.did # "none",
           NEW m \in reader.start .. Len(stores),
           IsResult(History, reader.did, reader.key, reader.node, m)
    PROVE  reader.node = AtomicResult(m)
<1> USE SkipListAssumption
<1> DEFINE L == InList(m)
           node == reader.node
           key  == reader.key
<1>0. Len(stores) \in Nat /\ m \in 0 .. Len(stores)
  BY HistoryBegins DEF WriterInv, ReaderShape
<1>1. L = {k \in 1 .. MaxKey : Listed(History, k, m)}
  BY <1>0, InListIs
<1>2. node \in 1 .. Null /\ Null = MaxKey + 1 /\ key \in 0 .. Null /\ reader.did \in {"from", "less"}
  BY DEF ReaderShape, Find, Null
<1> HIDE DEF L, node, key
<1>3. CASE reader.did = "from"
  <2> DEFINE T == {k \in L : k >= key} \union {Null}
  <2>1. node = Null \/ (Listed(History, node, m) /\ node >= key)
    BY <1>3 DEF IsResult, node, key
  <2>2. \A k \in 1 .. MaxKey : Listed(History, k, m) => ~(key <= k /\ k < node)
    BY <1>3 DEF IsResult, node, key
  <2>3. node \in T /\ \A y \in T : node <= y
    BY <1>1, <1>2, <2>1, <2>2
  <2>4. \A x \in T : (\A y \in T : x <= y) => x = node
    BY <1>1, <1>2, <2>3
  <2>5. Min(T) = node
    <3> HIDE DEF T
    <3> QED
      BY <2>3, <2>4 DEF Min
  <2> QED
    BY <1>3, <2>5 DEF AtomicResult, L, node, key
<1>4. CASE reader.did = "less"
  <2> DEFINE T == {k \in L : k < key}
  <2>1. \/ node # Null /\ Listed(History, node, m) /\ node < key
              /\ \A k \in 1 .. MaxKey : Listed(History, k, m) => ~(node < k /\ k < key)
        \/ node = Null /\ \A k \in 1 .. MaxKey : Listed(History, k, m) => ~(k < key)
    BY <1>4 DEF IsResult, node, key
  <2>2. CASE node = Null
    <3>1. T = {}
      BY <1>1, <2>1, <2>2
    <3> QED
      BY <1>4, <2>2, <3>1 DEF AtomicResult, L, node, key
  <2>3. CASE node # Null
    <3>1. node \in T /\ \A y \in T : node >= y
      BY <1>1, <1>2, <2>1, <2>3
    <3>2. \A x \in T : (\A y \in T : x >= y) => x = node
      BY <1>1, <1>2, <3>1
    <3>3. Max(T) = node /\ T # {}
      <4> HIDE DEF T
      <4> QED
        BY <3>1, <3>2 DEF Max
    <3> QED
      BY <1>4, <3>3 DEF AtomicResult, L, node, key
  <2> QED
    BY <2>2, <2>3
<1> QED
  BY <1>2, <1>3, <1>4

-----------------------------------------------------------------------------
(* Before the first node                                                   *)

LEMMA InitStores ==
    ASSUME ListInit
    PROVE  WriterInv
<1> USE SkipListAssumption
<1> DEFINE a == <<NoBarrierSetNext(MaxHeightCell, 1)>>
           b == [i \in 1 .. MaxHeight |-> SetNext(<<HeadNode, i - 1>>, Null)]
           s == stores
<1>1. NoBarrierSetNext(MaxHeightCell, 1) \in Store
  BY DEF NoBarrierSetNext, Store
<1>2. \A i \in 1 .. MaxHeight : b[i] \in Store
  BY DEF SetNext, Store, Nodes, Levels, HeadNode, Null
<1>3. a \in Seq(Store) /\ Len(a) = 1 /\ a[1] = NoBarrierSetNext(MaxHeightCell, 1)
  BY <1>1
<1>4. b \in Seq(Store) /\ Len(b) = MaxHeight
  <2>1. b \in [1 .. MaxHeight -> Store]
    BY <1>2
  <2> HIDE DEF b
  <2>2. b \in Seq(Store)
    BY <2>1, SeqDef
  <2> QED
    BY <2>1, <2>2, LenProperties
<1>5. stores = a \o b
  BY DEF ListInit
<1>6. /\ s \in Seq(Store) /\ Len(s) = MaxHeight + 1
      /\ \A j \in 1 .. MaxHeight + 1 : s[j] = IF j <= 1 THEN a[j] ELSE b[j - 1]
  <2> HIDE DEF a, b
  <2>1. /\ a \o b \in Seq(Store) /\ Len(a \o b) = Len(a) + Len(b)
        /\ \A j \in 1 .. Len(a) + Len(b) : (a \o b)[j] = IF j <= Len(a) THEN a[j] ELSE b[j - Len(a)]
    BY <1>3, <1>4, ConcatProperties
  <2>2. Len(a) + Len(b) = MaxHeight + 1 /\ Len(a) = 1
    BY <1>3, <1>4
  <2> QED
    BY <1>5, <2>1, <2>2
<1>7. /\ s[1] = NoBarrierSetNext(MaxHeightCell, 1)
      /\ \A j \in 2 .. MaxHeight + 1 : s[j] = SetNext(<<HeadNode, j - 2>>, Null)
  <2>1. s[1] = a[1]
    <3>1. 1 \in 1 .. MaxHeight + 1 /\ 1 <= 1
      OBVIOUS
    <3> QED
      BY <1>6, <3>1, Zenon
  <2>2. ASSUME NEW j \in 2 .. MaxHeight + 1
        PROVE  s[j] = SetNext(<<HeadNode, j - 2>>, Null)
    <3>1. j - 1 \in 1 .. MaxHeight /\ (j - 1) - 1 = j - 2 /\ j \in 1 .. MaxHeight + 1 /\ ~(j <= 1)
      OBVIOUS
    <3>2. s[j] = b[j - 1]
      BY <1>6, <3>1, Zenon
    <3>3. b[j - 1] = SetNext(<<HeadNode, (j - 1) - 1>>, Null)
      BY <3>1, Zenon
    <3> QED
      BY <3>1, <3>2, <3>3, Zenon
  <2> QED
    BY <1>3, <2>1, <2>2, Zenon
<1>8. plan = <<>> /\ height = 1 /\ published = Len(s)
  BY DEF ListInit
<1>9. History = s /\ plan \in Seq(Store)
  BY <1>6, <1>8 DEF History
<1> HIDE DEF s, a, b
<1>10. HeadStored(s)
  <2>1. ASSUME NEW l \in Levels
        PROVE  \E i \in 1 .. MaxHeight + 1 : s[i].cell = <<HeadNode, l>>
    <3>1. l + 2 \in 2 .. MaxHeight + 1 /\ (l + 2) - 2 = l
      BY DEF Levels
    <3>2. s[l + 2] = SetNext(<<HeadNode, l>>, Null)
      BY <1>7, <3>1, Zenon
    <3>3. s[l + 2].cell = <<HeadNode, l>>
      BY <3>2 DEF SetNext
    <3> QED
      BY <3>1, <3>3
  <2>2. s[1].cell = MaxHeightCell
    BY <1>7 DEF NoBarrierSetNext
  <2>3. Len(s) > MaxHeight
    BY <1>6
  <2> QED
    BY <2>1, <2>2, <2>3 DEF HeadStored
<1>11. ASSUME NEW i \in 1 .. Len(s), NEW n \in Nodes, NEW l \in Levels, s[i].cell = <<n, l>>
       PROVE  /\ i \in 2 .. MaxHeight + 1 /\ n = HeadNode /\ l = i - 2
              /\ s[i].value = Null /\ s[i].release
  <2>1. i # 1
    BY <1>7, <1>11 DEF NoBarrierSetNext, MaxHeightCell, Nodes
  <2>2. i \in 2 .. MaxHeight + 1
    BY <1>6, <2>1
  <2>3. s[i] = SetNext(<<HeadNode, i - 2>>, Null)
    BY <1>7, <2>2
  <2> QED
    BY <1>11, <2>2, <2>3 DEF SetNext
<1>12. Ascends(s)
  <2>1. ASSUME NEW i \in 1 .. Len(s), s[i].cell = MaxHeightCell
        PROVE  s[i].value \in 1 .. MaxHeight
    <3>1. CASE i = 1
      BY <1>7, <3>1 DEF NoBarrierSetNext
    <3>2. CASE i # 1
      <4>1. i \in 2 .. MaxHeight + 1
        BY <1>6, <3>2
      <4>2. s[i] = SetNext(<<HeadNode, i - 2>>, Null)
        BY <1>7, <4>1
      <4>3. s[i].cell = <<HeadNode, i - 2>>
        BY <4>2 DEF SetNext
      <4> QED
        BY <2>1, <4>3 DEF MaxHeightCell, HeadNode
    <3> QED
      BY <3>1, <3>2
  <2> QED
    BY <1>11, <2>1 DEF Ascends, HeadNode, Null
<1>13. PointersBuilt(s) /\ RelaxedFirst(s) /\ HighNull(s, 1)
  BY <1>11 DEF PointersBuilt, RelaxedFirst, HighNull
<1>14. BottomFirst(s)
  <2>1. ASSUME NEW i \in 1 .. Len(s), NEW n \in Nodes, NEW l \in Levels, s[i].cell = <<n, l>>
        PROVE  Stored(s, <<n, 0>>, i)
    <3>1. i \in 2 .. MaxHeight + 1 /\ n = HeadNode
      BY <1>11, <2>1
    <3>2. 2 \in 2 .. MaxHeight + 1 /\ 2 - 2 = 0
      OBVIOUS
    <3>3. s[2] = SetNext(<<HeadNode, 0>>, Null)
      BY <1>7, <3>2, Zenon
    <3>4. s[2].cell = <<HeadNode, 0>>
      BY <3>3 DEF SetNext
    <3> QED
      BY <3>1, <3>4 DEF Stored
  <2> QED
    BY <2>1 DEF BottomFirst
<1>15. Sorted(s)
  <2>1. ASSUME NEW k \in 1 .. MaxKey, NEW m \in 1 .. Len(s)
        PROVE  ~Listed(s, k, m)
    <3>1. SUFFICES ASSUME NEW i \in 1 .. m, s[i].release, s[i].value = k,
                          NEW n \in Nodes, s[i].cell = <<n, 0>>
                   PROVE  FALSE
      BY DEF Listed, IsLink
    <3>2. s[i].value = Null
      BY <1>6, <1>11, <3>1 DEF Levels
    <3> QED
      BY <3>1, <3>2 DEF Null
  <2>2. ASSUME NEW m \in 1 .. Len(s), NEW n \in Nodes, NEW i \in 1 .. m, s[i].cell = <<n, 0>>
        PROVE  s[i].value = Null
    BY <1>6, <1>11, <2>2 DEF Levels
  <2> QED
    BY <2>1, <2>2 DEF Sorted, SortedAt, LastStore
<1>16. StoresGood(s, 1)
  BY <1>6, <1>10, <1>12, <1>13, <1>14, <1>15 DEF StoresGood
<1> QED
  BY <1>6, <1>8, <1>9, <1>16 DEF WriterInv, s

LEMMA InitHolds ==
    ASSUME ListInit
    PROVE  SkipInv
<1> USE SkipListAssumption
<1>1. WriterInv
  BY InitStores
<1>2. Len(stores) \in Nat /\ Len(stores) > MaxHeight
  BY <1>1, HistoryBegins DEF WriterInv
<1>3. ReaderShape
  BY <1>2 DEF ListInit, ReaderShape, Find, Null, Nodes, Levels, HeadNode
<1> QED
  BY <1>1, <1>2, <1>3 DEF SkipInv, ReaderInv, Searching, NoWildRead, Atomic, ListInit

-----------------------------------------------------------------------------
(* The reader                                                              *)

(* What was seen stays seen. *)
LEMMA SeenStays ==
    ASSUME NEW s, NEW v \in Int, NEW w \in Int, v <= w
    PROVE  /\ \A cell : Stored(s, cell, v) => Stored(s, cell, w)
           /\ \A k, l : Tower(s, k, l, v) => Tower(s, k, l, w)
           /\ \A k : Listed(s, k, v) => Listed(s, k, w)
<1>1. \A i \in 1 .. v : i \in 1 .. w
  OBVIOUS
<1> QED
  BY <1>1 DEF Stored, Tower, Listed

(* A load of a pointer of a node that the reader sees (Node::Next): with   *)
(* what it acquires, the reader sees the node it leads to, at the same     *)
(* levels.                                                                 *)
LEMMA LoadHolds ==
    ASSUME WriterInv, ReaderInv, NEW n \in Nodes, NEW l \in Levels,
           Stored(History, <<n, l>>, reader.view), NEW m \in reader.view .. Len(stores),
           NEW i, i = StoreAt(<<n, l>>, m)
    PROVE  /\ LastStore(History, <<n, l>>, m, i)
           /\ ValueOf(i) = History[i].value /\ ValueOf(i) \in n + 1 .. Null
           /\ ViewAfter(i) \in reader.view .. Len(stores)
           /\ ValueOf(i) # Null => /\ Tower(History, ValueOf(i), l, ViewAfter(i))
                                   /\ Listed(History, ValueOf(i), ViewAfter(i))
<1>0. /\ Len(stores) \in Nat /\ Len(History) \in Nat /\ Len(History) >= Len(stores)
      /\ reader.view \in Nat /\ reader.view <= Len(stores) /\ m \in 0 .. Len(stores)
      /\ \A j \in 1 .. Len(stores) : stores[j] = History[j]
      /\ stores \in Seq(Store) /\ plan \in Seq(Store)
  BY HistoryBegins DEF WriterInv, ReaderInv, ReaderShape
<1>1. LastStore(History, <<n, l>>, m, i) /\ i \in 1 .. m /\ ValueOf(i) = History[i].value
  BY <1>0, StoredThere
<1>2. History[i].cell = <<n, l>> /\ i \in 1 .. Len(History) /\ stores[i] = History[i]
  BY <1>0, <1>1 DEF LastStore
<1>3. History[i].value \in n + 1 .. Null
  BY <1>2 DEF WriterInv, StoresGood, Ascends
<1>4. History[i].value # Null =>
         Tower(History, History[i].value, l, i - 1) /\ Listed(History, History[i].value, i)
  BY <1>2 DEF WriterInv, StoresGood, PointersBuilt
<1> DEFINE v == ViewAfter(i)
<1>5. v \in reader.view .. Len(stores) /\ i <= v
  <2>1. CASE History[i].release
    <3>1. v = Max({reader.view, i})
      BY <1>1, <1>2, <2>1 DEF ViewAfter
    <3>2. Max({reader.view, i}) = IF i >= reader.view THEN i ELSE reader.view
      BY <1>0, <1>1 DEF Max
    <3> QED
      BY <1>0, <1>1, <3>1, <3>2
  <2>2. CASE ~History[i].release
    <3>1. v = reader.view
      BY <1>2, <2>2 DEF ViewAfter
    <3>2. PICK j \in 1 .. reader.view : History[j].cell = <<n, l>>
      BY DEF Stored
    <3>3. \A j2 \in 1 .. i - 1 : History[j2].cell # <<n, l>>
      BY <1>2, <2>2 DEF WriterInv, StoresGood, RelaxedFirst
    <3>4. i <= j
      <4>1. i \in Int /\ j \in Int /\ j >= 1
        BY <1>0, <1>1
      <4>2. j \notin 1 .. i - 1
        BY <3>2, <3>3
      <4> QED
        BY <4>1, <4>2
    <3> QED
      BY <1>0, <1>1, <3>1, <3>2, <3>4
  <2> QED
    BY <2>1, <2>2
<1> HIDE DEF v
<1>6. History[i].value # Null => Tower(History, History[i].value, l, v) /\ Listed(History, History[i].value, v)
  <2>1. i - 1 \in Int /\ i \in Int /\ v \in Int /\ i - 1 <= v /\ i <= v
    BY <1>0, <1>1, <1>5
  <2> QED
    BY <1>4, <2>1, SeenStays
<1> QED
  BY <1>1, <1>3, <1>5, <1>6 DEF v

(* What it loads is finished, so the reader does not go wild (NoWildRead). *)
LEMMA LoadTame ==
    ASSUME WriterInv, ReaderInv, NoWildRead, NEW load, NEW n \in Nodes,
           load.next \in n + 1 .. Null, load.view \in 0 .. Len(stores),
           load.next # Null => Stored(History, <<load.next, 0>>, load.view)
    PROVE  Loaded(load) = [reader EXCEPT !.view = load.view, !.wild = FALSE]
<1> USE SkipListAssumption
<1>1. stores \in Seq(Store) /\ plan \in Seq(Store)
  BY DEF WriterInv
<1>2. load.next # Wild
  BY DEF Wild, Nodes
<1>3. Constructed(load.next, load.view)
  <2>1. CASE load.next = Null
    BY <2>1 DEF Constructed
  <2>2. CASE load.next # Null
    <3>1. StoreAt(<<load.next, 0>>, load.view) # 0
      <4>1. load.view \in 0 .. load.view
        BY <1>1, HistoryBegins
      <4> QED
        BY <1>1, <2>2, <4>1, StoredThere
    <3> QED
      BY <3>1 DEF Constructed
  <2> QED
    BY <2>1, <2>2
<1>4. reader.wild = FALSE
  BY DEF NoWildRead, ReaderInv, ReaderShape
<1> QED
  BY <1>2, <1>3, <1>4 DEF Loaded

(* A node that is in the list has its bottom level.                        *)
LEMMA BottomSeen ==
    ASSUME WriterInv, NEW v \in MaxHeight + 1 .. Len(stores), NEW n \in Nodes,
           n = HeadNode \/ Listed(History, n, v)
    PROVE  Stored(History, <<n, 0>>, v)
<1> USE SkipListAssumption
<1>0. Len(stores) \in Nat /\ Len(History) \in Nat /\ Len(History) >= Len(stores)
  BY HistoryBegins DEF WriterInv
<1>1. CASE n = HeadNode
  <2>1. 0 \in Levels
    BY DEF Levels
  <2>2. PICK i \in 1 .. MaxHeight + 1 : History[i].cell = <<HeadNode, 0>>
    BY <2>1 DEF WriterInv, StoresGood, HeadStored
  <2>3. i \in 1 .. v
    BY <1>0
  <2> QED
    BY <1>1, <2>2, <2>3 DEF Stored
<1>2. CASE n # HeadNode
  <2>1. PICK i \in 1 .. v, p \in Nodes : History[i].value = n /\ History[i].cell = <<p, 0>>
    BY <1>2 DEF Listed, IsLink
  <2>2. i \in 1 .. Len(History) /\ 0 \in Levels /\ n # Null
    BY <1>0 DEF Levels, Nodes, Null
  <2>3. Tower(History, n, 0, i - 1)
    BY <2>1, <2>2 DEF WriterInv, StoresGood, PointersBuilt
  <2>4. i - 1 \in Int /\ v \in Int /\ i - 1 <= v /\ 0 \in 0 .. 0
    BY <1>0
  <2>5. Stored(History, <<n, 0>>, i - 1)
    BY <2>3, <2>4 DEF Tower
  <2> QED
    BY <2>4, <2>5, SeenStays
<1> QED
  BY <1>1, <1>2

(* At the bottom, nothing in the list is between a node and its next one.  *)
LEMMA BottomLoad ==
    ASSUME WriterInv, ReaderInv, NEW n \in Nodes,
           n = HeadNode \/ Listed(History, n, reader.view),
           Stored(History, <<n, 0>>, reader.view), NEW m \in reader.view .. Len(stores),
           NEW next, next = ValueOf(StoreAt(<<n, 0>>, m)), NEW key \in n + 1 .. Null, key <= next
    PROVE  /\ m \in reader.start .. Len(stores)
           /\ IsResult(History, "from", key, next, m)
           /\ IsResult(History, "less", key, IF n = HeadNode THEN Null ELSE n, m)
<1> USE SkipListAssumption
<1>0. /\ Len(stores) \in Nat /\ Len(History) >= Len(stores) /\ Len(History) \in Nat
      /\ reader.view \in Int /\ m \in Int /\ reader.view <= m
      /\ reader.view \in 1 .. m /\ m \in 1 .. Len(History) /\ m \in reader.start .. Len(stores)
      /\ 0 \in Levels
  <2>1. Len(stores) \in Nat /\ Len(History) >= Len(stores) /\ Len(History) \in Nat
    BY HistoryBegins DEF WriterInv
  <2>2. /\ reader.view \in MaxHeight + 1 .. Len(stores) /\ reader.start <= reader.view
        /\ reader.start \in Nat
    BY DEF ReaderInv, ReaderShape
  <2> QED
    BY <2>1, <2>2 DEF Levels
<1> DEFINE i == StoreAt(<<n, 0>>, m)
<1>1. LastStore(History, <<n, 0>>, m, i) /\ next = History[i].value /\ next \in n + 1 .. Null
  BY <1>0, LoadHolds
<1>2. i \in 1 .. m
  BY <1>1 DEF LastStore
<1>3. n = HeadNode \/ Listed(History, n, m)
  BY <1>0, SeenStays
<1>4. SortedAt(History, m)
  BY <1>0 DEF WriterInv, StoresGood, Sorted
<1> HIDE DEF i
<1>5. next = Null \/ Listed(History, next, m)
  BY <1>1, <1>2, <1>3, <1>4 DEF SortedAt
<1>6. \A k \in 1 .. MaxKey : Listed(History, k, m) => ~(n < k /\ k < next)
  BY <1>1, <1>2, <1>3, <1>4 DEF SortedAt
<1>7. next \in Int /\ key \in Int /\ n \in Int /\ next >= key /\ n < key /\ n # Null
  BY <1>1 DEF Nodes, Null
<1>8. IsResult(History, "from", key, next, m)
  BY <1>5, <1>6, <1>7 DEF IsResult
<1>9. CASE n = HeadNode
  <2>1. \A k \in 1 .. MaxKey : Listed(History, k, m) => ~(k < key)
    BY <1>6, <1>7, <1>9 DEF HeadNode
  <2> QED
    BY <1>0, <1>8, <1>9, <2>1 DEF IsResult
<1>10. CASE n # HeadNode
  <2>1. \A k \in 1 .. MaxKey : Listed(History, k, m) => ~(n < k /\ k < key)
    BY <1>6, <1>7
  <2>2. Listed(History, n, m)
    BY <1>3, <1>10
  <2> QED
    BY <1>0, <1>7, <1>8, <1>10, <2>1, <2>2 DEF IsResult
<1> QED
  BY <1>9, <1>10

(* Whatever the reader does, the stores are left alone. *)
LEMMA WriterWaits ==
    ASSUME WriterInv, UNCHANGED <<stores, height, plan, published>>
    PROVE  WriterInv' /\ History' = History
  BY DEF WriterInv, History

LEMMA AttachKeeps ==
    ASSUME SkipInv, Attach
    PROVE  SkipInv'
<1>1. WriterInv' /\ History' = History /\ stores' = stores
  BY WriterWaits DEF SkipInv, Attach
<1>2. reader' = [reader EXCEPT !.view = published] /\ reader.view < published /\ reader.find = "none"
  BY DEF Attach
<1>3. /\ Len(stores) \in Nat /\ published \in Nat /\ published \in MaxHeight + 1 .. Len(stores)
      /\ reader.view \in Nat /\ reader.start <= reader.view /\ reader.start \in Nat
  <2>1. Len(stores) \in Nat
    BY HistoryBegins DEF SkipInv, WriterInv
  <2> QED
    BY <2>1, SkipListAssumption DEF SkipInv, WriterInv, ReaderInv, ReaderShape
<1>4. ReaderShape'
  BY <1>2, <1>3 DEF SkipInv, ReaderInv, ReaderShape
<1>5. reader'.node # Null => Listed(History, reader'.node, reader'.view)
  <2>1. reader'.node = reader.node /\ reader'.view = published
    BY <1>2 DEF SkipInv, ReaderInv, ReaderShape
  <2>2. reader.view \in Int /\ published \in Int /\ reader.view <= published
    BY <1>2, <1>3
  <2> QED
    BY <2>1, <2>2, SeenStays DEF SkipInv, ReaderInv
<1>6. ReaderInv'
  BY <1>1, <1>2, <1>3, <1>4, <1>5 DEF ReaderInv, ReaderShape, Searching, SkipInv
<1>7. NoWildRead' /\ Atomic'
  BY <1>1, <1>2 DEF SkipInv, ReaderInv, ReaderShape, NoWildRead, Atomic
<1> QED
  BY <1>1, <1>6, <1>7 DEF SkipInv

LEMMA SearchKeeps ==
    ASSUME SkipInv, NEW find \in {"from", "less"}, NEW key \in 1 .. Null, Search(find, key)
    PROVE  SkipInv'
<1> USE SkipListAssumption
<1>1. WriterInv' /\ History' = History /\ stores' = stores
  BY WriterWaits DEF SkipInv, Search
<1>2. PICK m \in reader.view .. Now :
        reader' = [reader EXCEPT !.find = find, !.key = key, !.x = HeadNode, !.start = reader.view,
                                 !.level = ValueOf(StoreAt(MaxHeightCell, m)) - 1]
  BY DEF Search
<1>3. /\ Len(stores) \in Nat /\ reader.view \in MaxHeight + 1 .. Len(stores) /\ m \in 0 .. Len(stores)
      /\ \A j \in 1 .. Len(stores) : j \in 1 .. Len(History)
      /\ 1 \in 0 .. m
  BY HistoryBegins, <1>2 DEF SkipInv, WriterInv, ReaderInv, Now
<1> DEFINE i == StoreAt(MaxHeightCell, m)
<1>4. ValueOf(i) \in 1 .. MaxHeight
  <2>1. Stored(History, MaxHeightCell, 1)
    BY DEF Stored, SkipInv, WriterInv, StoresGood, HeadStored
  <2>2. LastStore(History, MaxHeightCell, m, i) /\ i \in 1 .. m /\ ValueOf(i) = History[i].value
    BY <1>3, <2>1, StoredThere DEF SkipInv, WriterInv
  <2>3. i \in 1 .. Len(History) /\ History[i].cell = MaxHeightCell
    BY <1>3, <2>2 DEF LastStore
  <2> QED
    BY <2>2, <2>3 DEF SkipInv, WriterInv, StoresGood, Ascends
<1> HIDE DEF i
<1> DEFINE l == ValueOf(i) - 1
<1>5. reader' = [reader EXCEPT !.find = find, !.key = key, !.x = HeadNode, !.start = reader.view,
                               !.level = l]
  BY <1>2 DEF i
<1>6. l \in Levels
  BY <1>4 DEF Levels
<1> HIDE DEF l
<1>7. Tower(History, HeadNode, l, reader.view)
  <2>1. \A l2 \in 0 .. l : l2 \in Levels
    BY <1>6 DEF Levels
  <2>2. \A j \in 1 .. MaxHeight + 1 : j \in 1 .. reader.view
    BY <1>3
  <2> QED
    BY <2>1, <2>2 DEF Tower, Stored, SkipInv, WriterInv, StoresGood, HeadStored
<1>8. ReaderShape'
  <2>1. find \in Find /\ key \in 0 .. Null /\ HeadNode \in Nodes /\ reader.view \in Nat
    BY <1>3 DEF Find, Null, HeadNode, Nodes
  <2>2. ReaderShape
    BY DEF SkipInv, ReaderInv
  <2> QED
    BY <1>5, <1>6, <2>1, <2>2 DEF ReaderShape
<1>9. Searching'
  BY <1>1, <1>5, <1>7 DEF SkipInv, ReaderInv, ReaderShape, Searching, HeadNode, Null
<1>10. ReaderInv'
  BY <1>1, <1>3, <1>5, <1>8, <1>9 DEF SkipInv, ReaderInv, ReaderShape
<1>11. NoWildRead' /\ Atomic'
  BY <1>5 DEF SkipInv, ReaderInv, ReaderShape, NoWildRead, Atomic
<1> QED
  BY <1>1, <1>10, <1>11 DEF SkipInv

LEMMA FollowKeeps ==
    ASSUME SkipInv, NEW node \in Nodes, node = HeadNode \/ Listed(History, node, reader.view),
           Follow(node)
    PROVE  SkipInv'
<1> USE SkipListAssumption
<1>1. WriterInv' /\ History' = History /\ stores' = stores
  BY WriterWaits DEF SkipInv, Follow
<1>2. PICK m \in reader.view .. Now :
        LET load == [next |-> ValueOf(StoreAt(<<node, 0>>, m)), view |-> ViewAfter(StoreAt(<<node, 0>>, m))]
        IN  reader' = [Loaded(load) EXCEPT !.start = reader.view, !.key = node + 1,
                                           !.node = load.next, !.did = "from"]
  <2>1. PICK load \in Loads(<<node, 0>>) :
          reader' = [Loaded(load) EXCEPT !.start = reader.view, !.key = node + 1,
                                         !.node = load.next, !.did = "from"]
    BY DEF Follow
  <2>2. PICK i \in {StoreAt(<<node, 0>>, m) : m \in reader.view .. Now} :
          load = [next |-> ValueOf(i), view |-> ViewAfter(i)]
    BY <2>1 DEF Loads
  <2>3. PICK m \in reader.view .. Now : i = StoreAt(<<node, 0>>, m)
    BY <2>2
  <2> QED
    BY <2>1, <2>2, <2>3, Zenon
<1>3. /\ WriterInv /\ ReaderInv /\ NoWildRead /\ m \in reader.view .. Len(stores) /\ 0 \in Levels
      /\ reader.find = "none" /\ Len(stores) \in Nat /\ reader.view \in MaxHeight + 1 .. Len(stores)
  BY <1>2, HistoryBegins DEF SkipInv, WriterInv, ReaderInv, Now, Levels, Follow
<1>4. Stored(History, <<node, 0>>, reader.view)
  BY <1>3, BottomSeen
<1> DEFINE i    == StoreAt(<<node, 0>>, m)
           load == [next |-> ValueOf(i), view |-> ViewAfter(i)]
<1>5. /\ ValueOf(i) \in node + 1 .. Null /\ ViewAfter(i) \in reader.view .. Len(stores)
      /\ ValueOf(i) # Null => /\ Tower(History, ValueOf(i), 0, ViewAfter(i))
                              /\ Listed(History, ValueOf(i), ViewAfter(i))
  BY <1>3, <1>4, LoadHolds
<1>6. Loaded(load) = [reader EXCEPT !.view = load.view, !.wild = FALSE]
  <2>1. load.view \in 0 .. Len(stores)
    BY <1>3, <1>5
  <2>2. load.next # Null => Stored(History, <<load.next, 0>>, load.view)
    BY <1>5 DEF Tower
  <2>3. load.next \in node + 1 .. Null
    BY <1>5
  <2> HIDE DEF load
  <2> QED
    BY <1>3, <2>1, <2>2, <2>3, LoadTame
<1> DEFINE next == ValueOf(i)
           view == ViewAfter(i)
<1>7. reader' = [reader EXCEPT !.view = view, !.wild = FALSE, !.start = reader.view,
                               !.key = node + 1, !.node = next, !.did = "from"]
  BY <1>2, <1>3, <1>6 DEF ReaderInv, ReaderShape
<1>8. /\ IsResult(History, "from", node + 1, next, m)
      /\ m \in reader.view .. Len(stores)
  <2>1. node + 1 \in node + 1 .. Null /\ node + 1 <= next
    BY <1>5 DEF Nodes, Null
  <2> QED
    BY <1>3, <1>4, <2>1, BottomLoad
<1> HIDE DEF i, next, view
<1>9. /\ next \in 1 .. Null /\ view \in reader.view .. Len(stores) /\ node + 1 \in 0 .. Null
      /\ next # Null => Listed(History, next, view)
  BY <1>5 DEF Nodes, Null, next, view
<1>10. ReaderShape'
  <2>1. "from" \in Find /\ reader.view \in Nat /\ view \in Nat /\ FALSE \in BOOLEAN
    BY <1>3, <1>9 DEF Find
  <2>2. ReaderShape
    BY <1>3 DEF ReaderInv
  <2> QED
    BY <1>7, <1>9, <2>1, <2>2 DEF ReaderShape
<1>11. ReaderInv' /\ NoWildRead'
  BY <1>1, <1>3, <1>7, <1>9, <1>10 DEF ReaderInv, ReaderShape, Searching, NoWildRead
<1>12. Atomic'
  BY <1>1, <1>3, <1>7, <1>8 DEF Atomic, ReaderInv, ReaderShape
<1> QED
  BY <1>1, <1>11, <1>12 DEF SkipInv

(* One round of a search; the last one is the moment at which the search   *)
(* is atomic.                                                              *)
LEMMA SearchStepKeeps ==
    ASSUME SkipInv, SearchStep
    PROVE  SkipInv'
<1> USE SkipListAssumption
<1> DEFINE x   == reader.x
           l   == reader.level
           key == reader.key
<1>1. WriterInv' /\ History' = History /\ stores' = stores
  BY WriterWaits DEF SkipInv, SearchStep
<1>2. PICK load \in Loads(<<x, l>>) :
        LET r == Loaded(load)
        IN  reader' = IF load.next < r.key THEN [r EXCEPT !.x = load.next]
                      ELSE IF r.level > 0 THEN [r EXCEPT !.level = @ - 1]
                      ELSE [r EXCEPT !.node = IF r.find = "from" THEN load.next
                                              ELSE IF r.x = HeadNode THEN Null ELSE r.x,
                                     !.did = r.find, !.find = "none", !.x = HeadNode]
  BY DEF SearchStep
<1>3. PICK m \in reader.view .. Now :
        load = [next |-> ValueOf(StoreAt(<<x, l>>, m)), view |-> ViewAfter(StoreAt(<<x, l>>, m))]
  <2>1. PICK i \in {StoreAt(<<x, l>>, moment) : moment \in reader.view .. Now} :
          load = [next |-> ValueOf(i), view |-> ViewAfter(i)]
    BY <1>2 DEF Loads
  <2>2. PICK m \in reader.view .. Now : i = StoreAt(<<x, l>>, m)
    BY <2>1
  <2> QED
    BY <2>1, <2>2, Zenon
<1>4. /\ WriterInv /\ ReaderInv /\ NoWildRead /\ m \in reader.view .. Len(stores)
      /\ reader.find \in {"from", "less"} /\ Len(stores) \in Nat
      /\ reader.view \in MaxHeight + 1 .. Len(stores) /\ reader.start \in 0 .. reader.view
      /\ ReaderShape
  <2>1. WriterInv /\ ReaderInv /\ NoWildRead /\ m \in reader.view .. Len(stores) /\ ReaderShape
    BY DEF SkipInv, ReaderInv, Now
  <2>2. Len(stores) \in Nat
    BY <2>1, HistoryBegins DEF WriterInv
  <2> QED
    BY <2>1, <2>2 DEF ReaderInv, ReaderShape, Find, SearchStep
<1>5. /\ x \in Nodes /\ l \in Levels /\ x < key /\ key \in x + 1 .. Null /\ Null = MaxKey + 1
      /\ x = HeadNode \/ Listed(History, x, reader.view)
      /\ Tower(History, x, l, reader.view)
  BY <1>4 DEF ReaderInv, ReaderShape, Searching, Nodes, Null
<1>6. Stored(History, <<x, l>>, reader.view)
  BY <1>5 DEF Tower, Levels
<1> DEFINE i    == StoreAt(<<x, l>>, m)
           next == ValueOf(i)
           view == ViewAfter(i)
<1>7. /\ next \in x + 1 .. Null /\ view \in reader.view .. Len(stores)
      /\ next # Null => Tower(History, next, l, view) /\ Listed(History, next, view)
  BY <1>4, <1>5, <1>6, LoadHolds
<1>8. l = 0 /\ key <= next =>
         /\ m \in reader.start .. Len(stores)
         /\ IsResult(History, "from", key, next, m)
         /\ IsResult(History, "less", key, IF x = HeadNode THEN Null ELSE x, m)
  BY <1>4, <1>5, <1>6, BottomLoad
<1>9. load.next = next /\ load.view = view
  BY <1>3
<1> HIDE DEF i, next, view
<1>10. Loaded(load) = [reader EXCEPT !.view = view, !.wild = FALSE]
  <2>1. load.view \in 0 .. Len(stores) /\ load.next \in x + 1 .. Null
    BY <1>4, <1>7, <1>9
  <2>2. load.next # Null => Stored(History, <<load.next, 0>>, load.view)
    BY <1>5, <1>7, <1>9 DEF Tower, Levels
  <2>3. Loaded(load) = [reader EXCEPT !.view = load.view, !.wild = FALSE]
    BY <1>4, <1>5, <2>1, <2>2, LoadTame
  <2> QED
    BY <1>9, <2>3
<1> DEFINE r == [reader EXCEPT !.view = view, !.wild = FALSE]
<1>11. reader' = IF next < key THEN [r EXCEPT !.x = next]
                 ELSE IF l > 0 THEN [r EXCEPT !.level = l - 1]
                 ELSE [r EXCEPT !.node = IF reader.find = "from" THEN next
                                         ELSE IF x = HeadNode THEN Null ELSE x,
                                !.did = reader.find, !.find = "none", !.x = HeadNode]
  <2>1. r.key = key /\ r.level = l /\ r.find = reader.find /\ r.x = x
    BY <1>4 DEF ReaderShape
  <2>2. reader' = IF next < r.key THEN [r EXCEPT !.x = next]
                  ELSE IF r.level > 0 THEN [r EXCEPT !.level = @ - 1]
                  ELSE [r EXCEPT !.node = IF r.find = "from" THEN next
                                          ELSE IF r.x = HeadNode THEN Null ELSE r.x,
                                 !.did = r.find, !.find = "none", !.x = HeadNode]
    BY <1>2, <1>9, <1>10
  <2> HIDE DEF r
  <2> QED
    BY <2>1, <2>2
<1>12. view \in Nat /\ view \in MaxHeight + 1 .. Len(stores) /\ reader.start <= view /\ FALSE \in BOOLEAN
  BY <1>4, <1>7
<1>13. reader.node # Null => Listed(History, reader.node, view)
  <2>1. reader.view \in Int /\ view \in Int /\ reader.view <= view
    BY <1>4, <1>7
  <2> QED
    BY <1>4, <2>1, SeenStays DEF ReaderInv
<1>14. CASE next < key
  <2>1. reader' = [r EXCEPT !.x = next] /\ next \in Nodes /\ next # Null
    BY <1>5, <1>7, <1>11, <1>14 DEF Nodes
  <2>2. ReaderShape'
    BY <1>4, <1>12, <2>1 DEF ReaderShape
  <2>3. Searching'
    BY <1>1, <1>4, <1>7, <1>14, <2>1 DEF Searching, ReaderShape
  <2>4. ReaderInv' /\ NoWildRead' /\ Atomic'
    BY <1>1, <1>4, <1>12, <1>13, <2>1, <2>2, <2>3 DEF ReaderInv, ReaderShape, NoWildRead, Atomic
  <2> QED
    BY <1>1, <2>4 DEF SkipInv
<1>15. CASE ~(next < key) /\ l > 0
  <2>1. reader' = [r EXCEPT !.level = l - 1] /\ l - 1 \in Levels
    BY <1>5, <1>11, <1>15 DEF Levels
  <2>2. ReaderShape'
    BY <1>4, <1>12, <2>1 DEF ReaderShape
  <2>3. /\ Tower(History, x, l - 1, view)
        /\ x = HeadNode \/ Listed(History, x, view)
    <3>1. Tower(History, x, l - 1, reader.view)
      BY <1>5, <1>15 DEF Tower, Levels
    <3>2. reader.view \in Int /\ view \in Int /\ reader.view <= view
      BY <1>4, <1>7
    <3> QED
      BY <1>5, <3>1, <3>2, SeenStays
  <2>4. Searching'
    BY <1>1, <1>4, <1>5, <2>1, <2>3 DEF Searching, ReaderShape
  <2>5. ReaderInv' /\ NoWildRead' /\ Atomic'
    BY <1>1, <1>4, <1>12, <1>13, <2>1, <2>2, <2>4 DEF ReaderInv, ReaderShape, NoWildRead, Atomic
  <2> QED
    BY <1>1, <2>5 DEF SkipInv
<1>16. CASE ~(next < key) /\ ~(l > 0)
  <2> DEFINE result == IF reader.find = "from" THEN next ELSE IF x = HeadNode THEN Null ELSE x
  <2>1. /\ reader' = [r EXCEPT !.node = result, !.did = reader.find, !.find = "none", !.x = HeadNode]
        /\ l = 0 /\ key <= next
    BY <1>5, <1>7, <1>11, <1>16 DEF Levels
  <2>2. /\ result \in 1 .. Null
        /\ result # Null => Listed(History, result, view)
    <3>1. reader.view \in Int /\ view \in Int /\ reader.view <= view
      BY <1>4, <1>7
    <3>2. x # HeadNode => Listed(History, x, view)
      BY <1>5, <3>1, SeenStays
    <3> QED
      BY <1>5, <1>7, <3>2 DEF Nodes, HeadNode
  <2>3. /\ m \in reader.start .. Len(stores)
        /\ IsResult(History, reader.find, key, result, m)
    BY <1>4, <1>8, <2>1
  <2> HIDE DEF result
  <2>4. ReaderShape'
    <3>1. HeadNode \in Nodes /\ "none" \in Find
      BY DEF HeadNode, Nodes, Find
    <3> QED
      BY <1>4, <1>12, <2>1, <2>2, <3>1 DEF ReaderShape
  <2>5. /\ reader'.find = "none" /\ reader'.did = reader.find /\ reader'.key = key
        /\ reader'.node = result /\ reader'.start = reader.start /\ reader'.view = view
        /\ reader'.wild = FALSE
    BY <1>4, <2>1 DEF ReaderShape
  <2>6. ReaderInv' /\ NoWildRead'
    BY <1>1, <1>12, <2>2, <2>4, <2>5 DEF ReaderInv, Searching, NoWildRead
  <2>7. Atomic'
    BY <1>1, <2>3, <2>5 DEF Atomic
  <2> QED
    BY <1>1, <2>6, <2>7 DEF SkipInv
<1> QED
  BY <1>14, <1>15, <1>16

-----------------------------------------------------------------------------
(* The writer                                                              *)

(* Storing what was planned leaves the history as it is. *)
LEMMA WriterStoresKeeps ==
    ASSUME SkipInv, WriterStores
    PROVE  SkipInv'
<1> USE SkipListAssumption
<1>1. stores \in Seq(Store) /\ plan \in Seq(Store) /\ plan # <<>>
  BY DEF SkipInv, WriterInv, WriterStores
<1>2. Head(plan) \in Store /\ Tail(plan) \in Seq(Store) /\ plan = <<Head(plan)>> \o Tail(plan)
  BY <1>1
<1>3. stores' \in Seq(Store) /\ plan' \in Seq(Store) /\ Len(stores') = Len(stores) + 1
  BY <1>1, <1>2 DEF WriterStores
<1>4. History' = History
  <2>1. Append(stores, Head(plan)) \o Tail(plan) = stores \o plan
    BY <1>1, <1>2
  <2> QED
    BY <2>1 DEF History, WriterStores
<1>5. height' = height /\ published' = published /\ reader' = reader /\ Len(stores) \in Nat
  BY <1>1, LenProperties DEF WriterStores
<1>6. WriterInv'
  BY <1>3, <1>4, <1>5 DEF SkipInv, WriterInv
<1>7. ReaderInv' /\ NoWildRead'
  BY <1>3, <1>4, <1>5 DEF SkipInv, ReaderInv, ReaderShape, Searching, NoWildRead
<1>8. Atomic'
  BY <1>3, <1>4, <1>5 DEF SkipInv, Atomic
<1> QED
  BY <1>6, <1>7, <1>8 DEF SkipInv

LEMMA PublishKeeps ==
    ASSUME SkipInv, SetLastSequence
    PROVE  SkipInv'
<1>1. stores' = stores /\ plan' = plan /\ height' = height /\ reader' = reader /\ published' = Len(stores)
      /\ published < Len(stores) /\ Len(stores) \in Nat
  BY HistoryBegins DEF SkipInv, WriterInv, SetLastSequence, Now
<1>2. WriterInv' /\ History' = History
  BY <1>1, SkipListAssumption DEF SkipInv, WriterInv, History
<1>3. ReaderInv' /\ NoWildRead' /\ Atomic'
  BY <1>1, <1>2 DEF SkipInv, ReaderInv, ReaderShape, Searching, NoWildRead, Atomic
<1> QED
  BY <1>2, <1>3 DEF SkipInv

(* Where an insert begins, the pointers of a node are those of its last    *)
(* stores, and lead to nodes of the list.                                  *)
LastValue(cell, value) ==
    \E i \in 1 .. Len(stores) : LastStore(History, cell, Len(stores), i) /\ History[i].value = value

LEMMA NextHolds ==
    ASSUME WriterInv, plan = <<>>, NEW n \in Nodes, NEW l \in Levels,
           Stored(History, <<n, l>>, Len(stores))
    PROVE  /\ NodeNext(n, l) \in n + 1 .. Null
           /\ LastValue(<<n, l>>, NodeNext(n, l))
           /\ NodeNext(n, l) # Null => /\ Tower(History, NodeNext(n, l), l, Len(stores))
                                       /\ Listed(History, NodeNext(n, l), Len(stores))
           /\ l >= height => NodeNext(n, l) = Null
<1> DEFINE N == Len(stores)
           i == StoreAt(<<n, l>>, N)
<1>1. N \in Nat /\ stores \in Seq(Store) /\ plan \in Seq(Store) /\ Len(History) = N + Len(plan) /\ Len(plan) \in Nat
  BY HistoryBegins DEF WriterInv
<1>2. N \in 0 .. N
  BY <1>1
<1>3. LastStore(History, <<n, l>>, N, i) /\ i \in 1 .. N /\ ValueOf(i) = History[i].value
  BY <1>1, <1>2, StoredThere
<1>4. NodeNext(n, l) = History[i].value
  BY <1>3 DEF NodeNext, Now
<1>5. History[i].cell = <<n, l>> /\ i \in 1 .. Len(History)
  BY <1>1, <1>3 DEF LastStore
<1> HIDE DEF i
<1>6. History[i].value \in n + 1 .. Null
  BY <1>5 DEF WriterInv, StoresGood, Ascends
<1>7. l >= height => History[i].value = Null
  BY <1>5 DEF WriterInv, StoresGood, HighNull
<1>8. History[i].value # Null =>
         Tower(History, History[i].value, l, N) /\ Listed(History, History[i].value, N)
  <2>1. History[i].value # Null =>
           Tower(History, History[i].value, l, i - 1) /\ Listed(History, History[i].value, i)
    BY <1>5 DEF WriterInv, StoresGood, PointersBuilt
  <2>2. i \in Int /\ i - 1 \in Int /\ N \in Int /\ i <= N /\ i - 1 <= N
    BY <1>1, <1>3
  <2> QED
    BY <2>1, <2>2, SeenStays
<1> QED
  BY <1>3, <1>4, <1>6, <1>7, <1>8 DEF LastValue

(* The key is not there, on any level. *)
LEMMA KeyIsNew ==
    ASSUME WriterInv, plan = <<>>, NEW key \in 1 .. MaxKey, StoreAt(<<key, 0>>, Now) = 0
    PROVE  /\ \A l \in Levels : ~Stored(History, <<key, l>>, Len(stores))
           /\ ~Listed(History, key, Len(stores))
<1> USE SkipListAssumption
<1> DEFINE N == Len(stores)
<1>1. /\ N \in Nat /\ stores \in Seq(Store) /\ plan \in Seq(Store) /\ N \in 0 .. N
      /\ Len(History) \in Nat /\ N <= Len(History) /\ key \in Nodes /\ N \in MaxHeight + 1 .. N
  <2>1. N \in Nat /\ stores \in Seq(Store) /\ plan \in Seq(Store) /\ Len(History) \in Nat /\ N <= Len(History)
    BY HistoryBegins DEF WriterInv
  <2> QED
    BY <2>1 DEF WriterInv, Nodes
<1>2. ~Stored(History, <<key, 0>>, N)
  <2>1. StoreAt(<<key, 0>>, N) = 0
    BY DEF Now
  <2> QED
    BY <1>1, <2>1, StoreAtIs DEF LastStore
<1>3. ASSUME NEW l \in Levels, Stored(History, <<key, l>>, N)
      PROVE  FALSE
  <2>1. PICK i \in 1 .. N : History[i].cell = <<key, l>>
    BY <1>3 DEF Stored
  <2>2. i \in 1 .. Len(History) /\ i \in Int /\ i <= N
    BY <1>1
  <2>3. Stored(History, <<key, 0>>, i)
    BY <1>1, <2>1, <2>2 DEF WriterInv, StoresGood, BottomFirst
  <2>4. i \in Int /\ N \in Int /\ i <= N
    BY <1>1, <2>2
  <2>5. Stored(History, <<key, 0>>, N)
    <3> HIDE DEF N
    <3> QED
      BY <2>3, <2>4, SeenStays
  <2> QED
    BY <1>2, <2>5
<1>4. ~Listed(History, key, N)
  BY <1>1, <1>2, BottomSeen
<1> QED
  BY <1>3, <1>4

(* prev[level] of FindGreaterOrEqual: the node below key at which a node   *)
(* with key belongs.                                                       *)
Below(key, l) ==
    {x \in 0 .. key - 1 : /\ x = HeadNode \/ Listed(History, x, Len(stores))
                          /\ Tower(History, x, l, Len(stores))}
Fits(key, l, p) ==
    /\ p \in Below(key, l) /\ NodeNext(p, l) \in key + 1 .. Null
    /\ LastValue(<<p, l>>, NodeNext(p, l))
    /\ NodeNext(p, l) # Null => /\ Tower(History, NodeNext(p, l), l, Len(stores))
                                /\ Listed(History, NodeNext(p, l), Len(stores))

LEMMA BelowStored ==
    ASSUME NEW key \in 1 .. MaxKey, NEW l \in Levels, NEW x \in Below(key, l)
    PROVE  x \in Nodes /\ Stored(History, <<x, l>>, Len(stores))
  BY SkipListAssumption DEF Below, Tower, Levels, Nodes

IsWalk(f, key, l) ==
    f = [x \in 0 .. MaxKey |-> IF NodeNext(x, l) \in x + 1 .. key - 1 THEN f[NodeNext(x, l)] ELSE x]

LEMMA WalkHolds ==
    ASSUME WriterInv, plan = <<>>, NEW key \in 1 .. MaxKey, NEW l \in Levels
    PROVE  \A x \in Below(key, l) :
             LET p == LastBefore(key, l)[x] IN p \in Below(key, l) /\ NodeNext(p, l) \notin p + 1 .. key - 1
<1> USE SkipListAssumption
<1> DEFINE g == [x \in 0 .. MaxKey |-> NodeNext(x, l)]
           w == LastBefore(key, l)
           b == key - 1
<1>1. w = CHOOSE f : IsWalk(f, key, l)
  BY Zenon DEF LastBefore, IsWalk
<1>2. \A f : IsWalk(f, key, l) <=> IsAscent(f, 0, MaxKey, b, g)
  <2> TAKE f
  <2>1. [x \in 0 .. MaxKey |-> IF NodeNext(x, l) \in x + 1 .. key - 1 THEN f[NodeNext(x, l)] ELSE x]
          = [x \in 0 .. MaxKey |-> IF g[x] \in x + 1 .. b THEN f[g[x]] ELSE x]
    OBVIOUS
  <2> HIDE DEF g, b
  <2> QED
    BY <2>1 DEF IsWalk, IsAscent
<1>3. MaxKey \in Nat /\ b \in Int /\ b <= MaxKey
  OBVIOUS
<1> HIDE DEF w, b
<1>4. \E f : IsAscent(f, 0, MaxKey, b, g)
  <2> HIDE DEF g
  <2> QED
    BY <1>3, AscentExists
<1>5. IsAscent(w, 0, MaxKey, b, g)
  <2> HIDE DEF g
  <2> QED
    BY <1>1, <1>2, <1>4
<1> DEFINE C == Below(key, l)
<1>6. C \subseteq 0 .. b
  BY DEF Below, b
<1>7. \A x \in C : g[x] = NodeNext(x, l)
  BY BelowStored DEF Nodes
<1>8. ASSUME NEW x \in C, g[x] \in x + 1 .. b
      PROVE  g[x] \in C
  <2>1. x \in Nodes /\ Stored(History, <<x, l>>, Len(stores))
    BY BelowStored
  <2>2. NodeNext(x, l) # Null /\ NodeNext(x, l) \in 0 .. key - 1
    BY <1>7, <1>8, <2>1 DEF Null, Nodes, b
  <2>3. Tower(History, NodeNext(x, l), l, Len(stores)) /\ Listed(History, NodeNext(x, l), Len(stores))
    BY <2>1, <2>2, NextHolds
  <2>4. NodeNext(x, l) \in C
    BY <2>2, <2>3 DEF Below
  <2> QED
    BY <1>7, <2>4
<1> HIDE DEF C, g
<1>9. \A x \in C : w[x] \in C /\ g[w[x]] \notin w[x] + 1 .. b
  BY <1>3, <1>5, <1>6, <1>8, AscentHolds
<1> QED
  BY <1>7, <1>9 DEF C, w, b

IsPrev(f, key) ==
    f = [l \in 0 .. MaxHeight |-> IF l >= height THEN HeadNode ELSE LastBefore(key, l)[f[l + 1]]]

LEMMA PrevHolds ==
    ASSUME WriterInv, plan = <<>>, NEW key \in 1 .. MaxKey, StoreAt(<<key, 0>>, Now) = 0,
           NEW l \in Levels
    PROVE  Fits(key, l, PrevOf(key)[l])
<1> USE SkipListAssumption
<1> DEFINE w == [k \in 0 .. MaxHeight |-> LastBefore(key, k)]
           f == PrevOf(key)
           N == Len(stores)
<1>0. N \in Nat /\ N > MaxHeight /\ height \in 1 .. MaxHeight
  BY HistoryBegins DEF WriterInv
<1>1. f = CHOOSE g : IsPrev(g, key)
  BY Zenon DEF PrevOf, IsPrev
<1>2. \A g : IsPrev(g, key) <=> IsDescent(g, 0, MaxHeight, height, w)
  <2> TAKE g
  <2>1. [k \in 0 .. MaxHeight |-> IF k >= height THEN HeadNode ELSE LastBefore(key, k)[g[k + 1]]]
          = [k \in 0 .. MaxHeight |-> IF k >= height THEN 0 ELSE w[k][g[k + 1]]]
    BY DEF HeadNode
  <2> HIDE DEF w
  <2> QED
    BY <2>1 DEF IsPrev, IsDescent
<1> HIDE DEF f
<1>3. \E g : IsDescent(g, 0, MaxHeight, height, w)
  <2> HIDE DEF w
  <2> QED
    BY <1>0, DescentExists
<1>4. IsDescent(f, 0, MaxHeight, height, w)
  <2> HIDE DEF w
  <2> QED
    BY <1>1, <1>2, <1>3
<1>5. \A k \in 0 .. MaxHeight : f[k] = IF k >= height THEN HeadNode ELSE LastBefore(key, k)[f[k + 1]]
  BY <1>4 DEF IsDescent, HeadNode
<1> HIDE DEF w
<1>6. \A k \in Levels : HeadNode \in Below(key, k)
  <2> TAKE k \in Levels
  <2>1. \A k2 \in 0 .. k : k2 \in Levels
    BY DEF Levels
  <2>2. \A i \in 1 .. MaxHeight + 1 : i \in 1 .. N
    BY <1>0
  <2>3. Tower(History, HeadNode, k, N)
    BY <2>1, <2>2 DEF Tower, Stored, WriterInv, StoresGood, HeadStored
  <2> QED
    BY <2>3 DEF Below, HeadNode
<1>7. \A k \in Levels : f[k] \in Below(key, k)
  <2> DEFINE S == {m \in 0 .. MaxHeight : \A k \in Levels : k >= MaxHeight - m => f[k] \in Below(key, k)}
  <2>1. 0 \in S
    BY DEF Levels
  <2>2. ASSUME NEW m \in 1 .. MaxHeight, m - 1 \in S
        PROVE  m \in S
    <3>1. ASSUME NEW k \in Levels, k >= MaxHeight - m
          PROVE  f[k] \in Below(key, k)
      <4>1. CASE k >= height
        BY <1>5, <1>6, <4>1 DEF Levels
      <4>2. CASE k < height
        <5>1. f[k] = LastBefore(key, k)[f[k + 1]]
          BY <1>0, <1>5, <4>2 DEF Levels
        <5>2. f[k + 1] \in Below(key, k)
          <6>1. CASE k + 1 >= height
            BY <1>0, <1>5, <1>6, <4>2, <6>1 DEF Levels
          <6>2. CASE k + 1 < height
            <7>1. k + 1 \in Levels /\ k + 1 >= MaxHeight - (m - 1)
              BY <1>0, <3>1, <6>2 DEF Levels
            <7>2. f[k + 1] \in Below(key, k + 1)
              BY <2>2, <7>1
            <7> QED
              BY <7>2 DEF Below, Tower, Levels
          <6> QED
            BY <1>0, <6>1, <6>2 DEF Levels
        <5> QED
          BY <5>1, <5>2, WalkHolds
      <4> QED
        BY <1>0, <4>1, <4>2 DEF Levels
    <3> QED
      BY <3>1
  <2> HIDE DEF S
  <2>3. MaxHeight \in S
    BY <2>1, <2>2, UpToInduction, SMTT(40)
  <2>4. \A k \in Levels : k >= MaxHeight - MaxHeight
    BY DEF Levels
  <2> QED
    BY <2>3, <2>4 DEF S
<1> DEFINE p    == f[l]
           next == NodeNext(p, l)
<1>8. p \in Below(key, l) /\ p \in Nodes /\ Stored(History, <<p, l>>, N) /\ p \in 0 .. key - 1
  BY <1>7, BelowStored DEF Below
<1>9. /\ next \in p + 1 .. Null /\ LastValue(<<p, l>>, next)
      /\ next # Null => Tower(History, next, l, N) /\ Listed(History, next, N)
      /\ l >= height => next = Null
  BY <1>8, NextHolds
<1>10. next \notin p + 1 .. key - 1
  <2>1. CASE l >= height
    BY <1>9, <2>1 DEF Null
  <2>2. CASE l < height
    <3>1. p = LastBefore(key, l)[f[l + 1]]
      BY <1>0, <1>5, <2>2 DEF Levels
    <3>2. f[l + 1] \in Below(key, l)
      <4>1. CASE l + 1 >= height
        BY <1>0, <1>5, <1>6, <2>2, <4>1 DEF Levels
      <4>2. CASE l + 1 < height
        <5>1. l + 1 \in Levels
          BY <1>0, <4>2 DEF Levels
        <5>2. f[l + 1] \in Below(key, l + 1)
          BY <1>7, <5>1
        <5> QED
          BY <5>2 DEF Below, Tower, Levels
      <4> QED
        BY <1>0, <4>1, <4>2 DEF Levels
    <3> QED
      BY <3>1, <3>2, WalkHolds
  <2> QED
    BY <1>0, <2>1, <2>2 DEF Levels
<1>11. next # key
  <2>1. ~Stored(History, <<key, l>>, N)
    BY KeyIsNew
  <2>2. ~Tower(History, key, l, N)
    BY <2>1 DEF Tower, Levels
  <2> QED
    BY <1>9, <2>2 DEF Null
<1>12. next \in key + 1 .. Null
  BY <1>8, <1>9, <1>10, <1>11 DEF Null
<1> QED
  BY <1>8, <1>9, <1>12 DEF Fits, f

-----------------------------------------------------------------------------
(* The stores of an insert                                                 *)

(* t is s with the links of key on levels 0 to h - 1 after it, between     *)
(* p[l] and q[l]; a is 1 if max_height_ is stored first.                   *)
Grows(s, t, key, h, a, p, q) ==
    /\ s \in Seq(Store) /\ t \in Seq(Store) /\ a \in {0, 1} /\ Len(t) = Len(s) + a + 2 * h
    /\ \A i \in 1 .. Len(s) : t[i] = s[i]
    /\ \A i \in Len(s) + 1 .. Len(s) + a : t[i] = NoBarrierSetNext(MaxHeightCell, h)
    /\ \A l \in 0 .. h - 1 : /\ t[Len(s) + a + 2 * l + 1] = NoBarrierSetNext(<<key, l>>, q[l])
                             /\ t[Len(s) + a + 2 * l + 2] = SetNext(<<p[l], l>>, key)

(* The place of a new node in s, as prev[level] of FindGreaterOrEqual.     *)
FitsIn(s, key, l, p, q) ==
    /\ p \in 0 .. key - 1
    /\ p = HeadNode \/ Listed(s, p, Len(s))
    /\ Tower(s, p, l, Len(s))
    /\ q \in key + 1 .. Null
    /\ \E i \in 1 .. Len(s) : LastStore(s, <<p, l>>, Len(s), i) /\ s[i].value = q
    /\ q # Null => Tower(s, q, l, Len(s)) /\ Listed(s, q, Len(s))

Inserts(s, t, key, h, a, p, q, top) ==
    /\ key \in 1 .. MaxKey /\ h \in 1 .. MaxHeight /\ top \in 1 .. MaxHeight
    /\ Grows(s, t, key, h, a, p, q) /\ StoresGood(s, top)
    /\ \A l \in 0 .. h - 1 : FitsIn(s, key, l, p[l], q[l])
    /\ \A l \in Levels : ~Stored(s, <<key, l>>, Len(s))
    /\ ~Listed(s, key, Len(s))

(* What was stored first is as it was. *)
LEMMA OldStays ==
    ASSUME NEW s, NEW t, NEW n \in Nat, \A i \in 1 .. n : t[i] = s[i], NEW m \in Int, m <= n
    PROVE  /\ \A cell : Stored(t, cell, m) <=> Stored(s, cell, m)
           /\ \A k, l : Tower(t, k, l, m) <=> Tower(s, k, l, m)
           /\ \A k : Listed(t, k, m) <=> Listed(s, k, m)
           /\ \A cell, i : LastStore(t, cell, m, i) <=> LastStore(s, cell, m, i)
           /\ \A did, key, node : IsResult(t, did, key, node, m) <=> IsResult(s, did, key, node, m)
<1>1. \A i \in 1 .. m : t[i] = s[i]
  OBVIOUS
<1>2. \A cell : Stored(t, cell, m) <=> Stored(s, cell, m)
  BY <1>1 DEF Stored
<1>3. \A k, l : Tower(t, k, l, m) <=> Tower(s, k, l, m)
  BY <1>2 DEF Tower
<1>4. \A k : Listed(t, k, m) <=> Listed(s, k, m)
  BY <1>1 DEF Listed, IsLink
<1>5. \A cell, i : LastStore(t, cell, m, i) <=> LastStore(s, cell, m, i)
  BY <1>1 DEF LastStore
<1>6. \A did, key, node : IsResult(t, did, key, node, m) <=> IsResult(s, did, key, node, m)
  <2> SUFFICES ASSUME NEW did, NEW key, NEW node
               PROVE  IsResult(t, did, key, node, m) <=> IsResult(s, did, key, node, m)
    OBVIOUS
  <2>1. CASE did = "from"
    BY <1>4, <2>1, Zenon DEF IsResult
  <2>2. CASE did # "from"
    BY <1>4, <2>2, Zenon DEF IsResult
  <2> QED
    BY <2>1, <2>2
<1> QED
  BY <1>2, <1>3, <1>4, <1>5, <1>6

(* What a step of the insert stores where. *)
IsTop(t, i, n, h, a) ==
    i = n + 1 /\ a = 1 /\ t[i].cell = MaxHeightCell /\ t[i].value = h /\ ~t[i].release
FirstStore(t, i, n, a, l, key, q) ==
    /\ i = n + a + 2 * l + 1
    /\ t[i].cell = <<key, l>> /\ t[i].value = q[l] /\ ~t[i].release
IsSecond(t, i, n, a, l, key, p) ==
    /\ i = n + a + 2 * l + 2
    /\ t[i].cell = <<p[l], l>> /\ t[i].value = key /\ t[i].release

(* s and t and the places after s, one by one. *)
Appended(s, t, n, key, h, a, p, q) ==
    /\ n \in Nat /\ n > MaxHeight /\ a \in {0, 1} /\ h \in 1 .. MaxHeight /\ key \in 1 .. MaxKey
    /\ Len(t) = n + a + 2 * h
    /\ \A i \in 1 .. n : t[i] = s[i] /\ i \in 1 .. Len(t)
    /\ \A l \in 0 .. h - 1 : /\ l \in Levels
                             /\ n + a + 2 * l + 1 \in 1 .. Len(t)
                             /\ n + a + 2 * l + 2 \in 1 .. Len(t)
                             /\ FirstStore(t, n + a + 2 * l + 1, n, a, l, key, q)
                             /\ IsSecond(t, n + a + 2 * l + 2, n, a, l, key, p)
    /\ \A i \in n + 1 .. Len(t) : \/ IsTop(t, i, n, h, a)
                                  \/ \E l \in 0 .. h - 1 : FirstStore(t, i, n, a, l, key, q)
                                  \/ \E l \in 0 .. h - 1 : IsSecond(t, i, n, a, l, key, p)

LEMMA NewCells ==
    ASSUME NEW s, NEW t, NEW key, NEW h, NEW a, NEW p, NEW q, NEW top,
           Inserts(s, t, key, h, a, p, q, top)
    PROVE  Appended(s, t, Len(s), key, h, a, p, q)
<1> USE SkipListAssumption
<1> DEFINE n == Len(s)
<1>0. Grows(s, t, key, h, a, p, q) /\ h \in 1 .. MaxHeight /\ key \in 1 .. MaxKey
  BY DEF Inserts
<1>1. n \in Nat /\ Len(t) \in Nat /\ a \in {0, 1} /\ Len(t) = n + a + 2 * h /\ h \in Nat
  BY <1>0, LenProperties DEF Grows
<1>2. n > MaxHeight
  BY DEF Inserts, StoresGood, HeadStored
<1>3. ASSUME NEW l \in 0 .. h - 1
      PROVE  /\ FirstStore(t, n + a + 2 * l + 1, n, a, l, key, q)
             /\ IsSecond(t, n + a + 2 * l + 2, n, a, l, key, p)
  <2>1. /\ t[n + a + 2 * l + 1] = NoBarrierSetNext(<<key, l>>, q[l])
        /\ t[n + a + 2 * l + 2] = SetNext(<<p[l], l>>, key)
    BY <1>0, Zenon DEF Grows
  <2> HIDE DEF n
  <2> QED
    BY <2>1 DEF NoBarrierSetNext, SetNext, FirstStore, IsSecond
<1>4. ASSUME NEW i \in n + 1 .. Len(t)
      PROVE  \/ IsTop(t, i, n, h, a)
             \/ \E l \in 0 .. h - 1 : FirstStore(t, i, n, a, l, key, q)
             \/ \E l \in 0 .. h - 1 : IsSecond(t, i, n, a, l, key, p)
  <2>1. CASE i <= n + a
    <3>1. i = n + 1 /\ a = 1 /\ t[i] = NoBarrierSetNext(MaxHeightCell, h)
      BY <1>0, <1>1, <2>1 DEF Grows
    <3> QED
      BY <3>1 DEF NoBarrierSetNext, IsTop
  <2>2. CASE i > n + a
    <3> DEFINE d == i - (n + a + 1)
               l == d \div 2
    <3>1. d \in 0 .. 2 * h - 1
      BY <1>1, <2>2
    <3> HIDE DEF d
    <3>2. l \in 0 .. h - 1 /\ (d = 2 * l \/ d = 2 * l + 1)
      BY <1>1, <3>1
    <3> HIDE DEF l
    <3>3. i = n + a + 2 * l + 1 \/ i = n + a + 2 * l + 2
      BY <1>1, <3>1, <3>2 DEF d
    <3> QED
      BY <1>3, <3>2, <3>3
  <2> QED
    BY <1>1, <2>1, <2>2
<1>5. \A l \in 0 .. h - 1 : /\ l \in Levels
                            /\ n + a + 2 * l + 1 \in 1 .. Len(t)
                            /\ n + a + 2 * l + 2 \in 1 .. Len(t)
  BY <1>0, <1>1 DEF Levels
<1>6. \A i \in 1 .. n : t[i] = s[i] /\ i \in 1 .. Len(t)
  BY <1>0, <1>1 DEF Grows
<1> HIDE DEF n
<1> QED
  <2>1. Appended(s, t, n, key, h, a, p, q)
    BY <1>0, <1>1, <1>2, <1>3, <1>4, <1>5, <1>6 DEF Appended
  <2> QED
    BY <2>1 DEF n

LEMMA InsertAscends ==
    ASSUME NEW s, NEW t, NEW key, NEW h, NEW a, NEW p, NEW q, NEW top,
           Inserts(s, t, key, h, a, p, q, top)
    PROVE  HeadStored(t) /\ Ascends(t) /\ HighNull(t, Max({top, h}))
<1> USE SkipListAssumption
<1> DEFINE n == Len(s)
<1>0. Appended(s, t, n, key, h, a, p, q)
  BY NewCells, Zenon
<1>1. /\ n \in Nat /\ n > MaxHeight /\ Len(t) = n + a + 2 * h /\ a \in {0, 1} /\ h \in 1 .. MaxHeight
      /\ key \in 1 .. MaxKey
      /\ \A i \in 1 .. n : t[i] = s[i] /\ i \in 1 .. Len(t)
      /\ \A i \in n + 1 .. Len(t) : \/ IsTop(t, i, n, h, a)
                                    \/ \E l \in 0 .. h - 1 : FirstStore(t, i, n, a, l, key, q)
                                    \/ \E l \in 0 .. h - 1 : IsSecond(t, i, n, a, l, key, p)
  BY <1>0 DEF Appended
<1>2. \A l \in 0 .. h - 1 : p[l] \in 0 .. key - 1 /\ q[l] \in key + 1 .. Null
  BY DEF Inserts, FitsIn
<1>3. HeadStored(s) /\ Ascends(s) /\ HighNull(s, top) /\ top \in 1 .. MaxHeight
  BY DEF Inserts, StoresGood
<1>4. HeadStored(t)
  <2>1. Len(t) > MaxHeight /\ 1 \in 1 .. n /\ \A i \in 1 .. MaxHeight + 1 : i \in 1 .. n
    BY <1>1
  <2>2. \A i \in 1 .. MaxHeight + 1 : t[i] = s[i]
    BY <1>1, <2>1
  <2>3. t[1] = s[1]
    BY <1>1, <2>1
  <2> QED
    BY <1>3, <2>1, <2>2, <2>3 DEF HeadStored
<1>5. ASSUME NEW i \in 1 .. Len(t)
      PROVE  /\ t[i].cell = MaxHeightCell => t[i].value \in 1 .. MaxHeight
             /\ \A x \in Nodes, l \in Levels : t[i].cell = <<x, l>> => t[i].value \in x + 1 .. Null
             /\ \A x \in Nodes, l \in Levels :
                   t[i].cell = <<x, l>> /\ ~(i \in 1 .. n) => l <= h - 1
  <2>1. CASE i \in 1 .. n
    BY <1>1, <1>3, <2>1 DEF Ascends
  <2>2. CASE IsTop(t, i, n, h, a)
    BY <1>1, <2>2 DEF IsTop, MaxHeightCell, Nodes
  <2>3. ASSUME NEW k \in 0 .. h - 1, FirstStore(t, i, n, a, k, key, q)
        PROVE  <1>5!2
    <3>1. t[i].cell = <<key, k>> /\ t[i].value \in key + 1 .. Null
      BY <1>2, <2>3 DEF FirstStore
    <3> QED
      BY <1>1, <3>1 DEF MaxHeightCell, Nodes
  <2>4. ASSUME NEW k \in 0 .. h - 1, IsSecond(t, i, n, a, k, key, p)
        PROVE  <1>5!2
    <3>1. t[i].cell = <<p[k], k>> /\ t[i].value = key /\ p[k] \in 0 .. key - 1
      BY <1>2, <2>4 DEF IsSecond
    <3>2. key \in p[k] + 1 .. Null /\ k <= h - 1
      <4>1. key \in 1 .. MaxKey
        BY <1>1
      <4> QED
        BY <3>1, <4>1 DEF Null
    <3>3. t[i].cell # MaxHeightCell
      BY <3>1 DEF MaxHeightCell
    <3> QED
      BY <3>1, <3>2, <3>3
  <2>5. i \in 1 .. n \/ i \in n + 1 .. Len(t)
    BY <1>1
  <2> QED
    BY <1>1, <2>1, <2>2, <2>3, <2>4, <2>5
<1>6. Ascends(t)
  BY <1>5 DEF Ascends
<1>7. Max({top, h}) >= top /\ Max({top, h}) >= h /\ Max({top, h}) \in Int
  <2>1. top \in Int /\ h \in Int
    BY <1>1, <1>3
  <2>2. \E x \in {top, h} : \A y \in {top, h} : x >= y
    BY <2>1
  <2>3. Max({top, h}) \in {top, h} /\ \A y \in {top, h} : Max({top, h}) >= y
    BY <2>2 DEF Max
  <2> QED
    BY <2>1, <2>3
<1>8. ASSUME NEW i \in 1 .. Len(t), NEW x \in Nodes, NEW l \in Levels,
             t[i].cell = <<x, l>>, l >= Max({top, h})
      PROVE  t[i].value = Null
  <2>1. l >= top /\ ~(l <= h - 1)
    BY <1>1, <1>3, <1>7, <1>8 DEF Levels
  <2>2. i \in 1 .. n
    BY <1>5, <1>8, <2>1
  <2> QED
    BY <1>1, <1>3, <1>8, <2>1, <2>2 DEF HighNull
<1> QED
  BY <1>4, <1>6, <1>8 DEF HighNull

LEMMA InsertBuilds ==
    ASSUME NEW s, NEW t, NEW key, NEW h, NEW a, NEW p, NEW q, NEW top,
           Inserts(s, t, key, h, a, p, q, top)
    PROVE  PointersBuilt(t) /\ BottomFirst(t)
<1> USE SkipListAssumption
<1> DEFINE n == Len(s)
<1>0. Appended(s, t, n, key, h, a, p, q)
  BY NewCells, Zenon
<1>1. /\ n \in Nat /\ n > MaxHeight /\ Len(t) = n + a + 2 * h /\ a \in {0, 1} /\ h \in 1 .. MaxHeight
      /\ key \in 1 .. MaxKey
      /\ \A i \in 1 .. n : t[i] = s[i] /\ i \in 1 .. Len(t)
      /\ \A l \in 0 .. h - 1 : /\ l \in Levels
                               /\ n + a + 2 * l + 1 \in 1 .. Len(t)
                               /\ n + a + 2 * l + 2 \in 1 .. Len(t)
                               /\ FirstStore(t, n + a + 2 * l + 1, n, a, l, key, q)
                               /\ IsSecond(t, n + a + 2 * l + 2, n, a, l, key, p)
      /\ \A i \in n + 1 .. Len(t) : \/ IsTop(t, i, n, h, a)
                                    \/ \E l \in 0 .. h - 1 : FirstStore(t, i, n, a, l, key, q)
                                    \/ \E l \in 0 .. h - 1 : IsSecond(t, i, n, a, l, key, p)
  BY <1>0 DEF Appended
<1>2. PointersBuilt(s) /\ BottomFirst(s) /\ \A l \in 0 .. h - 1 : FitsIn(s, key, l, p[l], q[l])
  BY DEF Inserts, StoresGood
<1>11. n \in Nat /\ a \in {0, 1} /\ h \in 1 .. MaxHeight
  BY <1>1
<1> HIDE DEF n
<1>3. \A m \in Int : m <= n =>
         /\ \A cell : Stored(t, cell, m) <=> Stored(s, cell, m)
         /\ \A k, l : Tower(t, k, l, m) <=> Tower(s, k, l, m)
         /\ \A k : Listed(t, k, m) <=> Listed(s, k, m)
  BY <1>1, OldStays
<1>4. \A v \in Int, w \in Int : v <= w =>
         /\ \A cell : Stored(t, cell, v) => Stored(t, cell, w)
         /\ \A k, l : Tower(t, k, l, v) => Tower(t, k, l, w)
         /\ \A k : Listed(t, k, v) => Listed(t, k, w)
  BY SeenStays
<1> DEFINE Good(i) == \A x \in Nodes, l \in Levels : t[i].cell = <<x, l>> =>
                         /\ t[i].value # Null => Tower(t, t[i].value, l, i - 1) /\ Listed(t, t[i].value, i)
                         /\ Stored(t, <<x, 0>>, i)
<1>5. ASSUME NEW i \in 1 .. n
      PROVE  Good(i)
  <2> SUFFICES ASSUME NEW x \in Nodes, NEW l \in Levels, t[i].cell = <<x, l>>
               PROVE  /\ t[i].value # Null => Tower(t, t[i].value, l, i - 1) /\ Listed(t, t[i].value, i)
                      /\ Stored(t, <<x, 0>>, i)
    OBVIOUS
  <2>1. t[i] = s[i] /\ i \in 1 .. Len(s)
    BY <1>1 DEF n
  <2>2. s[i].value # Null => Tower(s, s[i].value, l, i - 1) /\ Listed(s, s[i].value, i)
    BY <1>2, <2>1 DEF PointersBuilt
  <2>3. Stored(s, <<x, 0>>, i)
    BY <1>2, <2>1 DEF BottomFirst
  <2>4. i \in Int /\ i - 1 \in Int /\ i <= n /\ i - 1 <= n
    BY <1>1
  <2> QED
    BY <1>3, <2>1, <2>2, <2>3, <2>4
<1>6. ASSUME NEW i \in 1 .. Len(t), NEW k \in 0 .. h - 1, FirstStore(t, i, n, a, k, key, q)
      PROVE  Good(i)
  <2>1. t[i].cell = <<key, k>> /\ t[i].value = q[k] /\ i = n + a + 2 * k + 1
    BY <1>6 DEF FirstStore
  <2>2. FitsIn(s, key, k, p[k], q[k])
    BY <1>2
  <2>3. n \in Int /\ n <= n /\ i \in Int /\ i - 1 \in Int /\ n <= i /\ n <= i - 1
    BY <1>11, <2>1
  <2>4. q[k] # Null => Tower(t, q[k], k, n) /\ Listed(t, q[k], n)
    BY <1>3, <2>2, <2>3 DEF FitsIn, n
  <2>5. q[k] # Null => Tower(t, q[k], k, i - 1) /\ Listed(t, q[k], i)
    BY <1>4, <2>3, <2>4
  <2>6. 0 \in 0 .. h - 1 /\ n + a + 2 * 0 + 1 \in 1 .. i
    BY <1>1, <2>1
  <2>7. t[n + a + 2 * 0 + 1].cell = <<key, 0>>
    BY <1>1, <2>6, Zenon DEF FirstStore
  <2>8. Stored(t, <<key, 0>>, i)
    BY <2>6, <2>7 DEF Stored
  <2> QED
    BY <2>1, <2>5, <2>8
<1>7. ASSUME NEW i \in 1 .. Len(t), NEW k \in 0 .. h - 1, IsSecond(t, i, n, a, k, key, p)
      PROVE  Good(i)
  <2>1. t[i].cell = <<p[k], k>> /\ t[i].value = key /\ i = n + a + 2 * k + 2
    BY <1>7 DEF IsSecond
  <2>2. FitsIn(s, key, k, p[k], q[k])
    BY <1>2
  <2>3. n \in Int /\ n <= n /\ i \in Int /\ n <= i
    BY <1>11, <2>1
  <2>4. Tower(t, p[k], k, i)
    BY <1>3, <1>4, <2>2, <2>3 DEF FitsIn, n
  <2>5. Stored(t, <<p[k], 0>>, i)
    BY <2>4 DEF Tower
  <2>6. Tower(t, key, k, i - 1)
    <3>1. ASSUME NEW l2 \in 0 .. k
          PROVE  Stored(t, <<key, l2>>, i - 1)
      <4>1. l2 \in 0 .. h - 1 /\ n + a + 2 * l2 + 1 \in 1 .. i - 1
        BY <1>11, <2>1
      <4>2. t[n + a + 2 * l2 + 1].cell = <<key, l2>>
        BY <1>1, <4>1, Zenon DEF FirstStore
      <4> QED
        BY <4>1, <4>2 DEF Stored
    <3> QED
      BY <3>1 DEF Tower
  <2>7. Listed(t, key, i)
    <3>1. 0 \in 0 .. h - 1 /\ n + a + 2 * 0 + 2 \in 1 .. i
      BY <1>11, <2>1
    <3>2. IsSecond(t, n + a + 2 * 0 + 2, n, a, 0, key, p)
      BY <1>1, <3>1, Zenon
    <3>3. p[0] \in Nodes
      <4>1. FitsIn(s, key, 0, p[0], q[0])
        BY <1>2, <3>1, Zenon
      <4> QED
        BY <1>1, <4>1, SMTT(40) DEF FitsIn, Nodes
    <3>4. IsLink(t, n + a + 2 * 0 + 2, key)
      BY <3>2, <3>3 DEF IsSecond, IsLink
    <3> QED
      BY <3>1, <3>4 DEF Listed
  <2> QED
    BY <2>1, <2>5, <2>6, <2>7
<1>8. ASSUME NEW i \in 1 .. Len(t), IsTop(t, i, n, h, a)
      PROVE  Good(i)
  BY <1>8 DEF IsTop, MaxHeightCell, Nodes
<1>9. \A i \in 1 .. Len(t) : Good(i)
  <2> HIDE DEF Good
  <2> TAKE i \in 1 .. Len(t)
  <2>1. i \in 1 .. n \/ i \in n + 1 .. Len(t)
    BY <1>1
  <2> QED
    BY <1>1, <1>5, <1>6, <1>7, <1>8, <2>1
<1> QED
  BY <1>9 DEF PointersBuilt, BottomFirst

LEMMA InsertRelaxes ==
    ASSUME NEW s, NEW t, NEW key, NEW h, NEW a, NEW p, NEW q, NEW top,
           Inserts(s, t, key, h, a, p, q, top)
    PROVE  RelaxedFirst(t)
<1> USE SkipListAssumption
<1> DEFINE n == Len(s)
<1>0. Appended(s, t, n, key, h, a, p, q)
  BY NewCells, Zenon
<1>1. /\ n \in Nat /\ n > MaxHeight /\ Len(t) = n + a + 2 * h /\ a \in {0, 1} /\ h \in 1 .. MaxHeight
      /\ key \in 1 .. MaxKey
      /\ \A i \in 1 .. n : t[i] = s[i] /\ i \in 1 .. Len(t)
      /\ \A i \in n + 1 .. Len(t) : \/ IsTop(t, i, n, h, a)
                                    \/ \E l \in 0 .. h - 1 : FirstStore(t, i, n, a, l, key, q)
                                    \/ \E l \in 0 .. h - 1 : IsSecond(t, i, n, a, l, key, p)
      /\ \A l \in 0 .. h - 1 : l \in Levels
  BY <1>0 DEF Appended
<1>2. \A l \in 0 .. h - 1 : p[l] \in 0 .. key - 1
  BY DEF Inserts, FitsIn
<1>3. RelaxedFirst(s) /\ \A l \in Levels : ~Stored(s, <<key, l>>, n)
  BY DEF Inserts, StoresGood
<1> SUFFICES ASSUME NEW i \in 1 .. Len(t), NEW x \in Nodes, NEW l \in Levels,
                    t[i].cell = <<x, l>>, ~t[i].release, NEW j \in 1 .. i - 1, t[j].cell = <<x, l>>
             PROVE  FALSE
  BY DEF RelaxedFirst
<1>4. CASE i \in 1 .. n
  <2>1. j \in 1 .. n
    BY <1>1, <1>4
  <2> QED
    BY <1>1, <1>3, <1>4, <2>1 DEF RelaxedFirst
<1>5. CASE i \in n + 1 .. Len(t)
  <2>1. ~IsTop(t, i, n, h, a)
    BY DEF IsTop, MaxHeightCell, Nodes
  <2>2. PICK k \in 0 .. h - 1 : FirstStore(t, i, n, a, k, key, q)
    BY <1>1, <1>5, <2>1 DEF IsSecond
  <2>3. x = key /\ l = k /\ i = n + a + 2 * k + 1
    BY <2>2 DEF FirstStore
  <2>4. CASE j \in 1 .. n
    BY <1>1, <1>3, <2>3, <2>4 DEF Stored
  <2>5. CASE j \in n + 1 .. Len(t)
    <3>1. ~IsTop(t, j, n, h, a)
      BY DEF IsTop, MaxHeightCell, Nodes
    <3>2. \A k2 \in 0 .. h - 1 : ~FirstStore(t, j, n, a, k2, key, q)
      BY <1>1, <2>3 DEF FirstStore
    <3>3. \A k2 \in 0 .. h - 1 : ~IsSecond(t, j, n, a, k2, key, p)
      BY <1>1, <1>2, <2>3 DEF IsSecond
    <3> QED
      BY <1>1, <2>5, <3>1, <3>2, <3>3
  <2> QED
    BY <1>1, <2>4, <2>5
<1> QED
  BY <1>1, <1>4, <1>5

(* Which nodes the list has, before the new node is linked in and after.   *)
LEMMA InsertLists ==
    ASSUME NEW s, NEW t, NEW key, NEW h, NEW a, NEW p, NEW q, NEW top,
           Inserts(s, t, key, h, a, p, q, top), NEW m \in Len(s) + 1 .. Len(t)
    PROVE  /\ m < Len(s) + a + 2 => \A k : Listed(t, k, m) <=> Listed(s, k, Len(s))
           /\ m >= Len(s) + a + 2 => \A k : Listed(t, k, m) <=> Listed(s, k, Len(s)) \/ k = key
<1> USE SkipListAssumption
<1> DEFINE n == Len(s)
<1>0. Appended(s, t, n, key, h, a, p, q)
  BY NewCells, Zenon
<1>1. n \in Nat /\ Len(t) = n + a + 2 * h /\ a \in {0, 1} /\ h \in 1 .. MaxHeight /\ key \in 1 .. MaxKey
  BY <1>0 DEF Appended
<1>2. /\ \A i \in 1 .. n : t[i] = s[i] /\ i \in 1 .. Len(t)
      /\ \A i \in n + 1 .. Len(t) : \/ IsTop(t, i, n, h, a)
                                    \/ \E l \in 0 .. h - 1 : FirstStore(t, i, n, a, l, key, q)
                                    \/ \E l \in 0 .. h - 1 : IsSecond(t, i, n, a, l, key, p)
  BY <1>0 DEF Appended
<1>3. 0 \in 0 .. h - 1
  BY <1>1
<1>4. IsSecond(t, n + a + 2 * 0 + 2, n, a, 0, key, p)
  BY <1>0, <1>3, Zenon DEF Appended
<1>5. p[0] \in Nodes
  <2>1. FitsIn(s, key, 0, p[0], q[0])
    BY <1>3, Zenon DEF Inserts
  <2> QED
    BY <1>1, <2>1, SMTT(40) DEF FitsIn, Nodes
<1>6. n + a + 2 * 0 + 2 = n + a + 2
  BY <1>1
<1>7. IsLink(t, n + a + 2, key)
  BY <1>4, <1>5, <1>6 DEF IsSecond, IsLink
<1>8. ASSUME NEW i \in n + 1 .. Len(t), NEW k, IsLink(t, i, k)
      PROVE  i = n + a + 2 /\ k = key
  <2>1. t[i].release /\ t[i].value = k /\ \E x \in Nodes : t[i].cell = <<x, 0>>
    BY <1>8 DEF IsLink
  <2>2. PICK l \in 0 .. h - 1 : IsSecond(t, i, n, a, l, key, p)
    BY <1>2, <2>1 DEF IsTop, FirstStore
  <2>3. l = 0 /\ k = key
    BY <2>1, <2>2 DEF IsSecond
  <2> QED
    BY <1>1, <2>2, <2>3 DEF IsSecond
<1>9. \A i \in 1 .. n : \A k : IsLink(t, i, k) <=> IsLink(s, i, k)
  BY <1>2 DEF IsLink
<1>10. \A i \in 1 .. n : i \in 1 .. m
  BY <1>1
<1>11. \A i \in 1 .. m : i \in 1 .. n \/ i \in n + 1 .. Len(t)
  BY <1>1
<1> HIDE DEF n
<1>12. \A k : Listed(t, k, m) <=> Listed(s, k, n) \/ (k = key /\ n + a + 2 \in 1 .. m)
  <2> TAKE k
  <2>1. Listed(t, k, m) => Listed(s, k, n) \/ (k = key /\ n + a + 2 \in 1 .. m)
    BY <1>8, <1>9, <1>11 DEF Listed
  <2>2. Listed(s, k, n) => Listed(t, k, m)
    BY <1>9, <1>10 DEF Listed
  <2>3. k = key /\ n + a + 2 \in 1 .. m => Listed(t, k, m)
    BY <1>7 DEF Listed
  <2> QED
    BY <2>1, <2>2, <2>3
<1>13. n + a + 2 \in 1 .. m <=> m >= n + a + 2
  BY <1>1
<1>14. m < n + a + 2 => ~(m >= n + a + 2)
  BY <1>1
<1> QED
  BY <1>12, <1>13, <1>14 DEF n

(* The last store to a node's level 0. *)
BottomIs(s, t, n, key, a, p, q, m, x, i) ==
    \/ x = key /\ t[i].value = q[0]
    \/ x = p[0] /\ m >= n + a + 2 /\ t[i].value = key
    \/ /\ x # key /\ (m >= n + a + 2 => x # p[0])
       /\ i \in 1 .. n /\ LastStore(s, <<x, 0>>, n, i) /\ t[i].value = s[i].value

LEMMA InsertBottom ==
    ASSUME NEW s, NEW t, NEW key, NEW h, NEW a, NEW p, NEW q, NEW top,
           Inserts(s, t, key, h, a, p, q, top), NEW m \in Len(s) + 1 .. Len(t)
    PROVE  \A x \in Nodes, i \in 1 .. m :
              LastStore(t, <<x, 0>>, m, i) => BottomIs(s, t, Len(s), key, a, p, q, m, x, i)
<1> USE SkipListAssumption
<1> DEFINE n == Len(s)
<1>0. Appended(s, t, n, key, h, a, p, q)
  BY NewCells, Zenon
<1>1. n \in Nat /\ Len(t) = n + a + 2 * h /\ a \in {0, 1} /\ h \in 1 .. MaxHeight /\ key \in 1 .. MaxKey
  BY <1>0 DEF Appended
<1>2. /\ \A j \in 1 .. n : t[j] = s[j] /\ j \in 1 .. Len(t)
      /\ \A j \in n + 1 .. Len(t) : \/ IsTop(t, j, n, h, a)
                                    \/ \E l \in 0 .. h - 1 : FirstStore(t, j, n, a, l, key, q)
                                    \/ \E l \in 0 .. h - 1 : IsSecond(t, j, n, a, l, key, p)
  BY <1>0 DEF Appended
<1>3. 0 \in 0 .. h - 1
  BY <1>1
<1> SUFFICES ASSUME NEW x \in Nodes, NEW i \in 1 .. m, LastStore(t, <<x, 0>>, m, i)
             PROVE  BottomIs(s, t, n, key, a, p, q, m, x, i)
  OBVIOUS
<1>4. t[n + a + 2].cell = <<p[0], 0>>
  <2>1. IsSecond(t, n + a + 2 * 0 + 2, n, a, 0, key, p)
    BY <1>0, <1>3, Zenon DEF Appended
  <2>2. n + a + 2 * 0 + 2 = n + a + 2
    BY <1>1
  <2> QED
    BY <2>1, <2>2 DEF IsSecond
<1>5. p[0] # key
  <2>1. FitsIn(s, key, 0, p[0], q[0])
    BY <1>3, Zenon DEF Inserts
  <2> QED
    BY <1>1, <2>1 DEF FitsIn
<1>6. \A j \in 1 .. n : s[j].cell # <<key, 0>>
  BY SMTT(40) DEF Inserts, Stored, Levels
<1>7. t[i].cell = <<x, 0>> /\ \A j \in 1 .. m : t[j].cell = <<x, 0>> => j <= i
  BY DEF LastStore
<1> HIDE DEF n
<1>8. CASE i \in 1 .. n
  <2>1. t[i] = s[i] /\ x # key
    BY <1>2, <1>6, <1>7, <1>8
  <2>2. \A j \in 1 .. n : j \in 1 .. m
    BY <1>1 DEF n
  <2>3. LastStore(s, <<x, 0>>, n, i)
    BY <1>2, <1>7, <1>8, <2>2 DEF LastStore
  <2>4. m >= n + a + 2 => x # p[0]
    <3>1. m >= n + a + 2 => n + a + 2 \in 1 .. m /\ ~(n + a + 2 <= i)
      BY <1>1, <1>8
    <3> QED
      BY <1>4, <1>7, <3>1
  <2> QED
    BY <1>8, <2>1, <2>3, <2>4 DEF BottomIs
<1>9. CASE i \in n + 1 .. Len(t)
  <2>1. ~IsTop(t, i, n, h, a)
    BY <1>7 DEF IsTop, MaxHeightCell, Nodes
  <2>2. ASSUME NEW l \in 0 .. h - 1, FirstStore(t, i, n, a, l, key, q)
        PROVE  x = key /\ t[i].value = q[0]
    BY <1>7, <2>2 DEF FirstStore
  <2>3. ASSUME NEW l \in 0 .. h - 1, IsSecond(t, i, n, a, l, key, p)
        PROVE  x = p[0] /\ m >= n + a + 2 /\ t[i].value = key
    <3>1. l = 0 /\ x = p[0] /\ t[i].value = key /\ i = n + a + 2 * 0 + 2
      BY <1>7, <2>3 DEF IsSecond
    <3> QED
      BY <1>1, <3>1 DEF n
  <2> QED
    BY <1>2, <1>9, <2>1, <2>2, <2>3 DEF BottomIs
<1>10. i \in 1 .. n \/ i \in n + 1 .. Len(t)
  BY <1>1 DEF n
<1> QED
  BY <1>8, <1>9, <1>10

(* A key k between x and v, and between p0 and q0, where x is not p0: p0 or *)
(* x is a node between the neighbours of the other.                         *)
NotAround(M, x, p0, q0, v) ==
    /\ x < p0 => p0 # 0 /\ p0 \in 1 .. M /\ p0 < v
    /\ p0 < x => x # 0 /\ x \in 1 .. M /\ x < q0
    /\ x < p0 \/ p0 < x \/ x = p0

LEMMA AroundOneKey ==
    ASSUME NEW M \in Nat, NEW k \in 1 .. M, NEW x \in 0 .. M, NEW p0 \in 0 .. k - 1,
           NEW q0 \in k + 1 .. M + 1, NEW v \in x + 1 .. M + 1, x < k, k < v
    PROVE  NotAround(M, x, p0, q0, v)
  BY DEF NotAround

LEMMA InsertSorts ==
    ASSUME NEW s, NEW t, NEW key, NEW h, NEW a, NEW p, NEW q, NEW top,
           Inserts(s, t, key, h, a, p, q, top)
    PROVE  Sorted(t)
<1> USE SkipListAssumption
<1> DEFINE n == Len(s)
<1>0. Appended(s, t, n, key, h, a, p, q)
  BY NewCells, Zenon
<1>1. /\ n \in Nat /\ n > MaxHeight /\ Len(t) = n + a + 2 * h /\ a \in {0, 1} /\ h \in 1 .. MaxHeight
      /\ key \in 1 .. MaxKey /\ \A i \in 1 .. n : t[i] = s[i]
  BY <1>0 DEF Appended
<1>2. Sorted(s) /\ ~Listed(s, key, n) /\ Ascends(s)
  BY DEF Inserts, StoresGood
<1>3. SortedAt(s, n)
  BY <1>1, <1>2 DEF Sorted
<1>4. FitsIn(s, key, 0, p[0], q[0])
  <2>1. 0 \in 0 .. h - 1
    BY <1>1
  <2> QED
    BY <2>1, Zenon DEF Inserts
<1>5. /\ p[0] \in 0 .. key - 1 /\ p[0] \in Nodes /\ q[0] \in key + 1 .. Null
      /\ p[0] = HeadNode \/ Listed(s, p[0], n)
      /\ q[0] = Null \/ Listed(s, q[0], n)
  BY <1>1, <1>4, SMTT(40) DEF FitsIn, Nodes
<1>6. PICK i0 \in 1 .. n : LastStore(s, <<p[0], 0>>, n, i0) /\ s[i0].value = q[0]
  BY <1>4 DEF FitsIn
<1>7. \A k \in 1 .. MaxKey : Listed(s, k, n) => ~(p[0] < k /\ k < q[0])
  BY <1>3, <1>5, <1>6 DEF SortedAt
<1> SUFFICES ASSUME NEW m \in 1 .. Len(t)
             PROVE  SortedAt(t, m)
  BY DEF Sorted
<1>8. CASE m \in 1 .. n
  <2>1. /\ \A k : Listed(t, k, m) <=> Listed(s, k, m)
        /\ \A cell, i : LastStore(t, cell, m, i) <=> LastStore(s, cell, m, i)
    <3> HIDE DEF n
    <3>1. m \in Int /\ m <= n
      BY <1>8
    <3> QED
      BY <1>1, <3>1, OldStays
  <2>2. SortedAt(s, m) /\ \A i \in 1 .. m : t[i] = s[i]
    BY <1>1, <1>2, <1>8 DEF Sorted
  <2> HIDE DEF n
  <2> QED
    BY <2>1, <2>2 DEF SortedAt
<1>9. CASE m \in n + 1 .. Len(t)
  <2> DEFINE linked == m >= n + a + 2
  <2>1. \A k : Listed(t, k, m) <=> Listed(s, k, n) \/ (linked /\ k = key)
    <3>1. linked \/ m < n + a + 2
      BY <1>1
    <3>2. /\ m < n + a + 2 => \A k : Listed(t, k, m) <=> Listed(s, k, n)
          /\ m >= n + a + 2 => \A k : Listed(t, k, m) <=> Listed(s, k, n) \/ k = key
      BY <1>9, InsertLists, Zenon
    <3>3. ~(m >= n + a + 2 /\ m < n + a + 2)
      BY <1>1
    <3> QED
      BY <3>1, <3>2, <3>3
  <2> SUFFICES ASSUME NEW x \in Nodes, NEW i \in 1 .. m, x = HeadNode \/ Listed(t, x, m),
                      LastStore(t, <<x, 0>>, m, i)
               PROVE  /\ t[i].value = Null \/ Listed(t, t[i].value, m)
                      /\ \A k \in 1 .. MaxKey : Listed(t, k, m) => ~(x < k /\ k < t[i].value)
    BY DEF SortedAt
  <2>2. \/ x = key /\ t[i].value = q[0]
        \/ x = p[0] /\ linked /\ t[i].value = key
        \/ /\ x # key /\ (linked => x # p[0])
           /\ i \in 1 .. n /\ LastStore(s, <<x, 0>>, n, i) /\ t[i].value = s[i].value
    <3>1. BottomIs(s, t, n, key, a, p, q, m, x, i)
      BY <1>9, InsertBottom, Zenon
    <3> QED
      BY <3>1 DEF BottomIs
  <2>10. \A k \in 1 .. MaxKey : Listed(t, k, m) => k = key \/ Listed(s, k, n)
    BY <2>1
  <2> HIDE DEF n, linked
  <2>3. CASE x = key /\ t[i].value = q[0]
    <3>1. t[i].value = Null \/ Listed(t, t[i].value, m)
      BY <1>5, <2>1, <2>3
    <3>2. \A k \in 1 .. MaxKey : Listed(t, k, m) => ~(x < k /\ k < t[i].value)
      BY <1>1, <1>5, <1>7, <2>10, <2>3
    <3> QED
      BY <3>1, <3>2
  <2>4. CASE x = p[0] /\ linked /\ t[i].value = key
    <3>1. Listed(t, t[i].value, m)
      BY <2>1, <2>4
    <3>2. \A k \in 1 .. MaxKey : Listed(t, k, m) => ~(x < k /\ k < t[i].value)
      BY <1>1, <1>5, <1>7, <2>10, <2>4 DEF Null
    <3> QED
      BY <3>1, <3>2
  <2>5. CASE /\ x # key /\ (linked => x # p[0])
             /\ i \in 1 .. n /\ LastStore(s, <<x, 0>>, n, i) /\ t[i].value = s[i].value
    <3>1. x = HeadNode \/ Listed(s, x, n)
      BY <2>1, <2>5
    <3>2. /\ s[i].value = Null \/ Listed(s, s[i].value, n)
          /\ \A k \in 1 .. MaxKey : Listed(s, k, n) => ~(x < k /\ k < s[i].value)
      BY <1>3, <2>5, <3>1 DEF SortedAt
    <3>3. s[i].value \in x + 1 .. Null
      <4>1. s[i].cell = <<x, 0>> /\ 0 \in Levels /\ i \in 1 .. Len(s)
        BY <1>1, <2>5 DEF LastStore, Levels, n
      <4> QED
        BY <1>2, <4>1 DEF Ascends
    <3>4. linked => ~(x < key /\ key < s[i].value)
      <4> SUFFICES ASSUME linked, x < key, key < s[i].value
                   PROVE  FALSE
        OBVIOUS
      <4>0. /\ key \in 1 .. MaxKey /\ p[0] \in 0 .. key - 1 /\ q[0] \in key + 1 .. Null
            /\ x \in 0 .. MaxKey /\ s[i].value \in x + 1 .. Null
        <5>1. key \in 1 .. MaxKey
          BY <1>1
        <5>2. p[0] \in 0 .. key - 1 /\ q[0] \in key + 1 .. Null
          BY <1>5
        <5>3. x \in 0 .. MaxKey
          BY DEF Nodes
        <5> QED
          BY <3>3, <5>1, <5>2, <5>3
      <4> HIDE DEF linked
      <4>1. NotAround(MaxKey, x, p[0], q[0], s[i].value)
        <5>1. MaxKey \in Nat /\ s[i].value \in x + 1 .. MaxKey + 1 /\ q[0] \in key + 1 .. MaxKey + 1
          BY <4>0 DEF Null
        <5> QED
          BY <4>0, <5>1, AroundOneKey, Zenon
      <4>2. CASE x < p[0]
        BY <1>5, <3>2, <4>1, <4>2 DEF NotAround, HeadNode
      <4>3. CASE p[0] < x
        BY <1>7, <3>1, <4>1, <4>3 DEF NotAround, HeadNode
      <4> QED
        BY <2>5, <4>1, <4>2, <4>3 DEF NotAround
    <3>5. \A k \in 1 .. MaxKey : Listed(t, k, m) => ~(x < k /\ k < t[i].value)
      <4> TAKE k \in 1 .. MaxKey
      <4>1. CASE Listed(s, k, n)
        BY <2>5, <3>2, <4>1
      <4>2. CASE linked /\ k = key
        BY <2>5, <3>4, <4>2
      <4> QED
        BY <2>1, <4>1, <4>2
    <3>6. t[i].value = Null \/ Listed(t, t[i].value, m)
      BY <2>1, <2>5, <3>2
    <3> QED
      BY <3>5, <3>6
  <2> QED
    BY <2>2, <2>3, <2>4, <2>5
<1>10. m \in 1 .. n \/ m \in n + 1 .. Len(t)
  BY <1>1
<1> QED
  BY <1>8, <1>9, <1>10

LEMMA ConcatParts ==
    ASSUME NEW S, NEW u \in Seq(S), NEW v \in Seq(S)
    PROVE  /\ u \o v \in Seq(S) /\ Len(u \o v) = Len(u) + Len(v)
           /\ \A i \in 1 .. Len(u) : (u \o v)[i] = u[i]
           /\ \A i \in 1 .. Len(v) : (u \o v)[Len(u) + i] = v[i]
<1>1. Len(u) \in Nat /\ Len(v) \in Nat
  BY LenProperties
<1>2. /\ u \o v \in Seq(S) /\ Len(u \o v) = Len(u) + Len(v)
      /\ \A i \in 1 .. Len(u) + Len(v) : (u \o v)[i] = IF i <= Len(u) THEN u[i] ELSE v[i - Len(u)]
  BY ConcatProperties
<1>3. \A i \in 1 .. Len(u) : (u \o v)[i] = u[i]
  BY <1>1, <1>2
<1>4. ASSUME NEW i \in 1 .. Len(v)
      PROVE  (u \o v)[Len(u) + i] = v[i]
  <2>1. Len(u) + i \in 1 .. Len(u) + Len(v) /\ ~(Len(u) + i <= Len(u)) /\ (Len(u) + i) - Len(u) = i
    BY <1>1
  <2> QED
    BY <1>2, <2>1
<1> QED
  BY <1>2, <1>3, <1>4

LEMMA LinksAre ==
    ASSUME WriterInv, plan = <<>>, NEW key \in 1 .. MaxKey, NEW h \in 1 .. MaxHeight,
           StoreAt(<<key, 0>>, Now) = 0, NEW p, p = PrevOf(key)
    PROVE  /\ Links(key, h, p) \in Seq(Store) /\ Len(Links(key, h, p)) = 2 * h
           /\ \A l \in 0 .. h - 1 :
                /\ Links(key, h, p)[2 * l + 1] = NoBarrierSetNext(<<key, l>>, NodeNext(p[l], l))
                /\ Links(key, h, p)[2 * l + 2] = SetNext(<<p[l], l>>, key)
<1> USE SkipListAssumption
<1> DEFINE f == Links(key, h, p)
<1>1. \A l \in 0 .. h - 1 :
         /\ NoBarrierSetNext(<<key, l>>, NodeNext(p[l], l)) \in Store
         /\ SetNext(<<p[l], l>>, key) \in Store
  <2> TAKE l \in 0 .. h - 1
  <2>1. l \in Levels
    BY DEF Levels
  <2>2. p[l] \in 0 .. key - 1 /\ NodeNext(p[l], l) \in key + 1 .. Null
    BY <2>1, PrevHolds DEF Fits, Below
  <2>3. key \in Nodes /\ p[l] \in Nodes /\ NodeNext(p[l], l) \in Int
    BY <2>2 DEF Nodes, Null
  <2> QED
    BY <2>1, <2>3 DEF NoBarrierSetNext, SetNext, Store
<1>2. \A i \in 1 .. 2 * h :
         f[i] = Link(key, (i - 1) \div 2, p[(i - 1) \div 2])[((i - 1) % 2) + 1]
  BY DEF Links
<1>3. f = [i \in 1 .. 2 * h |-> f[i]]
  BY DEF Links
<1> HIDE DEF f
<1>4. ASSUME NEW l \in 0 .. h - 1
      PROVE  /\ f[2 * l + 1] = NoBarrierSetNext(<<key, l>>, NodeNext(p[l], l))
             /\ f[2 * l + 2] = SetNext(<<p[l], l>>, key)
  <2>1. 2 * l + 1 \in 1 .. 2 * h /\ 2 * l + 2 \in 1 .. 2 * h
    OBVIOUS
  <2>2. /\ ((2 * l + 1) - 1) \div 2 = l /\ ((2 * l + 1) - 1) % 2 = 0
        /\ ((2 * l + 2) - 1) \div 2 = l /\ ((2 * l + 2) - 1) % 2 = 1
    OBVIOUS
  <2>3. f[2 * l + 1] = Link(key, l, p[l])[0 + 1] /\ f[2 * l + 2] = Link(key, l, p[l])[1 + 1]
    <3>1. f[2 * l + 1] = Link(key, ((2 * l + 1) - 1) \div 2, p[((2 * l + 1) - 1) \div 2])[(((2 * l + 1) - 1) % 2) + 1]
      BY <1>2, <2>1, Zenon
    <3>2. f[2 * l + 2] = Link(key, ((2 * l + 2) - 1) \div 2, p[((2 * l + 2) - 1) \div 2])[(((2 * l + 2) - 1) % 2) + 1]
      BY <1>2, <2>1, Zenon
    <3> QED
      BY <2>2, <3>1, <3>2
  <2> QED
    BY <2>3 DEF Link
<1>5. ASSUME NEW i \in 1 .. 2 * h
      PROVE  f[i] \in Store
  <2> DEFINE l == (i - 1) \div 2
  <2>1. l \in 0 .. h - 1 /\ (i = 2 * l + 1 \/ i = 2 * l + 2)
    OBVIOUS
  <2> HIDE DEF l
  <2> QED
    BY <1>1, <1>4, <2>1
<1>6. f \in [1 .. 2 * h -> Store] /\ 2 * h \in Nat
  BY <1>3, <1>5
<1>7. f \in Seq(Store)
  BY <1>6, SeqDef
<1>8. Len(f) = 2 * h
  <2>1. DOMAIN f = 1 .. Len(f) /\ Len(f) \in Nat
    BY <1>7, LenProperties
  <2>2. DOMAIN f = 1 .. 2 * h
    BY <1>6
  <2> QED
    BY <1>6, <2>1, <2>2
<1> QED
  BY <1>4, <1>7, <1>8 DEF f

(* ListInsert plans what Inserts describes. *)
LEMMA InsertPlans ==
    ASSUME SkipInv, NEW key \in 1 .. MaxKey, NEW h \in 1 .. MaxHeight, ListInsert(key, h)
    PROVE  /\ plan' \in Seq(Store) /\ Len(History) = Len(stores)
           /\ \E a, p, q : Inserts(History, History', key, h, a, p, q, height)
<1> USE SkipListAssumption
<1> DEFINE n == Len(stores)
           a == IF h > height THEN 1 ELSE 0
           p == PrevOf(key)
           q == [l \in Levels |-> NodeNext(p[l], l)]
           f == Links(key, h, p)
           e == IF h > height THEN <<NoBarrierSetNext(MaxHeightCell, h)>> ELSE <<>>
           s == History
           t == History'
<1>1. /\ WriterInv /\ stores \in Seq(Store) /\ plan \in Seq(Store) /\ plan = <<>>
      /\ StoreAt(<<key, 0>>, Now) = 0 /\ height \in 1 .. MaxHeight
      /\ StoresGood(s, height)
  BY DEF SkipInv, WriterInv, ListInsert
<1>2. plan' = e \o f /\ t = stores \o plan'
  BY DEF ListInsert, History
<1>3. n \in Nat /\ s \in Seq(Store) /\ Len(s) = n /\ \A i \in 1 .. n : s[i] = stores[i]
  BY <1>1, HistoryBegins
<1>4. /\ f \in Seq(Store) /\ Len(f) = 2 * h
      /\ \A l \in 0 .. h - 1 : /\ f[2 * l + 1] = NoBarrierSetNext(<<key, l>>, NodeNext(p[l], l))
                               /\ f[2 * l + 2] = SetNext(<<p[l], l>>, key)
  BY <1>1, LinksAre
<1> HIDE DEF f, p
<1>5. a \in {0, 1} /\ e \in Seq(Store) /\ Len(e) = a /\ \A i \in 1 .. a : e[i] = NoBarrierSetNext(MaxHeightCell, h)
  <2>1. NoBarrierSetNext(MaxHeightCell, h) \in Store
    BY DEF NoBarrierSetNext, Store
  <2> QED
    BY <2>1
<1> HIDE DEF a, e
<1>6. /\ plan' \in Seq(Store) /\ Len(plan') = a + 2 * h
      /\ \A i \in 1 .. a : plan'[i] = e[i]
      /\ \A i \in 1 .. 2 * h : plan'[a + i] = f[i]
  <2>1. /\ e \o f \in Seq(Store) /\ Len(e \o f) = a + 2 * h
        /\ \A i \in 1 .. Len(e) : (e \o f)[i] = e[i]
        /\ \A i \in 1 .. Len(f) : (e \o f)[Len(e) + i] = f[i]
    <3>1. /\ e \o f \in Seq(Store) /\ Len(e \o f) = Len(e) + Len(f)
          /\ \A i \in 1 .. Len(e) : (e \o f)[i] = e[i]
          /\ \A i \in 1 .. Len(f) : (e \o f)[Len(e) + i] = f[i]
      <4>1. \A u, v \in Seq(Store) :
               /\ u \o v \in Seq(Store) /\ Len(u \o v) = Len(u) + Len(v)
               /\ \A i \in 1 .. Len(u) : (u \o v)[i] = u[i]
               /\ \A i \in 1 .. Len(v) : (u \o v)[Len(u) + i] = v[i]
        BY ConcatParts
      <4>2. e \in Seq(Store) /\ f \in Seq(Store)
        BY <1>4, <1>5
      <4> HIDE DEF n, q, s, t
      <4> QED
        BY <4>1, <4>2, Zenon
    <3> QED
      BY <1>4, <1>5, <3>1
  <2> QED
    BY <1>2, <1>4, <1>5, <2>1
<1>7. /\ t \in Seq(Store) /\ Len(t) = n + a + 2 * h
      /\ \A i \in 1 .. n : t[i] = stores[i]
      /\ \A i \in 1 .. a + 2 * h : t[n + i] = plan'[i]
  <2>1. /\ t \in Seq(Store) /\ Len(t) = n + Len(plan')
        /\ \A i \in 1 .. n : t[i] = stores[i]
        /\ \A i \in 1 .. Len(plan') : t[n + i] = plan'[i]
    BY <1>1, <1>2, <1>6, ConcatProperties
  <2>2. n + (a + 2 * h) = n + a + 2 * h
    BY <1>3, <1>5
  <2> QED
    BY <1>6, <2>1, <2>2
<1> HIDE DEF n, s, t
<1>8. \A i \in n + 1 .. n + a : t[i] = NoBarrierSetNext(MaxHeightCell, h)
  <2> TAKE i \in n + 1 .. n + a
  <2>1. i - n \in 1 .. a /\ i - n \in 1 .. a + 2 * h /\ n + (i - n) = i
    BY <1>3, <1>5
  <2>2. t[n + (i - n)] = plan'[i - n] /\ plan'[i - n] = e[i - n]
    BY <1>6, <1>7, <2>1, Zenon
  <2> QED
    BY <1>5, <2>1, <2>2
<1>9. \A l \in 0 .. h - 1 : /\ t[n + a + 2 * l + 1] = NoBarrierSetNext(<<key, l>>, q[l])
                            /\ t[n + a + 2 * l + 2] = SetNext(<<p[l], l>>, key)
  <2> TAKE l \in 0 .. h - 1
  <2>1. /\ 2 * l + 1 \in 1 .. 2 * h /\ a + (2 * l + 1) \in 1 .. a + 2 * h
        /\ 2 * l + 2 \in 1 .. 2 * h /\ a + (2 * l + 2) \in 1 .. a + 2 * h
        /\ n + (a + (2 * l + 1)) = n + a + 2 * l + 1 /\ n + (a + (2 * l + 2)) = n + a + 2 * l + 2
        /\ l \in Levels
    BY <1>3, <1>5 DEF Levels
  <2>2. /\ t[n + (a + (2 * l + 1))] = plan'[a + (2 * l + 1)] /\ plan'[a + (2 * l + 1)] = f[2 * l + 1]
        /\ t[n + (a + (2 * l + 2))] = plan'[a + (2 * l + 2)] /\ plan'[a + (2 * l + 2)] = f[2 * l + 2]
    BY <1>6, <1>7, <2>1, Zenon
  <2>3. /\ f[2 * l + 1] = NoBarrierSetNext(<<key, l>>, NodeNext(p[l], l))
        /\ f[2 * l + 2] = SetNext(<<p[l], l>>, key)
    BY <1>4, Zenon
  <2>4. q[l] = NodeNext(p[l], l)
    BY <2>1
  <2> QED
    BY <2>1, <2>2, <2>3, <2>4
<1>10. Grows(s, t, key, h, a, p, q)
  <2> HIDE DEF q
  <2> QED
    BY <1>3, <1>5, <1>7, <1>8, <1>9 DEF Grows
<1>11. \A l \in 0 .. h - 1 : FitsIn(s, key, l, p[l], q[l])
  <2> TAKE l \in 0 .. h - 1
  <2>1. l \in Levels /\ q[l] = NodeNext(p[l], l)
    BY DEF Levels
  <2>2. Fits(key, l, p[l])
    BY <1>1, <2>1, PrevHolds DEF p
  <2> QED
    BY <1>3, <2>1, <2>2 DEF Fits, FitsIn, Below, LastValue, s, n
<1>12. (\A l \in Levels : ~Stored(s, <<key, l>>, n)) /\ ~Listed(s, key, n)
  BY <1>1, KeyIsNew DEF s, n
<1> HIDE DEF q
<1>13. Inserts(s, t, key, h, a, p, q, height)
  BY <1>1, <1>3, <1>10, <1>11, <1>12 DEF Inserts
<1> QED
  BY <1>3, <1>6, <1>13 DEF s, t, n

LEMMA InsertKeeps ==
    ASSUME SkipInv, NEW key \in 1 .. MaxKey, NEW h \in 1 .. MaxHeight, ListInsert(key, h)
    PROVE  SkipInv'
<1> USE SkipListAssumption
<1> DEFINE s == History
           t == History'
           n == Len(stores)
<1>1. /\ stores' = stores /\ published' = published /\ reader' = reader
      /\ height' = Max({height, h}) /\ height \in 1 .. MaxHeight /\ h \in 1 .. MaxHeight
      /\ stores \in Seq(Store) /\ published \in MaxHeight + 1 .. n
  BY DEF ListInsert, SkipInv, WriterInv
<1>2. plan' \in Seq(Store) /\ Len(s) = n /\ \E a, p, q : Inserts(s, t, key, h, a, p, q, height)
  BY InsertPlans
<1>3. PICK a, p, q : Inserts(s, t, key, h, a, p, q, height)
  BY <1>2
<1> HIDE DEF s, t
<1>4. t \in Seq(Store) /\ n \in Nat /\ \A i \in 1 .. n : t[i] = s[i]
  BY <1>1, <1>2, <1>3, LenProperties DEF Inserts, Grows
<1>5. HeadStored(t) /\ Ascends(t) /\ HighNull(t, Max({height, h}))
  BY <1>3, InsertAscends, Zenon
<1>6. PointersBuilt(t) /\ BottomFirst(t)
  BY <1>3, InsertBuilds, Zenon
<1>7. RelaxedFirst(t) /\ Sorted(t)
  BY <1>3, InsertRelaxes, InsertSorts, Zenon
<1>8. StoresGood(t, height')
  BY <1>1, <1>4, <1>5, <1>6, <1>7 DEF StoresGood
<1>9. height' \in 1 .. MaxHeight
  <2>1. \E x \in {height, h} : \A y \in {height, h} : x >= y
    BY <1>1
  <2>2. Max({height, h}) \in {height, h}
    BY <2>1 DEF Max
  <2> QED
    BY <1>1, <2>2
<1>10. WriterInv'
  BY <1>1, <1>2, <1>8, <1>9 DEF WriterInv, t
<1>11. /\ reader.view \in Int /\ reader.view <= n /\ reader.start \in Nat
  BY <1>1, <1>4 DEF SkipInv, ReaderInv, ReaderShape
<1>12. \A m \in Int : m <= n =>
          /\ \A k, l : Tower(t, k, l, m) <=> Tower(s, k, l, m)
          /\ \A k : Listed(t, k, m) <=> Listed(s, k, m)
          /\ \A did, k, node : IsResult(t, did, k, node, m) <=> IsResult(s, did, k, node, m)
  <2> HIDE DEF n
  <2> QED
    BY <1>4, OldStays
<1>13. ReaderInv' /\ NoWildRead'
  <2>1. ReaderShape'
    BY <1>1 DEF SkipInv, ReaderInv, ReaderShape
  <2>2. reader.node # Null => Listed(t, reader.node, reader.view)
    BY <1>11, <1>12 DEF SkipInv, ReaderInv, s
  <2>3. reader.find # "none" => /\ reader.x < reader.key
                                /\ reader.x = HeadNode \/ Listed(t, reader.x, reader.view)
                                /\ Tower(t, reader.x, reader.level, reader.view)
    BY <1>11, <1>12 DEF SkipInv, ReaderInv, Searching, s
  <2>4. reader.view \in MaxHeight + 1 .. n /\ reader.start <= reader.view /\ ~reader.wild
    BY DEF SkipInv, ReaderInv, NoWildRead
  <2> QED
    BY <1>1, <2>1, <2>2, <2>3, <2>4 DEF ReaderInv, Searching, NoWildRead, t
<1>14. Atomic'
  <2>1. \A m \in reader.start .. n : m \in Int /\ m <= n
    BY <1>4, <1>11
  <2>2. reader.find = "none" /\ reader.did # "none" =>
           \E m \in reader.start .. n : IsResult(t, reader.did, reader.key, reader.node, m)
    BY <1>12, <2>1 DEF SkipInv, Atomic, s
  <2> QED
    BY <1>1, <2>2 DEF Atomic, t
<1> QED
  BY <1>10, <1>13, <1>14 DEF SkipInv

-----------------------------------------------------------------------------
(* The two promises                                                        *)

LEMMA StepKeeps ==
    ASSUME SkipInv, ListNext
    PROVE  SkipInv'
<1> USE SkipListAssumption
<1>0. ReaderShape /\ ReaderInv
  BY DEF SkipInv, ReaderInv
<1>1. CASE \E key \in 1 .. MaxKey, h \in 1 .. MaxHeight : ListInsert(key, h)
  BY <1>1, InsertKeeps
<1>2. CASE WriterStores
  BY <1>2, WriterStoresKeeps
<1>3. CASE SetLastSequence
  BY <1>3, PublishKeeps
<1>4. CASE \E key \in 1 .. MaxKey : ListSeek(key)
  <2>1. PICK key \in 1 .. MaxKey : Search("from", key)
    BY <1>4 DEF ListSeek
  <2>2. key \in 1 .. Null
    BY DEF Null
  <2> QED
    BY <2>1, <2>2, SearchKeeps
<1>5. CASE ListSeekToFirst
  <2>1. HeadNode \in Nodes
    BY DEF HeadNode, Nodes
  <2> QED
    BY <1>5, <2>1, FollowKeeps DEF ListSeekToFirst
<1>6. CASE ListSeekToLast
  <2>1. Null \in 1 .. Null
    BY DEF Null
  <2> QED
    BY <1>6, <2>1, SearchKeeps DEF ListSeekToLast
<1>7. CASE NextNode
  <2>1. reader.node \in Nodes /\ Listed(History, reader.node, reader.view)
    BY <1>0, <1>7 DEF NextNode, ReaderInv, ReaderShape, Null, Nodes
  <2> QED
    BY <1>7, <2>1, FollowKeeps DEF NextNode
<1>8. CASE ListPrev
  <2>1. reader.node \in 1 .. Null
    BY <1>0 DEF ReaderShape
  <2> QED
    BY <1>8, <2>1, SearchKeeps DEF ListPrev
<1>9. CASE SearchStep
  BY <1>9, SearchStepKeeps
<1>10. CASE Attach
  BY <1>10, AttachKeeps
<1> QED
  BY <1>1, <1>2, <1>3, <1>4, <1>5, <1>6, <1>7, <1>8, <1>9, <1>10 DEF ListNext

LEMMA StutterKeeps ==
    ASSUME SkipInv, UNCHANGED skipVars
    PROVE  SkipInv'
  BY DEF SkipInv, WriterInv, ReaderInv, ReaderShape, Searching, NoWildRead, Atomic, History, skipVars

LEMMA Invariance == ListSpec => []SkipInv
<1>1. ListInit => SkipInv
  BY InitHolds
<1>2. SkipInv /\ [ListNext]_skipVars => SkipInv'
  BY StepKeeps, StutterKeeps
<1> QED
  BY <1>1, <1>2, PTL DEF ListSpec

(* While one thread inserts, a reader that holds no lock only follows      *)
(* pointers that were written, and only to nodes whose key it is sure to   *)
(* see: however the stores of ListInsert reach it, and although max_height_ is *)
(* read without any order (skiplist.h:349-355).                            *)
THEOREM NoWildReadAlways == ListSpec => []NoWildRead
<1>1. SkipInv => NoWildRead
  BY DEF SkipInv
<1> QED
  BY <1>1, Invariance, PTL

(* ListSeek, ListSeekToFirst, ListSeekToLast, Next and ListPrev of the iterator come to    *)
(* the node that the list had at some moment between the call and its      *)
(* return: nothing that was there before is overlooked (skiplist.h:258-331).*)
THEOREM SearchIsAtomicAlways == ListSpec => []SearchIsAtomic
<1>1. SkipInv => SearchIsAtomic
  <2> SUFFICES ASSUME SkipInv, reader.find = "none", reader.did # "none"
               PROVE  \E m \in reader.start .. Now : reader.node = AtomicResult(m)
    BY DEF SearchIsAtomic
  <2>1. WriterInv /\ ReaderShape
    BY DEF SkipInv, ReaderInv
  <2>2. PICK m \in reader.start .. Len(stores) :
          IsResult(History, reader.did, reader.key, reader.node, m)
    BY DEF SkipInv, Atomic
  <2>3. reader.node = AtomicResult(m)
    BY <2>1, <2>2, ResultIsAtomic
  <2> QED
    BY <2>3 DEF Now
<1> QED
  BY <1>1, Invariance, PTL
=============================================================================
