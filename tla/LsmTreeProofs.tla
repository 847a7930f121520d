--------------------------- MODULE LsmTreeProofs ---------------------------
(***************************************************************************)
(* Theorems about LsmTree for every number of levels, keys, writes and     *)
(* clients: the version has sound types, what a read finds first is        *)
(* newest, and what somebody can read is never dropped. Both of the first  *)
(* rest on the shape of the levels and on what remains true of a           *)
(* compaction while it works without the mutex. With one client the levels *)
(* are disjoint, reads return what was written, and a manual compaction    *)
(* empties its range.                                                      *)
(***************************************************************************)
EXTENDS LsmTree, DataLemmas, FiniteSetTheorems, SequenceTheorems

-----------------------------------------------------------------------------
(* Types, and what the lists of files presuppose: numbers, and finitely many. *)
NumsTyped == \A l \in Levels : \A f \in files[l] : f.num \in Nat
Finite    == \A l \in Levels : IsFiniteSet(files[l])
ManualTyped ==
    manual # NoRequest =>
        /\ DOMAIN manual = {"level", "lo", "hi", "posted", "done", "range", "before"}
        /\ manual.level \in 0 .. NumLevels - 2 /\ manual.lo \in Keys /\ manual.hi \in Keys

Typed == TypeOK /\ nextFile \in Nat \ {0} /\ NumsTyped /\ Finite /\ ManualTyped

-----------------------------------------------------------------------------
(* The order of entries *)

(* A set of numbers that is not empty has a least element. *)
LEMMA LeastExists ==
    ASSUME NEW S, S \subseteq Nat, S # {}
    PROVE  \E m \in S : \A k \in S : m <= k
<1>1. PICK m \in S : \A k \in S : ~ (<<k, m>> \in OpToRel(<, Nat))
  BY NatLessThanWellFounded, WFMin
<1>2. \A k \in S : ~ (k < m)
  BY <1>1 DEF OpToRel
<1>3. ASSUME NEW k \in S
      PROVE  m <= k
  <2>1. m \in Nat /\ k \in Nat /\ ~(k < m)
    BY <1>1, <1>2
  <2> QED
    BY <2>1
<1> QED
  BY <1>3

(* What is known of an entry, as far as the order goes. *)
LEMMA EntryTyped ==
    ASSUME TypeOK
    PROVE  /\ LastSequence \in Nat
           /\ \A s \in Entries : s \in Nat \ {0} /\ Key(s) \in Keys /\ Key(s) \in Nat
<1>1. history \in Seq(Update)
  BY DEF TypeOK
<1>2. LastSequence \in Nat /\ \A s \in Entries : history[s] \in Update
  BY <1>1 DEF LastSequence, Entries
<1>3. \A s \in Entries : s \in Nat \ {0}
  BY <1>2 DEF Entries
<1>4. \A s \in Entries : Key(s) \in Keys
  BY <1>2 DEF Key, Update
<1>5. Keys \subseteq Nat
  BY LsmAssumption DEF Keys
<1> QED
  BY <1>2, <1>3, <1>4, <1>5

(* Precedes is a strict total order on the entries. *)
LEMMA PrecedesOrders ==
    ASSUME TypeOK
    PROVE  /\ \A s \in Entries : ~Precedes(s, s)
           /\ \A s, t \in Entries : s = t \/ Precedes(s, t) \/ Precedes(t, s)
           /\ \A s, t \in Entries : ~(Precedes(s, t) /\ Precedes(t, s))
           /\ \A s, t, u \in Entries : Precedes(s, t) /\ Precedes(t, u) => Precedes(s, u)
<1>1. \A s \in Entries : s \in Nat /\ Key(s) \in Nat
  BY EntryTyped
<1>2. \A s \in Entries : ~Precedes(s, s)
  BY <1>1 DEF Precedes
<1>3. ASSUME NEW s \in Entries, NEW t \in Entries
      PROVE  /\ s = t \/ Precedes(s, t) \/ Precedes(t, s)
             /\ ~(Precedes(s, t) /\ Precedes(t, s))
  <2>1. s \in Nat /\ Key(s) \in Nat /\ t \in Nat /\ Key(t) \in Nat
    BY <1>1
  <2> QED
    BY <2>1 DEF Precedes
<1>4. ASSUME NEW s \in Entries, NEW t \in Entries, NEW u \in Entries,
             Precedes(s, t), Precedes(t, u)
      PROVE  Precedes(s, u)
  <2>1. /\ s \in Nat /\ Key(s) \in Nat /\ t \in Nat /\ Key(t) \in Nat
        /\ u \in Nat /\ Key(u) \in Nat
    BY <1>1
  <2> QED
    BY <1>4, <2>1 DEF Precedes
<1> QED
  BY <1>2, <1>3, <1>4

(* The first and the last element of a set of entries. *)
IsFirst(e, S) == e \in S /\ \A t \in S : t = e \/ Precedes(e, t)
IsLast(e, S)  == e \in S /\ \A t \in S : t = e \/ Precedes(t, e)

(* Any set of entries has ends in the internal key order. *)
LEMMA FirstExists ==
    ASSUME TypeOK, NEW S, S \subseteq Entries, S # {}
    PROVE  \E e \in S : IsFirst(e, S)
<1>1. \A s \in S : s \in Nat /\ Key(s) \in Nat
  BY EntryTyped
<1>2. PICK k \in {Key(s) : s \in S} : \A j \in {Key(s) : s \in S} : k <= j
  <2>1. {Key(s) : s \in S} \subseteq Nat /\ {Key(s) : s \in S} # {}
    BY <1>1
  <2> QED
    BY <2>1, LeastExists
<1> DEFINE T == {s \in S : Key(s) = k}
<1>3. PICK e \in T : \A s \in T : s <= e
  <2>1. T \subseteq 1 .. LastSequence /\ T # {} /\ LastSequence \in Nat
    BY <1>2, EntryTyped DEF Entries
  <2> HIDE DEF T
  <2> QED
    BY <2>1, LastExists
<1>4. ASSUME NEW t \in S
      PROVE  t = e \/ Precedes(e, t)
  <2>1. k <= Key(t) /\ t \in Nat /\ Key(t) \in Nat /\ e \in Nat /\ Key(e) = k /\ k \in Nat
    BY <1>1, <1>2, <1>3
  <2>2. Key(t) = k => t <= e
    BY <1>3
  <2> QED
    BY <2>1, <2>2 DEF Precedes
<1> QED
  BY <1>3, <1>4 DEF IsFirst

LEMMA LastEntryExists ==
    ASSUME TypeOK, NEW S, S \subseteq Entries, S # {}
    PROVE  \E e \in S : IsLast(e, S)
<1>1. \A s \in S : s \in Nat /\ Key(s) \in Nat
  BY EntryTyped
<1>2. PICK k \in {Key(s) : s \in S} : \A j \in {Key(s) : s \in S} : j <= k
  <2>1. {Key(s) : s \in S} \subseteq 1 .. NumKeys /\ {Key(s) : s \in S} # {}
    BY EntryTyped DEF Keys
  <2>2. NumKeys \in Nat
    BY LsmAssumption
  <2> QED
    BY <2>1, <2>2, LastExists
<1> DEFINE T == {s \in S : Key(s) = k}
<1>3. PICK e \in T : \A s \in T : e <= s
  <2>1. T \subseteq Nat /\ T # {}
    BY <1>1, <1>2
  <2> HIDE DEF T
  <2> QED
    BY <2>1, LeastExists
<1>4. ASSUME NEW t \in S
      PROVE  t = e \/ Precedes(t, e)
  <2>1. Key(t) <= k /\ t \in Nat /\ Key(t) \in Nat /\ e \in Nat /\ Key(e) = k /\ k \in Nat
    BY <1>1, <1>2, <1>3
  <2>2. Key(t) = k => e <= t
    BY <1>3
  <2> QED
    BY <2>1, <2>2 DEF Precedes
<1> QED
  BY <1>3, <1>4 DEF IsLast

(* First and Last find the ends. *)
LEMMA FirstIs ==
    ASSUME TypeOK, NEW S, S \subseteq Entries, S # {}
    PROVE  IsFirst(First(S), S)
<1>1. PICK e \in S : IsFirst(e, S)
  BY FirstExists
<1>2. \A t \in S : ~Precedes(t, e)
  BY <1>1, PrecedesOrders DEF IsFirst
<1>3. First(S) \in S /\ \A t \in S : ~Precedes(t, First(S))
  BY <1>2 DEF First
<1> QED
  BY <1>3, PrecedesOrders DEF IsFirst

LEMMA LastIs ==
    ASSUME TypeOK, NEW S, S \subseteq Entries, S # {}
    PROVE  IsLast(Last(S), S)
<1>1. PICK e \in S : IsLast(e, S)
  BY LastEntryExists
<1>2. \A t \in S : ~Precedes(e, t)
  BY <1>1, PrecedesOrders DEF IsLast
<1>3. Last(S) \in S /\ \A t \in S : ~Precedes(Last(S), t)
  BY <1>2 DEF Last
<1> QED
  BY <1>3, PrecedesOrders DEF IsLast

(* The same of files. *)
LEMMA FileTyped ==
    ASSUME TypeOK, NEW l \in Levels, NEW f \in files[l]
    PROVE  f.data # {} /\ f.data \subseteq Entries
BY DEF TypeOK, AllFiles

(* smallest and largest of FileMetaData are the ends of the file. *)
LEMMA FileEnds ==
    ASSUME TypeOK, NEW l \in Levels, NEW f \in files[l]
    PROVE  IsFirst(Smallest(f), f.data) /\ IsLast(Largest(f), f.data)
BY FileTyped, FirstIs, LastIs DEF Smallest, Largest

(* Precedence in terms of keys. *)
LEMMA PrecedesByKey ==
    ASSUME TypeOK, NEW s \in Entries, NEW t \in Entries
    PROVE  /\ Precedes(s, t) => Key(s) <= Key(t)
           /\ Key(s) < Key(t) => Precedes(s, t)
           /\ Precedes(s, t) /\ Key(s) = Key(t) => s > t
<1>1. s \in Nat /\ Key(s) \in Nat /\ t \in Nat /\ Key(t) \in Nat
  BY EntryTyped
<1> QED
  BY <1>1 DEF Precedes

(* The keys of a file lie between those of its ends. *)
LEMMA FileKeys ==
    ASSUME TypeOK, NEW l \in Levels, NEW f \in files[l]
    PROVE  /\ Smallest(f) \in f.data /\ Largest(f) \in f.data
           /\ Smallest(f) \in Entries /\ Largest(f) \in Entries
           /\ \A s \in f.data : /\ s \in Entries
                                /\ Key(Smallest(f)) <= Key(s) /\ Key(s) <= Key(Largest(f))
<1>1. IsFirst(Smallest(f), f.data) /\ IsLast(Largest(f), f.data) /\ f.data \subseteq Entries
  BY FileEnds, FileTyped
<1>2. ASSUME NEW s \in f.data
      PROVE  Key(Smallest(f)) <= Key(s) /\ Key(s) <= Key(Largest(f))
  <2>1. s = Smallest(f) \/ Precedes(Smallest(f), s)
    BY <1>1 DEF IsFirst
  <2>2. s = Largest(f) \/ Precedes(s, Largest(f))
    BY <1>1 DEF IsLast
  <2>3. Smallest(f) \in Entries /\ Largest(f) \in Entries /\ s \in Entries
    BY <1>1 DEF IsFirst, IsLast
  <2>4. Key(Smallest(f)) \in Nat /\ Key(Largest(f)) \in Nat /\ Key(s) \in Nat
    BY <2>3, EntryTyped
  <2> QED
    BY <2>1, <2>2, <2>3, <2>4, PrecedesByKey
<1> QED
  BY <1>1, <1>2 DEF IsFirst, IsLast

-----------------------------------------------------------------------------
(* AddBoundaryInputs *)

(* The function that AddBoundaryInputs defines. *)
IsExtended(e, n, level, F) ==
    e = [i \in 0 .. n |->
           IF i = 0 THEN F ELSE e[i - 1] \union FirstBoundary(level, e[i - 1])]

(* The recursion that AddBoundaryInputs defines has a solution. *)
LEMMA ExtendedExists ==
    ASSUME NEW n \in Nat, NEW level, NEW F
    PROVE  \E e : IsExtended(e, n, level, F)
<1> DEFINE S == {m \in 0 .. n : \E e : IsExtended(e, m, level, F)}
<1>1. 0 \in S
  <2> DEFINE e == [i \in 0 .. 0 |-> F]
  <2>1. IsExtended(e, 0, level, F)
    BY DEF IsExtended
  <2> HIDE DEF e
  <2> QED
    BY <2>1
<1>2. ASSUME NEW m \in 1 .. n, m - 1 \in S
      PROVE  m \in S
  <2>1. PICK e : IsExtended(e, m - 1, level, F)
    BY <1>2
  <2> DEFINE h == [i \in 0 .. m |->
                     IF i = m THEN e[m - 1] \union FirstBoundary(level, e[m - 1]) ELSE e[i]]
  <2>2. \A i \in 0 .. m :
          h[i] = IF i = 0 THEN F ELSE h[i - 1] \union FirstBoundary(level, h[i - 1])
    <3> TAKE i \in 0 .. m
    <3>1. CASE i = m
      <4>1. /\ i # 0 /\ h[i] = e[m - 1] \union FirstBoundary(level, e[m - 1])
            /\ h[m - 1] = e[m - 1]
        BY <3>1
      <4> QED
        BY <3>1, <4>1
    <3>2. CASE i # m
      <4>1. i \in 0 .. m - 1 /\ h[i] = e[i]
        BY <3>2
      <4>2. e[i] = IF i = 0 THEN F ELSE e[i - 1] \union FirstBoundary(level, e[i - 1])
        BY <2>1, <4>1 DEF IsExtended
      <4>3. i # 0 => h[i - 1] = e[i - 1]
        BY <4>1
      <4> QED
        BY <4>1, <4>2, <4>3
    <3> QED
      BY <3>1, <3>2
  <2>3. h = [i \in 0 .. m |-> h[i]]
    OBVIOUS
  <2> HIDE DEF h
  <2>4. IsExtended(h, m, level, F)
    BY <2>2, <2>3 DEF IsExtended
  <2> QED
    BY <2>4
<1> HIDE DEF S
<1>3. \A m \in 0 .. n : m \in S
  BY <1>1, <1>2, UpToInduction
<1> QED
  BY <1>3 DEF S

(* It is reached in finitely many steps, each of which adds what           *)
(* FirstBoundary gives.                                                    *)
LEMMA ExtendedSteps ==
    ASSUME Typed, NEW level \in Levels, NEW F
    PROVE  \E e : LET n == Cardinality(files[level])
                  IN  /\ n \in Nat
                      /\ e[0] = F /\ e[n] = AddBoundaryInputs(level, F)
                      /\ \A i \in 1 .. n :
                           e[i] = e[i - 1] \union FirstBoundary(level, e[i - 1])
<1> DEFINE n == Cardinality(files[level])
<1>1. n \in Nat
  BY FS_CardinalityType DEF Typed, Finite
<1> DEFINE e == CHOOSE e : IsExtended(e, n, level, F)
<1>2. AddBoundaryInputs(level, F) = e[n]
  BY DEF AddBoundaryInputs, IsExtended
<1> HIDE DEF n
<1>3. IsExtended(e, n, level, F)
  BY <1>1, ExtendedExists
<1> HIDE DEF e
<1>4. \A i \in 0 .. n : e[i] = IF i = 0 THEN F
                               ELSE e[i - 1] \union FirstBoundary(level, e[i - 1])
  BY <1>3 DEF IsExtended
<1>5. e[0] = F
  <2>1. 0 \in 0 .. n
    BY <1>1
  <2> QED
    BY <1>4, <2>1
<1>6. ASSUME NEW i \in 1 .. n
      PROVE  e[i] = e[i - 1] \union FirstBoundary(level, e[i - 1])
  <2>1. i \in 0 .. n /\ i # 0
    BY <1>1
  <2> QED
    BY <1>4, <2>1
<1> QED
  BY <1>1, <1>2, <1>5, <1>6 DEF n

(* What a first set of files has and every further step keeps, the result  *)
(* has; a step never goes beyond the result.                               *)
LEMMA ExtendedKeeps ==
    ASSUME Typed, NEW level \in Levels, NEW F,
           NEW Q, F \in Q,
           \A G \in Q : /\ G \union FirstBoundary(level, G) \subseteq
                             AddBoundaryInputs(level, F)
                        => G \union FirstBoundary(level, G) \in Q
    PROVE  AddBoundaryInputs(level, F) \in Q /\ F \subseteq AddBoundaryInputs(level, F)
<1> DEFINE n == Cardinality(files[level])
<1>1. PICK e : /\ n \in Nat
               /\ e[0] = F /\ e[n] = AddBoundaryInputs(level, F)
               /\ \A i \in 1 .. n : e[i] = e[i - 1] \union FirstBoundary(level, e[i - 1])
  BY ExtendedSteps
<1> HIDE DEF n
<1>2. \A i \in 0 .. n : e[n - i] \subseteq e[n]
  <2> DEFINE S == {i \in 0 .. n : e[n - i] \subseteq e[n]}
  <2>1. 0 \in S
    <3>1. 0 \in 0 .. n /\ n - 0 = n
      BY <1>1
    <3> QED
      BY <3>1
  <2>2. ASSUME NEW i \in 1 .. n, i - 1 \in S
        PROVE  i \in S
    <3>1. n - i + 1 \in 1 .. n /\ n - (i - 1) = n - i + 1 /\ (n - i + 1) - 1 = n - i
      BY <1>1
    <3>2. e[n - i] \subseteq e[n - i + 1]
      BY <1>1, <3>1
    <3>3. e[n - i + 1] \subseteq e[n]
      BY <2>2, <3>1
    <3>4. i \in 0 .. n
      BY <1>1
    <3> QED
      BY <3>2, <3>3, <3>4
  <2> HIDE DEF S
  <2>3. \A i \in 0 .. n : i \in S
    BY <1>1, <2>1, <2>2, UpToInduction
  <2> QED
    BY <2>3 DEF S
<1>3. \A i \in 0 .. n : e[i] \subseteq e[n]
  <2> TAKE i \in 0 .. n
  <2>1. n - i \in 0 .. n /\ n - (n - i) = i
    BY <1>1
  <2> QED
    BY <1>2, <2>1
<1>4. \A i \in 0 .. n : e[i] \in Q
  <2> DEFINE S == {i \in 0 .. n : e[i] \in Q}
  <2>1. 0 \in S
    BY <1>1
  <2>2. ASSUME NEW i \in 1 .. n, i - 1 \in S
        PROVE  i \in S
    <3>1. e[i] = e[i - 1] \union FirstBoundary(level, e[i - 1]) /\ i \in 0 .. n
      BY <1>1
    <3>2. e[i] \subseteq AddBoundaryInputs(level, F)
      BY <1>1, <1>3, <3>1
    <3>3. e[i - 1] \in Q
      BY <2>2
    <3> QED
      BY <3>1, <3>2, <3>3
  <2> HIDE DEF S
  <2>3. \A i \in 0 .. n : i \in S
    BY <1>1, <2>1, <2>2, UpToInduction
  <2> QED
    BY <2>3 DEF S
<1>5. 0 \in 0 .. n /\ n \in 0 .. n
  BY <1>1
<1> QED
  BY <1>1, <1>3, <1>4, <1>5

(* AddBoundaryInputs only adds files. *)
LEMMA ExtendedSubset ==
    ASSUME Typed, NEW level \in Levels, NEW F
    PROVE  F \subseteq AddBoundaryInputs(level, F)
<1> DEFINE Q == {G \in SUBSET (F \union files[level]) : TRUE}
<1>1. F \in Q
  OBVIOUS
<1>2. ASSUME NEW G \in Q
      PROVE  G \union FirstBoundary(level, G) \in Q
  BY DEF FirstBoundary, Boundary
<1> HIDE DEF Q
<1> QED
  BY <1>1, <1>2, ExtendedKeeps

(* Content of files of a level. *)
LEMMA ContentTyped ==
    ASSUME TypeOK, NEW level \in Levels, NEW F, F \subseteq files[level]
    PROVE  Content(F) \subseteq Entries /\ (F # {} => Content(F) # {})
<1>1. \A f \in F : f.data # {} /\ f.data \subseteq Entries
  BY FileTyped
<1> QED
  BY <1>1 DEF Content

(* The last entry of some files is an entry of one of them. *)
LEMMA ContentLast ==
    ASSUME TypeOK, NEW level \in Levels, NEW F, F \subseteq files[level], F # {}
    PROVE  /\ IsLast(Last(Content(F)), Content(F))
           /\ Last(Content(F)) \in Entries
           /\ \E f \in F : Last(Content(F)) \in f.data
<1>1. IsLast(Last(Content(F)), Content(F))
  BY ContentTyped, LastIs
<1> QED
  BY <1>1, ContentTyped DEF IsLast, Content

(* A boundary file begins behind the set. *)
LEMMA BoundaryBehind ==
    ASSUME TypeOK, NEW level \in Levels, NEW F, F \subseteq files[level],
           NEW b \in Boundary(level, F)
    PROVE  /\ F # {} /\ b \in files[level] /\ b \notin F
           /\ \A s \in Content(F) : Precedes(s, Smallest(b)) /\ s \in Entries
           /\ Key(Last(Content(F))) = Key(Smallest(b))
<1>1. /\ F # {} /\ b \in files[level]
      /\ Precedes(Last(Content(F)), Smallest(b))
      /\ Key(Last(Content(F))) = Key(Smallest(b))
  BY DEF Boundary
<1>2. Smallest(b) \in Entries /\ Smallest(b) \in b.data
  BY <1>1, FileKeys
<1>3. IsLast(Last(Content(F)), Content(F)) /\ Last(Content(F)) \in Entries
  BY <1>1, ContentLast
<1>4. \A s \in Content(F) : Precedes(s, Smallest(b)) /\ s \in Entries
  <2> TAKE s \in Content(F)
  <2>1. s \in Entries
    BY ContentTyped
  <2>2. s = Last(Content(F)) \/ Precedes(s, Last(Content(F)))
    BY <1>3 DEF IsLast
  <2> QED
    BY <1>1, <1>2, <1>3, <2>1, <2>2, PrecedesOrders
<1>5. b \notin F
  <2> SUFFICES ASSUME b \in F PROVE FALSE
    OBVIOUS
  <2>1. Smallest(b) \in Content(F)
    BY <1>2 DEF Content
  <2> QED
    BY <1>2, <1>4, <2>1, PrecedesOrders
<1> QED
  BY <1>1, <1>4, <1>5

(* If there is a boundary file, there is a first one. *)
LEMMA FirstBoundaryExists ==
    ASSUME TypeOK, NEW level \in Levels, NEW F, Boundary(level, F) # {}
    PROVE  FirstBoundary(level, F) # {}
<1> DEFINE B == Boundary(level, F)
           S == {Smallest(g) : g \in B}
<1>1. B \subseteq files[level]
  BY DEF Boundary
<1>2. \A g \in B : Smallest(g) \in Entries
  BY <1>1, FileKeys
<1>3. S \subseteq Entries /\ S # {}
  BY <1>2
<1> HIDE DEF S
<1>4. PICK e \in S : IsFirst(e, S)
  BY <1>3, FirstExists
<1>5. \A t \in S : ~Precedes(t, e)
  BY <1>3, <1>4, PrecedesOrders DEF IsFirst
<1>6. PICK g \in B : e = Smallest(g)
  BY <1>4 DEF S
<1>7. \A h \in B : ~Precedes(Smallest(h), Smallest(g))
  BY <1>5, <1>6 DEF S
<1> QED
  BY <1>6, <1>7 DEF FirstBoundary

(* The result is in the level and no boundary file is left. *)
LEMMA BoundaryTaken ==
    ASSUME Typed, NEW level \in Levels, NEW F, F \subseteq files[level]
    PROVE  /\ AddBoundaryInputs(level, F) \subseteq files[level]
           /\ Boundary(level, AddBoundaryInputs(level, F)) = {}
<1> DEFINE n == Cardinality(files[level])
<1>0. TypeOK /\ IsFiniteSet(files[level])
  BY DEF Typed, Finite
<1>1. PICK e : /\ n \in Nat
               /\ e[0] = F /\ e[n] = AddBoundaryInputs(level, F)
               /\ \A i \in 1 .. n : e[i] = e[i - 1] \union FirstBoundary(level, e[i - 1])
  BY ExtendedSteps
<1> DEFINE S == {i \in 0 .. n : /\ e[i] \subseteq files[level]
                                /\ Boundary(level, e[i]) = {} \/ Cardinality(e[i]) >= i}
<1>2. 0 \in S
  <2>1. IsFiniteSet(F) /\ Cardinality(F) \in Nat
    BY <1>0, FS_Subset, FS_CardinalityType
  <2> QED
    BY <1>1, <2>1
<1>3. ASSUME NEW i \in 1 .. n, i - 1 \in S
      PROVE  i \in S
  <2> DEFINE G == e[i - 1]
             H == e[i]
  <2>1. G \subseteq files[level] /\ H = G \union FirstBoundary(level, G)
    BY <1>1, <1>3
  <2>2. Boundary(level, G) = {} \/ Cardinality(G) >= i - 1
    BY <1>3
  <2> HIDE DEF G, H
  <2>3. FirstBoundary(level, G) \subseteq Boundary(level, G)
        /\ Boundary(level, G) \subseteq files[level]
    BY DEF FirstBoundary, Boundary
  <2>4. H \subseteq files[level]
    BY <2>1, <2>3
  <2>5. CASE Boundary(level, G) = {}
    <3>1. H = G
      BY <2>1, <2>3, <2>5
    <3> QED
      BY <1>1, <2>4, <2>5, <3>1 DEF G, H
  <2>6. CASE Boundary(level, G) # {}
    <3>1. PICK b : b \in FirstBoundary(level, G)
      BY <1>0, <2>6, FirstBoundaryExists
    <3>2. b \notin G
      BY <1>0, <2>1, <2>3, <3>1, BoundaryBehind
    <3>3. G \subseteq H /\ G # H
      BY <2>1, <3>1, <3>2
    <3>4. IsFiniteSet(H) /\ IsFiniteSet(G)
      BY <1>0, <2>1, <2>4, FS_Subset
    <3>5. Cardinality(G) <= Cardinality(H) /\ Cardinality(G) # Cardinality(H)
      BY <3>3, <3>4, FS_Subset
    <3>6. Cardinality(G) \in Nat /\ Cardinality(H) \in Nat
      BY <3>4, FS_CardinalityType
    <3>7. Cardinality(H) >= i
      BY <2>2, <2>6, <3>5, <3>6
    <3> QED
      BY <1>1, <2>4, <3>7 DEF H
  <2> QED
    BY <2>5, <2>6
<1> HIDE DEF S
<1>4. n \in S
  <2>1. \A i \in 0 .. n : i \in S
    BY <1>1, <1>2, <1>3, UpToInduction
  <2>2. n \in 0 .. n
    BY <1>1
  <2> QED
    BY <2>1, <2>2
<1>5. e[n] \subseteq files[level] /\ (Boundary(level, e[n]) = {} \/ Cardinality(e[n]) >= n)
  BY <1>4 DEF S
<1>6. CASE Cardinality(e[n]) >= n
  <2>1. e[n] = files[level]
    <3>1. Cardinality(e[n]) <= Cardinality(files[level]) /\ IsFiniteSet(e[n])
      BY <1>0, <1>5, FS_Subset
    <3>2. Cardinality(e[n]) \in Nat
      BY <3>1, FS_CardinalityType
    <3>3. Cardinality(e[n]) = Cardinality(files[level])
      BY <1>1, <1>6, <3>1, <3>2
    <3> QED
      BY <1>0, <1>5, <3>3, FS_Subset
  <2>2. Boundary(level, e[n]) = {}
    BY <1>0, <1>5, <2>1, BoundaryBehind
  <2> QED
    BY <1>1, <1>5, <2>2
<1> QED
  BY <1>1, <1>5, <1>6

-----------------------------------------------------------------------------
(* The files of a level above 0.  With one client they are disjoint; in    *)
(* general a file may lie in a gap between two entries of another.         *)

(* How two files lie: one before the other, or one in a gap of the other. *)
Before(f, g)  == \A s \in f.data, t \in g.data : Precedes(s, t)
LeftOf(s, f)  == \A t \in f.data : Key(s) < Key(t)
RightOf(s, f) == \A t \in f.data : Key(s) > Key(t)
Beside(s, f)  == LeftOf(s, f) \/ RightOf(s, f)
Spans(f, g) ==
    /\ \A s \in f.data : Beside(s, g)
    /\ \E s \in f.data : LeftOf(s, g)
    /\ \E s \in f.data : RightOf(s, g)
ShareKey(f, g)  == \E s \in f.data, t \in g.data : Key(s) = Key(t)
Continues(f, g) == \E s \in f.data, t \in g.data : Key(s) = Key(t) /\ s > t

(* Two files of a level are in order, or one lies in a gap of the other. *)
Parted(F) ==
    \A f, g \in F :
        f # g => Before(f, g) \/ Before(g, f) \/ Spans(f, g) \/ Spans(g, f)
(* A file that shares a key with another one is in no gap. *)
Unspanned(F) == \A f, g, h \in F : f # g /\ ShareKey(f, g) => ~Spans(h, f)

(* What holds of the levels above 0 whatever the clients do. *)
LevelsParted == \A l \in Levels \ {0} : Parted(files[l]) /\ Unspanned(files[l])

(* A file that goes on with older entries of a key lies behind. *)
LEMMA ContinuesBehind ==
    ASSUME TypeOK, LevelsParted, NEW l \in Levels \ {0},
           NEW f \in files[l], NEW g \in files[l], f # g, Continues(f, g)
    PROVE  Before(f, g)
<1>1. PICK s \in f.data, t \in g.data : Key(s) = Key(t) /\ s > t
  BY DEF Continues
<1>2. s \in Entries /\ t \in Entries
  BY FileTyped
<1>3. s \in Nat /\ t \in Nat /\ Key(s) \in Nat /\ Key(t) \in Nat
  BY <1>2, EntryTyped
<1>4. Before(f, g) \/ Before(g, f) \/ Spans(f, g) \/ Spans(g, f)
  BY DEF LevelsParted, Parted
<1>5. ~Before(g, f)
  BY <1>1, <1>3 DEF Before, Precedes
<1>6. ~Spans(f, g) /\ ~Spans(g, f)
  BY <1>1, <1>3 DEF Spans, Beside, LeftOf, RightOf
<1> QED
  BY <1>4, <1>5, <1>6

(* Files of a level share no entry. *)
LEMMA EntriesApart ==
    ASSUME TypeOK, LevelsParted, NEW l \in Levels \ {0},
           NEW f \in files[l], NEW g \in files[l], f # g, NEW s \in f.data
    PROVE  s \notin g.data
<1>1. s \in Entries /\ Key(s) \in Nat
  BY FileTyped, EntryTyped
<1>2. Before(f, g) \/ Before(g, f) \/ Spans(f, g) \/ Spans(g, f)
  BY DEF LevelsParted, Parted
<1>3. ~Precedes(s, s)
  BY <1>1, PrecedesOrders
<1> QED
  BY <1>1, <1>2, <1>3 DEF Before, Spans, Beside, LeftOf, RightOf

(* No gap on the way to older entries: what the choices of compactions     *)
(* have in common.                                                         *)
Convex(l, F) ==
    \A f1, f2 \in F, g \in files[l] :
        Continues(f1, g) /\ Precedes(Smallest(g), Smallest(f2)) => g \in F
Closed(l, F) == \A f \in F, g \in files[l] : Continues(f, g) => g \in F

(* A file that goes on with a key of a convex set and is not in it is one  *)
(* that FindSmallestBoundaryFile sees.                                     *)
LEMMA ContinuesIsBoundary ==
    ASSUME TypeOK, LevelsParted, NEW l \in Levels \ {0},
           NEW F, F \subseteq files[l], Convex(l, F),
           NEW f \in F, NEW g \in files[l], g \notin F, Continues(f, g)
    PROVE  g \in Boundary(l, F)
<1> DEFINE e == Last(Content(F))
<1>1. PICK f2 \in F : e \in f2.data
  BY ContentLast
<1>2. IsLast(e, Content(F)) /\ e \in Entries
  BY ContentLast
<1> HIDE DEF e
<1>3. f # g /\ Before(f, g)
  BY ContinuesBehind
<1>4. Smallest(g) \in g.data /\ Smallest(g) \in Entries
  BY FileKeys
<1>5. PICK s \in f.data, t \in g.data : Key(s) = Key(t) /\ s > t
  BY DEF Continues
<1>6. s \in Entries /\ t \in Entries /\ Key(Smallest(g)) <= Key(t)
  BY FileTyped, FileKeys
<1>7. s = e \/ Precedes(s, e)
  BY <1>2, <1>5 DEF IsLast, Content
<1>8. Key(s) <= Key(e)
  <2>1. Key(s) \in Nat /\ Key(e) \in Nat
    BY <1>2, <1>6, EntryTyped
  <2> QED
    BY <1>2, <1>6, <1>7, <2>1, PrecedesByKey
<1>9. Precedes(e, Smallest(g))
  <2>1. CASE f2 = f
    BY <1>1, <1>3, <1>4, <2>1 DEF Before
  <2>2. CASE f2 # f
    <3>1. f2 # g /\ f2 \in files[l] /\ f \in files[l]
      BY <1>1
    <3>2. Before(f2, g) \/ Before(g, f2) \/ Spans(f2, g) \/ Spans(g, f2)
      BY <3>1 DEF LevelsParted, Parted
    <3>3. ~Precedes(Smallest(g), Smallest(f2))
      BY <1>1 DEF Convex
    <3>4. Smallest(f2) \in f2.data /\ Smallest(f2) \in Entries
      BY <3>1, FileKeys
    <3>5. ~Before(g, f2)
      BY <1>4, <3>3, <3>4 DEF Before
    <3>6. ~Spans(f2, g)
      <4>1. ShareKey(g, f)
        BY <1>5 DEF ShareKey
      <4> QED
        BY <1>3, <3>1, <4>1 DEF LevelsParted, Unspanned
    <3>7. ~Spans(g, f2)
      <4> SUFFICES ASSUME Spans(g, f2) PROVE FALSE
        OBVIOUS
      <4>1. PICK u \in g.data : LeftOf(u, f2)
        BY DEF Spans
      <4>2. Key(u) < Key(Smallest(f2)) /\ Key(Smallest(g)) <= Key(u) /\ u \in Entries
        BY <3>4, <4>1, FileKeys DEF LeftOf
      <4>3. Key(u) \in Nat /\ Key(Smallest(f2)) \in Nat /\ Key(Smallest(g)) \in Nat
        BY <1>4, <3>4, <4>2, EntryTyped
      <4>4. Key(Smallest(g)) < Key(Smallest(f2))
        BY <4>2, <4>3
      <4> QED
        BY <1>4, <3>3, <3>4, <4>4, PrecedesByKey
    <3> QED
      BY <1>1, <1>4, <3>2, <3>5, <3>6, <3>7 DEF Before
  <2> QED
    BY <2>1, <2>2
<1>10. Key(e) = Key(Smallest(g))
  <2>1. Key(e) \in Nat /\ Key(Smallest(g)) \in Nat /\ Key(s) \in Nat
    BY <1>2, <1>4, <1>6, EntryTyped
  <2>2. Key(e) <= Key(Smallest(g))
    BY <1>2, <1>4, <1>9, PrecedesByKey
  <2> QED
    BY <1>5, <1>6, <1>8, <2>1, <2>2
<1> QED
  BY <1>9, <1>10 DEF Boundary, e

(* A step of AddBoundaryInputs leaves no file out in between. *)
LEMMA ConvexStep ==
    ASSUME TypeOK, LevelsParted, NEW l \in Levels \ {0},
           NEW F, F \subseteq files[l], Convex(l, F)
    PROVE  Convex(l, F \union FirstBoundary(l, F))
<1> SUFFICES ASSUME NEW f1 \in F \union FirstBoundary(l, F),
                    NEW f2 \in F \union FirstBoundary(l, F),
                    NEW g \in files[l], g \notin F \union FirstBoundary(l, F),
                    Continues(f1, g), Precedes(Smallest(g), Smallest(f2))
             PROVE  FALSE
  BY DEF Convex
<1>1. \A b \in FirstBoundary(l, F) :
        /\ b \in Boundary(l, F)
        /\ \A h \in Boundary(l, F) : ~Precedes(Smallest(h), Smallest(b))
  BY DEF FirstBoundary
<1>2. Smallest(g) \in Entries /\ Smallest(g) \in g.data
  BY FileKeys
<1>3. CASE f1 \in F
  <2>1. g \in Boundary(l, F)
    BY <1>3, ContinuesIsBoundary
  <2>2. f2 \notin FirstBoundary(l, F)
    BY <1>1, <2>1
  <2> QED
    BY <1>3, <2>2 DEF Convex
<1>4. CASE f1 \in FirstBoundary(l, F)
  <2>1. f1 \in files[l] /\ f1 \in Boundary(l, F) /\ f1 # g
    BY <1>1, <1>4, BoundaryBehind
  <2>2. Smallest(f1) \in Entries /\ Smallest(f1) \in f1.data
    BY <2>1, FileKeys
  <2>3. Precedes(Smallest(f1), Smallest(g))
    BY <1>2, <2>1, <2>2, ContinuesBehind DEF Before
  <2>4. f2 \in files[l]
    BY <1>1, BoundaryBehind
  <2>5. Smallest(f2) \in Entries /\ Smallest(f2) \in f2.data
    BY <2>4, FileKeys
  <2>6. Precedes(Smallest(f2), Smallest(g))
    <3>1. CASE f2 \in F
      <4>1. Smallest(f2) \in Content(F)
        BY <2>5, <3>1 DEF Content
      <4>2. Precedes(Smallest(f2), Smallest(f1))
        BY <2>1, <4>1, BoundaryBehind
      <4> QED
        BY <1>2, <2>2, <2>3, <2>5, <4>2, PrecedesOrders
    <3>2. CASE f2 \in FirstBoundary(l, F)
      <4>1. ~Precedes(Smallest(f1), Smallest(f2)) /\ ~Precedes(Smallest(f2), Smallest(f1))
        BY <1>1, <1>4, <3>2
      <4>2. Smallest(f1) = Smallest(f2)
        BY <2>2, <2>5, <4>1, PrecedesOrders
      <4> QED
        BY <2>3, <4>2
    <3> QED
      BY <3>1, <3>2
  <2> QED
    BY <1>2, <2>5, <2>6, PrecedesOrders
<1> QED
  BY <1>3, <1>4

(* AddBoundaryInputs leaves no file behind that goes on with a key. *)
LEMMA AddBoundaryCloses ==
    ASSUME Typed, LevelsParted, NEW l \in Levels \ {0},
           NEW F, F \subseteq files[l], Convex(l, F)
    PROVE  Closed(l, AddBoundaryInputs(l, F))
<1> DEFINE Q == {G \in SUBSET files[l] : Convex(l, G)}
           C == AddBoundaryInputs(l, F)
<1>0. TypeOK /\ l \in Levels
  BY DEF Typed
<1>1. F \in Q
  OBVIOUS
<1>2. ASSUME NEW G \in Q
      PROVE  G \union FirstBoundary(l, G) \in Q
  <2>1. FirstBoundary(l, G) \subseteq files[l]
    BY DEF FirstBoundary, Boundary
  <2>2. Convex(l, G \union FirstBoundary(l, G))
    BY <1>0, ConvexStep
  <2> QED
    BY <2>1, <2>2
<1> HIDE DEF Q
<1>3. C \in Q
  BY <1>0, <1>1, <1>2, ExtendedKeeps
<1>4. C \subseteq files[l] /\ Boundary(l, C) = {}
  BY <1>0, BoundaryTaken
<1>5. Convex(l, C)
  BY <1>3 DEF Q
<1> HIDE DEF C
<1>6. \A f \in C, g \in files[l] : Continues(f, g) => g \in C
  BY <1>0, <1>4, <1>5, ContinuesIsBoundary
<1> QED
  BY <1>6 DEF Closed, C

-----------------------------------------------------------------------------
(* The inputs of a compaction *)

(* The range to which a search of level 0 grows is there, is crossed by no *)
(* file and lies in every other such range.                                *)
ClosedRanges(lo, hi) ==
    {r \in Keys \X Keys : /\ r[1] <= lo /\ r[2] >= hi
                          /\ ~\E f \in files[0] : Crosses(f, r)}

(* What the levels are numbered with. *)
LEMMA ZeroIsLevel == 0 \in Levels /\ NumLevels \in Nat /\ NumLevels >= 3
BY LsmAssumption DEF Levels

(* The range that a search of level 0 grows to is the least closed one. *)
LEMMA GrownRangeIs ==
    ASSUME TypeOK, NEW lo \in Keys, NEW hi \in Keys
    PROVE  /\ GrownRange(lo, hi) \in ClosedRanges(lo, hi)
           /\ \A q \in ClosedRanges(lo, hi) :
                q[1] <= GrownRange(lo, hi)[1] /\ q[2] >= GrownRange(lo, hi)[2]
<1> DEFINE C == ClosedRanges(lo, hi)
<1>1. Keys = 1 .. NumKeys /\ NumKeys \in Nat \ {0}
  BY LsmAssumption DEF Keys
<1>2. \A f \in files[0] : /\ Key(Smallest(f)) \in Keys /\ Key(Largest(f)) \in Keys
                          /\ Key(Smallest(f)) \in Nat /\ Key(Largest(f)) \in Nat
  <2>1. \A f \in files[0] : Smallest(f) \in Entries /\ Largest(f) \in Entries
    BY FileKeys, ZeroIsLevel
  <2> QED
    BY <2>1, EntryTyped
<1>3. <<1, NumKeys>> \in C
  <2>1. \A f \in files[0] : ~Crosses(f, <<1, NumKeys>>)
    BY <1>1, <1>2 DEF Crosses
  <2>2. <<1, NumKeys>> \in Keys \X Keys /\ 1 <= lo /\ NumKeys >= hi
    BY <1>1
  <2> QED
    BY <2>1, <2>2 DEF ClosedRanges
<1>4. C \subseteq Keys \X Keys
  BY DEF ClosedRanges
<1>5. PICK a \in {r[1] : r \in C} : \A b \in {r[1] : r \in C} : b <= a
  <2>1. {r[1] : r \in C} \subseteq 1 .. NumKeys /\ {r[1] : r \in C} # {}
    BY <1>1, <1>3, <1>4
  <2> HIDE DEF C
  <2> QED
    BY <1>1, <2>1, LastExists
<1>6. PICK z \in {r[2] : r \in C} : \A b \in {r[2] : r \in C} : z <= b
  <2>1. {r[2] : r \in C} \subseteq Nat /\ {r[2] : r \in C} # {}
    BY <1>1, <1>3, <1>4
  <2> HIDE DEF C
  <2> QED
    BY <2>1, LeastExists
<1>7. PICK p \in C : a = p[1]
  BY <1>5
<1>8. PICK q \in C : z = q[2]
  BY <1>6
<1>9. <<a, z>> \in C
  <2>1. a \in Keys /\ z \in Keys /\ a <= lo /\ z >= hi
    BY <1>7, <1>8 DEF ClosedRanges
  <2>2. p[1] \in Nat /\ p[2] \in Nat /\ q[1] \in Nat /\ q[2] \in Nat /\ a \in Nat /\ z \in Nat
    BY <1>1, <1>4, <1>7, <1>8
  <2>3. q[1] <= a /\ z <= p[2]
    BY <1>5, <1>6
  <2>4. ASSUME NEW f \in files[0]
        PROVE  ~Crosses(f, <<a, z>>)
    <3>1. ~Crosses(f, p) /\ ~Crosses(f, q)
      BY DEF ClosedRanges
    <3>2. Key(Smallest(f)) \in Nat /\ Key(Largest(f)) \in Nat
      BY <1>2
    <3> QED
      BY <1>7, <1>8, <2>2, <2>3, <3>1, <3>2 DEF Crosses, Overlaps
  <2> QED
    BY <2>1, <2>4 DEF ClosedRanges
<1>10. \A r \in C : r[1] <= <<a, z>>[1] /\ r[2] >= <<a, z>>[2]
  <2> TAKE r \in C
  <2>1. r[1] <= a /\ z <= r[2]
    BY <1>5, <1>6
  <2>2. r[2] \in Nat /\ z \in Nat
    BY <1>1, <1>4, <1>8
  <2> QED
    BY <2>1, <2>2
<1>11. GrownRange(lo, hi) = CHOOSE r \in C : \A s \in C : s[1] <= r[1] /\ s[2] >= r[2]
  BY DEF GrownRange, ClosedRanges
<1> HIDE DEF C
<1> QED
  BY <1>9, <1>10, <1>11 DEF C

(* No other file of the level has a key in common with F. *)
Alone(l, F) == \A f \in F, g \in files[l] \ F : ~ShareKey(f, g)

(* A first choice of files to compact. *)
Choice(l, F) ==
    /\ F # {} /\ F \subseteq files[l]
    /\ IF l = 0 THEN Alone(l, F) ELSE Convex(l, F)

(* The inputs of a level: older entries of their keys do not stay there.   *)
LeftNewer(l, F) ==
    \A g \in files[l] \ F : \A s \in g.data, t \in Content(F) : Key(s) = Key(t) => s > t
ChoiceMade(l, F) == F # {} /\ F \subseteq files[l] /\ LeftNewer(l, F)

(* GetOverlappingInputs leaves no file of a level above 0 out in between. *)
LEMMA OverlappingIsConvex ==
    ASSUME TypeOK, LevelsParted, NEW l \in Levels \ {0}, NEW lo \in Keys, NEW hi \in Keys
    PROVE  /\ GetOverlappingInputs(l, lo, hi) = {f \in files[l] : Overlaps(f, lo, hi)}
           /\ Convex(l, GetOverlappingInputs(l, lo, hi))
<1>1. GetOverlappingInputs(l, lo, hi) = {f \in files[l] : Overlaps(f, lo, hi)}
  BY DEF GetOverlappingInputs
<1>2. ASSUME NEW f1 \in files[l], NEW f2 \in files[l], NEW g \in files[l],
             Overlaps(f1, lo, hi), Overlaps(f2, lo, hi),
             Continues(f1, g), Precedes(Smallest(g), Smallest(f2))
      PROVE  Overlaps(g, lo, hi)
  <2>1. CASE f1 = g
    BY <1>2, <2>1
  <2>2. CASE f1 # g
    <3>1. Before(f1, g)
      BY <1>2, <2>2, ContinuesBehind
    <3>2. /\ Smallest(g) \in Entries /\ Largest(g) \in Entries /\ Smallest(f2) \in Entries
          /\ Largest(f1) \in Entries /\ Largest(f1) \in f1.data /\ Largest(g) \in g.data
      BY FileKeys
    <3>3. Precedes(Largest(f1), Largest(g))
      BY <3>1, <3>2 DEF Before
    <3>4. Key(Largest(f1)) <= Key(Largest(g)) /\ Key(Smallest(g)) <= Key(Smallest(f2))
      BY <1>2, <3>2, <3>3, PrecedesByKey
    <3>5. /\ Key(Largest(f1)) \in Nat /\ Key(Largest(g)) \in Nat
          /\ Key(Smallest(g)) \in Nat /\ Key(Smallest(f2)) \in Nat
      BY <3>2, EntryTyped
    <3>6. lo \in Nat /\ hi \in Nat
      BY LsmAssumption DEF Keys
    <3> QED
      BY <1>2, <3>4, <3>5, <3>6 DEF Overlaps
  <2> QED
    BY <2>1, <2>2
<1> QED
  BY <1>1, <1>2 DEF Convex

(* GetOverlappingInputs on level 0 takes all files that share a key. *)
LEMMA OverlappingIsAlone ==
    ASSUME TypeOK, NEW lo \in Keys, NEW hi \in Keys
    PROVE  /\ GetOverlappingInputs(0, lo, hi) \subseteq files[0]
           /\ Alone(0, GetOverlappingInputs(0, lo, hi))
<1> DEFINE r == GrownRange(lo, hi)
           F == GetOverlappingInputs(0, lo, hi)
<1>1. r \in ClosedRanges(lo, hi)
  BY GrownRangeIs
<1>2. F = {f \in files[0] : Overlaps(f, r[1], r[2])}
  BY DEF GetOverlappingInputs
<1> HIDE DEF r, F
<1>3. /\ r[1] \in Nat /\ r[2] \in Nat
      /\ \A f \in files[0] : ~Crosses(f, r)
  BY <1>1, LsmAssumption DEF ClosedRanges, Keys
<1>4. ASSUME NEW f \in F, NEW g \in files[0] \ F,
             NEW s \in f.data, NEW t \in g.data, Key(s) = Key(t)
      PROVE  FALSE
  <2>1. f \in files[0] /\ 0 \in Levels
    BY <1>2, ZeroIsLevel
  <2>2. /\ Smallest(f) \in Entries /\ Largest(f) \in Entries /\ s \in Entries
        /\ Smallest(g) \in Entries /\ Largest(g) \in Entries /\ t \in Entries
        /\ Key(Smallest(f)) <= Key(s) /\ Key(s) <= Key(Largest(f))
        /\ Key(Smallest(g)) <= Key(t) /\ Key(t) <= Key(Largest(g))
    BY <2>1, FileKeys
  <2>3. /\ Key(Smallest(f)) \in Nat /\ Key(Largest(f)) \in Nat /\ Key(s) \in Nat
        /\ Key(Smallest(g)) \in Nat /\ Key(Largest(g)) \in Nat /\ Key(t) \in Nat
    BY <2>2, EntryTyped
  <2>4. Overlaps(f, r[1], r[2]) /\ ~Overlaps(g, r[1], r[2]) /\ ~Crosses(f, r)
    BY <1>2, <1>3, <2>1
  <2>5. Key(Smallest(f)) >= r[1] /\ Key(Largest(f)) <= r[2]
    BY <1>3, <2>3, <2>4 DEF Crosses
  <2>6. Key(Largest(g)) < r[1] \/ Key(Smallest(g)) > r[2]
    BY <1>3, <2>3, <2>4 DEF Overlaps
  <2> QED
    BY <1>3, <1>4, <2>2, <2>3, <2>5, <2>6
<1> QED
  BY <1>2, <1>4 DEF Alone, ShareKey, F

(* Either way its result can be compacted. *)
LEMMA OverlappingIsChoice ==
    ASSUME TypeOK, LevelsParted, NEW l \in Levels, NEW lo \in Keys, NEW hi \in Keys,
           GetOverlappingInputs(l, lo, hi) # {}
    PROVE  Choice(l, GetOverlappingInputs(l, lo, hi))
<1>1. CASE l = 0
  BY <1>1, OverlappingIsAlone DEF Choice
<1>2. CASE l # 0
  BY <1>2, OverlappingIsConvex DEF Choice
<1> QED
  BY <1>1, <1>2

(* With the boundary files a choice of inputs is complete. *)
LEMMA AddBoundaryAlone ==
    ASSUME Typed, NEW F, F # {}, F \subseteq files[0], Alone(0, F)
    PROVE  AddBoundaryInputs(0, F) = F
<1>0. TypeOK /\ 0 \in Levels
  BY ZeroIsLevel DEF Typed
<1>1. Boundary(0, F) = {}
  <2> SUFFICES ASSUME NEW b \in Boundary(0, F) PROVE FALSE
    OBVIOUS
  <2>1. /\ b \in files[0] /\ b \notin F
        /\ Key(Last(Content(F))) = Key(Smallest(b))
    BY <1>0, BoundaryBehind
  <2>2. PICK f \in F : Last(Content(F)) \in f.data
    BY <1>0, ContentLast
  <2>3. Smallest(b) \in b.data
    BY <1>0, <2>1, FileKeys
  <2> QED
    BY <2>1, <2>2, <2>3 DEF Alone, ShareKey
<1>2. F \union FirstBoundary(0, F) = F
  BY <1>1 DEF FirstBoundary
<1>3. AddBoundaryInputs(0, F) \in {F}
  BY <1>0, <1>2, ExtendedKeeps
<1> QED
  BY <1>3

(* AddBoundaryInputs makes a choice one that leaves only newer entries. *)
LEMMA AddBoundaryChooses ==
    ASSUME Typed, LevelsParted, NEW l \in Levels, NEW F, Choice(l, F)
    PROVE  ChoiceMade(l, AddBoundaryInputs(l, F)) /\ F \subseteq AddBoundaryInputs(l, F)
<1> DEFINE C == AddBoundaryInputs(l, F)
<1>0. TypeOK
  BY DEF Typed
<1>1. CASE l = 0
  <2>1. C = F
    BY <1>1, AddBoundaryAlone DEF Choice
  <2>2. ASSUME NEW g \in files[l] \ F, NEW s \in g.data, NEW t \in Content(F)
        PROVE  Key(s) # Key(t)
    BY <1>1 DEF Choice, Alone, ShareKey, Content
  <2> QED
    BY <2>1, <2>2 DEF ChoiceMade, LeftNewer, Choice
<1>2. CASE l # 0
  <2>1. C \subseteq files[l] /\ Closed(l, C)
    BY <1>2, BoundaryTaken, AddBoundaryCloses DEF Choice
  <2>2. F \subseteq C
    BY ExtendedSubset
  <2> HIDE DEF C
  <2>3. ASSUME NEW g \in files[l] \ C, NEW s \in g.data, NEW t \in Content(C),
               Key(s) = Key(t)
        PROVE  s > t
    <3>1. PICK f \in C : t \in f.data
      BY DEF Content
    <3>2. f \in files[l] /\ f # g
      BY <2>1, <3>1
    <3>3. s # t
      BY <1>0, <1>2, <3>1, <3>2, EntriesApart
    <3>4. ~(t > s)
      BY <2>1, <2>3, <3>1 DEF Closed, Continues
    <3>5. s \in Entries /\ t \in Entries
      BY <1>0, <3>1, <3>2, FileTyped
    <3>6. s \in Nat /\ t \in Nat
      BY <1>0, <3>5, EntryTyped
    <3> QED
      BY <3>3, <3>4, <3>6
  <2> QED
    BY <2>1, <2>2, <2>3 DEF ChoiceMade, LeftNewer, Choice, C
<1> QED
  BY <1>1, <1>2

-----------------------------------------------------------------------------
(* What stays in the deeper level of a compaction *)

(* All of K lies on one side of the file r, or around it. *)
OneSide(K, r) == \/ \A s \in K, t \in r.data : Precedes(t, s)
                 \/ \A s \in K : LeftOf(s, r)
InGap(K, r)   == \A s \in K : Beside(s, r)

(* A file that is not overlapped lies strictly on one side of the range. *)
LEMMA NotOverlapped ==
    ASSUME TypeOK, NEW m \in Levels, NEW P, P \subseteq files[m], P # {},
           NEW l \in Levels, NEW r \in files[l], ~Overlaps(r, Low(P), High(P))
    PROVE  /\ Low(P) \in Keys /\ High(P) \in Keys
           /\ \/ Key(Largest(r)) < Low(P) /\ \A s \in Content(P) : RightOf(s, r)
              \/ High(P) < Key(Smallest(r)) /\ \A s \in Content(P) : LeftOf(s, r)
<1> DEFINE K == Content(P)
<1>1. K \subseteq Entries /\ K # {}
  BY ContentTyped
<1>2. IsFirst(First(K), K) /\ IsLast(Last(K), K)
  BY <1>1, FirstIs, LastIs
<1>3. First(K) \in Entries /\ Last(K) \in Entries
  BY <1>1, <1>2 DEF IsFirst, IsLast
<1>4. Low(P) = Key(First(K)) /\ High(P) = Key(Last(K))
  BY DEF Low, High
<1>5. Low(P) \in Keys /\ High(P) \in Keys /\ Low(P) \in Nat /\ High(P) \in Nat
  BY <1>3, <1>4, EntryTyped
<1> HIDE DEF K
<1>6. \A s \in K : Low(P) <= Key(s) /\ Key(s) <= High(P) /\ Key(s) \in Nat
  <2> TAKE s \in K
  <2>1. s \in Entries /\ Key(s) \in Nat
    BY <1>1, EntryTyped
  <2>2. s = First(K) \/ Precedes(First(K), s)
    BY <1>2 DEF IsFirst
  <2>3. s = Last(K) \/ Precedes(s, Last(K))
    BY <1>2 DEF IsLast
  <2>4. Low(P) <= Key(s)
    BY <1>3, <1>4, <1>5, <2>1, <2>2, PrecedesByKey
  <2>5. Key(s) <= High(P)
    BY <1>3, <1>4, <1>5, <2>1, <2>3, PrecedesByKey
  <2> QED
    BY <2>1, <2>4, <2>5
<1>7. \A t \in r.data : /\ Key(t) \in Nat
                        /\ Key(Smallest(r)) <= Key(t) /\ Key(t) <= Key(Largest(r))
  BY FileKeys, EntryTyped
<1>8. Key(Smallest(r)) \in Nat /\ Key(Largest(r)) \in Nat
  BY FileKeys, EntryTyped
<1>9. Key(Largest(r)) < Low(P) \/ High(P) < Key(Smallest(r))
  BY <1>5, <1>8 DEF Overlaps
<1>10. ASSUME Key(Largest(r)) < Low(P), NEW s \in K, NEW t \in r.data
       PROVE  Key(s) > Key(t)
  BY <1>5, <1>6, <1>7, <1>8, <1>10
<1>11. ASSUME High(P) < Key(Smallest(r)), NEW s \in K, NEW t \in r.data
       PROVE  Key(s) < Key(t)
  BY <1>5, <1>6, <1>7, <1>8, <1>11
<1> QED
  BY <1>5, <1>9, <1>10, <1>11 DEF LeftOf, RightOf, K

(* Files before and after each other, one entry at a time. *)
LEMMA BeforeIsLeft ==
    ASSUME TypeOK, NEW l \in Levels, NEW f \in files[l], NEW g \in files[l],
           Before(f, g), ~Continues(f, g), NEW s \in f.data
    PROVE  LeftOf(s, g)
<1> SUFFICES ASSUME NEW t \in g.data PROVE Key(s) < Key(t)
  BY DEF LeftOf
<1>1. s \in Entries /\ t \in Entries /\ Precedes(s, t)
  BY FileTyped DEF Before
<1>2. s \in Nat /\ t \in Nat /\ Key(s) \in Nat /\ Key(t) \in Nat
  BY <1>1, EntryTyped
<1>3. ~(Key(s) = Key(t) /\ s > t)
  BY DEF Continues
<1> QED
  BY <1>1, <1>2, <1>3 DEF Precedes

(* Two files of which one spans the other have no order. *)
LEMMA SpansWithin ==
    ASSUME TypeOK, NEW l \in Levels, NEW f \in files[l], NEW g \in files[l], Spans(f, g)
    PROVE  Key(Smallest(f)) < Key(Smallest(g)) /\ Key(Largest(g)) < Key(Largest(f))
<1>1. PICK s \in f.data, t \in f.data : LeftOf(s, g) /\ RightOf(t, g)
  BY DEF Spans
<1>2. /\ Smallest(g) \in g.data /\ Largest(g) \in g.data
      /\ s \in Entries /\ t \in Entries
      /\ Smallest(f) \in Entries /\ Largest(f) \in Entries
      /\ Smallest(g) \in Entries /\ Largest(g) \in Entries
      /\ Key(Smallest(f)) <= Key(s) /\ Key(t) <= Key(Largest(f))
  BY FileKeys
<1>3. Key(s) < Key(Smallest(g)) /\ Key(t) > Key(Largest(g))
  BY <1>1, <1>2 DEF LeftOf, RightOf
<1>4. /\ Key(s) \in Nat /\ Key(t) \in Nat /\ Key(Smallest(f)) \in Nat
      /\ Key(Largest(f)) \in Nat /\ Key(Smallest(g)) \in Nat /\ Key(Largest(g)) \in Nat
  BY <1>2, EntryTyped
<1> QED
  BY <1>2, <1>3, <1>4

(* Files in order have their ends in order. *)
LEMMA BeforeByKey ==
    ASSUME TypeOK, NEW l \in Levels, NEW f \in files[l], NEW g \in files[l], Before(f, g)
    PROVE  /\ Key(Smallest(f)) <= Key(Smallest(g))
           /\ Key(Largest(f)) <= Key(Largest(g))
           /\ Key(Largest(f)) <= Key(Smallest(g))
<1>1. /\ Smallest(f) \in f.data /\ Smallest(g) \in g.data
      /\ Largest(f) \in f.data /\ Largest(g) \in g.data
      /\ Smallest(f) \in Entries /\ Smallest(g) \in Entries
      /\ Largest(f) \in Entries /\ Largest(g) \in Entries
  BY FileKeys
<1>2. /\ Precedes(Smallest(f), Smallest(g)) /\ Precedes(Largest(f), Largest(g))
      /\ Precedes(Largest(f), Smallest(g))
  BY <1>1 DEF Before
<1> QED
  BY <1>1, <1>2, PrecedesByKey

-----------------------------------------------------------------------------
(* A boundary file of G shares the last key of G, with a file of G. *)
LEMMA BoundaryShares ==
    ASSUME TypeOK, NEW l \in Levels, NEW G, G \subseteq files[l], NEW b \in Boundary(l, G)
    PROVE  \E p \in G : \E e \in p.data :
             /\ e \in Entries /\ Key(e) = Key(Smallest(b))
             /\ p # b /\ ShareKey(b, p)
             /\ \A u \in Content(G) : u = e \/ Precedes(u, e)
<1>1. /\ G # {} /\ b \in files[l] /\ b \notin G
      /\ Key(Last(Content(G))) = Key(Smallest(b))
  BY BoundaryBehind
<1>2. /\ IsLast(Last(Content(G)), Content(G)) /\ Last(Content(G)) \in Entries
      /\ \E p \in G : Last(Content(G)) \in p.data
  BY <1>1, ContentLast
<1>3. Smallest(b) \in b.data
  BY <1>1, FileKeys
<1> QED
  BY <1>1, <1>2, <1>3 DEF IsLast, ShareKey

(* With the range on the left of r, the parents lie beside r; on the left, *)
(* if none of them spans r.                                                *)
LEMMA ParentsLeft ==
    ASSUME Typed, LevelsParted, NEW l \in Levels \ {0}, NEW lo \in Keys, NEW hi \in Keys,
           NEW r \in files[l],
           r \notin AddBoundaryInputs(l, GetOverlappingInputs(l, lo, hi)),
           hi < Key(Smallest(r))
    PROVE  LET C == AddBoundaryInputs(l, GetOverlappingInputs(l, lo, hi))
           IN  /\ \A p \in C : \A u \in p.data : Beside(u, r)
               /\ (\A p \in C : ~Spans(p, r)) => \A p \in C : \A u \in p.data : LeftOf(u, r)
<1> DEFINE F == GetOverlappingInputs(l, lo, hi)
           C == AddBoundaryInputs(l, F)
<1>0. TypeOK
  BY DEF Typed
<1>1. F = {f \in files[l] : Overlaps(f, lo, hi)} /\ Convex(l, F) /\ r \notin C
  BY <1>0, OverlappingIsConvex
<1> HIDE DEF F
<1>2. C \subseteq files[l] /\ Closed(l, C)
  BY <1>1, BoundaryTaken, AddBoundaryCloses
<1>3. F \subseteq C
  BY ExtendedSubset
<1>4. \A p \in C : ~Continues(p, r) /\ p # r
  BY <1>1, <1>2 DEF Closed
<1>5. hi \in Nat /\ Key(Smallest(r)) \in Nat
  BY <1>0, FileKeys, EntryTyped, LsmAssumption DEF Keys
<1> HIDE DEF C
(* The files that the range overlaps. *)
<1>6. ASSUME NEW p \in F
      PROVE  Spans(p, r) \/ \A u \in p.data : LeftOf(u, r)
  <2>1. p \in files[l] /\ p \in C /\ Key(Smallest(p)) <= hi
    BY <1>1, <1>3 DEF Overlaps
  <2>2. Key(Smallest(p)) \in Nat
    BY <1>0, <2>1, FileKeys, EntryTyped
  <2>3. ~Before(r, p) /\ ~Spans(r, p)
    BY <1>0, <1>5, <2>1, <2>2, BeforeByKey, SpansWithin
  <2>4. Before(p, r) \/ Spans(p, r)
    BY <1>4, <2>1, <2>3 DEF LevelsParted, Parted
  <2> QED
    BY <1>0, <1>4, <2>1, <2>4, BeforeIsLeft
(* A boundary file spans r or is ordered with it. *)
<1>7. ASSUME NEW G, G \subseteq files[l], NEW b \in FirstBoundary(l, G), b \in C
      PROVE  /\ b \in Boundary(l, G) /\ b \in files[l]
             /\ Spans(b, r) \/ Before(r, b) \/ \A u \in b.data : LeftOf(u, r)
  <2>1. b \in Boundary(l, G) /\ b \in files[l]
    BY DEF FirstBoundary, Boundary
  <2>2. PICK p \in G : \E e \in p.data : p # b /\ ShareKey(b, p)
    BY <1>0, <1>7, <2>1, BoundaryShares
  <2>3. ~Spans(r, b)
    <3>1. p \in files[l] /\ p # b /\ ShareKey(b, p)
      BY <1>7, <2>2
    <3> QED
      BY <2>1, <3>1 DEF LevelsParted, Unspanned
  <2>4. Before(b, r) \/ Before(r, b) \/ Spans(b, r)
    BY <1>4, <1>7, <2>1, <2>3 DEF LevelsParted, Parted
  <2> QED
    BY <1>0, <1>4, <1>7, <2>1, <2>4, BeforeIsLeft
<1>8. \A p \in C : \A u \in p.data : Beside(u, r)
  <2> DEFINE Q == {G \in SUBSET files[l] : \A p \in G : \A u \in p.data : Beside(u, r)}
  <2>1. F \in Q
    BY <1>1, <1>6 DEF Spans, Beside
  <2>2. ASSUME NEW G \in Q, G \union FirstBoundary(l, G) \subseteq C
        PROVE  G \union FirstBoundary(l, G) \in Q
    <3>1. ASSUME NEW b \in FirstBoundary(l, G), NEW u \in b.data
          PROVE  Beside(u, r)
      <4>1. /\ b \in Boundary(l, G) /\ b \in files[l]
            /\ Spans(b, r) \/ Before(r, b) \/ \A v \in b.data : LeftOf(v, r)
        BY <1>7, <2>2
      <4>2. CASE Before(r, b)
        <5>1. PICK p \in G : \E e \in p.data : /\ e \in Entries /\ Key(e) = Key(Smallest(b))
          BY <1>0, <4>1, BoundaryShares
        <5>2. PICK e \in p.data : e \in Entries /\ Key(e) = Key(Smallest(b))
          BY <5>1
        <5>3. Beside(e, r)
          BY <5>2
        <5>4. ASSUME NEW t \in r.data
              PROVE  Key(u) > Key(t)
          <6>1. Precedes(t, Smallest(b)) /\ Key(Smallest(b)) <= Key(u)
            BY <1>0, <4>1, <4>2, FileKeys DEF Before
          <6>2. t \in Entries /\ Smallest(b) \in Entries /\ u \in Entries
            BY <1>0, <4>1, FileKeys
          <6>3. Key(t) <= Key(Smallest(b))
            BY <1>0, <6>1, <6>2, PrecedesByKey
          <6>4. Key(t) \in Nat /\ Key(u) \in Nat /\ Key(Smallest(b)) \in Nat /\ Key(e) \in Nat
            BY <1>0, <5>2, <6>2, EntryTyped
          <6>5. Key(e) # Key(t)
            BY <5>3, <6>4 DEF Beside, LeftOf, RightOf
          <6> QED
            BY <5>2, <6>1, <6>3, <6>4, <6>5
        <5> QED
          BY <5>4 DEF Beside, RightOf
      <4> QED
        BY <4>1, <4>2 DEF Spans, Beside
    <3>2. FirstBoundary(l, G) \subseteq files[l]
      BY DEF FirstBoundary, Boundary
    <3> QED
      BY <3>1, <3>2
  <2> HIDE DEF Q
  <2>3. C \in Q
    BY <2>1, <2>2, ExtendedKeeps DEF C
  <2> QED
    BY <2>3 DEF Q
<1>9. ASSUME \A p \in C : ~Spans(p, r)
      PROVE  \A p \in C : \A u \in p.data : LeftOf(u, r)
  <2> DEFINE Q == {G \in SUBSET files[l] : \A p \in G : \A u \in p.data : LeftOf(u, r)}
  <2>1. F \in Q
    BY <1>1, <1>3, <1>6, <1>9
  <2>2. ASSUME NEW G \in Q, G \union FirstBoundary(l, G) \subseteq C
        PROVE  G \union FirstBoundary(l, G) \in Q
    <3>1. ASSUME NEW b \in FirstBoundary(l, G), NEW u \in b.data
          PROVE  LeftOf(u, r)
      <4>1. /\ b \in Boundary(l, G) /\ b \in files[l]
            /\ Before(r, b) \/ \A v \in b.data : LeftOf(v, r)
        BY <1>7, <1>9, <2>2
      <4>2. ~Before(r, b)
        <5> SUFFICES ASSUME Before(r, b) PROVE FALSE
          OBVIOUS
        <5>1. PICK p \in G : \E e \in p.data : e \in Entries /\ Key(e) = Key(Smallest(b))
          BY <1>0, <4>1, BoundaryShares
        <5>2. PICK e \in p.data : e \in Entries /\ Key(e) = Key(Smallest(b))
          BY <5>1
        <5>3. LeftOf(e, r)
          BY <5>2
        <5>4. /\ Smallest(r) \in r.data /\ Smallest(r) \in Entries
              /\ Smallest(b) \in b.data /\ Smallest(b) \in Entries
          BY <1>0, <4>1, FileKeys
        <5>5. Precedes(Smallest(r), Smallest(b)) /\ Key(e) < Key(Smallest(r))
          BY <5>3, <5>4 DEF Before, LeftOf
        <5>6. Key(Smallest(r)) <= Key(Smallest(b))
          BY <1>0, <5>4, <5>5, PrecedesByKey
        <5>7. Key(Smallest(r)) \in Nat /\ Key(e) \in Nat
          BY <1>0, <5>2, <5>4, EntryTyped
        <5> QED
          BY <5>2, <5>5, <5>6, <5>7
      <4> QED
        BY <4>1, <4>2
    <3>2. FirstBoundary(l, G) \subseteq files[l]
      BY DEF FirstBoundary, Boundary
    <3> QED
      BY <3>1, <3>2
  <2> HIDE DEF Q
  <2>3. C \in Q
    BY <2>1, <2>2, ExtendedKeeps DEF C
  <2> QED
    BY <2>3 DEF Q
<1> QED
  BY <1>8, <1>9 DEF C, F

(* With the range on the right of r, the parents lie behind r or span it.  *)
LEMMA ParentsRight ==
    ASSUME Typed, LevelsParted, NEW l \in Levels \ {0}, NEW lo \in Keys, NEW hi \in Keys,
           NEW r \in files[l],
           r \notin AddBoundaryInputs(l, GetOverlappingInputs(l, lo, hi)),
           Key(Largest(r)) < lo
    PROVE  \A p \in AddBoundaryInputs(l, GetOverlappingInputs(l, lo, hi)) :
             Before(r, p) \/ Spans(p, r)
<1> DEFINE F == GetOverlappingInputs(l, lo, hi)
           C == AddBoundaryInputs(l, F)
           Q == {G \in SUBSET files[l] : \A p \in G : Before(r, p) \/ Spans(p, r)}
<1>0. TypeOK
  BY DEF Typed
<1>1. F = {f \in files[l] : Overlaps(f, lo, hi)} /\ r \notin C
  BY <1>0, OverlappingIsConvex
<1> HIDE DEF F
<1>2. F \subseteq C
  BY ExtendedSubset
<1> HIDE DEF C
<1>3. lo \in Nat /\ Key(Largest(r)) \in Nat
  BY <1>0, FileKeys, EntryTyped, LsmAssumption DEF Keys
<1>4. F \in Q
  <2>1. ASSUME NEW p \in F
        PROVE  Before(r, p) \/ Spans(p, r)
    <3>1. p \in files[l] /\ p # r /\ Key(Largest(p)) >= lo
      BY <1>1, <1>2 DEF Overlaps
    <3>2. Key(Largest(p)) \in Nat
      BY <1>0, <3>1, FileKeys, EntryTyped
    <3>3. ~Before(p, r) /\ ~Spans(r, p)
      BY <1>0, <1>3, <3>1, <3>2, BeforeByKey, SpansWithin
    <3> QED
      BY <3>1, <3>3 DEF LevelsParted, Parted
  <2> QED
    BY <1>1, <2>1
<1>5. ASSUME NEW G \in Q
      PROVE  G \union FirstBoundary(l, G) \in Q
  <2>1. ASSUME NEW b \in FirstBoundary(l, G)
        PROVE  Before(r, b)
    <3>1. b \in Boundary(l, G) /\ b \in files[l]
      BY DEF FirstBoundary, Boundary
    <3>2. PICK p \in G : \E e \in p.data :
             e \in Entries /\ \A u \in Content(G) : u = e \/ Precedes(u, e)
      BY <1>0, <3>1, BoundaryShares
    <3>3. PICK e \in p.data :
             e \in Entries /\ \A u \in Content(G) : u = e \/ Precedes(u, e)
      BY <3>2
    <3>4. p \in files[l] /\ (Before(r, p) \/ Spans(p, r))
      OBVIOUS
    <3>5. e \in Content(G) /\ Precedes(e, Smallest(b)) /\ Smallest(b) \in Entries
      <4>1. e \in Content(G)
        BY DEF Content
      <4> QED
        BY <1>0, <3>1, <4>1, BoundaryBehind, FileKeys
    <3>6. ASSUME NEW t \in r.data
          PROVE  t \in Entries /\ Precedes(t, e)
      <4>1. t \in Entries
        BY <1>0, FileTyped
      <4>2. CASE Before(r, p)
        BY <4>1, <4>2 DEF Before
      <4>3. CASE Spans(p, r)
        <5>1. PICK u \in p.data : RightOf(u, r)
          BY <4>3 DEF Spans
        <5>2. u \in Entries /\ u \in Content(G)
          BY <1>0, <3>4, FileTyped DEF Content
        <5>3. Precedes(t, u)
          <6>1. Key(t) < Key(u)
            <7>1. Key(u) > Key(t)
              BY <5>1 DEF RightOf
            <7>2. Key(u) \in Nat /\ Key(t) \in Nat
              BY <1>0, <4>1, <5>2, EntryTyped
            <7> QED
              BY <7>1, <7>2
          <6> QED
            BY <1>0, <4>1, <5>2, <6>1, PrecedesByKey
        <5>4. u = e \/ Precedes(u, e)
          BY <3>3, <5>2
        <5> QED
          BY <1>0, <3>3, <4>1, <5>2, <5>3, <5>4, PrecedesOrders
      <4> QED
        BY <3>4, <4>1, <4>2, <4>3
    <3>7. ASSUME NEW t \in r.data, NEW u \in b.data
          PROVE  Precedes(t, u)
      <4>1. Precedes(t, Smallest(b))
        BY <1>0, <3>3, <3>5, <3>6, PrecedesOrders
      <4>2. u \in Entries /\ (u = Smallest(b) \/ Precedes(Smallest(b), u))
        BY <1>0, <3>1, FileEnds, FileTyped DEF IsFirst
      <4> QED
        BY <1>0, <3>5, <3>6, <4>1, <4>2, PrecedesOrders
    <3> QED
      BY <3>7 DEF Before
  <2>2. FirstBoundary(l, G) \subseteq files[l]
    BY DEF FirstBoundary, Boundary
  <2> QED
    BY <2>1, <2>2
<1> HIDE DEF Q
<1>6. C \in Q
  BY <1>4, <1>5, ExtendedKeeps DEF C
<1> QED
  BY <1>6 DEF Q, C, F

(* A file that stays in the level of the parents shares no key with the    *)
(* inputs; they lie on one side of it or around it, and on one side if     *)
(* none of the parents spans it.                                           *)
LEMMA ParentsFit ==
    ASSUME Typed, LevelsParted, NEW m \in Levels, NEW P, P \subseteq files[m], P # {},
           NEW l \in Levels \ {0}, NEW r \in files[l] \ With(l, P)
    PROVE  /\ \A s \in Content(P) : Beside(s, r)
           /\ \/ OneSide(Content(P \union With(l, P)), r)
              \/ InGap(Content(P \union With(l, P)), r)
           /\ (\A p \in With(l, P) : ~Spans(p, r))
                => OneSide(Content(P \union With(l, P)), r)
<1> DEFINE lo == Low(P)
           hi == High(P)
           C  == With(l, P)
           K  == Content(P \union C)
<1>0. TypeOK
  BY DEF Typed
<1>1. C = AddBoundaryInputs(l, GetOverlappingInputs(l, lo, hi))
  BY DEF With
<1>2. PICK x \in Keys, y \in Keys : x = lo /\ y = hi
  <2>1. Content(P) \subseteq Entries /\ Content(P) # {}
    BY <1>0, ContentTyped
  <2>2. First(Content(P)) \in Entries /\ Last(Content(P)) \in Entries
    BY <1>0, <2>1, FirstIs, LastIs DEF IsFirst, IsLast
  <2> QED
    BY <1>0, <2>2, EntryTyped DEF Low, High
<1>3. ~Overlaps(r, lo, hi)
  <2>1. GetOverlappingInputs(l, x, y) \subseteq AddBoundaryInputs(l, GetOverlappingInputs(l, x, y))
    BY ExtendedSubset
  <2>2. GetOverlappingInputs(l, x, y) = {f \in files[l] : Overlaps(f, x, y)}
    BY <1>0, OverlappingIsConvex
  <2> QED
    BY <1>1, <1>2, <2>1, <2>2
<1>4. \/ Key(Largest(r)) < lo /\ \A s \in Content(P) : RightOf(s, r)
      \/ hi < Key(Smallest(r)) /\ \A s \in Content(P) : LeftOf(s, r)
  BY <1>0, <1>3, NotOverlapped
<1>5. r \notin C
  OBVIOUS
<1>6. \A s \in K : s \in Content(P) \/ \E p \in C : s \in p.data
  BY DEF Content
<1>7. C \subseteq files[l]
  <2>1. GetOverlappingInputs(l, x, y) \subseteq files[l]
    BY <1>0, OverlappingIsConvex
  <2> QED
    BY <1>1, <1>2, <2>1, BoundaryTaken
<1> HIDE DEF lo, hi, C, K
<1>8. CASE hi < Key(Smallest(r)) /\ \A s \in Content(P) : LeftOf(s, r)
  <2>1. /\ \A p \in C : \A u \in p.data : Beside(u, r)
        /\ (\A p \in C : ~Spans(p, r)) => \A p \in C : \A u \in p.data : LeftOf(u, r)
    BY <1>1, <1>2, <1>5, <1>8, ParentsLeft
  <2>2. InGap(K, r)
    BY <1>6, <1>8, <2>1 DEF InGap, Beside
  <2>3. (\A p \in C : ~Spans(p, r)) => OneSide(K, r)
    BY <1>6, <1>8, <2>1 DEF OneSide
  <2> QED
    BY <1>8, <2>2, <2>3 DEF Beside, C, K
<1>9. CASE Key(Largest(r)) < lo /\ \A s \in Content(P) : RightOf(s, r)
  <2>1. \A p \in C : Before(r, p) \/ Spans(p, r)
    BY <1>1, <1>2, <1>5, <1>9, ParentsRight
  <2>2. ASSUME NEW s \in Content(P), NEW t \in r.data
        PROVE  Precedes(t, s)
    <3>1. Key(s) > Key(t)
      BY <1>9 DEF RightOf
    <3>2. t \in Entries /\ s \in Entries
      BY <1>0, FileTyped, ContentTyped
    <3>3. Key(s) \in Nat /\ Key(t) \in Nat
      BY <1>0, <3>2, EntryTyped
    <3>4. Key(t) < Key(s)
      BY <3>1, <3>3
    <3> QED
      BY <1>0, <3>2, <3>4, PrecedesByKey
  <2>3. (\A p \in C : ~Spans(p, r)) => OneSide(K, r)
    BY <1>6, <2>1, <2>2 DEF OneSide, Before
  <2>4. ASSUME ~InGap(K, r), NEW p \in C
        PROVE  ~Spans(p, r)
    <3>1. PICK s \in K : ~Beside(s, r)
      BY <2>4 DEF InGap
    <3>2. s \notin Content(P)
      BY <1>9, <3>1 DEF Beside
    <3>3. PICK q \in C : s \in q.data
      BY <1>6, <3>1, <3>2
    <3>4. Before(r, q)
      BY <2>1, <3>1, <3>3 DEF Spans
    <3>5. Continues(r, q)
      <4>1. PICK t \in r.data : ~(Key(s) > Key(t))
        BY <3>1 DEF Beside, RightOf
      <4>2. s \in Entries /\ t \in Entries /\ Precedes(t, s)
        BY <1>0, <1>7, <3>3, <3>4, FileTyped DEF Before
      <4>3. s \in Nat /\ t \in Nat /\ Key(s) \in Nat /\ Key(t) \in Nat
        BY <1>0, <4>2, EntryTyped
      <4>4. Key(t) = Key(s) /\ t > s
        BY <4>1, <4>2, <4>3 DEF Precedes
      <4> QED
        BY <3>3, <4>4 DEF Continues
    <3>6. ShareKey(r, q) /\ r # q
      BY <1>5, <3>5, <3>3 DEF Continues, ShareKey
    <3> QED
      BY <1>7, <3>3, <3>6 DEF LevelsParted, Unspanned
  <2>5. InGap(K, r) \/ OneSide(K, r)
    BY <2>3, <2>4
  <2>6. \A s \in Content(P) : Beside(s, r)
    BY <1>9 DEF Beside
  <2> QED
    BY <2>3, <2>5, <2>6 DEF C, K
<1> QED
  BY <1>4, <1>8, <1>9

-----------------------------------------------------------------------------
(* What is picked *)

(* The least, first, last and newest element that the code looks for. *)
LEMMA MinIs ==
    ASSUME NEW S, S \subseteq Nat, S # {}
    PROVE  Min(S) \in S /\ \A k \in S : Min(S) <= k
BY LeastExists DEF Min

LEMMA FrontIs ==
    ASSUME TypeOK, NEW l \in Levels, NEW F, F \subseteq files[l], F # {}
    PROVE  Front(F) \in F /\ \A g \in F : ~Precedes(Smallest(g), Smallest(Front(F)))
<1> DEFINE S == {Smallest(g) : g \in F}
<1>1. S \subseteq Entries /\ S # {}
  BY FileKeys
<1> HIDE DEF S
<1>2. PICK e \in S : IsFirst(e, S)
  BY <1>1, FirstExists
<1>3. \A t \in S : ~Precedes(t, e)
  BY <1>1, <1>2, PrecedesOrders DEF IsFirst
<1>4. PICK f \in F : e = Smallest(f)
  BY <1>2 DEF S
<1>5. \A g \in F : ~Precedes(Smallest(g), Smallest(f))
  BY <1>3, <1>4 DEF S
<1> QED
  BY <1>5 DEF Front

LEMMA BackIs ==
    ASSUME TypeOK, NEW l \in Levels, NEW F, F \subseteq files[l], F # {}
    PROVE  Back(F) \in F
<1> DEFINE S == {Smallest(g) : g \in F}
<1>1. S \subseteq Entries /\ S # {}
  BY FileKeys
<1> HIDE DEF S
<1>2. PICK e \in S : IsLast(e, S)
  BY <1>1, LastEntryExists
<1>3. \A t \in S : ~Precedes(e, t)
  BY <1>1, <1>2, PrecedesOrders DEF IsLast
<1>4. PICK f \in F : e = Smallest(f)
  BY <1>2 DEF S
<1>5. \A g \in F : ~Precedes(Smallest(f), Smallest(g))
  BY <1>3, <1>4 DEF S
<1> QED
  BY <1>5 DEF Back

LEMMA NewestIs ==
    ASSUME Typed, NEW l \in Levels, NEW F, F \subseteq files[l], F # {}
    PROVE  Newest(F) \in F /\ \A g \in F : Newest(F).num >= g.num
<1> DEFINE S == {nextFile - g.num : g \in F}
<1>1. \A g \in F : g.num \in Nat /\ g.num < nextFile /\ nextFile \in Nat
  BY DEF Typed, TypeOK, NumsTyped, AllFiles
<1>2. S \subseteq Nat /\ S # {}
  BY <1>1
<1> HIDE DEF S
<1>3. PICK e \in S : \A k \in S : e <= k
  BY <1>2, LeastExists
<1>4. PICK f \in F : e = nextFile - f.num
  BY <1>3 DEF S
<1>5. ASSUME NEW g \in F
      PROVE  f.num >= g.num
  <2>1. e <= nextFile - g.num
    BY <1>3 DEF S
  <2>2. g.num \in Nat /\ f.num \in Nat /\ nextFile \in Nat
    BY <1>1
  <2> QED
    BY <1>4, <2>1, <2>2
<1> QED
  BY <1>5 DEF Newest

(* Which files a read opens (Version::Get). *)
LEMMA SearchedIn ==
    ASSUME NEW l \in Levels, NEW k, NEW s
    PROVE  /\ Searched(l, k, s) \subseteq files[l]
           /\ l # 0 => \E F \in SUBSET files[l] : Searched(l, k, s) \subseteq {Front(F)}
BY DEF Searched

(* Level and file that sizes or seeks make the one to compact. *)
LEMMA SizePickIs ==
    ASSUME Typed, NEW p \in SizePicks
    PROVE  p[1] \in 0 .. NumLevels - 2 /\ p[2] \in files[p[1]]
<1>1. PICK l \in DueLevels : p = <<l, NextInLine(l)>>
  BY DEF SizePicks
<1>2. l \in 0 .. NumLevels - 2 /\ l \in Levels
  BY <1>1, ZeroIsLevel DEF DueLevels, Levels
<1>3. files[l] # {}
  <2>1. CASE L0Due /\ l = 0
    <3>1. Cardinality(files[0]) >= L0Trigger /\ L0Trigger \in Nat \ {0}
      BY <2>1, LsmAssumption DEF L0Due
    <3>2. Cardinality({}) = 0
      BY FS_EmptySet
    <3> QED
      BY <2>1, <3>1, <3>2
  <2> QED
    BY <1>1, <2>1 DEF DueLevels
<1>4. NextInLine(l) \in files[l]
  <2> DEFINE after == {f \in files[l] : \/ pointer[l] = 0
                                        \/ Precedes(pointer[l], Largest(f))}
             G == IF after = {} THEN files[l] ELSE after
  <2>1. G \subseteq files[l] /\ G # {}
    BY <1>3
  <2>2. NextInLine(l) = Front(G)
    BY DEF NextInLine
  <2> HIDE DEF G
  <2> QED
    BY <1>2, <2>1, <2>2, FrontIs DEF Typed
<1> QED
  BY <1>1, <1>2, <1>4

(* The file whose allowed seeks are used up (PickCompaction). *)
LEMMA SeekPickIs ==
    ASSUME Typed, NEW p \in SeekPicks
    PROVE  p[1] \in 0 .. NumLevels - 2 /\ p[2] \in files[p[1]]
<1>1. PICK k \in Keys, s \in 0 .. LastSequence : p \in Charged(k, s)
  BY DEF SeekPicks
<1> DEFINE looked == [l \in Levels |-> Searched(l, k, s)]
           hit == {l \in Levels : looked[l] # {}}
           U   == UNION {looked[l] : l \in Levels}
           top == Min(hit)
<1>2. ~(Cardinality(U) < 2) /\ p = <<top, Newest(looked[top])>>
  BY <1>1 DEF Charged
<1>3. hit \subseteq Nat /\ hit # {}
  <2>1. U # {}
    <3>1. Cardinality({}) = 0
      BY FS_EmptySet
    <3> HIDE DEF U
    <3> QED
      BY <1>2, <3>1
  <2> QED
    BY <2>1 DEF Levels
<1>4. top \in hit /\ \A l \in hit : top <= l
  <2> HIDE DEF hit
  <2> QED
    BY <1>3, MinIs
<1>5. top \in Levels /\ looked[top] # {} /\ looked[top] = Searched(top, k, s)
  BY <1>4
<1>6. top # NumLevels - 1
  <2> SUFFICES ASSUME top = NumLevels - 1 PROVE FALSE
    OBVIOUS
  <2>1. \A l \in Levels : l # top => looked[l] = {}
    <3> TAKE l \in Levels
    <3>1. l \in Nat /\ top \in Nat /\ l <= top
      BY <1>5, ZeroIsLevel DEF Levels
    <3>2. l \in hit => top <= l
      BY <1>4
    <3>3. looked[l] # {} => l \in hit
      OBVIOUS
    <3> HIDE DEF top, hit, looked
    <3> QED
      BY <3>1, <3>2, <3>3
  <2>2. U = Searched(top, k, s)
    BY <1>5, <2>1
  <2>3. top # 0
    BY ZeroIsLevel
  <2>4. PICK F : U \subseteq {Front(F)}
    BY <1>5, <2>2, <2>3, SearchedIn
  <2>5. Cardinality({Front(F)}) = 1 /\ IsFiniteSet({Front(F)})
    BY FS_Singleton
  <2>6. U \in SUBSET {Front(F)}
    BY <2>4
  <2> HIDE DEF U
  <2>7. Cardinality(U) <= 1 /\ IsFiniteSet(U)
    BY <2>5, <2>6, FS_Subset
  <2>8. Cardinality(U) \in Nat
    BY <2>7, FS_CardinalityType
  <2> QED
    BY <1>2, <2>7, <2>8
<1>7. Newest(looked[top]) \in files[top]
  <2>1. Searched(top, k, s) \subseteq files[top] /\ Searched(top, k, s) # {}
    BY <1>5, SearchedIn
  <2>2. Newest(Searched(top, k, s)) \in Searched(top, k, s)
    BY <1>5, <2>1, NewestIs
  <2> QED
    BY <1>5, <2>1, <2>2
<1>8. top \in 0 .. NumLevels - 2
  BY <1>5, <1>6, ZeroIsLevel DEF Levels
<1> QED
  BY <1>2, <1>7, <1>8

(* The inputs PickCompaction begins with. *)
LEMMA AutoPickIs ==
    ASSUME Typed, LevelsParted, NEW p \in AutoPicks
    PROVE  /\ p[1] \in 0 .. NumLevels - 2 /\ Choice(p[1], p[2])
           /\ \E f \in files[p[1]] :
                 /\ f \in p[2]
                 /\ p[2] = IF p[1] = 0 THEN GetOverlappingInputs(0, Low({f}), High({f}))
                           ELSE {f}
                 /\ Low({f}) = Key(Smallest(f)) /\ High({f}) = Key(Largest(f))
                 /\ Low({f}) \in Keys /\ High({f}) \in Keys
<1>0. TypeOK
  BY DEF Typed
<1>1. PICK q \in SizePicks \union SeekPicks :
        p = <<q[1], IF q[1] = 0 THEN GetOverlappingInputs(0, Low({q[2]}), High({q[2]}))
                    ELSE {q[2]}>>
  BY DEF AutoPicks
<1> DEFINE l == q[1]
           f == q[2]
<1>2. l \in 0 .. NumLevels - 2 /\ f \in files[l]
  BY SizePickIs, SeekPickIs
<1>3. l \in Levels
  BY <1>2, ZeroIsLevel DEF Levels
<1>4. p[1] = l /\ p[2] = IF l = 0 THEN GetOverlappingInputs(0, Low({f}), High({f})) ELSE {f}
  BY <1>1
<1> HIDE DEF l, f
<1>5. Low({f}) = Key(Smallest(f)) /\ High({f}) = Key(Largest(f))
  <2>1. Content({f}) = f.data
    BY DEF Content
  <2> QED
    BY <2>1 DEF Low, High, Smallest, Largest
<1>6. Key(Smallest(f)) \in Keys /\ Key(Largest(f)) \in Keys
      /\ Key(Smallest(f)) \in Nat /\ Key(Largest(f)) \in Nat
      /\ Key(Smallest(f)) <= Key(Largest(f))
  <2>1. Smallest(f) \in Entries /\ Largest(f) \in Entries
        /\ Key(Smallest(f)) <= Key(Largest(f))
    BY <1>0, <1>2, <1>3, FileKeys
  <2> QED
    BY <1>0, <2>1, EntryTyped
<1>7. CASE l = 0
  <2> DEFINE r == GrownRange(Low({f}), High({f}))
             F == GetOverlappingInputs(0, Low({f}), High({f}))
  <2>1. r \in ClosedRanges(Low({f}), High({f}))
    BY <1>0, <1>5, <1>6, GrownRangeIs
  <2>2. r[1] \in Nat /\ r[2] \in Nat /\ r[1] <= Low({f}) /\ r[2] >= High({f})
    BY <2>1, LsmAssumption DEF ClosedRanges, Keys
  <2>3. F = {g \in files[0] : Overlaps(g, r[1], r[2])}
    BY DEF GetOverlappingInputs
  <2> HIDE DEF r, F
  <2>4. f \in F
    <3>1. Overlaps(f, r[1], r[2])
      BY <1>5, <1>6, <2>2 DEF Overlaps
    <3> QED
      BY <1>2, <1>7, <2>3, <3>1
  <2>5. Choice(0, F)
    BY <1>0, <1>3, <1>5, <1>6, <1>7, <2>4, OverlappingIsChoice DEF F
  <2> QED
    BY <1>2, <1>4, <1>5, <1>6, <1>7, <2>4, <2>5 DEF F
<1>8. CASE l # 0
  <2>1. ASSUME NEW g \in files[l], Continues(f, g), Precedes(Smallest(g), Smallest(f))
        PROVE  g \in {f}
    <3> SUFFICES ASSUME g # f PROVE FALSE
      OBVIOUS
    <3>1. Before(f, g)
      BY <1>0, <1>2, <1>3, <1>8, <2>1, ContinuesBehind
    <3>2. /\ Smallest(f) \in f.data /\ Smallest(g) \in g.data
          /\ Smallest(f) \in Entries /\ Smallest(g) \in Entries
      BY <1>0, <1>2, <1>3, FileKeys
    <3> QED
      BY <1>0, <2>1, <3>1, <3>2, PrecedesOrders DEF Before
  <2>2. Convex(l, {f})
    BY <2>1 DEF Convex
  <2> QED
    BY <1>2, <1>4, <1>5, <1>6, <1>8, <2>2 DEF Choice
<1> QED
  BY <1>7, <1>8

(* The inputs CompactRange begins with. *)
LEMMA ManualPickIs ==
    ASSUME Typed, LevelsParted, Posted, NEW p \in ManualPicks
    PROVE  p[1] \in 0 .. NumLevels - 2 /\ Choice(p[1], p[2])
<1>0. TypeOK
  BY DEF Typed
<1> DEFINE l == manual.level
           M == ManualInputs
<1>1. l \in 0 .. NumLevels - 2 /\ manual.lo \in Keys /\ manual.hi \in Keys
  BY DEF Typed, ManualTyped, Posted
<1>2. l \in Levels
  BY <1>1, ZeroIsLevel DEF Levels
<1>3. M = GetOverlappingInputs(l, manual.lo, manual.hi)
  BY DEF ManualInputs
<1>4. p[1] = l /\ p[2] \in IF l = 0 THEN {M} \ {{}}
                           ELSE {{g \in M : ~Precedes(Smallest(f), Smallest(g))} : f \in M}
  BY DEF ManualPicks
<1>5. M # {} => Choice(l, M)
  BY <1>0, <1>1, <1>2, <1>3, OverlappingIsChoice
<1> HIDE DEF l, M
<1>6. CASE l = 0
  BY <1>1, <1>4, <1>5, <1>6
<1>7. CASE l # 0
  <2>1. PICK f \in M : p[2] = {g \in M : ~Precedes(Smallest(f), Smallest(g))}
    BY <1>4, <1>7
  <2>2. M \subseteq files[l] /\ Convex(l, M)
    BY <1>5, <1>7, <2>1 DEF Choice
  <2>3. \A g \in files[l] : Smallest(g) \in Entries
    BY <1>0, <1>2, FileKeys
  <2>4. f \in p[2]
    BY <1>0, <2>1, <2>2, <2>3, PrecedesOrders
  <2>5. ASSUME NEW f1 \in p[2], NEW f2 \in p[2], NEW g \in files[l],
               Continues(f1, g), Precedes(Smallest(g), Smallest(f2))
        PROVE  g \in p[2]
    <3>1. g \in M
      BY <2>1, <2>2, <2>5 DEF Convex
    <3>2. ~Precedes(Smallest(f), Smallest(g))
      <4>1. ~Precedes(Smallest(f), Smallest(f2)) /\ f2 \in files[l]
        BY <2>1, <2>2
      <4>2. Smallest(f) \in Entries /\ Smallest(g) \in Entries /\ Smallest(f2) \in Entries
        BY <2>1, <2>2, <2>3, <4>1
      <4> QED
        BY <1>0, <2>5, <4>1, <4>2, PrecedesOrders
    <3> QED
      BY <2>1, <3>1, <3>2
  <2>6. Convex(l, p[2])
    BY <2>5 DEF Convex
  <2> QED
    BY <1>1, <1>4, <1>7, <2>1, <2>2, <2>4, <2>6 DEF Choice
<1> QED
  BY <1>6, <1>7

-----------------------------------------------------------------------------
(* What a compaction under way relies on *)

(* The entries a compaction reads. *)
Input(c) == Content(c.inputs \union c.parents)

(* What stays in the level of the parents has no key of the inputs, and no *)
(* output can get between its entries.                                     *)
Fits(c) ==
    \A r \in files[c.level + 1] \ c.parents :
        /\ \A s \in Content(c.inputs) : Beside(s, r)
        /\ \/ OneSide(Input(c), r)
           \/ /\ InGap(Input(c), r)
              /\ \A q \in files[c.level + 1] : q # r => ~ShareKey(q, r)

(* The keys for which deletions may be dropped are in no deeper level.     *)
DeletesLast(c) ==
    \A s \in Input(c) : Key(s) \in c.base =>
        \A l \in c.level + 2 .. NumLevels - 1 : \A t \in Content(files[l]) : Key(t) # Key(s)

(* No snapshot is older than the one the compaction spares. *)
SnapshotOldest(c) ==
    /\ c.smallestSnapshot \in {0} \union Entries
    /\ \A s \in snapshots \union {LastSequence} : c.smallestSnapshot <= s

(* What must remain true of a compaction while the mutex is not held. *)
Work(c) ==
    /\ c.level \in 0 .. NumLevels - 2
    /\ ChoiceMade(c.level, c.inputs) /\ c.parents \subseteq files[c.level + 1]
    /\ Fits(c) /\ DeletesLast(c) /\ SnapshotOldest(c)

WorkKept == bg # NoWork => Work(bg)

(* A level and the one below it. *)
LEMMA LevelsAround ==
    ASSUME NEW l \in 0 .. NumLevels - 2
    PROVE  l \in Levels /\ l + 1 \in Levels \ {0} /\ l \in Nat /\ l + 1 \in Nat
BY ZeroIsLevel DEF Levels

(* The inputs of a compaction are complete and not empty. *)
LEMMA AddedIsChosen ==
    ASSUME Typed, LevelsParted, NEW l \in Levels, NEW F, Choice(l, F)
    PROVE  AddBoundaryInputs(l, F) # {} /\ ChoiceMade(l, AddBoundaryInputs(l, F))
BY AddBoundaryChooses DEF ChoiceMade

(* Low and high keys of files. *)
LEMMA EndKeys ==
    ASSUME TypeOK, NEW P, Content(P) \subseteq Entries, Content(P) # {}
    PROVE  /\ Low(P) \in Keys /\ High(P) \in Keys
           /\ \A s \in Content(P) : Low(P) <= Key(s) /\ Key(s) <= High(P)
<1> DEFINE K == Content(P)
<1>1. IsFirst(First(K), K) /\ IsLast(Last(K), K)
  BY FirstIs, LastIs
<1>2. First(K) \in Entries /\ Last(K) \in Entries
  BY <1>1 DEF IsFirst, IsLast
<1>3. Low(P) = Key(First(K)) /\ High(P) = Key(Last(K))
  BY DEF Low, High
<1> HIDE DEF K
<1>4. ASSUME NEW s \in K
      PROVE  Low(P) <= Key(s) /\ Key(s) <= High(P)
  <2>1. s \in Entries /\ Key(s) \in Nat /\ Low(P) \in Nat /\ High(P) \in Nat
    BY <1>2, <1>3, EntryTyped DEF K
  <2>2. s = First(K) \/ Precedes(First(K), s)
    BY <1>1 DEF IsFirst
  <2>3. s = Last(K) \/ Precedes(s, Last(K))
    BY <1>1 DEF IsLast
  <2>4. Low(P) <= Key(s)
    BY <1>2, <1>3, <2>1, <2>2, PrecedesByKey
  <2>5. Key(s) <= High(P)
    BY <1>2, <1>3, <2>1, <2>3, PrecedesByKey
  <2> QED
    BY <2>4, <2>5
<1> QED
  BY <1>2, <1>3, <1>4, EntryTyped DEF K

(* SetupOtherInputs, first as it is called and then widened. *)
LEMMA SetupChooses ==
    ASSUME Typed, LevelsParted, NEW l \in 0 .. NumLevels - 2, NEW F, Choice(l, F),
           NEW in \in SetupOtherInputs(l, F)
    PROVE  /\ ChoiceMade(l, in[1])
           /\ in[2] = With(l + 1, in[1])
           /\ in[2] \subseteq files[l + 1]
           /\ LET inputs == AddBoundaryInputs(l, F)
              IN  \/ in[1] = inputs
                  \/ /\ in[1] = With(l, inputs \union With(l + 1, inputs))
                     /\ Cardinality(With(l + 1, in[1])) = Cardinality(With(l + 1, inputs))
<1> DEFINE inputs  == AddBoundaryInputs(l, F)
           parents == With(l + 1, inputs)
           wide    == With(l, inputs \union parents)
<1>0. TypeOK
  BY DEF Typed
<1>1. l \in Levels /\ l + 1 \in Levels \ {0}
  BY LevelsAround
<1>2. ChoiceMade(l, inputs)
  BY <1>1, AddedIsChosen
<1>3. ASSUME NEW P, ChoiceMade(l, P)
      PROVE  With(l + 1, P) \subseteq files[l + 1]
  <2>1. Content(P) \subseteq Entries /\ Content(P) # {}
    BY <1>0, <1>1, <1>3, ContentTyped DEF ChoiceMade
  <2>2. PICK x \in Keys, y \in Keys : x = Low(P) /\ y = High(P)
    BY <1>0, <2>1, EndKeys
  <2>3. GetOverlappingInputs(l + 1, x, y) \subseteq files[l + 1]
    BY <1>0, <1>1, OverlappingIsConvex
  <2> QED
    BY <1>1, <2>2, <2>3, BoundaryTaken DEF With
<1>4. \/ in = <<inputs, parents>>
      \/ in = <<wide, With(l + 1, wide)>> /\ Cardinality(wide) > Cardinality(inputs)
         /\ Cardinality(With(l + 1, wide)) = Cardinality(parents)
  BY DEF SetupOtherInputs
<1> HIDE DEF inputs
<1>5. CASE in = <<inputs, parents>>
  BY <1>2, <1>3, <1>5 DEF inputs
<1>6. CASE in = <<wide, With(l + 1, wide)>> /\ Cardinality(wide) > Cardinality(inputs)
           /\ Cardinality(With(l + 1, wide)) = Cardinality(parents)
  <2> DEFINE P == inputs \union parents
  <2>1. Content(P) \subseteq Entries /\ Content(P) # {}
    <3>1. Content(P) = Content(inputs) \union Content(parents)
      BY DEF Content
    <3>2. Content(inputs) \subseteq Entries /\ Content(inputs) # {}
      BY <1>0, <1>1, <1>2, ContentTyped DEF ChoiceMade
    <3>3. Content(parents) \subseteq Entries
      BY <1>0, <1>1, <1>2, <1>3, ContentTyped
    <3> QED
      BY <3>1, <3>2, <3>3
  <2>2. PICK x \in Keys, y \in Keys : x = Low(P) /\ y = High(P)
    BY <1>0, <2>1, EndKeys
  <2> DEFINE O == GetOverlappingInputs(l, x, y)
  <2>3. wide = AddBoundaryInputs(l, O)
    BY <2>2 DEF With
  <2>4. O # {}
    <3> SUFFICES ASSUME O = {} PROVE FALSE
      OBVIOUS
    <3>1. \A G \in {{}} : G \union FirstBoundary(l, G) \in {{}}
      BY DEF FirstBoundary, Boundary
    <3>2. AddBoundaryInputs(l, {}) \in {{}}
      <4> DEFINE Q == {{}}
      <4>1. {} \in Q /\ \A G \in Q : G \union FirstBoundary(l, G) \in Q
        BY <3>1
      <4> HIDE DEF Q
      <4>2. AddBoundaryInputs(l, {}) \in Q
        BY <1>1, <4>1, ExtendedKeeps
      <4> QED
        BY <4>2 DEF Q
    <3>3. wide = {}
      BY <2>3, <3>2
    <3>4. Cardinality({}) = 0
      BY FS_EmptySet
    <3>5. IsFiniteSet(inputs)
      BY <1>1, <1>2, FS_Subset DEF ChoiceMade, Typed, Finite
    <3>6. Cardinality(inputs) \in Nat
      BY <3>5, FS_CardinalityType
    <3> HIDE DEF O, wide
    <3> QED
      BY <1>6, <3>3, <3>4, <3>6
  <2>5. Choice(l, O)
    BY <1>0, <1>1, <2>4, OverlappingIsChoice
  <2>6. ChoiceMade(l, wide)
    BY <1>1, <2>3, <2>5, AddedIsChosen
  <2> HIDE DEF O
  <2> QED
    BY <1>3, <1>6, <2>6 DEF inputs
<1> QED
  BY <1>4, <1>5, <1>6

(* What a call of BackgroundCompaction may begin with. *)
Picks == IF Posted THEN ManualPicks ELSE AutoPicks

(* Every compaction comes from such a pick. *)
LEMMA CompactionChosen ==
    ASSUME Typed, LevelsParted, NEW c \in Compactions
    PROVE  \E p \in Picks : \E in \in SetupOtherInputs(p[1], p[2]) :
             /\ c = Compaction(p[1], in)
             /\ p[1] \in 0 .. NumLevels - 2 /\ Choice(p[1], p[2])
<1>1. PICK p \in Picks : \E in \in SetupOtherInputs(p[1], p[2]) : c = Compaction(p[1], in)
  BY DEF Compactions, Picks
<1>2. p[1] \in 0 .. NumLevels - 2 /\ Choice(p[1], p[2])
  BY AutoPickIs, ManualPickIs DEF Picks
<1> QED
  BY <1>1, <1>2

(* Its inputs, its parents and what it reads of the snapshots. *)
LEMMA CompactionParents ==
    ASSUME Typed, LevelsParted, NEW c \in Compactions
    PROVE  /\ c.level \in 0 .. NumLevels - 2 /\ ChoiceMade(c.level, c.inputs)
           /\ c.parents = With(c.level + 1, c.inputs) /\ c.parents \subseteq files[c.level + 1]
           /\ c.isManual = Posted
           /\ c.smallestSnapshot = OldestSnapshot /\ c.base = BaseKeys(c.level)
<1>0. PICK p \in Picks : \E in \in SetupOtherInputs(p[1], p[2]) :
        c = Compaction(p[1], in) /\ p[1] \in 0 .. NumLevels - 2 /\ Choice(p[1], p[2])
  BY CompactionChosen
<1>1. PICK in \in SetupOtherInputs(p[1], p[2]) :
        c = Compaction(p[1], in) /\ p[1] \in 0 .. NumLevels - 2 /\ Choice(p[1], p[2])
  BY <1>0
<1>2. /\ c.level = p[1] /\ c.inputs = in[1] /\ c.parents = in[2] /\ c.isManual = Posted
      /\ c.smallestSnapshot = OldestSnapshot /\ c.base = BaseKeys(p[1])
  BY <1>1 DEF Compaction
<1>3. ChoiceMade(p[1], in[1]) /\ in[2] = With(p[1] + 1, in[1]) /\ in[2] \subseteq files[p[1] + 1]
  BY <1>1, SetupChooses
<1> QED
  BY <1>1, <1>2, <1>3

(* A compaction that was just picked is sound work. *)
LEMMA CompactionWork ==
    ASSUME Typed, LevelsParted, NEW c \in Compactions
    PROVE  Work(c)
<1>0. TypeOK
  BY DEF Typed
<1>1. /\ c.level \in 0 .. NumLevels - 2 /\ ChoiceMade(c.level, c.inputs)
      /\ c.parents = With(c.level + 1, c.inputs) /\ c.parents \subseteq files[c.level + 1]
      /\ c.smallestSnapshot = OldestSnapshot /\ c.base = BaseKeys(c.level)
  BY CompactionParents
<1>2. c.level \in Levels /\ c.level + 1 \in Levels \ {0}
  BY <1>1, LevelsAround
<1>3. Fits(c)
  <2> SUFFICES ASSUME NEW r \in files[c.level + 1] \ c.parents
               PROVE  /\ \A s \in Content(c.inputs) : Beside(s, r)
                      /\ \/ OneSide(Input(c), r)
                         \/ /\ InGap(Input(c), r)
                            /\ \A q \in files[c.level + 1] : q # r => ~ShareKey(q, r)
    BY DEF Fits
  <2>1. /\ \A s \in Content(c.inputs) : Beside(s, r)
        /\ OneSide(Input(c), r) \/ InGap(Input(c), r)
        /\ (\A p \in c.parents : ~Spans(p, r)) => OneSide(Input(c), r)
    BY <1>1, <1>2, ParentsFit DEF Input, ChoiceMade
  <2>2. ASSUME NEW q \in files[c.level + 1], q # r, ShareKey(q, r)
        PROVE  \A p \in c.parents : ~Spans(p, r)
    <3>1. ShareKey(r, q)
      BY <2>2 DEF ShareKey
    <3> QED
      BY <1>1, <1>2, <2>2, <3>1 DEF LevelsParted, Unspanned
  <2> QED
    BY <2>1, <2>2
<1>4. DeletesLast(c)
  <2> SUFFICES ASSUME NEW l \in c.level + 2 .. NumLevels - 1, NEW t \in Content(files[l]),
                      Key(t) \in BaseKeys(c.level)
               PROVE  FALSE
    BY <1>1, Zenon DEF DeletesLast
  <2>1. PICK f \in files[l] : t \in f.data
    BY DEF Content
  <2>2. l \in Levels
    BY <1>1, ZeroIsLevel DEF Levels
  <2>3. /\ Key(Smallest(f)) <= Key(t) /\ Key(t) <= Key(Largest(f))
        /\ t \in Entries /\ Smallest(f) \in Entries /\ Largest(f) \in Entries
    BY <1>0, <2>1, <2>2, FileKeys
  <2>4. Key(t) \in Nat /\ Key(Smallest(f)) \in Nat /\ Key(Largest(f)) \in Nat
    BY <1>0, <2>3, EntryTyped
  <2>5. OverlapInLevel(l, Key(t), Key(t))
    BY <2>3, <2>4 DEF OverlapInLevel, Overlaps
  <2> QED
    BY <2>5 DEF BaseKeys
<1>5. SnapshotOldest(c)
  <2>1. /\ snapshots \subseteq {0} \union Entries /\ {0} \union Entries \subseteq Nat
        /\ LastSequence \in {0} \union Entries
    BY <1>0, EntryTyped DEF TypeOK, Entries
  <2>2. \A s \in snapshots : s <= LastSequence
    BY <2>1, <1>0, EntryTyped DEF Entries
  <2>3. CASE snapshots = {}
    BY <1>1, <2>1, <2>3 DEF OldestSnapshot, SnapshotOldest
  <2>4. CASE snapshots # {}
    <3>1. snapshots \subseteq Nat
      BY <2>1
    <3>2. Min(snapshots) \in snapshots /\ \A s \in snapshots : Min(snapshots) <= s
      BY <2>4, <3>1, MinIs
    <3>3. OldestSnapshot = Min(snapshots)
      BY <2>4 DEF OldestSnapshot
    <3> QED
      BY <1>1, <2>1, <2>2, <3>2, <3>3 DEF SnapshotOldest
  <2> QED
    BY <2>3, <2>4
<1> QED
  BY <1>1, <1>3, <1>4, <1>5 DEF Work

-----------------------------------------------------------------------------
(* The output files of a compaction *)

(* The tables of a compaction are in order, hold entries of the input only *)
(* and hold all of them, wherever ShouldStopBefore or the size ends a table. *)
LEMMA OutputFilesAre ==
    ASSUME TypeOK, NEW S, S \subseteq Entries, NEW begins, begins \subseteq S,
           First(S) \in begins
    PROVE  /\ IsFiniteSet(OutputFiles(S, begins))
           /\ \A o \in OutputFiles(S, begins) : o.num = 0 /\ o.data # {} /\ o.data \subseteq S
           /\ \A o, p \in OutputFiles(S, begins) : o # p => Before(o, p) \/ Before(p, o)
           /\ S \subseteq Content(OutputFiles(S, begins))
<1> DEFINE D == [b \in begins |->
                   [num |-> 0,
                    data |-> {s \in S : /\ ~Precedes(s, b)
                                        /\ ~\E a \in begins : Precedes(b, a) /\ ~Precedes(s, a)}]]
<1>1. OutputFiles(S, begins) = {D[b] : b \in begins}
  BY DEF OutputFiles
<1>2. IsFiniteSet(begins)
  <2>1. IsFiniteSet(1 .. LastSequence)
    BY EntryTyped, FS_Interval
  <2> QED
    BY <2>1, FS_Subset DEF Entries
<1>3. IsFiniteSet(OutputFiles(S, begins))
  <2> DEFINE T == OutputFiles(S, begins)
             G == [b \in begins |-> D[b]]
  <2>1. G \in Surjection(begins, T)
    <3> HIDE DEF D
    <3> QED
      BY <1>1 DEF Surjection
  <2> HIDE DEF G
  <2> QED
    BY <1>2, <2>1, FS_Surjection
<1>4. ASSUME NEW b \in begins
      PROVE  /\ D[b].num = 0 /\ D[b].data \subseteq S /\ b \in D[b].data
             /\ \A s \in D[b].data : /\ s \in Entries /\ (s = b \/ Precedes(b, s))
                                     /\ \A a \in begins : Precedes(b, a) => Precedes(s, a)
  <2>1. D[b].num = 0 /\ D[b].data = {s \in S : /\ ~Precedes(s, b)
                         /\ ~\E a \in begins : Precedes(b, a) /\ ~Precedes(s, a)}
    OBVIOUS
  <2> HIDE DEF D
  <2>2. b \in Entries /\ ~Precedes(b, b)
    BY PrecedesOrders
  <2> QED
    BY <2>1, <2>2, PrecedesOrders
<1> HIDE DEF D
<1>5. ASSUME NEW b \in begins, NEW d \in begins, Precedes(b, d)
      PROVE  Before(D[b], D[d])
  <2> SUFFICES ASSUME NEW s \in D[b].data, NEW t \in D[d].data
               PROVE  Precedes(s, t)
    BY DEF Before
  <2>1. s \in Entries /\ Precedes(s, d)
    BY <1>4, <1>5
  <2>2. t \in Entries /\ (t = d \/ Precedes(d, t))
    BY <1>4
  <2> QED
    BY <2>1, <2>2, PrecedesOrders
<1>6. \A b, d \in begins : D[b] # D[d] => Before(D[b], D[d]) \/ Before(D[d], D[b])
  <2> TAKE b, d \in begins
  <2>1. b = d \/ Precedes(b, d) \/ Precedes(d, b)
    BY PrecedesOrders
  <2> QED
    BY <1>5, <2>1
<1>7. ASSUME NEW s \in S
      PROVE  \E b \in begins : s \in D[b].data
  <2> DEFINE B == {b \in begins : ~Precedes(s, b)}
  <2>1. First(S) \in B
    BY FirstIs, PrecedesOrders DEF IsFirst
  <2>2. B \subseteq Entries
    OBVIOUS
  <2> HIDE DEF B
  <2>3. PICK b \in B : IsLast(b, B)
    BY <2>1, <2>2, LastEntryExists
  <2>4. b \in begins /\ ~Precedes(s, b)
    BY DEF B
  <2>5. ASSUME NEW a \in begins, Precedes(b, a), ~Precedes(s, a)
        PROVE  FALSE
    <3>1. a \in B
      BY <2>5 DEF B
    <3>2. a = b \/ Precedes(a, b)
      BY <2>3, <3>1 DEF IsLast
    <3> QED
      BY <2>2, <2>5, <3>1, <3>2, PrecedesOrders
  <2>6. s \in D[b].data
    BY <2>4, <2>5 DEF D
  <2> QED
    BY <2>4, <2>6
<1> QED
  BY <1>1, <1>3, <1>4, <1>6, <1>7 DEF Content

(* The same of any choice of the places where tables end. *)
LEMMA OutputsAre ==
    ASSUME TypeOK, NEW S, S \subseteq Entries, NEW F \in Outputs(S)
    PROVE  /\ IsFiniteSet(F)
           /\ \A o \in F : o.num = 0 /\ o.data # {} /\ o.data \subseteq S
           /\ \A o, p \in F : o # p => Before(o, p) \/ Before(p, o)
           /\ S \subseteq Content(F)
<1>1. CASE S = {}
  <2>1. F = {}
    BY <1>1 DEF Outputs
  <2>2. IsFiniteSet(F)
    BY <2>1, FS_EmptySet
  <2> QED
    BY <1>1, <2>1, <2>2
<1>2. CASE S # {}
  <2>1. PICK B \in SUBSET (S \ {First(S)}) : F = OutputFiles(S, B \union {First(S)})
    BY <1>2 DEF Outputs
  <2> DEFINE begins == B \union {First(S)}
  <2>2. begins \subseteq S /\ First(S) \in begins
    BY <1>2, FirstIs DEF IsFirst
  <2>3. F = OutputFiles(S, begins)
    BY <2>1
  <2> HIDE DEF begins
  <2> QED
    BY <2>2, <2>3, OutputFilesAre
<1> QED
  BY <1>1, <1>2

-----------------------------------------------------------------------------
(* Files that come to a level *)

(* A flushed file shares the range of no file of the level. *)
Clear(S, f) == (\A s \in S : LeftOf(s, f)) \/ (\A s \in S : RightOf(s, f))

(* Beside a file in keys is beside it in the order of entries. *)
LEMMA LeftPrecedes ==
    ASSUME TypeOK, NEW f, f.data \subseteq Entries, NEW s \in Entries, NEW t \in f.data
    PROVE  (LeftOf(s, f) => Precedes(s, t)) /\ (RightOf(s, f) => Precedes(t, s))
<1>1. Key(s) \in Nat /\ Key(t) \in Nat /\ t \in Entries
  BY EntryTyped
<1>2. LeftOf(s, f) => Key(s) < Key(t)
  BY DEF LeftOf
<1>3. RightOf(s, f) => Key(t) < Key(s)
  BY <1>1 DEF RightOf
<1> QED
  BY <1>1, <1>2, <1>3, PrecedesByKey

(* A file that is clear of another shares no key with it. *)
LEMMA ClearNoShare ==
    ASSUME TypeOK, NEW f, f.data \subseteq Entries, NEW S, S \subseteq Entries, Clear(S, f),
           NEW s \in S, NEW t \in f.data
    PROVE  Key(s) # Key(t)
<1>1. Key(s) \in Nat /\ Key(t) \in Nat
  BY EntryTyped
<1> QED
  BY <1>1 DEF Clear, LeftOf, RightOf

(* It is in order with it, with no gap. *)
LEMMA ClearIsOrdered ==
    ASSUME TypeOK, NEW f, NEW h, f.data \subseteq Entries, h.data \subseteq Entries,
           f.data # {}, h.data # {}, Clear(h.data, f)
    PROVE  /\ Before(f, h) \/ Before(h, f)
           /\ ~Spans(f, h) /\ ~Spans(h, f) /\ ~ShareKey(f, h) /\ ~ShareKey(h, f)
<1>1. \A s \in h.data : \A t \in f.data : /\ Key(s) \in Nat /\ Key(t) \in Nat
                                          /\ Key(s) # Key(t)
  BY EntryTyped, ClearNoShare
<1>2. Before(f, h) \/ Before(h, f)
  BY LeftPrecedes DEF Clear, Before
<1>3. ~ShareKey(f, h) /\ ~ShareKey(h, f)
  BY <1>1 DEF ShareKey
<1>4. ~Spans(h, f)
  <2> SUFFICES ASSUME Spans(h, f) PROVE FALSE
    OBVIOUS
  <2>1. PICK s \in h.data, u \in h.data : LeftOf(s, f) /\ RightOf(u, f)
    BY DEF Spans
  <2>2. PICK t \in f.data : TRUE
    OBVIOUS
  <2>3. /\ Key(s) \in Nat /\ Key(u) \in Nat /\ Key(t) \in Nat
        /\ Key(s) < Key(t) /\ Key(u) > Key(t)
    BY <1>1, <2>1 DEF LeftOf, RightOf
  <2> QED
    BY <2>3 DEF Clear, LeftOf, RightOf
<1>5. ~Spans(f, h)
  <2> SUFFICES ASSUME Spans(f, h) PROVE FALSE
    OBVIOUS
  <2>1. PICK t \in f.data, u \in f.data : LeftOf(t, h) /\ RightOf(u, h)
    BY DEF Spans
  <2>2. PICK s \in h.data : TRUE
    OBVIOUS
  <2>3. /\ Key(s) \in Nat /\ Key(u) \in Nat /\ Key(t) \in Nat
        /\ Key(t) < Key(s) /\ Key(u) > Key(s)
    BY <1>1, <2>1 DEF LeftOf, RightOf
  <2> QED
    BY <2>3 DEF Clear, LeftOf, RightOf
<1> QED
  BY <1>2, <1>3, <1>4, <1>5

(* A level stays parted when a flush adds a file clear of its files. *)
LEMMA FlushedParts ==
    ASSUME TypeOK, LevelsParted, NEW l \in Levels \ {0}, NEW h,
           h.data # {}, h.data \subseteq Entries, \A f \in files[l] : Clear(h.data, f)
    PROVE  Parted(files[l] \union {h}) /\ Unspanned(files[l] \union {h})
<1>1. \A f \in files[l] : /\ Before(f, h) \/ Before(h, f)
                          /\ ~Spans(f, h) /\ ~Spans(h, f) /\ ~ShareKey(f, h) /\ ~ShareKey(h, f)
  BY FileTyped, ClearIsOrdered
<1>2. Parted(files[l]) /\ Unspanned(files[l])
  BY DEF LevelsParted
<1>3. Parted(files[l] \union {h})
  BY <1>1, <1>2 DEF Parted
<1>4. Unspanned(files[l] \union {h})
  BY <1>1, <1>2 DEF Unspanned
<1> QED
  BY <1>3, <1>4

(* The outputs of a compaction among the files that stay. *)
LEMMA OutputAmong ==
    ASSUME TypeOK, NEW r, r.data # {}, r.data \subseteq Entries,
           NEW K, K \subseteq Entries, OneSide(K, r) \/ InGap(K, r),
           NEW o, o.data # {}, o.data \subseteq K
    PROVE  /\ Before(r, o) \/ Before(o, r) \/ Spans(o, r)
           /\ ~Spans(r, o)
           /\ Spans(o, r) => ~OneSide(K, r)
<1>1. \A s \in o.data : \A t \in r.data : /\ Key(s) \in Nat /\ Key(t) \in Nat
                                          /\ s \in Entries /\ t \in Entries
  BY EntryTyped
<1>2. ASSUME \A s \in K, t \in r.data : Precedes(t, s)
      PROVE  Before(r, o) /\ ~Spans(o, r) /\ ~Spans(r, o)
  <2>1. Before(r, o)
    BY <1>2 DEF Before
  <2>2. \A s \in o.data, t \in r.data : Key(t) <= Key(s)
    BY <1>1, <2>1, PrecedesByKey DEF Before
  <2>3. ~Spans(o, r)
    BY <1>1, <2>2 DEF Spans, LeftOf
  <2>4. ~Spans(r, o)
    BY <1>1, <2>2 DEF Spans, RightOf
  <2> QED
    BY <2>1, <2>3, <2>4
<1>3. ASSUME \A s \in K : LeftOf(s, r)
      PROVE  Before(o, r) /\ ~Spans(o, r) /\ ~Spans(r, o)
  <2>1. \A s \in o.data : LeftOf(s, r)
    BY <1>3
  <2>2. Before(o, r)
    BY <1>1, <2>1, LeftPrecedes DEF Before
  <2>3. ~Spans(o, r)
    BY <1>1, <2>1 DEF Spans, LeftOf, RightOf
  <2>4. ~Spans(r, o)
    BY <1>1, <2>1 DEF Spans, LeftOf
  <2> QED
    BY <2>2, <2>3, <2>4
<1>4. ASSUME InGap(K, r)
      PROVE  (Before(r, o) \/ Before(o, r) \/ Spans(o, r)) /\ ~Spans(r, o)
  <2>1. \A s \in o.data : Beside(s, r)
    BY <1>4 DEF InGap
  <2>2. ASSUME \A s \in o.data : LeftOf(s, r)
        PROVE  Before(o, r)
    BY <1>1, <2>2, LeftPrecedes DEF Before
  <2>3. ASSUME \A s \in o.data : RightOf(s, r)
        PROVE  Before(r, o)
    BY <1>1, <2>3, LeftPrecedes DEF Before
  <2>4. ~Spans(r, o)
    <3> SUFFICES ASSUME Spans(r, o) PROVE FALSE
      OBVIOUS
    <3>1. PICK t \in r.data, u \in r.data : LeftOf(t, o) /\ RightOf(u, o)
      BY DEF Spans
    <3>2. PICK s \in o.data : Beside(s, r)
      BY <2>1
    <3>3. /\ Key(s) \in Nat /\ Key(u) \in Nat /\ Key(t) \in Nat
          /\ Key(t) < Key(s) /\ Key(u) > Key(s)
      BY <1>1, <3>1 DEF LeftOf, RightOf
    <3> QED
      BY <3>2, <3>3 DEF Beside, LeftOf, RightOf
  <2>5. (Before(r, o) \/ Before(o, r) \/ Spans(o, r))
    BY <2>1, <2>2, <2>3 DEF Spans, Beside
  <2> QED
    BY <2>4, <2>5
<1> QED
  BY <1>2, <1>3, <1>4 DEF OneSide

(* Outputs are in a row. *)
LEMMA OutputsApart ==
    ASSUME TypeOK, NEW K, K \subseteq Entries, NEW added,
           \A o \in added : o.data # {} /\ o.data \subseteq K,
           \A o, p \in added : o # p => Before(o, p) \/ Before(p, o),
           NEW o \in added, NEW p \in added
    PROVE  ~Spans(o, p)
<1> SUFFICES ASSUME Spans(o, p) PROVE FALSE
  OBVIOUS
<1>1. PICK s \in o.data, u \in o.data : LeftOf(s, p) /\ RightOf(u, p)
  BY DEF Spans
<1>2. PICK t \in p.data : TRUE
  OBVIOUS
<1>3. s \in Entries /\ u \in Entries /\ t \in Entries
  OBVIOUS
<1>4. Key(s) \in Nat /\ Key(u) \in Nat /\ Key(t) \in Nat
  BY <1>3, EntryTyped
<1>5. Key(s) < Key(t) /\ Key(u) > Key(t)
  BY <1>1 DEF LeftOf, RightOf
<1>6. CASE o = p
  <2>1. Key(s) < Key(s)
    BY <1>1, <1>6 DEF LeftOf
  <2> QED
    BY <1>4, <2>1
<1>7. CASE Before(o, p)
  <2>1. Key(u) <= Key(t)
    BY <1>3, <1>7, PrecedesByKey DEF Before
  <2> QED
    BY <1>4, <1>5, <2>1
<1>8. CASE Before(p, o)
  <2>1. Key(t) <= Key(s)
    BY <1>3, <1>8, PrecedesByKey DEF Before
  <2> QED
    BY <1>4, <1>5, <2>1
<1> QED
  BY <1>6, <1>7, <1>8

(* The parents' level stays parted when the outputs replace the parents. *)
LEMMA OutputsPart ==
    ASSUME TypeOK, LevelsParted, NEW c, Work(c), NEW added,
           \A o \in added : o.data # {} /\ o.data \subseteq Input(c),
           \A o, p \in added : o # p => Before(o, p) \/ Before(p, o)
    PROVE  /\ Parted((files[c.level + 1] \ c.parents) \union added)
           /\ Unspanned((files[c.level + 1] \ c.parents) \union added)
<1> DEFINE l == c.level + 1
           R == files[l] \ c.parents
           K == Input(c)
<1>1. l \in Levels \ {0} /\ c.level \in Levels
  BY LevelsAround DEF Work
<1>2. K \subseteq Entries
  <2>1. Content(c.inputs) \subseteq Entries /\ Content(c.parents) \subseteq Entries
    BY <1>1, ContentTyped DEF Work, ChoiceMade
  <2> QED
    BY <2>1 DEF Input, Content
<1>3. \A r \in R : /\ r \in files[l] /\ r.data # {} /\ r.data \subseteq Entries
                   /\ \A s \in Content(c.inputs) : Beside(s, r)
                   /\ \/ OneSide(K, r)
                      \/ InGap(K, r) /\ \A q \in files[l] : q # r => ~ShareKey(q, r)
  BY <1>1, FileTyped DEF Work, Fits
<1>4. \A r \in R, o \in added : /\ Before(r, o) \/ Before(o, r) \/ Spans(o, r)
                                /\ ~Spans(r, o)
                                /\ Spans(o, r) => ~OneSide(K, r)
  BY <1>2, <1>3, OutputAmong
<1>5. Parted(files[l]) /\ Unspanned(files[l])
  BY <1>1 DEF LevelsParted
<1>6. Parted(R \union added)
  BY <1>4, <1>5 DEF Parted
<1>7. ASSUME NEW o \in added, NEW p \in added
      PROVE  ~Spans(o, p)
  BY <1>2, OutputsApart
(* A file that stays and shares a key has all outputs on one side. *)
<1>8. ASSUME NEW r \in R, NEW g \in R \union added, g # r, ShareKey(r, g), ~OneSide(K, r)
      PROVE  FALSE
  <2>1. InGap(K, r) /\ \A q \in files[l] : q # r => ~ShareKey(q, r)
    BY <1>3, <1>8
  <2>2. g \notin R
    BY <1>8, <2>1 DEF ShareKey
  <2>3. PICK s \in r.data, t \in g.data : Key(s) = Key(t)
    BY <1>8 DEF ShareKey
  <2>4. t \in K
    BY <2>2
  <2>5. Key(s) \in Nat /\ Key(t) \in Nat
    BY <1>2, <1>3, <2>4, EntryTyped
  <2> QED
    BY <2>1, <2>3, <2>4, <2>5 DEF InGap, Beside, LeftOf, RightOf
(* If it shares a key with an output, it does so with a parent. *)
<1>9. ASSUME NEW r \in R, NEW o \in added, ShareKey(r, o)
      PROVE  \E p \in files[l] : p # r /\ ShareKey(r, p)
  <2>1. PICK s \in r.data, t \in o.data : Key(s) = Key(t)
    BY <1>9 DEF ShareKey
  <2>2. t \in K
    OBVIOUS
  <2>3. Key(s) \in Nat /\ Key(t) \in Nat
    BY <1>2, <1>3, <2>2, EntryTyped
  <2>4. t \notin Content(c.inputs)
    BY <1>3, <2>1, <2>3 DEF Beside, LeftOf, RightOf
  <2>5. PICK p \in c.parents : t \in p.data
    BY <2>2, <2>4 DEF Input, Content
  <2>6. p \in files[l] /\ p # r
    BY DEF Work
  <2> QED
    BY <2>1, <2>5, <2>6 DEF ShareKey
<1>10. Unspanned(R \union added)
  <2> SUFFICES ASSUME NEW f \in R \union added, NEW g \in R \union added,
                      NEW h \in R \union added,
                      f # g, ShareKey(f, g), Spans(h, f)
               PROVE  FALSE
    BY DEF Unspanned
  <2>1. CASE f \in added
    BY <1>4, <1>7, <2>1
  <2>2. CASE f \in R /\ h \in added
    BY <1>4, <1>8, <2>2
  <2>3. CASE f \in R /\ h \in R
    <3>1. CASE g \in R
      BY <1>5, <2>3, <3>1 DEF Unspanned
    <3>2. CASE g \in added
      BY <1>5, <1>9, <2>3, <3>2 DEF Unspanned
    <3> QED
      BY <3>1, <3>2
  <2> QED
    BY <2>1, <2>2, <2>3
<1> QED
  BY <1>6, <1>10

-----------------------------------------------------------------------------
(* What steps change *)

(* A flush passes only levels it is clear of (PickLevelForMemTableOutput). *)
LEMMA PickLevelIs ==
    ASSUME TypeOK, NEW S, S \subseteq Entries, S # {}, NEW l \in PickLevels(S)
    PROVE  /\ l \in Levels
           /\ l # 0 => \A i \in 0 .. l : \A f \in files[i] : Clear(S, f)
<1>1. l \in 0 .. MaxMemLevel
  BY DEF PickLevels
<1>2. l \in Levels /\ l \in Nat
  BY <1>1, LsmAssumption DEF Levels
<1>3. SUFFICES ASSUME l # 0, NEW i \in 0 .. l, NEW f \in files[i]
               PROVE  Clear(S, f)
  BY <1>2
<1>4. ~OverlapInLevel(i, Key(First(S)), Key(Last(S)))
  BY <1>3 DEF PickLevels
<1>5. i \in Levels
  BY <1>2, ZeroIsLevel DEF Levels
<1>6. /\ First(S) \in Entries /\ Last(S) \in Entries
      /\ \A s \in S : s = First(S) \/ Precedes(First(S), s)
      /\ \A s \in S : s = Last(S) \/ Precedes(s, Last(S))
  BY FirstIs, LastIs DEF IsFirst, IsLast
<1>7. \A s \in S : Key(First(S)) <= Key(s) /\ Key(s) <= Key(Last(S))
  <2> TAKE s \in S
  <2>1. s \in Entries /\ Key(s) \in Nat
    BY EntryTyped
  <2> QED
    BY <1>6, <2>1, PrecedesByKey
<1>8. \A t \in f.data : t \in Entries /\ Key(Smallest(f)) <= Key(t) /\ Key(t) <= Key(Largest(f))
  BY <1>5, FileKeys
<1>9. /\ Key(First(S)) \in Nat /\ Key(Last(S)) \in Nat
      /\ Key(Smallest(f)) \in Nat /\ Key(Largest(f)) \in Nat
  BY <1>5, <1>6, FileKeys, EntryTyped
<1>10. Key(Largest(f)) < Key(First(S)) \/ Key(Last(S)) < Key(Smallest(f))
  <2>1. ~Overlaps(f, Key(First(S)), Key(Last(S)))
    BY <1>4 DEF OverlapInLevel
  <2> QED
    BY <1>9, <2>1 DEF Overlaps
<1>11. \A s \in S : \A t \in f.data : Key(s) \in Nat /\ Key(t) \in Nat
  BY <1>8, EntryTyped
<1>12. CASE Key(Largest(f)) < Key(First(S))
  <2>1. \A s \in S : \A t \in f.data : Key(s) > Key(t)
    BY <1>7, <1>8, <1>9, <1>11, <1>12
  <2> QED
    BY <2>1 DEF Clear, RightOf
<1>13. CASE Key(Last(S)) < Key(Smallest(f))
  <2>1. \A s \in S : \A t \in f.data : Key(s) < Key(t)
    BY <1>7, <1>8, <1>9, <1>11, <1>13
  <2> QED
    BY <2>1 DEF Clear, LeftOf
<1> QED
  BY <1>10, <1>12, <1>13

(* An edit of the version, one level at a time. *)
LEMMA EditedIs ==
    ASSUME TypeOK, NEW c, c.level \in 0 .. NumLevels - 2, NEW added,
           files' = Edited(c, added)
    PROVE  /\ DOMAIN files' = Levels
           /\ files'[c.level] = files[c.level] \ c.inputs
           /\ files'[c.level + 1] = (files[c.level + 1] \ c.parents) \union added
           /\ \A l \in Levels : l # c.level /\ l # c.level + 1 => files'[l] = files[l]
<1>1. c.level \in Levels /\ c.level + 1 \in Levels /\ c.level # c.level + 1
  BY LevelsAround
<1>2. DOMAIN files = Levels
  BY DEF TypeOK
<1> DEFINE a == c.level
           b == c.level + 1
<1> HIDE DEF a, b
<1>3. /\ a \in Levels /\ b \in Levels /\ a # b
      /\ files' = [files EXCEPT ![a] = @ \ c.inputs,
                              ![b] = (@ \ c.parents) \union added]
  BY <1>1 DEF Edited, a, b
<1> QED
  BY <1>2, <1>3 DEF a, b

(* Updates that were made keep their sequence number. *)
EntriesKept == \A s \in Entries : s \in Entries' /\ history'[s] = history[s]

(* A write adds the next sequence number. *)
LEMMA WriteKeeps ==
    ASSUME TypeOK, NEW u \in Updates, history' = Append(history, u)
    PROVE  /\ history' \in Seq(Update) /\ LastSequence' = LastSequence + 1
           /\ Entries' = Entries \union {LastSequence + 1} /\ LastSequence + 1 \notin Entries
           /\ EntriesKept
<1>1. u \in Update /\ history \in Seq(Update)
  BY LsmAssumption DEF TypeOK
<1>2. history' \in Seq(Update) /\ Len(history') = Len(history) + 1 /\ Len(history) \in Nat
  BY <1>1
<1>3. \A s \in 1 .. Len(history) : history'[s] = history[s]
  BY <1>1
<1> QED
  BY <1>2, <1>3 DEF EntriesKept, Entries, LastSequence

(* A step that writes nothing keeps the entries. *)
LEMMA SameKeeps ==
    ASSUME history' = history
    PROVE  EntriesKept /\ Entries' = Entries /\ LastSequence' = LastSequence
BY DEF EntriesKept, Entries, LastSequence

(* Order, keys and kinds of the entries are kept with them. *)
LEMMA KeysKept ==
    ASSUME EntriesKept
    PROVE  /\ Entries \subseteq Entries'
           /\ \A s \in Entries : Key(s)' = Key(s) /\ (Deletes(s)' <=> Deletes(s))
           /\ \A s, t \in Entries : Precedes(s, t)' <=> Precedes(s, t)
<1>1. \A s \in Entries : Key(s)' = Key(s) /\ (Deletes(s)' <=> Deletes(s))
  BY DEF EntriesKept, Key, Deletes
<1>2. \A s, t \in Entries : Precedes(s, t)' <=> Precedes(s, t)
  BY <1>1 DEF Precedes
<1> QED
  BY <1>1, <1>2 DEF EntriesKept

(* The relations of files with entries and with each other. *)
LEMMA FilesKept ==
    ASSUME EntriesKept, NEW f, f.data \subseteq Entries
    PROVE  /\ \A s \in Entries : /\ LeftOf(s, f)' <=> LeftOf(s, f)
                                 /\ RightOf(s, f)' <=> RightOf(s, f)
                                 /\ Beside(s, f)' <=> Beside(s, f)
           /\ \A K \in SUBSET Entries : /\ OneSide(K, f)' <=> OneSide(K, f)
                                        /\ InGap(K, f)' <=> InGap(K, f)
<1>1. \A s \in Entries : /\ LeftOf(s, f)' <=> LeftOf(s, f)
                         /\ RightOf(s, f)' <=> RightOf(s, f)
  BY KeysKept DEF LeftOf, RightOf
<1>2. \A s \in Entries : Beside(s, f)' <=> Beside(s, f)
  BY <1>1 DEF Beside
<1>3. \A K \in SUBSET Entries : OneSide(K, f)' <=> OneSide(K, f)
  BY <1>1, KeysKept DEF OneSide
<1>4. \A K \in SUBSET Entries : InGap(K, f)' <=> InGap(K, f)
  BY <1>2 DEF InGap
<1> QED
  BY <1>1, <1>2, <1>3, <1>4

(* So are the relations between files. *)
LEMMA PairsKept ==
    ASSUME EntriesKept, NEW f, f.data \subseteq Entries, NEW g, g.data \subseteq Entries
    PROVE  /\ Before(f, g)' <=> Before(f, g)
           /\ Spans(f, g)' <=> Spans(f, g)
           /\ ShareKey(f, g)' <=> ShareKey(f, g)
<1>1. Before(f, g)' <=> Before(f, g)
  BY KeysKept DEF Before
<1>2. Spans(f, g)' <=> Spans(f, g)
  <2>1. \A s \in f.data : /\ LeftOf(s, g)' <=> LeftOf(s, g)
                          /\ RightOf(s, g)' <=> RightOf(s, g)
                          /\ Beside(s, g)' <=> Beside(s, g)
    BY FilesKept
  <2> QED
    BY <2>1 DEF Spans
<1>3. ShareKey(f, g)' <=> ShareKey(f, g)
  BY KeysKept DEF ShareKey
<1> QED
  BY <1>1, <1>2, <1>3

(* So is the shape of a level. *)
LEMMA PartedKept ==
    ASSUME EntriesKept, NEW F, \A f \in F : f.data \subseteq Entries
    PROVE  (Parted(F) => Parted(F)') /\ (Unspanned(F) => Unspanned(F)')
<1>1. \A f, g \in F : /\ Before(f, g)' <=> Before(f, g)
                      /\ Spans(f, g)' <=> Spans(f, g)
                      /\ ShareKey(f, g)' <=> ShareKey(f, g)
  BY PairsKept
<1> QED
  BY <1>1 DEF Parted, Unspanned

-----------------------------------------------------------------------------
(* The steps that edit the version *)

(* A flush of the immutable memtable to level l. *)
Flushed(l, h) ==
    /\ imm # {} /\ l \in PickLevels(imm) /\ h = [num |-> nextFile, data |-> imm]
    /\ files' = [files EXCEPT ![l] = @ \union {h}]

(* The version after a flush. *)
LEMMA FlushIs ==
    ASSUME Typed, NEW l, NEW h, Flushed(l, h)
    PROVE  /\ l \in Levels /\ DOMAIN files' = Levels
           /\ h.num = nextFile /\ h.data = imm /\ h.data # {} /\ h.data \subseteq Entries
           /\ files'[l] = files[l] \union {h}
           /\ \A i \in Levels : i # l => files'[i] = files[i]
           /\ l # 0 => \A i \in 0 .. l : \A f \in files[i] : Clear(h.data, f)
           /\ \A i \in Levels : h \notin files[i]
<1>1. TypeOK /\ imm \subseteq Entries /\ nextFile \in Nat
  BY DEF Typed, TypeOK
<1>2. h.num = nextFile /\ h.data = imm
  BY DEF Flushed
<1>3. l \in Levels /\ (l # 0 => \A i \in 0 .. l : \A f \in files[i] : Clear(h.data, f))
  BY <1>1, <1>2, PickLevelIs DEF Flushed
<1>4. /\ DOMAIN files' = Levels
      /\ files'[l] = files[l] \union {h}
      /\ \A i \in Levels : i # l => files'[i] = files[i]
  BY <1>1, <1>3 DEF Flushed, TypeOK
<1>5. \A i \in Levels : h \notin files[i]
  <2> SUFFICES ASSUME NEW i \in Levels, h \in files[i] PROVE FALSE
    OBVIOUS
  <2>1. h.num < nextFile
    BY <1>1 DEF TypeOK, AllFiles
  <2> QED
    BY <1>1, <1>2, <2>1
<1> QED
  BY <1>1, <1>2, <1>3, <1>4, <1>5 DEF Flushed

(* A flush keeps the types. *)
LEMMA FlushTyped ==
    ASSUME Typed, NEW l, NEW h, Flushed(l, h), nextFile' = nextFile + 1, history' = history
    PROVE  /\ DOMAIN files' = Levels
           /\ \A f \in AllFiles' : f.data # {} /\ f.data \subseteq Entries' /\ f.num < nextFile'
           /\ \A f, g \in files'[0] : f # g => f.num # g.num
           /\ nextFile' \in Nat \ {0} /\ NumsTyped' /\ Finite'
<1>1. TypeOK /\ nextFile \in Nat \ {0} /\ NumsTyped /\ Finite
  BY DEF Typed
<1>2. /\ l \in Levels /\ DOMAIN files' = Levels
      /\ h.num = nextFile /\ h.data # {} /\ h.data \subseteq Entries
      /\ files'[l] = files[l] \union {h}
      /\ \A i \in Levels : i # l => files'[i] = files[i]
  BY <1>1, FlushIs
<1>3. ASSUME NEW i \in Levels
      PROVE  /\ \A f \in files'[i] : /\ f \in files[i] \/ f = h
                                     /\ f.num \in Nat /\ f.num < nextFile'
                                     /\ f.data # {} /\ f.data \subseteq Entries
             /\ IsFiniteSet(files'[i])
  <2>1. \A f \in files[i] : f.num \in Nat /\ f.num < nextFile
    BY <1>1 DEF NumsTyped, TypeOK, AllFiles
  <2>2. \A f \in files[i] : f.data # {} /\ f.data \subseteq Entries
    BY <1>1, FileTyped
  <2>3. nextFile < nextFile' /\ \A f \in files[i] : f.num < nextFile'
    BY <1>1, <2>1
  <2>4. IsFiniteSet(files[i]) /\ IsFiniteSet(files[i] \union {h})
    BY <1>1, FS_AddElement DEF Finite
  <2>5. files'[i] = files[i] \/ files'[i] = files[i] \union {h}
    BY <1>2
  <2> QED
    BY <1>1, <1>2, <2>1, <2>2, <2>3, <2>4, <2>5
<1>4. Entries' = Entries
  BY SameKeeps
<1>5. \A f \in AllFiles' : f.data # {} /\ f.data \subseteq Entries' /\ f.num < nextFile'
  BY <1>3, <1>4 DEF AllFiles, Levels
<1>6. \A f, g \in files'[0] : f # g => f.num # g.num
  <2>1. 0 \in Levels
    BY ZeroIsLevel
  <2>2. \A f \in files[0] : f.num \in Nat /\ f.num < nextFile
    BY <1>1, <2>1 DEF NumsTyped, TypeOK, AllFiles
  <2>3. \A f \in files[0] : f.num # nextFile
    BY <1>1, <2>2
  <2>4. \A f, g \in files[0] : f # g => f.num # g.num
    BY <1>1 DEF TypeOK
  <2>5. \A f \in files'[0] : f \in files[0] \/ f = h
    BY <1>3, <2>1
  <2> QED
    BY <1>2, <2>3, <2>4, <2>5
<1> QED
  BY <1>1, <1>2, <1>3, <1>5, <1>6 DEF NumsTyped, Finite, Levels

(* What an edit adds: outputs that hold only entries of the inputs, or the *)
(* one file that is moved.                                                 *)
Added(c, added) ==
    /\ IsFiniteSet(added)
    /\ \A o \in added : /\ o.num \in Nat /\ o.num < nextFile
                        /\ o.data # {} /\ o.data \subseteq Input(c)
    /\ \A o, p \in added : o # p => Before(o, p) \/ Before(p, o)

(* What a compaction reads are entries of files of its two levels. *)
LEMMA InputTyped ==
    ASSUME TypeOK, NEW c, Work(c)
    PROVE  /\ c.level \in Levels /\ c.level + 1 \in Levels \ {0}
           /\ c.inputs # {} /\ c.inputs \subseteq files[c.level]
           /\ c.parents \subseteq files[c.level + 1]
           /\ Content(c.inputs) \subseteq Entries /\ Content(c.inputs) # {}
           /\ Content(c.parents) \subseteq Entries
           /\ Input(c) = Content(c.inputs) \union Content(c.parents)
           /\ Input(c) \subseteq Entries
<1>1. /\ c.level \in 0 .. NumLevels - 2
      /\ c.inputs # {} /\ c.inputs \subseteq files[c.level]
      /\ c.parents \subseteq files[c.level + 1]
  BY DEF Work, ChoiceMade
<1>2. c.level \in Levels /\ c.level + 1 \in Levels \ {0}
  BY <1>1, LevelsAround
<1>3. Input(c) = Content(c.inputs) \union Content(c.parents)
  BY DEF Input, Content
<1>4. /\ Content(c.inputs) \subseteq Entries /\ Content(c.inputs) # {}
      /\ Content(c.parents) \subseteq Entries
  BY <1>1, <1>2, ContentTyped
<1> QED
  BY <1>1, <1>2, <1>3, <1>4

(* A compaction's edit keeps the types. *)
LEMMA EditTyped ==
    ASSUME Typed, NEW c, Work(c), NEW added, Added(c, added), files' = Edited(c, added),
           nextFile' = nextFile, history' = history
    PROVE  /\ DOMAIN files' = Levels
           /\ \A f \in AllFiles' : f.data # {} /\ f.data \subseteq Entries' /\ f.num < nextFile'
           /\ \A f, g \in files'[0] : f # g => f.num # g.num
           /\ NumsTyped' /\ Finite'
<1>1. TypeOK /\ nextFile \in Nat \ {0} /\ NumsTyped /\ Finite
  BY DEF Typed
<1>2. /\ c.level \in Levels /\ c.level + 1 \in Levels \ {0} /\ Input(c) \subseteq Entries
  BY <1>1, InputTyped
<1>3. /\ DOMAIN files' = Levels
      /\ files'[c.level] = files[c.level] \ c.inputs
      /\ files'[c.level + 1] = (files[c.level + 1] \ c.parents) \union added
      /\ \A l \in Levels : l # c.level /\ l # c.level + 1 => files'[l] = files[l]
  BY <1>1, EditedIs DEF Work
<1>4. /\ IsFiniteSet(added)
      /\ \A o \in added : /\ o.num \in Nat /\ o.num < nextFile
                          /\ o.data # {} /\ o.data \subseteq Entries
  BY <1>2 DEF Added
<1>5. ASSUME NEW i \in Levels
      PROVE  /\ \A f \in files'[i] : /\ f \in files[i] \/ (i # 0 /\ f \in added)
                                     /\ f.num \in Nat /\ f.num < nextFile
                                     /\ f.data # {} /\ f.data \subseteq Entries
             /\ IsFiniteSet(files'[i])
  <2>1. \A f \in files[i] : f.num \in Nat /\ f.num < nextFile
    BY <1>1 DEF NumsTyped, TypeOK, AllFiles
  <2>2. \A f \in files[i] : f.data # {} /\ f.data \subseteq Entries
    BY <1>1, FileTyped
  <2>3. \A f \in files'[i] : f \in files[i] \/ (i # 0 /\ f \in added)
    BY <1>2, <1>3
  <2>4. files'[i] \subseteq files[i] \union added
    BY <2>3
  <2>5. IsFiniteSet(files[i] \union added)
    BY <1>1, <1>4, FS_Union DEF Finite
  <2>6. IsFiniteSet(files'[i])
    BY <2>4, <2>5, FS_Subset
  <2> QED
    BY <1>4, <2>1, <2>2, <2>3, <2>6
<1>6. Entries' = Entries
  BY SameKeeps
<1>7. \A f \in AllFiles' : f.data # {} /\ f.data \subseteq Entries' /\ f.num < nextFile'
  BY <1>5, <1>6 DEF AllFiles, Levels
<1>8. \A f, g \in files'[0] : f # g => f.num # g.num
  <2>1. \A f \in files'[0] : f \in files[0]
    BY <1>5, ZeroIsLevel
  <2> QED
    BY <1>1, <2>1 DEF TypeOK
<1> QED
  BY <1>1, <1>3, <1>5, <1>7, <1>8 DEF NumsTyped, Finite, Levels

(* What the steps add. *)
LEMMA OutputsAdded ==
    ASSUME Typed, NEW c, Work(c), NEW F \in Outputs(Kept(c))
    PROVE  Added(c, F)
<1>1. TypeOK /\ nextFile \in Nat \ {0} /\ Input(c) \subseteq Entries
  BY InputTyped DEF Typed
<1>2. Kept(c) \subseteq Input(c)
  BY DEF Kept, Input
<1>3. /\ IsFiniteSet(F)
      /\ \A o \in F : o.num = 0 /\ o.data # {} /\ o.data \subseteq Kept(c)
      /\ \A o, p \in F : o # p => Before(o, p) \/ Before(p, o)
  BY <1>1, <1>2, OutputsAre
<1>4. 0 \in Nat /\ 0 < nextFile
  BY <1>1
<1> QED
  BY <1>2, <1>3, <1>4 DEF Added

(* A trivial move adds the file it takes away. *)
LEMMA MovedAdded ==
    ASSUME Typed, NEW c, Work(c), Movable(c)
    PROVE  Added(c, c.inputs)
<1>1. TypeOK /\ c.inputs \subseteq files[c.level] /\ c.level \in Levels
  BY InputTyped DEF Typed
<1>2. IsFiniteSet(c.inputs)
  BY <1>1, FS_Subset DEF Typed, Finite
<1>3. \A o \in c.inputs : /\ o.num \in Nat /\ o.num < nextFile
                          /\ o.data # {} /\ o.data \subseteq Input(c)
  <2> TAKE o \in c.inputs
  <2>1. o.num \in Nat /\ o.num < nextFile
    BY <1>1 DEF Typed, NumsTyped, TypeOK, AllFiles
  <2>2. o.data # {}
    BY <1>1, FileTyped
  <2> QED
    BY <2>1, <2>2 DEF Input, Content
<1>4. \A o, p \in c.inputs : o = p
  <2>1. Cardinality(c.inputs) = 1
    BY DEF Movable
  <2>2. PICK o : c.inputs = {o}
    BY <1>2, <2>1, FS_Singleton
  <2> QED
    BY <2>2
<1> QED
  BY <1>2, <1>3, <1>4 DEF Added

-----------------------------------------------------------------------------
(* Newer entries stay first *)

(* Everything that the places of a version hold, level by level. *)
LEMMA NewerParts ==
    ASSUME NewerFirst
    PROVE  /\ \A l \in Levels : \A f \in files[l] : Shadows(mem \union imm, f.data)
           /\ \A l, m \in Levels : l < m =>
                \A f \in files[l], g \in files[m] : Shadows(f.data, g.data)
<1>1. \A l \in Levels : \A f \in files[l] : Shadows(mem \union imm, f.data)
  BY DEF NewerFirst, AllFiles
<1>2. ASSUME NEW l \in Levels, NEW m \in Levels, l < m, NEW f \in files[l], NEW g \in files[m]
      PROVE  Shadows(f.data, g.data)
  <2>1. Shadows(Content(files[l]), Content(files[m]))
    BY <1>2 DEF NewerFirst
  <2>2. f.data \subseteq Content(files[l]) /\ g.data \subseteq Content(files[m])
    BY DEF Content
  <2> QED
    BY <2>1, <2>2 DEF Shadows
<1> QED
  BY <1>1, <1>2

(* It is enough to compare level with level, file by file. *)
LEMMA NewerByFiles ==
    ASSUME \A l, m \in Levels : l < m =>
             \A f \in files[l], g \in files[m] : Shadows(f.data, g.data)
    PROVE  \A l, m \in Levels : l < m => Shadows(Content(files[l]), Content(files[m]))
BY DEF Shadows, Content

(* A write goes to the memtable and is newest. *)
LEMMA WriteNewer ==
    ASSUME TypeOK, NewerFirst, NEW u \in Updates, history' = Append(history, u),
           mem' = mem \union {LastSequence + 1}, imm' = imm, files' = files
    PROVE  NewerFirst'
<1>1. /\ EntriesKept /\ LastSequence \in Nat
      /\ mem \subseteq Entries /\ imm \subseteq Entries
      /\ \A l \in Levels : \A f \in files[l] : f.data \subseteq Entries
  BY WriteKeeps, EntryTyped, FileTyped DEF TypeOK
<1>2. PICK n : n = LastSequence + 1
  OBVIOUS
<1>3. \A s \in Entries : Key(s)' = Key(s) /\ n > s
  BY <1>1, <1>2, KeysKept, EntryTyped DEF Entries
<1>4. \A S, T \in SUBSET Entries : /\ Shadows(S, T) => Shadows(S, T)'
                                   /\ Shadows(S, T) => Shadows(S \union {n}, T)'
  BY <1>3 DEF Shadows
<1>5. mem' = mem \union {n} /\ mem' \union imm' = (mem \union imm) \union {n}
  BY <1>2
<1>6. Shadows(mem, imm)'
  <2>1. PICK S, T \in SUBSET Entries : S = mem /\ T = imm
    BY <1>1
  <2> QED
    BY <1>4, <1>5, <2>1 DEF NewerFirst, Shadows
<1>7. \A f \in AllFiles' : Shadows(mem \union imm, f.data)'
  <2> SUFFICES ASSUME NEW f \in AllFiles PROVE Shadows(mem \union imm, f.data)'
    BY DEF AllFiles
  <2>1. f.data \in SUBSET Entries /\ mem \union imm \in SUBSET Entries
    BY <1>1 DEF AllFiles
  <2>2. PICK S \in SUBSET Entries : S = mem \union imm
    BY <2>1
  <2>3. Shadows(S \union {n}, f.data)'
    BY <1>4, <2>1, <2>2 DEF NewerFirst
  <2> QED
    BY <1>5, <2>2, <2>3 DEF Shadows
<1>8. \A l, m \in Levels : \A f \in files[l], g \in files[m] :
         Shadows(f.data, g.data) => Shadows(f.data, g.data)'
  BY <1>1, <1>4
<1>9. \A f, g \in files'[0] : f.num > g.num => Shadows(f.data, g.data)'
  BY <1>8, ZeroIsLevel DEF NewerFirst
<1>10. \A l, m \in Levels : l < m => Shadows(Content(files[l]), Content(files[m]))'
  <2>1. \A l, m \in Levels : l < m =>
           \A f \in files'[l], g \in files'[m] : Shadows(f.data, g.data)'
    BY <1>8, NewerParts
  <2> QED
    BY <2>1 DEF Shadows, Content
<1> QED
  BY <1>6, <1>7, <1>9, <1>10 DEF NewerFirst

(* The memtable becomes the immutable one. *)
LEMMA SwitchNewer ==
    ASSUME NewerFirst, history' = history, mem' = {}, imm' = mem, imm = {}, files' = files
    PROVE  NewerFirst'
<1>1. \A S, T : Shadows(S, T)' <=> Shadows(S, T)
  BY DEF Shadows, Key
<1> QED
  BY <1>1 DEF NewerFirst, Shadows, AllFiles, Content, Key

(* A flush puts the newest entries of the version to its level, and has no *)
(* key in common with the levels that it passes.                           *)
LEMMA FlushNewer ==
    ASSUME Typed, NewerFirst, NEW l, NEW h, Flushed(l, h),
           history' = history, mem' = mem, imm' = {}
    PROVE  NewerFirst'
<1>1. TypeOK
  BY DEF Typed
<1>2. /\ l \in Levels /\ h.num = nextFile /\ h.data = imm
      /\ files'[l] = files[l] \union {h}
      /\ \A i \in Levels : i # l => files'[i] = files[i]
      /\ l # 0 => \A i \in 0 .. l : \A f \in files[i] : Clear(h.data, f)
      /\ h.data \subseteq Entries
  BY FlushIs
<1>3. \A s : Key(s)' = Key(s)
  BY DEF Key
<1>4. \A i \in Levels : \A f \in files'[i] : f \in files[i] \/ (i = l /\ f = h)
  BY <1>2
<1>5. Shadows(mem, h.data) /\ \A i \in Levels : \A f \in files[i] : Shadows(h.data, f.data)
                                                    /\ Shadows(mem, f.data)
  BY <1>2, NewerParts DEF NewerFirst, Shadows
<1>6. Shadows(mem, imm)'
  BY DEF Shadows
<1>7. \A i \in Levels : \A f \in files'[i] : Shadows(mem, f.data)
  BY <1>4, <1>5
<1>8. \A f \in AllFiles' : Shadows(mem \union imm, f.data)'
  BY <1>3, <1>7 DEF AllFiles, Shadows, Levels
<1>9. \A f, g \in files'[0] : f.num > g.num => Shadows(f.data, g.data)'
  <2> SUFFICES ASSUME NEW f \in files'[0], NEW g \in files'[0], f.num > g.num
               PROVE  Shadows(f.data, g.data)
    BY <1>3 DEF Shadows
  <2>1. 0 \in Levels
    BY ZeroIsLevel
  <2>2. CASE f \in files[0] /\ g \in files[0]
    BY <2>2 DEF NewerFirst
  <2>3. CASE f = h /\ g \in files[0]
    BY <1>5, <2>1, <2>3
  <2>4. CASE g = h
    <3>1. f.num \in Nat /\ nextFile \in Nat
      BY <1>2, <1>4, <2>1 DEF Typed, NumsTyped
    <3>2. f.num < nextFile \/ f = h
      BY <1>1, <1>4, <2>1 DEF TypeOK, AllFiles
    <3> QED
      BY <1>2, <2>4, <3>1, <3>2
  <2> QED
    BY <1>4, <2>1, <2>2, <2>3, <2>4
<1>10. ASSUME NEW i \in Levels, NEW m \in Levels, i < m,
              NEW f \in files'[i], NEW g \in files'[m]
       PROVE  Shadows(f.data, g.data)
  <2>1. CASE f \in files[i] /\ g \in files[m]
    BY <1>10, <2>1, NewerParts
  <2>2. CASE f = h /\ g \in files[m]
    BY <1>5, <2>2
  <2>3. CASE f \in files[i] /\ m = l /\ g = h
    <3>1. m \in Nat /\ i \in 0 .. m /\ m # 0
      BY <1>10 DEF Levels
    <3>2. Clear(h.data, f) /\ f.data \subseteq Entries
      BY <1>1, <1>2, <2>3, <3>1, FileTyped
    <3>3. \A s \in h.data, t \in f.data : Key(s) # Key(t)
      BY <1>1, <1>2, <3>2, ClearNoShare
    <3> QED
      BY <2>3, <3>3 DEF Shadows
  <2>4. ~(i = l /\ m = l)
    BY <1>10 DEF Levels
  <2> QED
    BY <1>4, <2>1, <2>2, <2>3, <2>4
<1>11. \A i, m \in Levels : i < m => Shadows(Content(files[i]), Content(files[m]))'
  BY <1>3, <1>10 DEF Shadows, Content
<1> QED
  BY <1>6, <1>8, <1>9, <1>11 DEF NewerFirst

(* A compaction takes entries one level down; what stays in their level is *)
(* newer, and no level lies between.                                       *)
LEMMA EditNewer ==
    ASSUME Typed, NewerFirst, NEW c, Work(c), NEW added, Added(c, added),
           files' = Edited(c, added), history' = history, mem' = mem, imm' = imm
    PROVE  NewerFirst'
<1>1. TypeOK
  BY DEF Typed
<1>2. /\ c.level \in Levels /\ c.level + 1 \in Levels \ {0}
      /\ c.inputs \subseteq files[c.level] /\ c.parents \subseteq files[c.level + 1]
      /\ Input(c) = Content(c.inputs) \union Content(c.parents)
  BY <1>1, InputTyped
<1>3. /\ files'[c.level] = files[c.level] \ c.inputs
      /\ files'[c.level + 1] = (files[c.level + 1] \ c.parents) \union added
      /\ \A l \in Levels : l # c.level /\ l # c.level + 1 => files'[l] = files[l]
  BY <1>1, EditedIs DEF Work
<1>4. \A s : Key(s)' = Key(s)
  BY DEF Key
(* Where an entry was before. *)
<1>5. ASSUME NEW i \in Levels, NEW s \in Content(files'[i])
      PROVE  \/ \E f \in files[i] : s \in f.data /\ (i = c.level => f \notin c.inputs)
             \/ i = c.level + 1 /\ \E f \in c.inputs : s \in f.data
  <2>1. PICK f \in files'[i] : s \in f.data
    BY DEF Content
  <2>2. CASE f \in files[i] /\ (i = c.level => f \notin c.inputs)
    BY <2>1, <2>2
  <2>3. CASE i = c.level + 1 /\ f \in added
    <3>1. s \in Content(c.inputs) \union Content(c.parents)
      BY <1>2, <2>1, <2>3 DEF Added
    <3>2. i # c.level
      BY <1>2, <2>3 DEF Levels
    <3> QED
      BY <1>2, <2>3, <3>1, <3>2 DEF Content
  <2> QED
    BY <1>2, <1>3, <2>2, <2>3
<1>6. Shadows(mem, imm)'
  BY <1>4 DEF NewerFirst, Shadows
<1>7. \A f \in AllFiles' : Shadows(mem \union imm, f.data)'
  <2> SUFFICES ASSUME NEW i \in Levels, NEW f \in files'[i]
               PROVE  Shadows(mem \union imm, f.data)
    BY <1>4 DEF AllFiles, Shadows, Levels
  <2>1. ASSUME NEW t \in f.data
        PROVE  \E l \in Levels : \E g \in files[l] : t \in g.data
    <3>1. t \in Content(files'[i])
      BY DEF Content
    <3> QED
      BY <1>2, <1>5, <3>1
  <2> QED
    BY <2>1, NewerParts DEF Shadows
<1>8. \A f, g \in files'[0] : f.num > g.num => Shadows(f.data, g.data)'
  <2>1. files'[0] \subseteq files[0]
    BY <1>2, <1>3, ZeroIsLevel
  <2> QED
    BY <1>4, <2>1 DEF NewerFirst, Shadows
<1>9. ASSUME NEW i \in Levels, NEW m \in Levels, i < m,
             NEW s \in Content(files'[i]), NEW t \in Content(files'[m]), Key(s) = Key(t)
      PROVE  s > t
  <2>0. i \in Int /\ m \in Int /\ c.level \in Int
    BY <1>2 DEF Levels
  <2>1. CASE /\ \E f \in files[i] : s \in f.data
             /\ \E g \in files[m] : t \in g.data
    BY <1>9, <2>1, NewerParts DEF Shadows
  <2>2. CASE /\ i = c.level + 1 /\ \E f \in c.inputs : s \in f.data
             /\ \E g \in files[m] : t \in g.data
    <3>1. c.level < m
      BY <1>9, <2>0, <2>2
    <3>2. \E f \in files[c.level] : s \in f.data
      BY <1>2, <2>2
    <3> QED
      BY <1>2, <1>9, <2>2, <3>1, <3>2, NewerParts DEF Shadows
  <2>3. CASE /\ \E f \in files[i] : s \in f.data /\ (i = c.level => f \notin c.inputs)
             /\ m = c.level + 1 /\ \E g \in c.inputs : t \in g.data
    <3>1. PICK f \in files[i] : s \in f.data /\ (i = c.level => f \notin c.inputs)
      BY <2>3
    <3>2. PICK g \in c.inputs : t \in g.data
      BY <2>3
    <3>3. CASE i = c.level
      <4>1. f \in files[c.level] \ c.inputs /\ t \in Content(c.inputs)
        BY <3>1, <3>2, <3>3 DEF Content
      <4>2. LeftNewer(c.level, c.inputs)
        BY DEF Work, ChoiceMade
      <4> QED
        BY <1>9, <3>1, <4>1, <4>2 DEF LeftNewer
    <3>4. CASE i # c.level
      <4>1. i < c.level
        BY <1>9, <2>0, <2>3, <3>4
      <4>2. g \in files[c.level]
        BY <1>2
      <4> QED
        BY <1>2, <1>9, <3>1, <3>2, <4>1, <4>2, NewerParts DEF Shadows
    <3> QED
      BY <3>3, <3>4
  <2>4. ~(i = c.level + 1 /\ m = c.level + 1)
    BY <1>9, <2>0
  <2> QED
    BY <1>5, <2>1, <2>2, <2>3, <2>4
<1>10. \A i, m \in Levels : i < m => Shadows(Content(files[i]), Content(files[m]))'
  <2>1. \A i \in Levels : Content(files[i])' = Content(files'[i])
    BY DEF Content
  <2> QED
    BY <1>4, <1>9, <2>1 DEF Shadows
<1> QED
  BY <1>6, <1>7, <1>8, <1>10 DEF NewerFirst

-----------------------------------------------------------------------------
(* Levels stay parted *)

(* One level, when the entries are kept. *)
LEMMA LevelKept ==
    ASSUME EntriesKept, NEW l, NEW F, F = files'[l], \A f \in F : f.data \subseteq Entries,
           Parted(F), Unspanned(F)
    PROVE  Parted(files[l])' /\ Unspanned(files[l])'
<1>1. Parted(F)' /\ Unspanned(F)'
  BY PartedKept
<1>2. Parted(files[l])'
  BY <1>1 DEF Parted
<1>3. Unspanned(files[l])'
  BY <1>1 DEF Unspanned
<1> QED
  BY <1>2, <1>3

(* Steps that leave the files alone keep the levels parted. *)
LEMMA SameParted ==
    ASSUME TypeOK, LevelsParted, EntriesKept, files' = files
    PROVE  LevelsParted'
<1> SUFFICES ASSUME NEW l \in Levels \ {0}
             PROVE  Parted(files[l])' /\ Unspanned(files[l])'
  BY DEF LevelsParted, Levels
<1>1. PICK F : F = files'[l]
  OBVIOUS
<1>2. F = files[l] /\ \A f \in F : f.data \subseteq Entries
  BY <1>1, FileTyped
<1>3. Parted(F) /\ Unspanned(F)
  BY <1>2 DEF LevelsParted
<1> QED
  BY <1>1, <1>2, <1>3, LevelKept

(* So does a flush. *)
LEMMA FlushParted ==
    ASSUME Typed, LevelsParted, NEW l, NEW h, Flushed(l, h), history' = history
    PROVE  LevelsParted'
<1>1. TypeOK /\ EntriesKept
  BY SameKeeps DEF Typed
<1>2. /\ l \in Levels /\ h.data # {} /\ h.data \subseteq Entries
      /\ files'[l] = files[l] \union {h}
      /\ \A i \in Levels : i # l => files'[i] = files[i]
      /\ l # 0 => \A i \in 0 .. l : \A f \in files[i] : Clear(h.data, f)
  BY FlushIs
<1> SUFFICES ASSUME NEW i \in Levels \ {0}
             PROVE  Parted(files[i])' /\ Unspanned(files[i])'
  BY DEF LevelsParted, Levels
<1>3. PICK F : F = files'[i]
  OBVIOUS
<1>4. \A f \in F : f.data \subseteq Entries
  BY <1>1, <1>2, <1>3, FileTyped
<1>5. Parted(F) /\ Unspanned(F)
  <2>1. CASE i # l
    BY <1>2, <1>3, <2>1 DEF LevelsParted
  <2>2. CASE i = l
    <3>1. l \in 0 .. l
      BY <1>2 DEF Levels
    <3>2. \A f \in files[l] : Clear(h.data, f)
      BY <1>2, <2>2, <3>1
    <3>3. Parted(files[l] \union {h}) /\ Unspanned(files[l] \union {h})
      BY <1>1, <1>2, <2>2, <3>2, FlushedParts
    <3> QED
      BY <1>2, <1>3, <2>2, <3>3
  <2> QED
    BY <2>1, <2>2
<1> QED
  BY <1>1, <1>3, <1>4, <1>5, LevelKept

(* So does the end of a compaction. *)
LEMMA EditParted ==
    ASSUME Typed, LevelsParted, NEW c, Work(c), NEW added, Added(c, added),
           files' = Edited(c, added), history' = history
    PROVE  LevelsParted'
<1>1. TypeOK /\ EntriesKept
  BY SameKeeps DEF Typed
<1>2. c.level \in Levels /\ c.level + 1 \in Levels \ {0} /\ Input(c) \subseteq Entries
  BY <1>1, InputTyped
<1>3. /\ files'[c.level] = files[c.level] \ c.inputs
      /\ files'[c.level + 1] = (files[c.level + 1] \ c.parents) \union added
      /\ \A l \in Levels : l # c.level /\ l # c.level + 1 => files'[l] = files[l]
  BY <1>1, EditedIs DEF Work
<1>4. \A o \in added : o.data # {} /\ o.data \subseteq Input(c)
  BY DEF Added
<1> SUFFICES ASSUME NEW i \in Levels \ {0}
             PROVE  Parted(files[i])' /\ Unspanned(files[i])'
  BY DEF LevelsParted, Levels
<1>5. PICK F : F = files'[i]
  OBVIOUS
<1>6. \A f \in F : f \in files[i] \/ f \in added
  BY <1>2, <1>3, <1>5
<1>7. \A f \in F : f.data \subseteq Entries
  BY <1>1, <1>2, <1>4, <1>6, FileTyped
<1>8. Parted(F) /\ Unspanned(F)
  <2>1. CASE i = c.level + 1
    <3>1. \A o, p \in added : o # p => Before(o, p) \/ Before(p, o)
      BY DEF Added
    <3>2. /\ Parted((files[c.level + 1] \ c.parents) \union added)
          /\ Unspanned((files[c.level + 1] \ c.parents) \union added)
      BY <1>1, <1>4, <3>1, OutputsPart
    <3> QED
      BY <1>3, <1>5, <2>1, <3>2
  <2>2. CASE i # c.level + 1
    <3>1. F \subseteq files[i]
      BY <1>3, <1>5, <2>2
    <3>2. Parted(files[i]) /\ Unspanned(files[i])
      BY DEF LevelsParted
    <3>3. Parted(F)
      BY <3>1, <3>2 DEF Parted
    <3>4. Unspanned(F)
      BY <3>1, <3>2 DEF Unspanned
    <3> QED
      BY <3>3, <3>4
  <2> QED
    BY <2>1, <2>2
<1> QED
  BY <1>1, <1>5, <1>7, <1>8, LevelKept

-----------------------------------------------------------------------------
(* What a compaction under way relies on stays true *)

(* Work under way stays sound while the files are the same and snapshots   *)
(* are only taken at the latest sequence number or released.               *)
LEMMA WorkSame ==
    ASSUME TypeOK, NEW c, Work(c), EntriesKept, files' = files,
           LastSequence' \in Nat, LastSequence <= LastSequence',
           snapshots' \subseteq snapshots \union {LastSequence, LastSequence'}
    PROVE  Work(c)'
<1>1. /\ c.level \in Levels /\ c.level + 1 \in Levels \ {0}
      /\ c.inputs # {} /\ c.inputs \subseteq files[c.level]
      /\ c.parents \subseteq files[c.level + 1]
      /\ Content(c.inputs) \subseteq Entries /\ Input(c) \subseteq Entries
  BY InputTyped
<1>2. \A l \in Levels : \A f \in files[l] : f.data \subseteq Entries
  BY FileTyped
<1>3. \A s \in Entries : Key(s)' = Key(s)
  BY KeysKept
<1>4. ChoiceMade(c.level, c.inputs)'
  <2>1. LeftNewer(c.level, c.inputs)
    BY DEF Work, ChoiceMade
  <2>2. \A g \in files[c.level] \ c.inputs : \A s \in g.data, t \in Content(c.inputs) :
          (Key(s)' = Key(t)') => s > t
    BY <1>1, <1>2, <1>3, <2>1 DEF LeftNewer
  <2>3. LeftNewer(c.level, c.inputs)'
    BY <2>2 DEF LeftNewer, Content
  <2> QED
    BY <1>1, <2>3 DEF ChoiceMade
<1>5. Fits(c)'
  <2> DEFINE K == Input(c)
  <2>1. K' = K /\ K \in SUBSET Entries
    BY <1>1 DEF Input, Content
  <2> SUFFICES ASSUME NEW r \in files[c.level + 1] \ c.parents
               PROVE  /\ \A s \in Content(c.inputs) : Beside(s, r)'
                      /\ \/ OneSide(Input(c), r)'
                         \/ /\ InGap(Input(c), r)'
                            /\ \A q \in files[c.level + 1] : q # r => ~ShareKey(q, r)'
    BY DEF Fits, Content
  <2>2. /\ \A s \in Content(c.inputs) : Beside(s, r)
        /\ \/ OneSide(K, r)
           \/ /\ InGap(K, r)
              /\ \A q \in files[c.level + 1] : q # r => ~ShareKey(q, r)
    BY DEF Work, Fits
  <2>3. r.data \subseteq Entries
    BY <1>1, <1>2
  <2>4. \A s \in Content(c.inputs) : Beside(s, r)'
    BY <1>1, <2>2, <2>3, FilesKept
  <2>5. PICK k \in SUBSET Entries : k = K
    BY <2>1
  <2>6. /\ OneSide(k, r)' <=> OneSide(k, r)
        /\ InGap(k, r)' <=> InGap(k, r)
    BY <2>3, FilesKept
  <2>7. /\ OneSide(Input(c), r)' <=> OneSide(k, r)'
        /\ InGap(Input(c), r)' <=> InGap(k, r)'
    BY <2>1, <2>5 DEF OneSide, InGap
  <2>8. \A q \in files[c.level + 1] : ShareKey(q, r)' <=> ShareKey(q, r)
    BY <1>1, <1>2, <2>3, PairsKept
  <2> QED
    BY <2>2, <2>4, <2>5, <2>6, <2>7, <2>8
<1>6. DeletesLast(c)'
  <2>1. Input(c)' = Input(c)
    BY DEF Input, Content
  <2> SUFFICES ASSUME NEW s \in Input(c), Key(s)' \in c.base,
                      NEW l \in c.level + 2 .. NumLevels - 1, NEW f \in files[l],
                      NEW t \in f.data
               PROVE  Key(t)' # Key(s)'
    BY <2>1 DEF DeletesLast, Content
  <2>2. l \in Levels
    BY <1>1, ZeroIsLevel DEF Levels
  <2>3. s \in Entries /\ t \in Entries /\ t \in Content(files[l])
    BY <1>1, <1>2, <2>2 DEF Content
  <2>4. Key(t) # Key(s)
    BY <1>3, <2>3 DEF Work, DeletesLast
  <2> QED
    BY <1>3, <2>3, <2>4
<1>7. SnapshotOldest(c)'
  <2>1. /\ c.smallestSnapshot \in {0} \union Entries
        /\ \A s \in snapshots \union {LastSequence} : c.smallestSnapshot <= s
    BY DEF Work, SnapshotOldest
  <2>2. LastSequence \in Nat /\ c.smallestSnapshot \in Nat
    BY <2>1, EntryTyped
  <2>3. c.smallestSnapshot <= LastSequence'
    BY <2>1, <2>2
  <2>4. c.smallestSnapshot \in {0} \union Entries'
    BY <2>1 DEF EntriesKept
  <2> QED
    BY <2>1, <2>3, <2>4 DEF SnapshotOldest
<1> QED
  BY <1>1, <1>4, <1>5, <1>6, <1>7 DEF Work

(* A flush that comes in the middle chooses its level so that the work may *)
(* go on.                                                                  *)
LEMMA WorkFlush ==
    ASSUME Typed, NewerFirst, NEW c, Work(c), NEW l, NEW h, Flushed(l, h),
           history' = history, snapshots' = snapshots
    PROVE  Work(c)'
<1>1. TypeOK
  BY DEF Typed
<1>2. /\ c.level \in Levels /\ c.level + 1 \in Levels \ {0}
      /\ c.inputs # {} /\ c.inputs \subseteq files[c.level]
      /\ c.parents \subseteq files[c.level + 1]
      /\ Content(c.inputs) \subseteq Entries /\ Input(c) \subseteq Entries
      /\ Input(c) = Content(c.inputs) \union Content(c.parents)
      /\ Content(c.parents) \subseteq Entries
  BY <1>1, InputTyped
<1>3. /\ l \in Levels /\ h.data = imm /\ h.data # {} /\ h.data \subseteq Entries
      /\ files'[l] = files[l] \union {h}
      /\ \A i \in Levels : i # l => files'[i] = files[i]
      /\ l # 0 => \A i \in 0 .. l : \A f \in files[i] : Clear(h.data, f)
      /\ \A i \in Levels : h \notin files[i]
  BY FlushIs
<1>4. \A s : Key(s)' = Key(s)
  BY DEF Key
<1>5. \A i \in Levels : \A f \in files'[i] : f \in files[i] \/ (i = l /\ f = h)
  BY <1>3
(* At or below the level of the parents, the file keeps clear of all inputs. *)
<1>6. ASSUME c.level < l
      PROVE  \A s \in Input(c) : Beside(s, h)
  <2>1. c.level \in 0 .. l /\ c.level + 1 \in 0 .. l /\ l # 0
    BY <1>2, <1>3, <1>6 DEF Levels
  <2>2. \A f \in c.inputs \union c.parents : Clear(h.data, f) /\ f.data \subseteq Entries
    BY <1>1, <1>2, <1>3, <2>1, FileTyped
  <2> TAKE s \in Input(c)
  <2>3. PICK f \in c.inputs \union c.parents : s \in f.data
    BY DEF Input, Content
  <2>4. /\ \A t \in h.data : Key(t) \in Nat
        /\ Key(s) \in Nat
    BY <1>1, <1>2, <1>3, EntryTyped
  <2>5. CASE \A t \in h.data : LeftOf(t, f)
    <3>1. \A t \in h.data : Key(t) < Key(s)
      BY <2>3, <2>5 DEF LeftOf
    <3> QED
      BY <2>4, <3>1 DEF Beside, RightOf
  <2>6. CASE \A t \in h.data : RightOf(t, f)
    <3>1. \A t \in h.data : Key(t) > Key(s)
      BY <2>3, <2>6 DEF RightOf
    <3> QED
      BY <2>4, <3>1 DEF Beside, LeftOf
  <2> QED
    BY <2>2, <2>3, <2>5, <2>6 DEF Clear
<1>7. ChoiceMade(c.level, c.inputs)'
  <2>1. c.inputs \subseteq files'[c.level]
    BY <1>2, <1>3
  <2>2. LeftNewer(c.level, c.inputs)'
    <3> SUFFICES ASSUME NEW g \in files'[c.level] \ c.inputs,
                        NEW s \in g.data, NEW t \in Content(c.inputs), Key(s) = Key(t)
                 PROVE  s > t
      BY <1>4 DEF LeftNewer, Content
    <3>1. CASE g \in files[c.level]
      BY <3>1 DEF Work, ChoiceMade, LeftNewer
    <3>2. CASE g = h
      <4>1. PICK f \in c.inputs : t \in f.data
        BY DEF Content
      <4>2. Shadows(mem \union imm, f.data)
        BY <1>2, NewerParts
      <4> QED
        BY <1>3, <3>2, <4>1, <4>2 DEF Shadows
    <3> QED
      BY <1>2, <1>5, <3>1, <3>2
  <2> QED
    BY <1>2, <2>1, <2>2 DEF ChoiceMade
<1>8. c.parents \subseteq files'[c.level + 1]
  BY <1>2, <1>3
<1>9. \A f, s : /\ Beside(s, f)' <=> Beside(s, f)
  BY <1>4 DEF Beside, LeftOf, RightOf
<1>10. \A f, K : (OneSide(K, f)' <=> OneSide(K, f)) /\ (InGap(K, f)' <=> InGap(K, f))
  BY <1>4, <1>9 DEF OneSide, InGap, Precedes, LeftOf
<1>11. \A f, g : ShareKey(f, g)' <=> ShareKey(f, g)
  BY <1>4 DEF ShareKey
<1>12. PICK K : K = Input(c) /\ K = Input(c)'
  BY DEF Input, Content
<1>13. Fits(c)'
  <2> SUFFICES ASSUME NEW r \in files'[c.level + 1] \ c.parents
               PROVE  /\ \A s \in Content(c.inputs) : Beside(s, r)
                      /\ \/ OneSide(K, r)
                         \/ /\ InGap(K, r)
                            /\ \A q \in files'[c.level + 1] : q # r => ~ShareKey(q, r)
    <3>1. \A r \in files'[c.level + 1] \ c.parents :
             /\ \A s \in Content(c.inputs) : Beside(s, r)'
             /\ \/ OneSide(K, r)'
                \/ /\ InGap(K, r)'
                   /\ \A q \in files'[c.level + 1] : q # r => ~ShareKey(q, r)'
      BY <1>9, <1>10, <1>11
    <3>2. \A r : /\ OneSide(Input(c), r)' <=> OneSide(K, r)'
                 /\ InGap(Input(c), r)' <=> InGap(K, r)'
      BY <1>12 DEF OneSide, InGap
    <3> QED
      BY <3>1, <3>2 DEF Fits, Content
  <2>1. CASE c.level + 1 # l
    <3>1. files'[c.level + 1] = files[c.level + 1]
      BY <1>2, <1>3, <2>1
    <3> QED
      BY <1>12, <3>1 DEF Work, Fits
  <2>2. CASE c.level + 1 = l
    <3>1. c.level < l
      BY <1>2, <2>2 DEF Levels
    <3>2. \A s \in K : Beside(s, h)
      BY <1>6, <1>12, <3>1
    <3>3. \A q \in files[l] : ~ShareKey(q, h) /\ ~ShareKey(h, q)
      <4> TAKE q \in files[l]
      <4>1. l \in 0 .. l /\ l # 0
        BY <1>2, <1>3, <2>2 DEF Levels
      <4>2. Clear(h.data, q) /\ q.data \subseteq Entries
        BY <1>1, <1>3, <4>1, FileTyped
      <4>3. \A s \in h.data, t \in q.data : Key(s) # Key(t)
        BY <1>1, <1>3, <4>2, ClearNoShare
      <4> QED
        BY <4>3 DEF ShareKey
    <3>4. CASE r = h
      <4>1. \A s \in Content(c.inputs) : Beside(s, r)
        BY <1>2, <1>12, <3>2, <3>4
      <4>2. InGap(K, r)
        BY <3>2, <3>4 DEF InGap
      <4>3. \A q \in files'[c.level + 1] : q # r => ~ShareKey(q, r)
        BY <1>2, <1>5, <2>2, <3>3, <3>4
      <4> QED
        BY <4>1, <4>2, <4>3
    <3>5. CASE r \in files[l]
      <4>1. /\ \A s \in Content(c.inputs) : Beside(s, r)
            /\ \/ OneSide(K, r)
               \/ /\ InGap(K, r)
                  /\ \A q \in files[c.level + 1] : q # r => ~ShareKey(q, r)
        BY <1>12, <2>2, <3>5 DEF Work, Fits
      <4>2. \A q \in files'[c.level + 1] : q \in files[c.level + 1] \/ q = h
        BY <1>2, <1>5
      <4> QED
        BY <3>3, <3>5, <4>1, <4>2
    <3> QED
      BY <1>3, <1>5, <2>2, <3>4, <3>5
  <2> QED
    BY <2>1, <2>2
<1>14. DeletesLast(c)'
  <2> SUFFICES ASSUME NEW s \in K, Key(s) \in c.base,
                      NEW i \in c.level + 2 .. NumLevels - 1, NEW f \in files'[i],
                      NEW t \in f.data
               PROVE  Key(t) # Key(s)
    BY <1>4, <1>12 DEF DeletesLast, Content
  <2>1. i \in Levels
    BY <1>2, ZeroIsLevel DEF Levels
  <2>2. CASE f \in files[i]
    <3>1. t \in Content(files[i])
      BY <2>2 DEF Content
    <3> QED
      BY <1>12, <3>1 DEF Work, DeletesLast
  <2>3. CASE i = l /\ f = h
    <3>1. c.level < l
      BY <1>2, <2>3 DEF Levels
    <3>2. Beside(s, h)
      BY <1>6, <1>12, <3>1
    <3>3. Key(s) \in Nat /\ Key(t) \in Nat
      BY <1>1, <1>2, <1>3, <1>12, <2>3, EntryTyped
    <3> QED
      BY <2>3, <3>2, <3>3 DEF Beside, LeftOf, RightOf
  <2> QED
    BY <1>5, <2>1, <2>2, <2>3
<1>15. SnapshotOldest(c)'
  <2>1. SnapshotOldest(c)
    BY DEF Work
  <2>2. LastSequence' = LastSequence /\ Entries' = Entries
    BY SameKeeps
  <2> QED
    BY <2>1, <2>2 DEF SnapshotOldest
<1>16. c.level \in 0 .. NumLevels - 2
  BY DEF Work
<1> QED
  BY <1>7, <1>8, <1>13, <1>14, <1>15, <1>16 DEF Work

-----------------------------------------------------------------------------
(* The inductive invariant *)

(* The fields of the version, the order of the places, the shape of the    *)
(* levels, and the promise of the compaction under way that lets its edit keep *)
(* the other parts when it ends.                                           *)
Inv == Typed /\ NewerFirst /\ LevelsParted /\ WorkKept

(* It holds of an empty database. *)
LEMMA InitInv == Init => Inv
<1> SUFFICES ASSUME Init PROVE Inv
  OBVIOUS
<1>1. \A l \in Levels : files[l] = {}
  BY DEF Init
<1>2. LastSequence = 0 /\ history \in Seq(Update)
  BY DEF Init, LastSequence
<1>3. \A l \in Levels : IsFiniteSet(files[l])
  BY <1>1, FS_EmptySet
<1>4. AllFiles = {}
  BY <1>1 DEF AllFiles
<1>5. files[0] = {}
  BY <1>1, ZeroIsLevel
<1>6. TypeOK
  BY <1>2, <1>4, <1>5 DEF Init, TypeOK
<1>7. Typed
  BY <1>1, <1>3, <1>6 DEF Init, Typed, NumsTyped, Finite, ManualTyped
<1>8. NewerFirst
  BY <1>1, <1>4, <1>5 DEF Init, NewerFirst, Shadows, Content
<1>9. LevelsParted
  BY <1>1 DEF LevelsParted, Parted, Unspanned
<1>10. WorkKept
  BY DEF Init, WorkKept
<1> QED
  BY <1>7, <1>8, <1>9, <1>10 DEF Inv

(* Steps that leave the version alone. *)
LEMMA SameTyped ==
    ASSUME Typed, history' \in Seq(Update), EntriesKept,
           mem' \subseteq Entries', imm' \subseteq Entries', files' = files,
           nextFile' = nextFile, pointer' \in [Levels -> {0} \union Entries'],
           snapshots' \subseteq {0} \union Entries', failed' \in BOOLEAN, ManualTyped'
    PROVE  Typed'
<1>1. TypeOK /\ nextFile \in Nat \ {0} /\ NumsTyped /\ Finite
  BY DEF Typed
<1>2. Entries \subseteq Entries'
  BY DEF EntriesKept
<1>3. DOMAIN files' = Levels
  BY <1>1 DEF TypeOK
<1>4. \A f \in AllFiles' : f.data # {} /\ f.data \subseteq Entries' /\ f.num < nextFile'
  BY <1>1, <1>2 DEF TypeOK, AllFiles
<1>5. \A f, g \in files'[0] : f # g => f.num # g.num
  BY <1>1 DEF TypeOK
<1>6. TypeOK'
  BY <1>3, <1>4, <1>5 DEF TypeOK
<1>7. NumsTyped' /\ Finite'
  BY <1>1 DEF NumsTyped, Finite
<1> QED
  BY <1>1, <1>6, <1>7 DEF Typed

(* compact_pointer_ and the request, when a step leaves them alone. *)
LEMMA PointerKept ==
    ASSUME TypeOK, EntriesKept, pointer' = pointer
    PROVE  pointer' \in [Levels -> {0} \union Entries']
BY DEF TypeOK, EntriesKept

LEMMA ManualSame ==
    ASSUME ManualTyped, manual' = manual
    PROVE  ManualTyped'
BY DEF ManualTyped

(* Write (db_impl.cc, DBImpl::Write). *)
LEMMA WriteInv ==
    ASSUME Inv, NEW u \in Updates, Write(u)
    PROVE  Inv'
<1>1. Typed /\ TypeOK /\ NewerFirst /\ LevelsParted /\ WorkKept /\ ManualTyped
  BY DEF Inv, Typed
<1>2. /\ history' = Append(history, u) /\ mem' = mem \union {LastSequence + 1}
      /\ imm' = imm /\ files' = files /\ nextFile' = nextFile /\ pointer' = pointer
      /\ snapshots' = snapshots /\ bg' = bg /\ failed' = failed /\ manual' = manual
  BY DEF Write, version
<1>3. /\ history' \in Seq(Update) /\ LastSequence' = LastSequence + 1
      /\ Entries' = Entries \union {LastSequence + 1} /\ EntriesKept
      /\ LastSequence \in Nat
  BY <1>1, <1>2, WriteKeeps, EntryTyped
<1>4. Typed'
  <2>1. /\ mem' \subseteq Entries' /\ imm' \subseteq Entries'
        /\ snapshots' \subseteq {0} \union Entries' /\ failed' \in BOOLEAN
    BY <1>1, <1>2, <1>3 DEF TypeOK
  <2>2. pointer' \in [Levels -> {0} \union Entries'] /\ ManualTyped'
    BY <1>1, <1>2, <1>3, PointerKept, ManualSame
  <2> QED
    BY <1>1, <1>2, <1>3, <2>1, <2>2, SameTyped
<1>5. NewerFirst'
  BY <1>1, <1>2, WriteNewer
<1>6. LevelsParted'
  BY <1>1, <1>2, <1>3, SameParted
<1>7. WorkKept'
  <2> SUFFICES ASSUME bg' # NoWork PROVE Work(bg)'
    BY DEF WorkKept
  <2>1. PICK c : c = bg /\ c = bg'
    BY <1>2
  <2>2. Work(c)
    BY <1>1, <1>2, <2>1 DEF WorkKept
  <2>3. LastSequence' \in Nat /\ LastSequence <= LastSequence'
    BY <1>3
  <2>4. Work(c)'
    BY <1>1, <1>2, <1>3, <2>2, <2>3, WorkSame
  <2> QED
    BY <2>1, <2>4
<1> QED
  BY <1>4, <1>5, <1>6, <1>7 DEF Inv

(* Steps that change only the snapshots, the work under way or the request. *)
LEMMA OtherInv ==
    ASSUME Inv, UNCHANGED <<history, mem, imm, files, nextFile>>,
           pointer' \in [Levels -> {0} \union Entries],
           snapshots' \subseteq snapshots \union {LastSequence}, failed' \in BOOLEAN,
           ManualTyped', bg' # NoWork => Work(bg')
    PROVE  Inv'
<1>1. Typed /\ TypeOK /\ NewerFirst /\ LevelsParted
  BY DEF Inv, Typed
<1>2. EntriesKept /\ Entries' = Entries /\ LastSequence' = LastSequence /\ LastSequence \in Nat
  BY <1>1, SameKeeps, EntryTyped
<1>3. Typed'
  <2>1. history' \in Seq(Update) /\ mem' \subseteq Entries' /\ imm' \subseteq Entries'
    BY <1>1, <1>2 DEF TypeOK
  <2>2. LastSequence \in {0} \union Entries
    BY <1>2 DEF Entries
  <2>3. snapshots' \subseteq {0} \union Entries'
    BY <1>1, <1>2, <2>2 DEF TypeOK
  <2> QED
    BY <1>1, <1>2, <2>1, <2>3, SameTyped
<1>4. NewerFirst'
  <2>1. \A S, T : Shadows(S, T)' <=> Shadows(S, T)
    BY DEF Shadows, Key
  <2> QED
    BY <1>1, <2>1 DEF NewerFirst, Shadows, AllFiles, Content, Key
<1>5. LevelsParted'
  BY <1>1, <1>2, SameParted
<1>6. WorkKept'
  <2> SUFFICES ASSUME bg' # NoWork PROVE Work(bg)'
    BY DEF WorkKept
  <2>1. PICK c : c = bg'
    OBVIOUS
  <2>2. Work(c)
    BY <2>1
  <2>3. snapshots' \subseteq snapshots \union {LastSequence, LastSequence'}
    OBVIOUS
  <2>4. LastSequence' \in Nat /\ LastSequence <= LastSequence'
    BY <1>2
  <2>5. Work(c)'
    BY <1>1, <1>2, <2>2, <2>3, <2>4, WorkSame
  <2> QED
    BY <2>1, <2>5
<1> QED
  BY <1>3, <1>4, <1>5, <1>6 DEF Inv

(* The memtable is full (MakeRoomForWrite). *)
LEMMA SwitchInv ==
    ASSUME Inv, SwitchMemTable
    PROVE  Inv'
<1>1. Typed /\ TypeOK /\ NewerFirst /\ LevelsParted /\ WorkKept /\ ManualTyped
  BY DEF Inv, Typed
<1>2. /\ history' = history /\ imm' = mem /\ mem' = {} /\ imm = {}
      /\ files' = files /\ nextFile' = nextFile /\ pointer' = pointer
      /\ snapshots' = snapshots /\ bg' = bg /\ failed' = failed /\ manual' = manual
  BY DEF SwitchMemTable, version
<1>3. EntriesKept /\ Entries' = Entries /\ LastSequence' = LastSequence /\ LastSequence \in Nat
  BY <1>1, <1>2, SameKeeps, EntryTyped
<1>4. Typed'
  <2>1. /\ history' \in Seq(Update) /\ mem' \subseteq Entries' /\ imm' \subseteq Entries'
        /\ snapshots' \subseteq {0} \union Entries' /\ failed' \in BOOLEAN
    BY <1>1, <1>2, <1>3 DEF TypeOK
  <2>2. pointer' \in [Levels -> {0} \union Entries'] /\ ManualTyped'
    BY <1>1, <1>2, <1>3, PointerKept, ManualSame
  <2> QED
    BY <1>1, <1>2, <1>3, <2>1, <2>2, SameTyped
<1>5. NewerFirst'
  BY <1>1, <1>2, SwitchNewer
<1>6. LevelsParted'
  BY <1>1, <1>2, <1>3, SameParted
<1>7. WorkKept'
  <2> SUFFICES ASSUME bg' # NoWork PROVE Work(bg)'
    BY DEF WorkKept
  <2>1. PICK c : c = bg /\ c = bg'
    BY <1>2
  <2>2. Work(c)
    BY <1>1, <1>2, <2>1 DEF WorkKept
  <2>3. LastSequence' \in Nat /\ LastSequence <= LastSequence'
    BY <1>3
  <2>4. Work(c)'
    BY <1>1, <1>2, <1>3, <2>2, <2>3, WorkSame
  <2> QED
    BY <2>1, <2>4
<1> QED
  BY <1>4, <1>5, <1>6, <1>7 DEF Inv

(* CompactMemTable, at any time, during a compaction as well. *)
LEMMA FlushInv ==
    ASSUME Inv, CompactMemTable
    PROVE  Inv'
<1>1. Typed /\ TypeOK /\ NewerFirst /\ LevelsParted /\ WorkKept /\ ManualTyped
  BY DEF Inv, Typed
<1>2. PICK l \in PickLevels(imm) :
        files' = [files EXCEPT ![l] = @ \union {[num |-> nextFile, data |-> imm]}]
  BY DEF CompactMemTable
<1>3. PICK h : h = [num |-> nextFile, data |-> imm]
  OBVIOUS
<1>4. Flushed(l, h)
  BY <1>2, <1>3 DEF CompactMemTable, MemTableDue, Flushed
<1>5. /\ history' = history /\ imm' = {} /\ mem' = mem
      /\ nextFile' = nextFile + 1 /\ pointer' = pointer
      /\ snapshots' = snapshots /\ bg' = bg /\ failed' = failed /\ manual' = manual
  BY DEF CompactMemTable
<1>6. EntriesKept /\ Entries' = Entries
  BY <1>5, SameKeeps
<1>7. Typed'
  <2>1. /\ DOMAIN files' = Levels
        /\ \A f \in AllFiles' : f.data # {} /\ f.data \subseteq Entries' /\ f.num < nextFile'
        /\ \A f, g \in files'[0] : f # g => f.num # g.num
        /\ nextFile' \in Nat \ {0} /\ NumsTyped' /\ Finite'
    BY <1>1, <1>4, <1>5, FlushTyped
  <2>2. pointer' \in [Levels -> {0} \union Entries'] /\ ManualTyped'
    BY <1>1, <1>5, <1>6, PointerKept, ManualSame
  <2>3. TypeOK'
    BY <1>1, <1>5, <1>6, <2>1, <2>2 DEF TypeOK
  <2> QED
    BY <2>1, <2>2, <2>3 DEF Typed
<1>8. NewerFirst'
  BY <1>1, <1>4, <1>5, FlushNewer
<1>9. LevelsParted'
  BY <1>1, <1>4, <1>5, FlushParted
<1>10. WorkKept'
  <2> SUFFICES ASSUME bg' # NoWork PROVE Work(bg)'
    BY DEF WorkKept
  <2>1. PICK c : c = bg /\ c = bg'
    BY <1>5
  <2>2. Work(c)
    BY <1>1, <1>5, <2>1 DEF WorkKept
  <2>3. Work(c)'
    BY <1>1, <1>4, <1>5, <2>2, WorkFlush
  <2> QED
    BY <2>1, <2>3
<1> QED
  BY <1>7, <1>8, <1>9, <1>10 DEF Inv

(* The edit that ends a compaction or a trivial move. *)
LEMMA EditInv ==
    ASSUME Inv, NEW c, Work(c), NEW added, Added(c, added), files' = Edited(c, added),
           UNCHANGED <<history, mem, imm, nextFile, snapshots>>,
           pointer' \in [Levels -> {0} \union Entries],
           failed' \in BOOLEAN, ManualTyped', bg' = NoWork
    PROVE  Inv'
<1>1. Typed /\ TypeOK /\ NewerFirst /\ LevelsParted /\ nextFile \in Nat \ {0}
  BY DEF Inv, Typed
<1>2. EntriesKept /\ Entries' = Entries
  BY SameKeeps
<1>3. Typed'
  <2>1. /\ DOMAIN files' = Levels
        /\ \A f \in AllFiles' : f.data # {} /\ f.data \subseteq Entries' /\ f.num < nextFile'
        /\ \A f, g \in files'[0] : f # g => f.num # g.num
        /\ NumsTyped' /\ Finite'
    BY <1>1, EditTyped
  <2>2. TypeOK'
    BY <1>1, <1>2, <2>1 DEF TypeOK
  <2> QED
    BY <1>1, <2>1, <2>2 DEF Typed
<1>4. NewerFirst'
  BY <1>1, EditNewer
<1>5. LevelsParted'
  BY <1>1, EditParted
<1>6. WorkKept'
  BY DEF WorkKept
<1> QED
  BY <1>3, <1>4, <1>5, <1>6 DEF Inv

(* The pointer that SetupOtherInputs sets. *)
LEMMA PointerTyped ==
    ASSUME TypeOK, NEW c, Work(c)
    PROVE  PointerAfter(c) \in [Levels -> {0} \union Entries]
<1>1. Content(c.inputs) \subseteq Entries /\ Content(c.inputs) # {}
  BY InputTyped
<1>2. Last(Content(c.inputs)) \in Entries
  BY <1>1, LastIs DEF IsLast
<1> QED
  BY <1>2 DEF PointerAfter, TypeOK

(* BackgroundCompaction up to where it gives up the mutex. *)
LEMMA BeginInv ==
    ASSUME Inv, BackgroundCompaction
    PROVE  Inv'
<1>1. Typed /\ TypeOK /\ NewerFirst /\ LevelsParted /\ WorkKept /\ ManualTyped
  BY DEF Inv, Typed
<1>2. PICK c \in Compactions : /\ TrivialMove(c) \/ TrivialMoveFails(c) \/ BeginCompaction(c)
                               /\ pointer' = PointerAfter(c)
  BY DEF BackgroundCompaction
<1>3. /\ bg = NoWork /\ UNCHANGED <<history, mem, imm, nextFile, snapshots, manual>>
  BY DEF BackgroundCompaction, MayBegin
<1>4. Work(c)
  BY <1>1, CompactionWork
<1>5. pointer' \in [Levels -> {0} \union Entries] /\ ManualTyped'
  BY <1>1, <1>2, <1>3, <1>4, PointerTyped, ManualSame
<1>6. failed \in BOOLEAN
  BY <1>1 DEF TypeOK
<1>7. CASE TrivialMove(c)
  <2>1. Added(c, c.inputs)
    BY <1>1, <1>4, <1>7, MovedAdded DEF TrivialMove
  <2> QED
    BY <1>3, <1>4, <1>5, <1>6, <1>7, <2>1, EditInv DEF TrivialMove
<1>8. CASE TrivialMoveFails(c)
  BY <1>3, <1>5, <1>8, OtherInv DEF TrivialMoveFails
<1>9. CASE BeginCompaction(c)
  BY <1>3, <1>4, <1>5, <1>6, <1>9, OtherInv DEF BeginCompaction
<1> QED
  BY <1>2, <1>7, <1>8, <1>9

(* The end of a manual compaction, where CompactRange may go on. *)
LEMMA EndManualTyped ==
    ASSUME Inv, bg # NoWork, NEW ok \in BOOLEAN, EndManual(ok)
    PROVE  ManualTyped'
<1>1. Typed /\ TypeOK /\ ManualTyped /\ Work(bg)
  BY DEF Inv, Typed, WorkKept
<1>2. CASE ~bg.isManual
  BY <1>1, <1>2, ManualSame DEF EndManual
<1>3. CASE bg.isManual
  <2>1. /\ bg.level \in Levels /\ bg.inputs # {} /\ bg.inputs \subseteq files[bg.level]
    BY <1>1, InputTyped
  <2>2. Back(bg.inputs) \in files[bg.level]
    BY <1>1, <2>1, BackIs
  <2>3. RemainingRange \in Keys
    <3>1. Largest(Back(bg.inputs)) \in Entries
      BY <1>1, <2>1, <2>2, FileKeys
    <3> QED
      BY <1>1, <3>1, EntryTyped DEF RemainingRange
  <2>4. /\ manual # NoRequest
        /\ manual' = [manual EXCEPT !.posted = FALSE, !.done = ~ok,
                                    !.lo = IF ok THEN RemainingRange ELSE @]
    BY <1>3 DEF EndManual
  <2>5. /\ DOMAIN manual = {"level", "lo", "hi", "posted", "done", "range", "before"}
        /\ manual.level \in 0 .. NumLevels - 2 /\ manual.lo \in Keys /\ manual.hi \in Keys
    BY <1>1, <2>4 DEF ManualTyped
  <2>6. /\ DOMAIN manual' = DOMAIN manual /\ manual'.level = manual.level
        /\ manual'.hi = manual.hi /\ manual'.lo \in Keys
    BY <2>3, <2>4, <2>5
  <2> QED
    BY <2>5, <2>6 DEF ManualTyped
<1> QED
  BY <1>2, <1>3

(* The rest of BackgroundCompaction: the outputs, or a failure. *)
LEMMA EndInv ==
    ASSUME Inv, EndCompaction
    PROVE  Inv'
<1>1. Typed /\ TypeOK /\ WorkKept
  BY DEF Inv, Typed
<1>2. PICK F \in Outputs(Kept(bg)) : files' = Edited(bg, F)
  BY DEF EndCompaction
<1>3. PICK c : c = bg
  OBVIOUS
<1>4. Work(c)
  BY <1>1, <1>3 DEF EndCompaction, WorkKept
<1>5. F \in Outputs(Kept(c)) /\ files' = Edited(c, F)
  BY <1>2, <1>3
<1>6. Added(c, F)
  BY <1>1, <1>4, <1>5, OutputsAdded
<1>7. /\ UNCHANGED <<history, mem, imm, nextFile, snapshots, pointer, failed>> /\ bg' = NoWork
  BY DEF EndCompaction
<1>8. pointer' \in [Levels -> {0} \union Entries] /\ failed' \in BOOLEAN
  BY <1>1, <1>7 DEF TypeOK
<1>9. ManualTyped'
  BY EndManualTyped DEF EndCompaction
<1> QED
  BY <1>4, <1>5, <1>6, <1>7, <1>8, <1>9, EditInv

(* Every step keeps the invariant. *)
LEMMA NextInv ==
    ASSUME Inv, [Next]_vars
    PROVE  Inv'
<1>1. Typed /\ TypeOK /\ WorkKept /\ ManualTyped
  BY DEF Inv, Typed
<1>2. /\ pointer \in [Levels -> {0} \union Entries] /\ failed \in BOOLEAN
      /\ (bg # NoWork => Work(bg))
  BY <1>1 DEF TypeOK, WorkKept
<1>3. manual' = manual => ManualTyped'
  BY <1>1, ManualSame
<1>4. ASSUME NEW u \in Updates, Write(u)
      PROVE  Inv'
  BY <1>4, WriteInv
<1>5. CASE SwitchMemTable
  BY <1>5, SwitchInv
<1>6. CASE GetSnapshot
  BY <1>2, <1>3, <1>6, OtherInv DEF GetSnapshot, version
<1>7. ASSUME NEW s \in snapshots, ReleaseSnapshot(s)
      PROVE  Inv'
  BY <1>2, <1>3, <1>7, OtherInv DEF ReleaseSnapshot, version
<1>8. ASSUME NEW l \in 0 .. NumLevels - 2, NEW r \in ManualRanges, CompactRange(l, r)
      PROVE  Inv'
  <2>1. r \in Keys \X Keys
    BY LsmAssumption
  <2>2. ManualTyped'
    BY <1>8, <2>1 DEF CompactRange, ManualTyped
  <2> QED
    BY <1>2, <1>8, <2>2, OtherInv DEF CompactRange, version
<1>9. CASE PostAgain
  <2>1. ManualTyped'
    BY <1>1, <1>9 DEF PostAgain, ManualTyped
  <2> QED
    BY <1>2, <1>9, <2>1, OtherInv DEF PostAgain, version
<1>10. CASE ManualReturn
  <2>1. ManualTyped'
    BY <1>10 DEF ManualReturn, ManualTyped
  <2> QED
    BY <1>2, <1>10, <2>1, OtherInv DEF ManualReturn, version
<1>11. CASE CompactMemTable
  BY <1>11, FlushInv
<1>12. CASE CompactMemTableFails
  BY <1>2, <1>3, <1>12, OtherInv DEF CompactMemTableFails, version
<1>13. CASE ManualNothing
  <2>1. ManualTyped'
    BY <1>1, <1>13 DEF ManualNothing, Posted, ManualTyped
  <2> QED
    BY <1>2, <1>13, <2>1, OtherInv DEF ManualNothing, version
<1>14. CASE BackgroundCompaction
  BY <1>14, BeginInv
<1>15. CASE EndCompaction
  BY <1>15, EndInv
<1>16. CASE CompactionFails
  <2>1. ManualTyped'
    BY <1>16, EndManualTyped DEF CompactionFails
  <2> QED
    BY <1>2, <1>16, <2>1, OtherInv DEF CompactionFails, version
<1>17. CASE UNCHANGED vars
  BY <1>2, <1>3, <1>17, OtherInv DEF vars
<1> QED
  BY <1>4, <1>5, <1>6, <1>7, <1>8, <1>9, <1>10, <1>11, <1>12, <1>13, <1>14, <1>15, <1>16, <1>17
     DEF Next, Background

(* In every behaviour, whatever clients do and whichever background work   *)
(* fails, the version has sound types, places are ordered by age, levels above *)
(* 0 are parted and the compaction under way can still be installed.       *)
THEOREM Invariance == Spec => []Inv
<1>1. Init => Inv
  BY InitInv
<1>2. Inv /\ [Next]_vars => Inv'
  BY NextInv
<1> QED
  BY <1>1, <1>2, PTL DEF Spec

(* TypeOK of LsmTree: the fields of VersionSet and DBImpl have the values  *)
(* the model gives them, for every number of levels, keys and writes.      *)
THEOREM TypeCorrect == Spec => []TypeOK
<1>1. Inv => TypeOK
  BY DEF Inv, Typed
<1> QED
  BY <1>1, Invariance, PTL

(* NewerFirst: what Version::Get finds in a place it searches earlier is   *)
(* newer than anything of that key in a later place. It holds for any number *)
(* of clients and compactions, of any ranges, with flushes in between.     *)
THEOREM NewerFirstAlways == Spec => []NewerFirst
<1>1. Inv => NewerFirst
  BY DEF Inv
<1> QED
  BY <1>1, Invariance, PTL
-----------------------------------------------------------------------------
(* With one client: the inputs of a compaction leave no gap for a flush.   *)

(* A set of files is connected when no key lies in a gap between its files. *)
KeyLeft(f, k)  == \A t \in f.data : Key(t) < k
KeyRight(f, k) == \A t \in f.data : Key(t) > k
Avoids(f, k)   == KeyLeft(f, k) \/ KeyRight(f, k)
Connected(C) ==
    \A k \in Keys : (\A f \in C : Avoids(f, k)) =>
        (\A f \in C : KeyLeft(f, k)) \/ (\A f \in C : KeyRight(f, k))

(* Sides of a key, by the ends of the file. *)
LEMMA AvoidsEnds ==
    ASSUME TypeOK, NEW l \in Levels, NEW f \in files[l], NEW k \in Keys
    PROVE  /\ KeyLeft(f, k) <=> Key(Largest(f)) < k
           /\ KeyRight(f, k) <=> Key(Smallest(f)) > k
           /\ Key(Smallest(f)) <= Key(Largest(f))
           /\ Key(Smallest(f)) \in Nat /\ Key(Largest(f)) \in Nat /\ k \in Nat
<1>1. /\ Smallest(f) \in f.data /\ Largest(f) \in f.data
      /\ \A t \in f.data : /\ t \in Entries
                           /\ Key(Smallest(f)) <= Key(t) /\ Key(t) <= Key(Largest(f))
  BY FileKeys
<1>2. \A t \in f.data : Key(t) \in Nat
  BY <1>1, EntryTyped
<1>3. k \in Nat
  BY LsmAssumption DEF Keys
<1> QED
  BY <1>1, <1>2, <1>3 DEF KeyLeft, KeyRight

(* A boundary file of files on one side of a key is on that side. *)
LEMMA BoundarySide ==
    ASSUME TypeOK, NEW l \in Levels, NEW G, G \subseteq files[l], NEW b \in Boundary(l, G),
           NEW k \in Keys, Avoids(b, k)
    PROVE  /\ (\A f \in G : KeyLeft(f, k)) => KeyLeft(b, k)
           /\ (\A f \in G : KeyRight(f, k)) => KeyRight(b, k)
<1>1. b \in files[l]
  BY DEF Boundary
<1>2. PICK p \in G : \E e \in p.data : e \in Entries /\ Key(e) = Key(Smallest(b))
  BY BoundaryShares
<1>3. PICK e \in p.data : e \in Entries /\ Key(e) = Key(Smallest(b))
  BY <1>2
<1>4. /\ KeyLeft(b, k) <=> Key(Largest(b)) < k
      /\ KeyRight(b, k) <=> Key(Smallest(b)) > k
      /\ Key(Smallest(b)) \in Nat /\ k \in Nat
  BY <1>1, AvoidsEnds
<1>5. KeyLeft(p, k) => Key(Smallest(b)) < k
  BY <1>3 DEF KeyLeft
<1>6. KeyRight(p, k) => Key(Smallest(b)) > k
  BY <1>3 DEF KeyRight
<1> QED
  BY <1>4, <1>5, <1>6 DEF Avoids

(* AddBoundaryInputs does not cross such a key. *)
LEMMA AddedSide ==
    ASSUME Typed, NEW l \in Levels, NEW F, F \subseteq files[l], NEW k \in Keys,
           \A f \in AddBoundaryInputs(l, F) : Avoids(f, k)
    PROVE  /\ (\A f \in F : KeyLeft(f, k)) => \A f \in AddBoundaryInputs(l, F) : KeyLeft(f, k)
           /\ (\A f \in F : KeyRight(f, k)) => \A f \in AddBoundaryInputs(l, F) : KeyRight(f, k)
<1> DEFINE C == AddBoundaryInputs(l, F)
<1>0. TypeOK
  BY DEF Typed
<1>1. \A f \in C : Avoids(f, k)
  OBVIOUS
<1>2. ASSUME \A f \in F : KeyLeft(f, k)
      PROVE  \A f \in C : KeyLeft(f, k)
  <2> DEFINE Q == {G \in SUBSET files[l] : \A f \in G : KeyLeft(f, k)}
  <2>1. F \in Q
    BY <1>2
  <2>2. ASSUME NEW G \in Q, G \union FirstBoundary(l, G) \subseteq C
        PROVE  G \union FirstBoundary(l, G) \in Q
    <3>1. \A b \in FirstBoundary(l, G) : b \in Boundary(l, G) /\ b \in files[l] /\ Avoids(b, k)
      BY <1>1, <2>2 DEF FirstBoundary, Boundary
    <3>2. \A b \in FirstBoundary(l, G) : KeyLeft(b, k)
      BY <1>0, <3>1, BoundarySide
    <3> QED
      BY <3>1, <3>2
  <2> HIDE DEF Q
  <2>3. C \in Q
    BY <2>1, <2>2, ExtendedKeeps
  <2> QED
    BY <2>3 DEF Q
<1>3. ASSUME \A f \in F : KeyRight(f, k)
      PROVE  \A f \in C : KeyRight(f, k)
  <2> DEFINE Q == {G \in SUBSET files[l] : \A f \in G : KeyRight(f, k)}
  <2>1. F \in Q
    BY <1>3
  <2>2. ASSUME NEW G \in Q, G \union FirstBoundary(l, G) \subseteq C
        PROVE  G \union FirstBoundary(l, G) \in Q
    <3>1. \A b \in FirstBoundary(l, G) : b \in Boundary(l, G) /\ b \in files[l] /\ Avoids(b, k)
      BY <1>1, <2>2 DEF FirstBoundary, Boundary
    <3>2. \A b \in FirstBoundary(l, G) : KeyRight(b, k)
      BY <1>0, <3>1, BoundarySide
    <3> QED
      BY <3>1, <3>2
  <2> HIDE DEF Q
  <2>3. C \in Q
    BY <2>1, <2>2, ExtendedKeeps
  <2> QED
    BY <2>3 DEF Q
<1> QED
  BY <1>2, <1>3

(* A search of level 0 does not grow across a key that no file touches. *)
LEMMA GrownSide ==
    ASSUME TypeOK, NEW lo \in Keys, NEW hi \in Keys, lo <= hi, NEW k \in Keys,
           \A f \in GetOverlappingInputs(0, lo, hi) : Avoids(f, k)
    PROVE  /\ hi < k => \A f \in GetOverlappingInputs(0, lo, hi) : KeyLeft(f, k)
           /\ lo > k => \A f \in GetOverlappingInputs(0, lo, hi) : KeyRight(f, k)
<1> DEFINE F == GetOverlappingInputs(0, lo, hi)
<1>1. PICK r : r = GrownRange(lo, hi)
  OBVIOUS
<1>2. F = {f \in files[0] : Overlaps(f, r[1], r[2])}
  BY <1>1 DEF GetOverlappingInputs
<1>3. \A f \in F : Avoids(f, k)
  OBVIOUS
<1> HIDE DEF F
<1>4. /\ r \in Keys \X Keys /\ r[1] <= lo /\ r[2] >= hi
      /\ \A f \in files[0] : ~Crosses(f, r)
      /\ \A q \in Keys \X Keys :
           q[1] <= lo /\ q[2] >= hi /\ (\A f \in files[0] : ~Crosses(f, q)) =>
             q[1] <= r[1] /\ q[2] >= r[2]
  BY <1>1, GrownRangeIs DEF ClosedRanges
<1>5. Keys = 1 .. NumKeys /\ NumKeys \in Nat
  BY LsmAssumption DEF Keys
<1>6. r[1] \in Keys /\ r[2] \in Keys
  BY <1>4
<1>7. \A f \in files[0] : /\ KeyLeft(f, k) <=> Key(Largest(f)) < k
                          /\ KeyRight(f, k) <=> Key(Smallest(f)) > k
                          /\ Key(Smallest(f)) <= Key(Largest(f))
                          /\ Key(Smallest(f)) \in Nat /\ Key(Largest(f)) \in Nat
  BY AvoidsEnds, ZeroIsLevel
<1>8. \A f \in F : f \in files[0] /\ Key(Largest(f)) >= r[1] /\ Key(Smallest(f)) <= r[2]
  BY <1>2 DEF Overlaps
<1>9. ASSUME hi < k
      PROVE  \A f \in F : KeyLeft(f, k)
  <2>1. r[2] < k
    <3> SUFFICES ASSUME r[2] >= k PROVE FALSE
      BY <1>5, <1>6
    <3> DEFINE q == <<r[1], k - 1>>
    <3>1. q \in Keys \X Keys /\ q[1] <= lo /\ q[2] >= hi /\ q[1] = r[1] /\ q[2] = k - 1
      BY <1>4, <1>5, <1>6, <1>9
    <3> HIDE DEF q
    <3>2. ASSUME NEW f \in files[0]
          PROVE  ~Crosses(f, q)
      <4> SUFFICES ASSUME Crosses(f, q) PROVE FALSE
        OBVIOUS
      <4>1. /\ Key(Largest(f)) >= r[1] /\ Key(Smallest(f)) <= k - 1
            /\ Key(Smallest(f)) < r[1] \/ Key(Largest(f)) > k - 1
        BY <3>1 DEF Crosses, Overlaps
      <4>2. Key(Smallest(f)) <= r[2]
        BY <1>5, <1>6, <1>7, <4>1
      <4>3. f \in F
        BY <1>2, <4>1, <4>2 DEF Overlaps
      <4>4. ~(Key(Smallest(f)) < r[1] \/ Key(Largest(f)) > r[2])
        BY <1>4, <4>1, <4>2 DEF Crosses, Overlaps
      <4>5. KeyLeft(f, k) \/ KeyRight(f, k)
        BY <1>3, <4>3 DEF Avoids
      <4> QED
        BY <1>5, <1>6, <1>7, <4>1, <4>4, <4>5
    <3>3. q[2] >= r[2]
      BY <1>4, <3>1, <3>2
    <3> QED
      BY <1>5, <1>6, <3>1, <3>3
  <2> TAKE f \in F
  <2>2. ~KeyRight(f, k)
    BY <1>5, <1>6, <1>7, <1>8, <2>1
  <2> QED
    BY <1>3, <2>2 DEF Avoids
<1>10. ASSUME lo > k
       PROVE  \A f \in F : KeyRight(f, k)
  <2>1. r[1] > k
    <3> SUFFICES ASSUME r[1] <= k PROVE FALSE
      BY <1>5, <1>6
    <3> DEFINE q == <<k + 1, r[2]>>
    <3>1. q \in Keys \X Keys /\ q[1] <= lo /\ q[2] >= hi /\ q[1] = k + 1 /\ q[2] = r[2]
      BY <1>4, <1>5, <1>6, <1>10
    <3> HIDE DEF q
    <3>2. ASSUME NEW f \in files[0]
          PROVE  ~Crosses(f, q)
      <4> SUFFICES ASSUME Crosses(f, q) PROVE FALSE
        OBVIOUS
      <4>1. /\ Key(Largest(f)) >= k + 1 /\ Key(Smallest(f)) <= r[2]
            /\ Key(Smallest(f)) < k + 1 \/ Key(Largest(f)) > r[2]
        BY <3>1 DEF Crosses, Overlaps
      <4>2. Key(Largest(f)) >= r[1]
        BY <1>5, <1>6, <1>7, <4>1
      <4>3. f \in F
        BY <1>2, <4>1, <4>2 DEF Overlaps
      <4>4. ~(Key(Smallest(f)) < r[1] \/ Key(Largest(f)) > r[2])
        BY <1>4, <4>1, <4>2 DEF Crosses, Overlaps
      <4>5. KeyLeft(f, k) \/ KeyRight(f, k)
        BY <1>3, <4>3 DEF Avoids
      <4> QED
        BY <1>5, <1>6, <1>7, <4>1, <4>4, <4>5
    <3>3. q[1] <= r[1]
      BY <1>4, <3>1, <3>2
    <3> QED
      BY <1>5, <1>6, <3>1, <3>3
  <2> TAKE f \in F
  <2>2. ~KeyLeft(f, k)
    BY <1>5, <1>6, <1>7, <1>8, <2>1
  <2> QED
    BY <1>3, <2>2 DEF Avoids
<1> QED
  BY <1>9, <1>10 DEF F

(* Nor does GetOverlappingInputs. *)
LEMMA OverlappingSide ==
    ASSUME TypeOK, NEW l \in Levels, NEW lo \in Keys, NEW hi \in Keys, lo <= hi, NEW k \in Keys,
           \A f \in GetOverlappingInputs(l, lo, hi) : Avoids(f, k)
    PROVE  /\ hi < k => \A f \in GetOverlappingInputs(l, lo, hi) : KeyLeft(f, k)
           /\ lo > k => \A f \in GetOverlappingInputs(l, lo, hi) : KeyRight(f, k)
<1>1. CASE l = 0
  BY <1>1, GrownSide
<1>2. CASE l # 0
  <2> DEFINE F == GetOverlappingInputs(l, lo, hi)
  <2>1. \A f \in F : f \in files[l] /\ Key(Largest(f)) >= lo /\ Key(Smallest(f)) <= hi
    BY <1>2 DEF GetOverlappingInputs, Overlaps
  <2>2. \A f \in F : Avoids(f, k)
    OBVIOUS
  <2> HIDE DEF F
  <2>3. lo \in Nat /\ hi \in Nat /\ k \in Nat
    BY LsmAssumption DEF Keys
  <2>4. ASSUME NEW f \in F
        PROVE  (hi < k => KeyLeft(f, k)) /\ (lo > k => KeyRight(f, k))
    <3>1. /\ KeyLeft(f, k) <=> Key(Largest(f)) < k
          /\ KeyRight(f, k) <=> Key(Smallest(f)) > k
          /\ Key(Smallest(f)) \in Nat /\ Key(Largest(f)) \in Nat
      BY <2>1, AvoidsEnds
    <3>2. KeyLeft(f, k) \/ KeyRight(f, k)
      BY <2>2 DEF Avoids
    <3> QED
      BY <2>1, <2>3, <3>1, <3>2
  <2> QED
    BY <2>4 DEF F
<1> QED
  BY <1>1, <1>2

(* Files on one side of a key bring files of that side only. *)
LEMMA WithSide ==
    ASSUME Typed, NEW l \in Levels, NEW P, Content(P) \subseteq Entries, Content(P) # {},
           NEW k \in Keys, \A f \in With(l, P) : Avoids(f, k)
    PROVE  /\ (\A f \in P : KeyLeft(f, k)) => \A f \in With(l, P) : KeyLeft(f, k)
           /\ (\A f \in P : KeyRight(f, k)) => \A f \in With(l, P) : KeyRight(f, k)
<1> DEFINE lo == Low(P)
           hi == High(P)
           F  == GetOverlappingInputs(l, lo, hi)
<1>1. TypeOK /\ With(l, P) = AddBoundaryInputs(l, F)
  BY DEF With, Typed
<1>2. F \subseteq files[l]
  BY DEF GetOverlappingInputs
<1>3. /\ lo \in Keys /\ hi \in Keys
      /\ \A s \in Content(P) : lo <= Key(s) /\ Key(s) <= hi
  BY <1>1, EndKeys
<1>4. (\A f \in P : KeyLeft(f, k)) => hi < k
  <2>1. Last(Content(P)) \in Content(P)
    BY <1>1, LastIs DEF IsLast
  <2> QED
    BY <2>1 DEF High, Content, KeyLeft
<1>5. (\A f \in P : KeyRight(f, k)) => lo > k
  <2>1. First(Content(P)) \in Content(P)
    BY <1>1, FirstIs DEF IsFirst
  <2> QED
    BY <2>1 DEF Low, Content, KeyRight
<1>6. lo <= hi
  <2>1. PICK s \in Content(P) : TRUE
    OBVIOUS
  <2>2. Key(s) \in Nat /\ lo \in Nat /\ hi \in Nat
    BY <1>1, <1>3, EntryTyped, LsmAssumption DEF Keys
  <2> QED
    BY <1>3, <2>1, <2>2
<1> HIDE DEF lo, hi
<1>7. F \subseteq AddBoundaryInputs(l, F)
  BY ExtendedSubset
<1> HIDE DEF F
<1>8. \A f \in AddBoundaryInputs(l, F) : Avoids(f, k)
  BY <1>1
<1>9. \A f \in F : Avoids(f, k)
  BY <1>7, <1>8
<1>10. /\ hi < k => \A f \in F : KeyLeft(f, k)
       /\ lo > k => \A f \in F : KeyRight(f, k)
  BY <1>1, <1>3, <1>6, <1>9, OverlappingSide DEF F
<1>11. /\ (\A f \in F : KeyLeft(f, k)) => \A f \in AddBoundaryInputs(l, F) : KeyLeft(f, k)
       /\ (\A f \in F : KeyRight(f, k)) => \A f \in AddBoundaryInputs(l, F) : KeyRight(f, k)
  BY <1>2, <1>8, AddedSide
<1> QED
  BY <1>1, <1>4, <1>5, <1>10, <1>11

(* If nothing of C touches a key, C lies on the side of it where P lies. *)
Follows(C, P) ==
    \A k \in Keys : (\A f \in C : Avoids(f, k)) =>
        /\ (\A f \in P : KeyLeft(f, k)) => \A f \in C : KeyLeft(f, k)
        /\ (\A f \in P : KeyRight(f, k)) => \A f \in C : KeyRight(f, k)

(* The files around P hold those of P. *)
LEMMA WithCovers ==
    ASSUME Typed, NEW l \in Levels, NEW P, Content(P) \subseteq Entries,
           NEW F, F \subseteq P, F \subseteq files[l], F # {}
    PROVE  F \subseteq With(l, P)
<1>1. TypeOK
  BY DEF Typed
<1>2. \A f \in F : f.data # {} /\ f.data \subseteq Content(P)
  BY <1>1, FileTyped DEF Content
<1>3. /\ Low(P) \in Keys /\ High(P) \in Keys
      /\ \A s \in Content(P) : Low(P) <= Key(s) /\ Key(s) <= High(P)
  BY <1>1, <1>2, EndKeys
<1>4. PICK r : r = IF l = 0 THEN GrownRange(Low(P), High(P)) ELSE <<Low(P), High(P)>>
  OBVIOUS
<1>5. GetOverlappingInputs(l, Low(P), High(P)) = {f \in files[l] : Overlaps(f, r[1], r[2])}
  BY <1>4 DEF GetOverlappingInputs
<1>6. r[1] \in Keys /\ r[2] \in Keys /\ r[1] <= Low(P) /\ r[2] >= High(P)
  <2>1. CASE l = 0
    <3>1. GrownRange(Low(P), High(P)) \in ClosedRanges(Low(P), High(P))
      BY <1>1, <1>3, GrownRangeIs
    <3> QED
      BY <1>4, <2>1, <3>1 DEF ClosedRanges
  <2>2. CASE l # 0
    <3>1. Low(P) \in Nat /\ High(P) \in Nat
      BY <1>3, LsmAssumption DEF Keys
    <3> QED
      BY <1>3, <1>4, <2>2, <3>1
  <2> QED
    BY <2>1, <2>2
<1>7. ASSUME NEW f \in F
      PROVE  Overlaps(f, r[1], r[2])
  <2>1. /\ Smallest(f) \in f.data /\ Largest(f) \in f.data
        /\ Smallest(f) \in Entries /\ Largest(f) \in Entries
    BY <1>1, FileKeys
  <2>2. Key(Smallest(f)) <= High(P) /\ Key(Largest(f)) >= Low(P)
    <3>1. Smallest(f) \in Content(P) /\ Largest(f) \in Content(P)
      BY <1>2, <2>1
    <3>2. Key(Smallest(f)) \in Nat /\ Key(Largest(f)) \in Nat
          /\ Low(P) \in Nat /\ High(P) \in Nat
      BY <1>1, <1>3, <2>1, EntryTyped, LsmAssumption DEF Keys
    <3> QED
      BY <1>3, <3>1, <3>2
  <2>3. /\ Key(Smallest(f)) \in Nat /\ Key(Largest(f)) \in Nat
        /\ Low(P) \in Nat /\ High(P) \in Nat /\ r[1] \in Nat /\ r[2] \in Nat
    BY <1>1, <1>3, <1>6, <2>1, EntryTyped, LsmAssumption DEF Keys
  <2> QED
    BY <1>6, <2>2, <2>3 DEF Overlaps
<1>8. F \subseteq GetOverlappingInputs(l, Low(P), High(P))
  BY <1>5, <1>7
<1>9. GetOverlappingInputs(l, Low(P), High(P)) \subseteq With(l, P)
  BY ExtendedSubset DEF With
<1> QED
  BY <1>8, <1>9

(* A boundary file goes on with a key. *)
LEMMA BoundaryContinues ==
    ASSUME TypeOK, NEW l \in Levels, NEW G, G \subseteq files[l], NEW b \in Boundary(l, G)
    PROVE  b \in files[l] /\ \E p \in G : Continues(p, b)
<1>1. /\ b \in files[l] /\ G # {}
      /\ Precedes(Last(Content(G)), Smallest(b)) /\ Key(Last(Content(G))) = Key(Smallest(b))
  BY DEF Boundary
<1>2. Content(G) \subseteq Entries /\ Content(G) # {}
  BY <1>1, ContentTyped
<1>3. Last(Content(G)) \in Content(G)
  BY <1>2, LastIs DEF IsLast
<1>4. PICK p \in G : Last(Content(G)) \in p.data
  BY <1>3 DEF Content
<1>5. Smallest(b) \in b.data /\ Smallest(b) \in Entries
  BY <1>1, FileKeys
<1>6. Last(Content(G)) > Smallest(b)
  BY <1>1, <1>2, <1>3, <1>5, PrecedesByKey
<1> QED
  BY <1>1, <1>4, <1>5, <1>6 DEF Continues

(* More files bring more of the next level. *)
LEMMA WithMonotone ==
    ASSUME Typed, LevelsParted, NEW l \in Levels \ {0}, NEW P, NEW R,
           Content(P) \subseteq Content(R), Content(R) \subseteq Entries, Content(P) # {}
    PROVE  With(l, P) \subseteq With(l, R)
<1> DEFINE F == GetOverlappingInputs(l, Low(P), High(P))
           H == GetOverlappingInputs(l, Low(R), High(R))
           C == AddBoundaryInputs(l, H)
           Q == {G \in SUBSET files[l] : G \subseteq C}
<1>1. TypeOK
  BY DEF Typed
<1>2. /\ Low(P) \in Keys /\ High(P) \in Keys /\ Low(R) \in Keys /\ High(R) \in Keys
      /\ Low(R) <= Low(P) /\ High(P) <= High(R)
  <2>1. /\ Low(P) \in Keys /\ High(P) \in Keys
    BY <1>1, EndKeys
  <2>2. /\ Low(R) \in Keys /\ High(R) \in Keys
        /\ \A s \in Content(R) : Low(R) <= Key(s) /\ Key(s) <= High(R)
    BY <1>1, EndKeys
  <2>3. First(Content(P)) \in Content(R) /\ Last(Content(P)) \in Content(R)
    BY <1>1, FirstIs, LastIs DEF IsFirst, IsLast
  <2> QED
    BY <2>1, <2>2, <2>3 DEF Low, High
<1>3. /\ F = {f \in files[l] : Overlaps(f, Low(P), High(P))}
      /\ H = {f \in files[l] : Overlaps(f, Low(R), High(R))}
      /\ Convex(l, H)
  BY <1>1, <1>2, OverlappingIsConvex
<1>4. F \subseteq H
  <2> SUFFICES ASSUME NEW f \in F PROVE f \in H
    OBVIOUS
  <2>1. f \in files[l] /\ Overlaps(f, Low(P), High(P))
    BY <1>3
  <2>2. Key(Largest(f)) \in Nat /\ Key(Smallest(f)) \in Nat
    BY <1>1, <2>1, FileKeys, EntryTyped
  <2>3. Low(P) \in Nat /\ High(P) \in Nat /\ Low(R) \in Nat /\ High(R) \in Nat
    BY <1>2, LsmAssumption DEF Keys
  <2>4. Overlaps(f, Low(R), High(R))
    BY <1>2, <2>1, <2>2, <2>3 DEF Overlaps
  <2> QED
    BY <1>3, <2>1, <2>4
<1>5. H \subseteq files[l] /\ F \subseteq files[l]
  BY <1>3
<1> HIDE DEF F, H
<1>6. Closed(l, C) /\ H \subseteq C
  <2>1. l \in Levels
    OBVIOUS
  <2>2. Closed(l, C)
    BY <1>1, <1>3, <1>5, AddBoundaryCloses
  <2>3. H \subseteq C
    BY <2>1, ExtendedSubset
  <2> QED
    BY <2>2, <2>3
<1>7. F \in Q
  BY <1>4, <1>5, <1>6
<1>8. ASSUME NEW G \in Q
      PROVE  G \union FirstBoundary(l, G) \in Q
  <2>1. ASSUME NEW b \in FirstBoundary(l, G)
        PROVE  b \in files[l] /\ b \in C
    <3>1. b \in Boundary(l, G)
      BY DEF FirstBoundary
    <3>2. b \in files[l] /\ \E p \in G : Continues(p, b)
      BY <1>1, <3>1, BoundaryContinues
    <3> QED
      BY <1>6, <3>2 DEF Closed
  <2> QED
    BY <2>1
<1> HIDE DEF Q
<1>9. AddBoundaryInputs(l, F) \in Q
  BY <1>7, <1>8, ExtendedKeeps
<1> QED
  BY <1>9 DEF Q, F, H, With

(* A compaction that sizes or seeks start grows from one file. *)
LEMMA AutoPickFollows ==
    ASSUME Typed, LevelsParted, NEW p \in AutoPicks
    PROVE  \E f \in p[2] : Follows(p[2], {f})
<1>1. TypeOK /\ p[1] \in 0 .. NumLevels - 2
  BY AutoPickIs DEF Typed
<1>2. p[1] \in Levels
  BY <1>1, LevelsAround
<1>3. PICK f \in files[p[1]] :
         /\ f \in p[2]
         /\ p[2] = IF p[1] = 0 THEN GetOverlappingInputs(0, Low({f}), High({f})) ELSE {f}
         /\ Low({f}) = Key(Smallest(f)) /\ High({f}) = Key(Largest(f))
         /\ Low({f}) \in Keys /\ High({f}) \in Keys
  BY AutoPickIs
<1>4. CASE p[1] # 0
  BY <1>3, <1>4 DEF Follows
<1>5. CASE p[1] = 0
  <2>1. PICK lo \in Keys, hi \in Keys : lo = Key(Smallest(f)) /\ hi = Key(Largest(f))
    BY <1>3
  <2>2. p[2] = GetOverlappingInputs(0, lo, hi)
    BY <1>3, <1>5, <2>1
  <2> SUFFICES ASSUME NEW k \in Keys, \A g \in p[2] : Avoids(g, k)
               PROVE  /\ KeyLeft(f, k) => \A g \in p[2] : KeyLeft(g, k)
                      /\ KeyRight(f, k) => \A g \in p[2] : KeyRight(g, k)
    BY <1>3 DEF Follows
  <2>3. /\ KeyLeft(f, k) <=> hi < k
        /\ KeyRight(f, k) <=> lo > k
        /\ lo <= hi
    BY <1>1, <1>2, <2>1, AvoidsEnds
  <2>4. \A g \in GetOverlappingInputs(0, lo, hi) : Avoids(g, k)
    BY <2>2
  <2>5. /\ hi < k => \A g \in GetOverlappingInputs(0, lo, hi) : KeyLeft(g, k)
        /\ lo > k => \A g \in GetOverlappingInputs(0, lo, hi) : KeyRight(g, k)
    BY <1>1, <2>3, <2>4, GrownSide
  <2> QED
    BY <2>2, <2>3, <2>5
<1> QED
  BY <1>4, <1>5

(* The parents of P follow P. *)
LEMMA FollowsWith ==
    ASSUME Typed, NEW l \in Levels, NEW P, Content(P) \subseteq Entries, Content(P) # {}
    PROVE  Follows(With(l, P), P)
BY WithSide DEF Follows

(* The inputs of a compaction nobody asked for are connected. *)
LEMMA CompactionConnected ==
    ASSUME Typed, LevelsParted, ~Posted, NEW c \in Compactions
    PROVE  Connected(c.inputs \union c.parents)
<1>1. TypeOK
  BY DEF Typed
<1>2. PICK p \in AutoPicks : \E in \in SetupOtherInputs(p[1], p[2]) :
         c = Compaction(p[1], in) /\ p[1] \in 0 .. NumLevels - 2 /\ Choice(p[1], p[2])
  BY CompactionChosen DEF Picks
<1>3. PICK in \in SetupOtherInputs(p[1], p[2]) :
         c = Compaction(p[1], in) /\ p[1] \in 0 .. NumLevels - 2 /\ Choice(p[1], p[2])
  BY <1>2
<1> DEFINE l       == p[1]
           inputs  == AddBoundaryInputs(l, p[2])
           parents == With(l + 1, inputs)
<1>4. c.inputs = in[1] /\ c.parents = in[2]
  BY <1>3 DEF Compaction
<1>5. l \in Levels /\ l + 1 \in Levels \ {0} /\ l \in 0 .. NumLevels - 2
  BY <1>3, LevelsAround
<1>6. /\ ChoiceMade(l, in[1]) /\ in[2] = With(l + 1, in[1]) /\ in[2] \subseteq files[l + 1]
      /\ in[1] = inputs \/ in[1] = With(l, inputs \union parents)
  BY <1>3, SetupChooses
<1>7. inputs # {} /\ inputs \subseteq files[l] /\ p[2] \subseteq inputs
      /\ p[2] \subseteq files[l]
  <2>1. ChoiceMade(l, inputs) /\ p[2] \subseteq inputs
    BY <1>3, <1>5, AddBoundaryChooses
  <2> QED
    BY <1>3, <2>1 DEF ChoiceMade, Choice
<1>8. PICK f \in p[2] : Follows(p[2], {f})
  BY AutoPickFollows
<1>9. Follows(inputs, p[2])
  BY <1>5, <1>7, AddedSide DEF Follows
<1>10. in[1] # {} /\ in[1] \subseteq files[l]
  BY <1>6 DEF ChoiceMade
<1> HIDE DEF l, inputs
<1>11. /\ Content(inputs) \subseteq Entries /\ Content(inputs) # {}
       /\ Content(in[1]) \subseteq Entries /\ Content(in[1]) # {}
  BY <1>1, <1>5, <1>7, <1>10, ContentTyped
<1>12. Follows(parents, inputs)
  BY <1>5, <1>11, FollowsWith
(* What lies around a key also has one side of the first file. *)
<1>13. ASSUME NEW k \in Keys, \A g \in inputs \union parents : Avoids(g, k)
       PROVE  (\A g \in inputs \union parents : KeyLeft(g, k))
              \/ (\A g \in inputs \union parents : KeyRight(g, k))
  <2>1. /\ \A g \in inputs : Avoids(g, k)
        /\ \A g \in parents : Avoids(g, k)
        /\ \A g \in p[2] : Avoids(g, k)
    BY <1>7, <1>13
  <2>2. CASE KeyLeft(f, k)
    <3>1. \A g \in p[2] : KeyLeft(g, k)
      BY <1>8, <2>1, <2>2 DEF Follows
    <3>2. \A g \in inputs : KeyLeft(g, k)
      BY <1>9, <2>1, <3>1 DEF Follows
    <3>3. \A g \in parents : KeyLeft(g, k)
      BY <1>12, <2>1, <3>2 DEF Follows
    <3> QED
      BY <3>2, <3>3
  <2>3. CASE KeyRight(f, k)
    <3>1. \A g \in p[2] : KeyRight(g, k)
      BY <1>8, <2>1, <2>3 DEF Follows
    <3>2. \A g \in inputs : KeyRight(g, k)
      BY <1>9, <2>1, <3>1 DEF Follows
    <3>3. \A g \in parents : KeyRight(g, k)
      BY <1>12, <2>1, <3>2 DEF Follows
    <3> QED
      BY <3>2, <3>3
  <2>4. Avoids(f, k)
    BY <2>1
  <2> QED
    BY <2>2, <2>3, <2>4 DEF Avoids
<1>14. CASE in[1] = inputs
  <2>1. c.inputs \union c.parents = inputs \union parents
    BY <1>4, <1>6, <1>14
  <2> QED
    BY <1>13, <2>1 DEF Connected
<1>15. CASE in[1] = With(l, inputs \union parents)
  <2> DEFINE P == inputs \union parents
  <2>1. /\ Content(P) \subseteq Entries /\ Content(P) # {}
        /\ inputs \subseteq P /\ Content(P) = Content(inputs) \union Content(parents)
    <3>1. Content(P) = Content(inputs) \union Content(parents)
      BY DEF Content
    <3>2. parents \subseteq files[l + 1]
      <4>1. inputs \subseteq files[l] /\ GetOverlappingInputs(l + 1, Low(inputs), High(inputs))
                                             \subseteq files[l + 1]
        BY <1>7 DEF GetOverlappingInputs
      <4> DEFINE Q == {G \in SUBSET files[l + 1] : TRUE}
                 F == GetOverlappingInputs(l + 1, Low(inputs), High(inputs))
      <4>2. F \in Q
        BY <4>1
      <4>3. \A G \in Q : G \union FirstBoundary(l + 1, G) \in Q
        BY DEF FirstBoundary, Boundary
      <4> HIDE DEF Q, F
      <4>4. AddBoundaryInputs(l + 1, F) \in Q
        BY <1>5, <4>2, <4>3, ExtendedKeeps
      <4> QED
        BY <4>4 DEF Q, F, With
    <3>3. Content(parents) \subseteq Entries
      BY <1>1, <1>5, <3>2, ContentTyped
    <3> QED
      BY <1>11, <3>1, <3>3
  <2>0. in[1] = With(l, P)
    BY <1>15
  <2> HIDE DEF P
  <2>2. inputs \subseteq in[1]
    <3>1. inputs \subseteq With(l, P)
      BY <1>5, <1>7, <2>1, WithCovers
    <3> QED
      BY <2>0, <3>1
  <2>3. parents \subseteq in[2]
    <3>1. Content(inputs) \subseteq Content(in[1])
      BY <2>2 DEF Content
    <3> QED
      BY <1>5, <1>6, <1>11, <3>1, WithMonotone
  <2>4. Follows(in[1], P)
    BY <1>5, <1>15, <2>1, FollowsWith DEF P
  <2>5. Follows(in[2], in[1])
    BY <1>5, <1>6, <1>11, FollowsWith
  <2> SUFFICES ASSUME NEW k \in Keys, \A g \in in[1] \union in[2] : Avoids(g, k)
               PROVE  (\A g \in in[1] \union in[2] : KeyLeft(g, k))
                      \/ (\A g \in in[1] \union in[2] : KeyRight(g, k))
    BY <1>4 DEF Connected
  <2>6. /\ \A g \in in[1] : Avoids(g, k)
        /\ \A g \in in[2] : Avoids(g, k)
    OBVIOUS
  <2>7. (\A g \in P : KeyLeft(g, k)) \/ (\A g \in P : KeyRight(g, k))
    BY <1>13, <2>2, <2>3 DEF P
  <2>8. CASE \A g \in P : KeyLeft(g, k)
    <3>1. \A g \in in[1] : KeyLeft(g, k)
      BY <2>4, <2>6, <2>8 DEF Follows
    <3>2. \A g \in in[2] : KeyLeft(g, k)
      BY <2>5, <2>6, <3>1 DEF Follows
    <3> QED
      BY <3>1, <3>2
  <2>9. CASE \A g \in P : KeyRight(g, k)
    <3>1. \A g \in in[1] : KeyRight(g, k)
      BY <2>4, <2>6, <2>9 DEF Follows
    <3>2. \A g \in in[2] : KeyRight(g, k)
      BY <2>5, <2>6, <3>1 DEF Follows
    <3> QED
      BY <3>1, <3>2
  <2> QED
    BY <2>7, <2>8, <2>9
<1> QED
  BY <1>6, <1>14, <1>15

-----------------------------------------------------------------------------
(* With one client no file lies in a gap of another *)

(* With one client: no file lies in a gap of another, and the outputs of the *)
(* work under way will not either.                                         *)
NoSpan     == \A l \in Levels \ {0} : \A f, g \in files[l] : ~Spans(f, g)
SidesOf(c) == \A r \in files[c.level + 1] \ c.parents : OneSide(Input(c), r)
Joined(c)  == Connected(c.inputs \union c.parents)
ManualHeld == imm = {} /\ (failed \/ (manual # NoRequest /\ ~manual.done))

(* Nothing flushed meanwhile gets into a gap of the inputs: they have none,*)
(* or it is a manual compaction, during which the only client waits.       *)
Undisturbed(c) ==
    /\ SidesOf(c)
    /\ ~c.isManual => Joined(c)
    /\ c.isManual => ManualHeld

(* The invariant with one client. *)
OneInv ==
    /\ NoSpan
    /\ bg # NoWork => Undisturbed(bg)
    /\ Posted => ~manual.done

(* A compaction that was just picked spans no file of the parents' level. *)
LEMMA CompactionSides ==
    ASSUME Typed, LevelsParted, NoSpan, NEW c \in Compactions
    PROVE  SidesOf(c)
<1>1. /\ c.level \in 0 .. NumLevels - 2 /\ ChoiceMade(c.level, c.inputs)
      /\ c.parents = With(c.level + 1, c.inputs) /\ c.parents \subseteq files[c.level + 1]
  BY CompactionParents
<1>2. /\ c.level \in Levels /\ c.level + 1 \in Levels \ {0}
      /\ c.inputs # {} /\ c.inputs \subseteq files[c.level]
  BY <1>1, LevelsAround DEF ChoiceMade
<1> SUFFICES ASSUME NEW r \in files[c.level + 1] \ c.parents
             PROVE  OneSide(Input(c), r)
  BY DEF SidesOf
<1>3. r \in files[c.level + 1] \ With(c.level + 1, c.inputs)
  BY <1>1
<1>4. \A p \in With(c.level + 1, c.inputs) : ~Spans(p, r)
  BY <1>1, <1>2 DEF NoSpan
<1>5. OneSide(Content(c.inputs \union With(c.level + 1, c.inputs)), r)
  BY <1>2, <1>3, <1>4, ParentsFit
<1> QED
  BY <1>1, <1>5 DEF Input

(* Steps that leave the files alone keep it. *)
LEMMA NoSpanSame ==
    ASSUME TypeOK, NoSpan, EntriesKept, files' = files
    PROVE  NoSpan'
<1> SUFFICES ASSUME NEW l \in Levels \ {0}, NEW f \in files[l], NEW g \in files[l]
             PROVE  ~Spans(f, g)'
  BY DEF NoSpan, Levels
<1>1. f.data \subseteq Entries /\ g.data \subseteq Entries
  BY FileTyped
<1>2. Spans(f, g)' <=> Spans(f, g)
  BY <1>1, PairsKept
<1> QED
  BY <1>2 DEF NoSpan

(* So does a flush. *)
LEMMA NoSpanFlush ==
    ASSUME Typed, NoSpan, NEW l, NEW h, Flushed(l, h), history' = history
    PROVE  NoSpan'
<1>1. TypeOK /\ EntriesKept
  BY SameKeeps DEF Typed
<1>2. /\ l \in Levels /\ h.data # {} /\ h.data \subseteq Entries
      /\ files'[l] = files[l] \union {h}
      /\ \A i \in Levels : i # l => files'[i] = files[i]
      /\ l # 0 => \A i \in 0 .. l : \A f \in files[i] : Clear(h.data, f)
  BY FlushIs
<1> SUFFICES ASSUME NEW i \in Levels \ {0}, NEW f \in files'[i], NEW g \in files'[i]
             PROVE  ~Spans(f, g)'
  BY DEF NoSpan, Levels
<1>3. /\ f \in files[i] \/ (i = l /\ f = h)
      /\ g \in files[i] \/ (i = l /\ g = h)
  BY <1>2
<1>4. f.data \subseteq Entries /\ g.data \subseteq Entries /\ f.data # {} /\ g.data # {}
  BY <1>1, <1>2, <1>3, FileTyped
<1>5. Spans(f, g)' <=> Spans(f, g)
  BY <1>1, <1>4, PairsKept
<1>6. ASSUME i = l, NEW q \in files[i]
      PROVE  ~Spans(q, h) /\ ~Spans(h, q)
  <2>1. l # 0 /\ l \in 0 .. l
    BY <1>2, <1>6 DEF Levels
  <2>2. Clear(h.data, q)
    BY <1>2, <1>6, <2>1
  <2>3. q.data \subseteq Entries /\ q.data # {}
    BY <1>1, FileTyped
  <2> QED
    BY <1>1, <1>2, <2>2, <2>3, ClearIsOrdered
<1>7. ~Spans(h, h)
  <2> SUFFICES ASSUME Spans(h, h) PROVE FALSE
    OBVIOUS
  <2>1. PICK s \in h.data : LeftOf(s, h)
    BY DEF Spans
  <2>2. Key(s) \in Nat /\ Key(s) < Key(s)
    BY <1>1, <1>2, <2>1, EntryTyped DEF LeftOf
  <2> QED
    BY <2>2
<1>8. ~Spans(f, g)
  <2>1. CASE f \in files[i] /\ g \in files[i]
    BY <2>1 DEF NoSpan
  <2>2. CASE i = l /\ f = h /\ g \in files[i]
    BY <1>6, <2>2
  <2>3. CASE i = l /\ f \in files[i] /\ g = h
    BY <1>6, <2>3
  <2>4. CASE f = h /\ g = h
    BY <1>7, <2>4
  <2> QED
    BY <1>3, <2>1, <2>2, <2>3, <2>4
<1> QED
  BY <1>5, <1>8

(* So do outputs that have every other file on one side. *)
LEMMA NoSpanEdit ==
    ASSUME Typed, NoSpan, NEW c, Work(c), SidesOf(c), NEW added, Added(c, added),
           files' = Edited(c, added), history' = history
    PROVE  NoSpan'
<1>1. TypeOK /\ EntriesKept
  BY SameKeeps DEF Typed
<1>2. c.level \in Levels /\ c.level + 1 \in Levels \ {0} /\ Input(c) \subseteq Entries
  BY <1>1, InputTyped
<1>3. /\ files'[c.level] = files[c.level] \ c.inputs
      /\ files'[c.level + 1] = (files[c.level + 1] \ c.parents) \union added
      /\ \A l \in Levels : l # c.level /\ l # c.level + 1 => files'[l] = files[l]
  BY <1>1, EditedIs DEF Work
<1>4. /\ \A o \in added : o.data # {} /\ o.data \subseteq Input(c)
      /\ \A o, p \in added : o # p => Before(o, p) \/ Before(p, o)
  BY DEF Added
<1> SUFFICES ASSUME NEW i \in Levels \ {0}, NEW f \in files'[i], NEW g \in files'[i]
             PROVE  ~Spans(f, g)'
  BY DEF NoSpan, Levels
<1>5. /\ f \in files[i] \/ (i = c.level + 1 /\ f \in added)
      /\ g \in files[i] \/ (i = c.level + 1 /\ g \in added)
      /\ i = c.level + 1 => /\ f \in files[i] => f \in added \/ f \notin c.parents
                            /\ g \in files[i] => g \in added \/ g \notin c.parents
  BY <1>2, <1>3
<1>6. f.data \subseteq Entries /\ g.data \subseteq Entries /\ f.data # {} /\ g.data # {}
  BY <1>1, <1>2, <1>4, <1>5, FileTyped
<1>7. Spans(f, g)' <=> Spans(f, g)
  BY <1>1, <1>6, PairsKept
<1>8. ASSUME NEW r \in files[c.level + 1] \ c.parents, NEW o \in added
      PROVE  ~Spans(r, o) /\ ~Spans(o, r)
  <2>1. r.data # {} /\ r.data \subseteq Entries
    BY <1>1, <1>2, FileTyped
  <2>2. OneSide(Input(c), r)
    BY DEF SidesOf
  <2>3. o.data # {} /\ o.data \subseteq Input(c)
    BY <1>4
  <2> QED
    BY <1>1, <1>2, <2>1, <2>2, <2>3, OutputAmong
<1>9. ASSUME NEW o \in added, NEW p \in added
      PROVE  ~Spans(o, p)
  BY <1>1, <1>2, <1>4, OutputsApart
<1>10. ~Spans(f, g)
  <2>1. CASE f \in files[i] /\ g \in files[i]
    BY <2>1 DEF NoSpan
  <2>2. CASE i = c.level + 1 /\ f \in added /\ g \in added
    BY <1>9, <2>2
  <2>3. CASE i = c.level + 1 /\ f \in added /\ g \notin added
    BY <1>5, <1>8, <2>3
  <2>4. CASE i = c.level + 1 /\ f \notin added /\ g \in added
    BY <1>5, <1>8, <2>4
  <2> QED
    BY <1>5, <2>1, <2>2, <2>3, <2>4
<1> QED
  BY <1>7, <1>10

(* Sides, when the files are kept. *)
LEMMA SidesSame ==
    ASSUME TypeOK, NEW c, Work(c), SidesOf(c), EntriesKept, files' = files
    PROVE  SidesOf(c)'
<1>1. c.level + 1 \in Levels /\ Input(c) \subseteq Entries
  BY InputTyped
<1> SUFFICES ASSUME NEW r \in files[c.level + 1] \ c.parents
             PROVE  OneSide(Input(c), r)'
  BY DEF SidesOf
<1>2. PICK K \in SUBSET Entries : K = Input(c) /\ K = Input(c)'
  BY <1>1 DEF Input, Content
<1>3. r.data \subseteq Entries
  BY <1>1, FileTyped
<1>4. OneSide(K, r)' <=> OneSide(K, r)
  BY <1>3, FilesKept
<1>5. OneSide(K, r)
  BY <1>2 DEF SidesOf
<1> QED
  BY <1>2, <1>4, <1>5 DEF OneSide

(* Connectedness is kept as well. *)
LEMMA JoinedSame ==
    ASSUME TypeOK, NEW c, Work(c), Joined(c), EntriesKept
    PROVE  Joined(c)'
<1> DEFINE C == c.inputs \union c.parents
<1>1. \A f \in C : f.data \subseteq Entries
  <2>1. /\ c.level \in Levels /\ c.level + 1 \in Levels
        /\ c.inputs \subseteq files[c.level] /\ c.parents \subseteq files[c.level + 1]
    BY InputTyped
  <2> QED
    BY <2>1, FileTyped
<1>2. \A f \in C : \A k \in Keys : /\ KeyLeft(f, k)' <=> KeyLeft(f, k)
                                   /\ KeyRight(f, k)' <=> KeyRight(f, k)
  BY <1>1, KeysKept DEF KeyLeft, KeyRight
<1> HIDE DEF C
<1>3. \A f \in C : \A k \in Keys : Avoids(f, k)' <=> Avoids(f, k)
  BY <1>2 DEF Avoids
<1>4. Connected(C)
  BY DEF C, Joined
<1>5. Connected(C)'
  BY <1>2, <1>3, <1>4 DEF Connected
<1> QED
  BY <1>5 DEF C, Joined, Connected

(* A flushed file cannot get between inputs that leave no gap. *)
LEMMA SidesFlush ==
    ASSUME Typed, NEW c, Work(c), SidesOf(c), Joined(c), NEW l, NEW h, Flushed(l, h),
           history' = history
    PROVE  SidesOf(c)'
<1>1. TypeOK
  BY DEF Typed
<1>2. /\ l \in Levels /\ h.data # {} /\ h.data \subseteq Entries
      /\ files'[l] = files[l] \union {h}
      /\ \A i \in Levels : i # l => files'[i] = files[i]
      /\ l # 0 => \A i \in 0 .. l : \A f \in files[i] : Clear(h.data, f)
  BY FlushIs
<1>3. /\ c.level \in Levels /\ c.level + 1 \in Levels \ {0}
      /\ c.inputs \subseteq files[c.level] /\ c.parents \subseteq files[c.level + 1]
      /\ Input(c) \subseteq Entries
  BY <1>1, InputTyped
<1>4. \A s : Key(s)' = Key(s)
  BY DEF Key
<1>5. \A r : OneSide(Input(c), r)' <=> OneSide(Input(c), r)
  BY <1>4 DEF OneSide, Precedes, LeftOf, Input, Content
<1> SUFFICES ASSUME NEW r \in files'[c.level + 1] \ c.parents
             PROVE  OneSide(Input(c), r)
  BY <1>5 DEF SidesOf
<1>6. CASE r \in files[c.level + 1]
  BY <1>6 DEF SidesOf
<1>7. CASE l = c.level + 1 /\ r = h
  <2> DEFINE C == c.inputs \union c.parents
  <2>1. \A f \in C : Clear(h.data, f) /\ f.data # {} /\ f.data \subseteq Entries
    <3>1. l # 0 /\ c.level \in 0 .. l /\ c.level + 1 \in 0 .. l
      BY <1>3, <1>7 DEF Levels
    <3> QED
      BY <1>1, <1>2, <1>3, <3>1, FileTyped
  <2>2. PICK s \in h.data : s \in Entries /\ Key(s) \in Keys
    BY <1>1, <1>2, EntryTyped
  <2>3. PICK k \in Keys : k = Key(s)
    BY <2>2
  <2>4. k \in Nat /\ \A t \in Entries : Key(t) \in Nat
    BY <1>1, EntryTyped, LsmAssumption DEF Keys
  <2>5. \A t \in Input(c) : \E f \in C : t \in f.data
    BY DEF Input, Content
  <2> HIDE DEF C
  <2>6. ASSUME NEW f \in C
        PROVE  /\ LeftOf(s, f) => KeyRight(f, k) /\ ~KeyLeft(f, k)
               /\ RightOf(s, f) => KeyLeft(f, k) /\ ~KeyRight(f, k)
               /\ LeftOf(s, f) \/ RightOf(s, f)
    <3>1. \A t \in f.data : Key(t) \in Nat
      BY <2>1, <2>4
    <3>2. LeftOf(s, f) => \A t \in f.data : Key(t) > k /\ ~(Key(t) < k)
      BY <2>3, <2>4, <3>1 DEF LeftOf
    <3>3. RightOf(s, f) => \A t \in f.data : Key(t) < k /\ ~(Key(t) > k)
      BY <2>3, <2>4, <3>1 DEF RightOf
    <3>4. f.data # {}
      BY <2>1
    <3>5. LeftOf(s, f) \/ RightOf(s, f)
      BY <2>1, <2>2 DEF Clear
    <3> QED
      BY <3>2, <3>3, <3>4, <3>5 DEF KeyLeft, KeyRight
  <2>7. (\A f \in C : KeyLeft(f, k)) \/ (\A f \in C : KeyRight(f, k))
    BY <2>6 DEF Joined, Connected, C, Avoids
  <2>8. CASE \A f \in C : KeyRight(f, k)
    <3>1. \A f \in C : \A u \in h.data : LeftOf(u, f)
      <4> TAKE f \in C
      <4>1. ~RightOf(s, f)
        BY <2>6, <2>8
      <4> QED
        BY <2>1, <2>2, <4>1 DEF Clear
    <3>2. \A t \in Input(c), u \in h.data : Precedes(u, t)
      <4> TAKE t \in Input(c), u \in h.data
      <4>1. PICK f \in C : t \in f.data
        BY <2>5
      <4>2. Key(u) < Key(t)
        BY <3>1, <4>1 DEF LeftOf
      <4> QED
        BY <4>2 DEF Precedes
    <3> QED
      BY <1>7, <3>2 DEF OneSide
  <2>9. CASE \A f \in C : KeyLeft(f, k)
    <3>1. \A f \in C : \A u \in h.data : RightOf(u, f)
      <4> TAKE f \in C
      <4>1. ~LeftOf(s, f)
        BY <2>6, <2>9
      <4> QED
        BY <2>1, <2>2, <4>1 DEF Clear
    <3>2. \A t \in Input(c) : LeftOf(t, h)
      <4> TAKE t \in Input(c)
      <4>1. PICK f \in C : t \in f.data
        BY <2>5
      <4>2. \A u \in h.data : Key(u) > Key(t) /\ Key(u) \in Nat /\ Key(t) \in Nat
        BY <1>2, <1>3, <2>4, <3>1, <4>1 DEF RightOf
      <4> QED
        BY <4>2 DEF LeftOf
    <3> QED
      BY <1>7, <3>2 DEF OneSide
  <2> QED
    BY <2>7, <2>8, <2>9
<1> QED
  BY <1>2, <1>3, <1>6, <1>7

(* The invariant with one client holds of an empty database, *)
LEMMA OneInit == Init => OneInv
<1> SUFFICES ASSUME Init PROVE OneInv
  OBVIOUS
<1>1. NoSpan
  BY DEF Init, NoSpan
<1> QED
  BY <1>1 DEF Init, OneInv, Posted

(* Steps that leave the version alone. *)
LEMMA OneSame ==
    ASSUME Inv, OneInv, EntriesKept, files' = files,
           bg' # NoWork => /\ Work(bg') /\ SidesOf(bg')
                           /\ ~bg'.isManual => Joined(bg')
                           /\ bg'.isManual => ManualHeld',
           Posted' => ~manual'.done
    PROVE  OneInv'
<1>1. TypeOK /\ NoSpan
  BY DEF Inv, Typed, OneInv
<1>2. NoSpan'
  BY <1>1, NoSpanSame
<1>3. bg' # NoWork => Undisturbed(bg)'
  <2> SUFFICES ASSUME bg' # NoWork PROVE Undisturbed(bg)'
    OBVIOUS
  <2>1. PICK c : c = bg'
    OBVIOUS
  <2>2. Work(c) /\ SidesOf(c) /\ (~c.isManual => Joined(c)) /\ (c.isManual => ManualHeld')
    BY <2>1
  <2>3. SidesOf(c)'
    BY <1>1, <2>2, SidesSame
  <2>4. ~c.isManual => Joined(c)'
    BY <1>1, <2>2, JoinedSame
  <2>5. Undisturbed(c)'
    BY <2>2, <2>3, <2>4 DEF Undisturbed
  <2> QED
    BY <2>1, <2>5
<1> QED
  BY <1>2, <1>3 DEF OneInv

(* A request that is posted is not done. *)
LEMMA EndManualOpen ==
    ASSUME ManualTyped, Posted => ~manual.done, NEW ok \in BOOLEAN, EndManual(ok)
    PROVE  Posted' => ~manual'.done
<1>1. CASE ~bg.isManual
  BY <1>1 DEF EndManual, Posted
<1>2. CASE bg.isManual
  <2>1. ~manual'.posted
    BY <1>2 DEF EndManual, ManualTyped
  <2> QED
    BY <2>1 DEF Posted
<1> QED
  BY <1>1, <1>2

(* CompactMemTable. *)
LEMMA OneFlush ==
    ASSUME Inv, OneInv, CompactMemTable
    PROVE  OneInv'
<1>1. Typed /\ TypeOK /\ NoSpan /\ EntriesKept
  BY SameKeeps DEF Inv, Typed, OneInv, CompactMemTable
<1>2. PICK l \in PickLevels(imm) :
        files' = [files EXCEPT ![l] = @ \union {[num |-> nextFile, data |-> imm]}]
  BY DEF CompactMemTable
<1>3. PICK h : h = [num |-> nextFile, data |-> imm]
  OBVIOUS
<1>4. Flushed(l, h) /\ imm # {}
  BY <1>2, <1>3 DEF CompactMemTable, MemTableDue, Flushed
<1>5. history' = history /\ bg' = bg /\ manual' = manual
  BY DEF CompactMemTable
<1>6. NoSpan'
  BY <1>1, <1>4, <1>5, NoSpanFlush
<1>7. bg' # NoWork => Undisturbed(bg)'
  <2> SUFFICES ASSUME bg' # NoWork PROVE Undisturbed(bg)'
    OBVIOUS
  <2>1. PICK c : c = bg /\ c = bg'
    BY <1>5
  <2>2. Work(c) /\ SidesOf(c) /\ ~c.isManual /\ Joined(c)
    BY <1>4, <1>5, <2>1 DEF Inv, WorkKept, OneInv, Undisturbed, ManualHeld
  <2>3. SidesOf(c)'
    BY <1>1, <1>4, <1>5, <2>2, SidesFlush
  <2>4. Joined(c)'
    BY <1>1, <2>2, JoinedSame
  <2>5. Undisturbed(c)'
    BY <2>2, <2>3, <2>4 DEF Undisturbed
  <2> QED
    BY <2>1, <2>5
<1>8. Posted' => ~manual'.done
  BY <1>5 DEF OneInv, Posted
<1> QED
  BY <1>6, <1>7, <1>8 DEF OneInv

(* BackgroundCompaction picks. *)
LEMMA OneBegin ==
    ASSUME Inv, OneInv, BackgroundCompaction
    PROVE  OneInv'
<1>1. Typed /\ TypeOK /\ LevelsParted /\ NoSpan /\ EntriesKept
  BY SameKeeps DEF Inv, Typed, OneInv, BackgroundCompaction
<1>2. PICK c \in Compactions : TrivialMove(c) \/ TrivialMoveFails(c) \/ BeginCompaction(c)
  BY DEF BackgroundCompaction
<1>3. /\ bg = NoWork /\ imm = {}
      /\ UNCHANGED <<history, mem, imm, nextFile, snapshots, manual>>
      /\ Posted' = Posted /\ (Posted => ~manual.done)
  BY DEF BackgroundCompaction, MayBegin, Posted, OneInv
<1>4. Work(c) /\ SidesOf(c)
  BY <1>1, CompactionWork, CompactionSides
<1>5. ~c.isManual => Joined(c)
  <2>1. c.isManual = Posted
    BY <1>1, CompactionParents
  <2> QED
    BY <1>1, <2>1, CompactionConnected DEF Joined
<1>6. c.isManual => ManualHeld'
  <2>1. c.isManual = Posted
    BY <1>1, CompactionParents
  <2> QED
    BY <1>3, <2>1 DEF ManualHeld, Posted
<1>7. CASE TrivialMove(c)
  <2>1. Added(c, c.inputs) /\ files' = Edited(c, c.inputs) /\ bg' = NoWork
    BY <1>1, <1>3, <1>4, <1>7, MovedAdded DEF TrivialMove
  <2>2. NoSpan'
    BY <1>1, <1>3, <1>4, <2>1, NoSpanEdit
  <2> QED
    BY <1>3, <2>1, <2>2 DEF OneInv
<1>8. CASE TrivialMoveFails(c)
  <2>1. bg' = NoWork /\ files' = files
    BY <1>3, <1>8 DEF TrivialMoveFails
  <2> QED
    BY <1>1, <1>3, <2>1, OneSame
<1>9. CASE BeginCompaction(c)
  <2>1. bg' = c /\ files' = files
    BY <1>9 DEF BeginCompaction
  <2> QED
    BY <1>1, <1>3, <1>4, <1>5, <1>6, <2>1, OneSame
<1> QED
  BY <1>2, <1>7, <1>8, <1>9

(* BackgroundCompaction ends. *)
LEMMA OneEnd ==
    ASSUME Inv, OneInv, EndCompaction
    PROVE  OneInv'
<1>1. Typed /\ TypeOK /\ ManualTyped /\ WorkKept /\ NoSpan
  BY DEF Inv, Typed, OneInv
<1>2. PICK F \in Outputs(Kept(bg)) : files' = Edited(bg, F)
  BY DEF EndCompaction
<1>3. PICK c : c = bg
  OBVIOUS
<1>4. Work(c) /\ SidesOf(c)
  BY <1>1, <1>3 DEF EndCompaction, WorkKept, OneInv, Undisturbed
<1>5. F \in Outputs(Kept(c)) /\ files' = Edited(c, F)
  BY <1>2, <1>3
<1>6. Added(c, F)
  BY <1>1, <1>4, <1>5, OutputsAdded
<1>7. history' = history /\ bg' = NoWork
  BY DEF EndCompaction
<1>8. NoSpan'
  BY <1>1, <1>4, <1>5, <1>6, <1>7, NoSpanEdit
<1>9. Posted' => ~manual'.done
  BY <1>1, EndManualOpen DEF EndCompaction, OneInv
<1> QED
  BY <1>7, <1>8, <1>9 DEF OneInv

(* Every step of a database with one client keeps it. *)
LEMMA OneNext ==
    ASSUME OneClient, Inv, OneInv, [Next]_vars
    PROVE  OneInv'
<1>1. Typed /\ TypeOK /\ ManualTyped
  BY DEF Inv, Typed
<1>2. /\ bg # NoWork => /\ Work(bg) /\ SidesOf(bg)
                        /\ ~bg.isManual => Joined(bg)
                        /\ bg.isManual => ManualHeld
      /\ Posted => ~manual.done
  BY DEF Inv, WorkKept, OneInv, Undisturbed
<1>3. manual' = manual => Posted' = Posted
  BY DEF Posted
<1>4. history' = history => EntriesKept
  BY SameKeeps
<1>5. ASSUME NEW u \in Updates, Write(u)
      PROVE  OneInv'
  <2>1. EntriesKept /\ files' = files /\ bg' = bg /\ manual' = manual
    BY <1>1, <1>5, WriteKeeps DEF Write, version
  <2>2. ManualHeld => ManualHeld'
    BY <1>5 DEF Write, ManualHeld
  <2> QED
    BY <1>2, <1>3, <2>1, <2>2, OneSame
<1>6. CASE SwitchMemTable
  <2>1. EntriesKept /\ files' = files /\ bg' = bg /\ manual' = manual
    BY <1>4, <1>6 DEF SwitchMemTable, version
  <2>2. ~ManualHeld
    BY <1>6 DEF SwitchMemTable, ClientIsFree, ManualHeld
  <2> QED
    BY <1>2, <1>3, <2>1, <2>2, OneSame
<1>7. CASE GetSnapshot
  <2>1. EntriesKept /\ files' = files /\ bg' = bg /\ manual' = manual
    BY <1>4, <1>7 DEF GetSnapshot, version
  <2>2. ManualHeld => ManualHeld'
    BY <1>7 DEF GetSnapshot, ManualHeld
  <2> QED
    BY <1>2, <1>3, <2>1, <2>2, OneSame
<1>8. ASSUME NEW s \in snapshots, ReleaseSnapshot(s)
      PROVE  OneInv'
  <2>1. EntriesKept /\ files' = files /\ bg' = bg /\ manual' = manual
    BY <1>4, <1>8 DEF ReleaseSnapshot, version
  <2>2. ManualHeld => ManualHeld'
    BY <1>8 DEF ReleaseSnapshot, ManualHeld
  <2> QED
    BY <1>2, <1>3, <2>1, <2>2, OneSame
<1>9. ASSUME NEW l \in 0 .. NumLevels - 2, NEW r \in ManualRanges, CompactRange(l, r)
      PROVE  OneInv'
  <2>1. EntriesKept /\ files' = files /\ bg' = bg /\ ~manual'.done
    BY <1>4, <1>9 DEF CompactRange, version
  <2>2. ~ManualHeld
    BY <1>9 DEF CompactRange, ManualHeld
  <2> QED
    BY <1>2, <2>1, <2>2, OneSame
<1>10. CASE PostAgain
  <2>1. EntriesKept /\ files' = files /\ bg' = bg
    BY <1>4, <1>10 DEF PostAgain, version
  <2>2. ~manual'.done /\ manual' # NoRequest
    <3>1. /\ manual' = [manual EXCEPT !.posted = TRUE] /\ ~manual.done /\ manual # NoRequest
      BY <1>10 DEF PostAgain
    <3>2. /\ DOMAIN manual = {"level", "lo", "hi", "posted", "done", "range", "before"}
      BY <1>1, <3>1 DEF ManualTyped
    <3>3. "done" \in DOMAIN manual' /\ manual'.done = manual.done
      BY <3>1, <3>2
    <3>4. DOMAIN NoRequest = {"level"}
      BY DEF NoRequest
    <3>5. "done" \notin DOMAIN NoRequest
      BY <3>4
    <3> QED
      BY <3>1, <3>3, <3>5
  <2>3. ManualHeld => ManualHeld'
    BY <1>10, <2>2 DEF PostAgain, ManualHeld
  <2> QED
    BY <1>2, <2>1, <2>2, <2>3, OneSame
<1>11. CASE ManualReturn
  <2>1. EntriesKept /\ files' = files /\ bg' = bg /\ manual' = NoRequest
    BY <1>4, <1>11 DEF ManualReturn, version
  <2>2. ManualHeld => ManualHeld'
    BY <1>11 DEF ManualReturn, ManualHeld
  <2>3. ~Posted'
    BY <2>1 DEF Posted
  <2> QED
    BY <1>2, <2>1, <2>2, <2>3, OneSame
<1>12. CASE CompactMemTable
  BY <1>12, OneFlush
<1>13. CASE CompactMemTableFails
  <2>1. EntriesKept /\ files' = files /\ bg' = bg /\ manual' = manual
    BY <1>4, <1>13 DEF CompactMemTableFails, version
  <2>2. ManualHeld => ManualHeld'
    BY <1>13 DEF CompactMemTableFails, ManualHeld
  <2> QED
    BY <1>2, <1>3, <2>1, <2>2, OneSame
<1>14. CASE ManualNothing
  <2>1. EntriesKept /\ files' = files /\ bg' = NoWork
    BY <1>4, <1>14 DEF ManualNothing, MayBegin, version
  <2>2. ~Posted'
    <3>1. /\ manual' = [manual EXCEPT !.posted = FALSE, !.done = TRUE] /\ manual # NoRequest
      BY <1>14 DEF ManualNothing, Posted
    <3>2. ~manual'.posted
      BY <1>1, <3>1 DEF ManualTyped
    <3> QED
      BY <3>2 DEF Posted
  <2> QED
    BY <2>1, <2>2, OneSame
<1>15. CASE BackgroundCompaction
  BY <1>15, OneBegin
<1>16. CASE EndCompaction
  BY <1>16, OneEnd
<1>17. CASE CompactionFails
  <2>1. EntriesKept /\ files' = files /\ bg' = NoWork
    BY <1>4, <1>17 DEF CompactionFails, version
  <2>2. Posted' => ~manual'.done
    BY <1>1, <1>2, <1>17, EndManualOpen DEF CompactionFails
  <2> QED
    BY <2>1, <2>2, OneSame
<1>18. CASE UNCHANGED vars
  <2>1. EntriesKept /\ files' = files /\ bg' = bg /\ manual' = manual
    BY <1>4, <1>18 DEF vars
  <2>2. ManualHeld => ManualHeld'
    BY <1>18 DEF vars, ManualHeld
  <2> QED
    BY <1>2, <1>3, <2>1, <2>2, OneSame
<1> QED
  BY <1>5, <1>6, <1>7, <1>8, <1>9, <1>10, <1>11, <1>12, <1>13, <1>14, <1>15, <1>16, <1>17, <1>18
     DEF Next, Background

(* Files of a level that are parted and do not span each other are in a row. *)
LEMMA PartedIsDisjoint ==
    ASSUME TypeOK, LevelsParted, NoSpan
    PROVE  LevelsDisjoint
<1> SUFFICES ASSUME NEW l \in Levels \ {0}, NEW f \in files[l], NEW g \in files[l], f # g
             PROVE  Precedes(Largest(f), Smallest(g)) \/ Precedes(Largest(g), Smallest(f))
  BY DEF LevelsDisjoint
<1>1. Before(f, g) \/ Before(g, f)
  BY DEF LevelsParted, Parted, NoSpan
<1>2. /\ Smallest(f) \in f.data /\ Largest(f) \in f.data
      /\ Smallest(g) \in g.data /\ Largest(g) \in g.data
  BY FileKeys
<1> QED
  BY <1>1, <1>2 DEF Before

(* LevelsDisjoint: as long as one client uses the database and waits for its *)
(* manual compactions, the files of a level above 0 never overlap, which   *)
(* VersionSet::Builder asserts and FindFile relies on.                     *)
THEOREM LevelsDisjointAlways ==
    ASSUME OneClient
    PROVE  Spec => []LevelsDisjoint
<1>1. Init => Inv /\ OneInv
  BY InitInv, OneInit
<1>2. (Inv /\ OneInv) /\ [Next]_vars => (Inv /\ OneInv)'
  BY NextInv, OneNext
<1>3. Inv /\ OneInv => LevelsDisjoint
  BY PartedIsDisjoint DEF Inv, Typed, OneInv
<1> QED
  BY <1>1, <1>2, <1>3, PTL DEF Spec

-----------------------------------------------------------------------------
(* No visible entry is lost *)

(* What a database holds, in a memtable or a table. *)
InTable(t) == \E l \in Levels : \E f \in files[l] : t \in f.data
Held(t)    == t \in mem \/ t \in imm \/ InTable(t)

(* The newest entry of its key that a read at s may see. *)
Latest(m, s) == m <= s /\ \A t \in Entries : Key(t) = Key(m) /\ t <= s => t <= m

(* It is held; or it is a deletion, and nothing it deletes is held. *)
Preserved ==
    \A s \in snapshots \union {LastSequence} : \A m \in Entries : Latest(m, s) =>
        \/ Held(m)
        \/ Deletes(m) /\ \A t \in Entries : Key(t) = Key(m) /\ Held(t) => t > s

(* Only entries are held. *)
LEMMA HeldTyped ==
    ASSUME TypeOK
    PROVE  \A t : Held(t) => t \in Entries
BY FileTyped DEF Held, InTable, TypeOK

(* Snapshots are sequence numbers that were given. *)
LEMMA SnapshotTyped ==
    ASSUME TypeOK
    PROVE  \A s \in snapshots \union {LastSequence} : s \in Nat /\ s <= LastSequence
<1>1. LastSequence \in Nat /\ snapshots \subseteq {0} \union Entries
  BY EntryTyped DEF TypeOK
<1> QED
  BY <1>1 DEF Entries

(* Steps that hold the same and make no update. *)
LEMMA SamePreserved ==
    ASSUME Preserved, history' = history, \A t : Held(t) => Held(t)',
           \A t : Held(t)' => Held(t), snapshots' \subseteq snapshots \union {LastSequence}
    PROVE  Preserved'
<1>1. /\ \A t : Key(t)' = Key(t) /\ (Deletes(t)' <=> Deletes(t))
      /\ Entries' = Entries /\ LastSequence' = LastSequence
  BY SameKeeps DEF Key, Deletes
<1>2. \A m, s : Latest(m, s)' <=> Latest(m, s)
  BY <1>1 DEF Latest
<1>3. \A s \in (snapshots \union {LastSequence})' : s \in snapshots \union {LastSequence}
  BY <1>1
<1> QED
  BY <1>1, <1>2, <1>3 DEF Preserved

(* An update that is written is held. *)
LEMMA WritePreserved ==
    ASSUME TypeOK, Preserved, NEW u \in Updates, history' = Append(history, u),
           mem' = mem \union {LastSequence + 1}, imm' = imm, files' = files,
           snapshots' = snapshots
    PROVE  Preserved'
<1>1. PICK n : n = LastSequence + 1
  OBVIOUS
<1>2. /\ LastSequence' = n /\ n \in Nat /\ LastSequence \in Nat /\ EntriesKept
      /\ Entries' = Entries \union {n} /\ n \notin Entries
      /\ \A t \in Entries : t \in Nat /\ t <= LastSequence /\ t < n
  BY <1>1, WriteKeeps, EntryTyped DEF Entries
<1>3. \A t \in Entries : Key(t)' = Key(t) /\ (Deletes(t)' <=> Deletes(t))
  BY <1>2, KeysKept
<1>4. \A t : Held(t)' <=> Held(t) \/ t = n
  BY <1>1 DEF Held, InTable
<1> SUFFICES ASSUME NEW s \in snapshots' \union {LastSequence'}, NEW m \in Entries',
                    Latest(m, s)'
             PROVE  \/ Held(m)'
                    \/ Deletes(m)' /\ \A t \in Entries' : (Key(t) = Key(m) /\ Held(t))' => t > s
  BY DEF Preserved
<1>5. m <= s /\ \A t \in Entries' : (Key(t) = Key(m))' /\ t <= s => t <= m
  BY DEF Latest
<1>6. CASE s \in snapshots
  <2>1. s \in Nat /\ s <= LastSequence /\ s < n
    BY <1>1, <1>2, <1>6, SnapshotTyped
  <2>2. m \in Entries
    BY <1>2, <1>5, <2>1
  <2>3. Latest(m, s)
    BY <1>2, <1>3, <1>5, <2>2 DEF Latest
  <2>4. \/ Held(m)
        \/ Deletes(m) /\ \A t \in Entries : Key(t) = Key(m) /\ Held(t) => t > s
    BY <1>6, <2>2, <2>3 DEF Preserved
  <2> QED
    BY <1>2, <1>3, <1>4, <2>1, <2>2, <2>4
<1>7. CASE s = n
  <2>1. CASE m = n
    BY <1>4, <2>1
  <2>2. CASE m # n
    <3>1. m \in Entries
      BY <1>2, <2>2
    <3>2. ~(Key(n) = Key(m))'
      BY <1>2, <1>5, <1>7, <3>1
    <3>3. Latest(m, LastSequence)
      BY <1>2, <1>3, <1>5, <1>7, <3>1 DEF Latest
    <3>4. \/ Held(m)
          \/ Deletes(m) /\ \A t \in Entries : Key(t) = Key(m) /\ Held(t) => t > LastSequence
      BY <3>1, <3>3 DEF Preserved
    <3>5. CASE Held(m)
      BY <1>4, <3>5
    <3>6. CASE Deletes(m) /\ \A t \in Entries : Key(t) = Key(m) /\ Held(t) => t > LastSequence
      <4>1. ASSUME NEW t \in Entries', (Key(t) = Key(m) /\ Held(t))'
            PROVE  FALSE
        <5>1. t # n
          BY <3>2, <4>1
        <5>2. t \in Entries /\ Held(t) /\ Key(t) = Key(m)
          BY <1>2, <1>3, <1>4, <3>1, <4>1, <5>1
        <5> QED
          BY <1>2, <3>6, <5>2
      <4> QED
        BY <1>3, <3>1, <3>6, <4>1
    <3> QED
      BY <3>4, <3>5, <3>6
  <2> QED
    BY <2>1, <2>2
<1> QED
  BY <1>2, <1>6, <1>7

(* Where an edit takes the entries. *)
LEMMA EditHolds ==
    ASSUME Typed, NEW c, Work(c), NEW added, Added(c, added), files' = Edited(c, added)
    PROVE  /\ \A t : InTable(t)' =>
                \/ \E o \in added : t \in o.data
                \/ \E i \in Levels : \E f \in files[i] :
                      /\ t \in f.data
                      /\ i = c.level => f \notin c.inputs
                      /\ i = c.level + 1 => f \notin c.parents
           /\ \A t : InTable(t) /\ t \notin Input(c) => InTable(t)'
           /\ \A o \in added : \A t \in o.data : InTable(t)'
           /\ \A t \in Input(c) : InTable(t)
<1>1. TypeOK
  BY DEF Typed
<1>2. /\ c.level \in Levels /\ c.level + 1 \in Levels \ {0}
      /\ c.inputs \subseteq files[c.level] /\ c.parents \subseteq files[c.level + 1]
  BY <1>1, InputTyped
<1>3. /\ files'[c.level] = files[c.level] \ c.inputs
      /\ files'[c.level + 1] = (files[c.level + 1] \ c.parents) \union added
      /\ \A l \in Levels : l # c.level /\ l # c.level + 1 => files'[l] = files[l]
  BY <1>1, EditedIs DEF Work
<1>4. c.level # c.level + 1
  BY <1>2 DEF Levels
<1>5. ASSUME NEW t, InTable(t)'
      PROVE  \/ \E o \in added : t \in o.data
             \/ \E i \in Levels : \E f \in files[i] :
                   /\ t \in f.data
                   /\ i = c.level => f \notin c.inputs
                   /\ i = c.level + 1 => f \notin c.parents
  <2>1. PICK i \in Levels : \E f \in files'[i] : t \in f.data
    BY <1>5 DEF InTable, Levels
  <2>2. PICK f \in files'[i] : t \in f.data
    BY <2>1
  <2>3. f \in added \/ (f \in files[i] /\ (i = c.level => f \notin c.inputs)
                                       /\ (i = c.level + 1 => f \notin c.parents))
    BY <1>2, <1>3, <1>4
  <2> QED
    BY <2>2, <2>3
<1>6. ASSUME NEW t, InTable(t), t \notin Input(c)
      PROVE  InTable(t)'
  <2>1. PICK i \in Levels : \E f \in files[i] : t \in f.data
    BY <1>6 DEF InTable
  <2>2. PICK f \in files[i] : t \in f.data
    BY <2>1
  <2>3. f \notin c.inputs /\ f \notin c.parents
    BY <1>6, <2>2 DEF Input, Content
  <2>4. f \in files'[i]
    BY <1>2, <1>3, <2>3
  <2> QED
    BY <2>2, <2>4 DEF InTable, Levels
<1>7. ASSUME NEW o \in added, NEW t \in o.data
      PROVE  InTable(t)'
  BY <1>2, <1>3 DEF InTable, Levels
<1>8. \A t \in Input(c) : InTable(t)
  BY <1>2 DEF Input, Content, InTable
<1> QED
  BY <1>5, <1>6, <1>7, <1>8

(* What stays beside the inputs and has a key of theirs is newer. *)
LEMMA StayNewer ==
    ASSUME Typed, NewerFirst, NEW c, Work(c), NEW m \in Input(c),
           NEW i \in Levels, NEW f \in files[i],
           i = c.level => f \notin c.inputs, i = c.level + 1 => f \notin c.parents,
           NEW t \in f.data, Key(t) = Key(m), i >= c.level + 2 => Key(m) \in c.base
    PROVE  t > m
<1>1. TypeOK
  BY DEF Typed
<1>2. /\ c.level \in Levels /\ c.level + 1 \in Levels \ {0}
      /\ c.inputs \subseteq files[c.level] /\ c.parents \subseteq files[c.level + 1]
      /\ Input(c) = Content(c.inputs) \union Content(c.parents)
      /\ Input(c) \subseteq Entries
  BY <1>1, InputTyped
<1>3. c.level \in Int /\ i \in Int /\ NumLevels \in Int /\ i <= NumLevels - 1
  BY <1>2, ZeroIsLevel DEF Levels
<1>4. t \in Entries /\ m \in Entries /\ Key(t) \in Nat /\ Key(m) \in Nat
  BY <1>1, <1>2, FileTyped, EntryTyped
<1>5. PICK j \in Levels : \E g \in files[j] : /\ m \in g.data
                                              /\ (j = c.level /\ g \in c.inputs)
                                                 \/ (j = c.level + 1 /\ g \in c.parents)
  <2>1. CASE m \in Content(c.inputs)
    BY <1>2, <2>1 DEF Content
  <2>2. CASE m \in Content(c.parents)
    BY <1>2, <2>2 DEF Content
  <2> QED
    BY <1>2, <2>1, <2>2
<1>6. PICK g \in files[j] : /\ m \in g.data
                            /\ (j = c.level /\ g \in c.inputs)
                               \/ (j = c.level + 1 /\ g \in c.parents)
  BY <1>5
<1>7. CASE i < j
  BY <1>6, <1>7, NewerParts DEF Shadows
<1>8. CASE i = c.level /\ j = c.level
  <2>1. f \in files[c.level] \ c.inputs /\ m \in Content(c.inputs)
    BY <1>3, <1>6, <1>8 DEF Content
  <2> QED
    BY <2>1 DEF Work, ChoiceMade, LeftNewer
<1>9. CASE i = c.level + 1
  <2>1. OneSide(Input(c), f) \/ InGap(Input(c), f)
    BY <1>9 DEF Work, Fits
  <2>2. CASE \A s \in Input(c), q \in f.data : Precedes(q, s)
    <3>1. Precedes(t, m)
      BY <2>2
    <3> QED
      BY <1>1, <1>4, <3>1, PrecedesByKey
  <2>3. CASE Beside(m, f)
    BY <1>4, <2>3 DEF Beside, LeftOf, RightOf
  <2> QED
    BY <2>1, <2>2, <2>3 DEF OneSide, InGap, Beside
<1>10. CASE i >= c.level + 2
  <2>1. t \in Content(files[i]) /\ i \in c.level + 2 .. NumLevels - 1
    BY <1>3, <1>10 DEF Content
  <2> QED
    BY <1>10, <2>1 DEF Work, DeletesLast
<1> QED
  BY <1>3, <1>6, <1>7, <1>8, <1>9, <1>10

(* The end of a compaction: an entry that a newer one hides from everyone  *)
(* is no snapshot's latest one, and a deletion is dropped where nothing    *)
(* older is left.                                                          *)
LEMMA EndPreserved ==
    ASSUME Typed, NewerFirst, Preserved, NEW c, Work(c), NEW F \in Outputs(Kept(c)),
           files' = Edited(c, F), UNCHANGED <<history, mem, imm, snapshots>>
    PROVE  Preserved'
<1>1. TypeOK /\ Input(c) \subseteq Entries
  BY InputTyped DEF Typed
<1>2. Added(c, F)
  BY OutputsAdded
<1>3. Kept(c) \subseteq Entries /\ \A o \in F : o.data \subseteq Kept(c)
  <2>1. Kept(c) \subseteq Entries
    BY <1>1 DEF Kept, Input
  <2> QED
    BY <1>1, <2>1, OutputsAre
<1>4. Kept(c) \subseteq Content(F)
  BY <1>1, <1>3, OutputsAre
<1>5. /\ \A t : InTable(t)' =>
           \/ \E o \in F : t \in o.data
           \/ \E i \in Levels : \E f \in files[i] :
                 /\ t \in f.data
                 /\ i = c.level => f \notin c.inputs
                 /\ i = c.level + 1 => f \notin c.parents
      /\ \A t : InTable(t) /\ t \notin Input(c) => InTable(t)'
      /\ \A o \in F : \A t \in o.data : InTable(t)'
      /\ \A t \in Input(c) : InTable(t)
  BY <1>2, EditHolds
<1>6. /\ \A t : Key(t)' = Key(t) /\ (Deletes(t)' <=> Deletes(t))
      /\ Entries' = Entries /\ LastSequence' = LastSequence
      /\ \A m, s : Latest(m, s)' <=> Latest(m, s)
  BY SameKeeps DEF Key, Deletes, Latest
<1>7. \A t \in Kept(c) : InTable(t)'
  BY <1>4, <1>5 DEF Content
<1>8. \A t : Held(t)' => Held(t)
  <2>1. \A o \in F : \A t \in o.data : t \in Input(c)
    BY <1>2 DEF Added
  <2> QED
    BY <1>5, <2>1 DEF Held, InTable
<1> SUFFICES ASSUME NEW s \in snapshots \union {LastSequence}, NEW m \in Entries, Latest(m, s)
             PROVE  \/ Held(m)'
                    \/ Deletes(m) /\ \A t \in Entries : Key(t) = Key(m) /\ Held(t)' => t > s
  BY <1>6 DEF Preserved
<1>9. \/ Held(m)
      \/ Deletes(m) /\ \A t \in Entries : Key(t) = Key(m) /\ Held(t) => t > s
  BY DEF Preserved
<1>10. CASE Deletes(m) /\ \A t \in Entries : Key(t) = Key(m) /\ Held(t) => t > s
  BY <1>8, <1>10
<1>11. CASE m \in mem \/ m \in imm
  BY <1>11 DEF Held
<1>12. CASE InTable(m) /\ m \notin Input(c)
  BY <1>5, <1>12 DEF Held
<1>13. CASE m \in Input(c)
  <2> DEFINE Newer(t)    == {q \in Input(c) : Key(q) = Key(t) /\ q > t}
             Hidden(t)   == Newer(t) # {} /\ Min(Newer(t)) <= c.smallestSnapshot
             Obsolete(t) == Deletes(t) /\ t <= c.smallestSnapshot /\ Key(t) \in c.base
  <2>1. \A t : t \in Kept(c) <=> t \in Input(c) /\ ~Hidden(t) /\ ~Obsolete(t)
    BY DEF Kept, Input
  <2>2. /\ c.smallestSnapshot <= s /\ c.smallestSnapshot \in Nat /\ s \in Nat
        /\ \A t \in Entries : t \in Nat
    BY <1>1, EntryTyped, SnapshotTyped DEF Work, SnapshotOldest
  <2>3. \A t : Newer(t) # {} => Min(Newer(t)) \in Newer(t) /\ \A q \in Newer(t) : Min(Newer(t)) <= q
    <3> TAKE t
    <3>1. Newer(t) \subseteq Nat
      BY <1>1, <2>2
    <3> HIDE DEF Newer
    <3> QED
      BY <3>1, MinIs
  <2>4. ~Hidden(m)
    <3> SUFFICES ASSUME Hidden(m) PROVE FALSE
      OBVIOUS
    <3>1. PICK q : q = Min(Newer(m))
      OBVIOUS
    <3>2. q \in Input(c) /\ Key(q) = Key(m) /\ q > m /\ q <= c.smallestSnapshot
      BY <2>3, <3>1
    <3>3. q \in Entries /\ q \in Nat /\ m \in Nat
      BY <1>1, <2>2, <3>2
    <3>4. q <= s
      BY <2>2, <3>2, <3>3
    <3> QED
      BY <3>2, <3>3, <3>4 DEF Latest
  <2>5. CASE ~Obsolete(m)
    BY <1>7, <1>13, <2>1, <2>4, <2>5 DEF Held
  <2>6. CASE Obsolete(m)
    <3> SUFFICES ASSUME NEW t \in Entries, Key(t) = Key(m), Held(t)', t <= s
                 PROVE  FALSE
      BY <2>2, <2>6
    <3>1. t <= m /\ t \in Nat /\ m \in Nat
      BY <2>2 DEF Latest
    <3>2. CASE t \in mem \/ t \in imm
      <4>1. PICK l \in Levels : \E f \in files[l] : m \in f.data
        BY <1>5, <1>13 DEF InTable
      <4>2. t > m
        BY <3>2, <4>1, NewerParts DEF Shadows
      <4> QED
        BY <3>1, <4>2
    <3>3. CASE \E o \in F : t \in o.data
      <4>1. t \in Kept(c)
        BY <1>3, <3>3
      <4>2. t \in Input(c) /\ ~Hidden(t) /\ ~Obsolete(t)
        BY <2>1, <4>1
      <4>3. t # m
        BY <2>6, <4>2
      <4>4. m \in Newer(t)
        BY <1>13, <3>1, <4>3
      <4>5. PICK q : q = Min(Newer(t))
        OBVIOUS
      <4>6. q \in Newer(t) /\ q <= m
        BY <2>3, <4>4, <4>5
      <4>7. q \in Nat /\ m <= c.smallestSnapshot
        BY <1>1, <2>2, <2>6, <4>6
      <4>8. q <= c.smallestSnapshot
        BY <2>2, <3>1, <4>6, <4>7
      <4> QED
        BY <4>2, <4>4, <4>5, <4>8
    <3>4. ASSUME NEW i \in Levels, NEW f \in files[i], t \in f.data,
                 i = c.level => f \notin c.inputs, i = c.level + 1 => f \notin c.parents
          PROVE  FALSE
      <4>1. t > m
        BY <1>13, <2>6, <3>4, StayNewer
      <4> QED
        BY <3>1, <4>1
    <3> QED
      BY <1>5, <3>2, <3>3, <3>4 DEF Held
  <2> QED
    BY <2>5, <2>6
<1> QED
  BY <1>9, <1>10, <1>11, <1>12, <1>13 DEF Held

(* Nothing is written, nothing is lost. *)
LEMMA InitPreserved == Init => Preserved
<1> SUFFICES ASSUME Init PROVE Preserved
  OBVIOUS
<1>1. Entries = {}
  BY DEF Init, Entries, LastSequence
<1> QED
  BY <1>1 DEF Preserved

(* A flush holds what the immutable memtable held. *)
LEMMA FlushPreserved ==
    ASSUME Inv, Preserved, CompactMemTable
    PROVE  Preserved'
<1>1. Typed /\ TypeOK
  BY DEF Inv, Typed
<1>2. PICK l \in PickLevels(imm) :
        files' = [files EXCEPT ![l] = @ \union {[num |-> nextFile, data |-> imm]}]
  BY DEF CompactMemTable
<1>3. PICK h : h = [num |-> nextFile, data |-> imm]
  OBVIOUS
<1>4. Flushed(l, h)
  BY <1>2, <1>3 DEF CompactMemTable, MemTableDue, Flushed
<1>5. history' = history /\ snapshots' = snapshots /\ mem' = mem /\ imm' = {}
  BY DEF CompactMemTable
<1>6. /\ l \in Levels /\ h.data = imm /\ files'[l] = files[l] \union {h}
      /\ \A i \in Levels : i # l => files'[i] = files[i]
  BY <1>1, <1>4, FlushIs
<1>7. \A i \in Levels : \A f \in files[i] : f \in files'[i]
  BY <1>6
<1>8. \A i \in Levels : \A f \in files'[i] : f \in files[i] \/ (i = l /\ f = h)
  BY <1>6
<1>9. \A t : InTable(t)' <=> InTable(t) \/ t \in imm
  <2> TAKE t
  <2>1. InTable(t) => InTable(t)'
    BY <1>7 DEF InTable, Levels
  <2>2. t \in imm => InTable(t)'
    BY <1>6 DEF InTable, Levels
  <2>3. InTable(t)' => InTable(t) \/ t \in imm
    BY <1>6, <1>8 DEF InTable, Levels
  <2> QED
    BY <2>1, <2>2, <2>3
<1>10. \A t : Held(t)' <=> Held(t)
  BY <1>5, <1>9 DEF Held
<1> QED
  BY <1>5, <1>10, SamePreserved

(* A trivial move or the beginning of a compaction loses nothing. *)
LEMMA BeginPreserved ==
    ASSUME Inv, Preserved, BackgroundCompaction
    PROVE  Preserved'
<1>1. Typed /\ TypeOK /\ LevelsParted
  BY DEF Inv, Typed
<1>2. PICK c \in Compactions : TrivialMove(c) \/ TrivialMoveFails(c) \/ BeginCompaction(c)
  BY DEF BackgroundCompaction
<1>3. UNCHANGED <<history, mem, imm, snapshots>>
  BY DEF BackgroundCompaction
<1>4. CASE files' = files
  <2>1. \A t : Held(t)' <=> Held(t)
    BY <1>3, <1>4 DEF Held, InTable
  <2> QED
    BY <1>3, <2>1, SamePreserved
<1>5. CASE TrivialMove(c)
  <2>1. Work(c)
    BY <1>1, CompactionWork
  <2>2. Added(c, c.inputs) /\ files' = Edited(c, c.inputs)
    BY <1>1, <1>5, <2>1, MovedAdded DEF TrivialMove
  <2>3. c.parents = {} /\ c.inputs \subseteq files[c.level] /\ c.level \in Levels
    BY <1>1, <1>5, <2>1, InputTyped DEF TrivialMove, Movable
  <2>4. \A t \in Input(c) : \E o \in c.inputs : t \in o.data
    BY <2>3 DEF Input, Content
  <2>5. /\ \A t : InTable(t)' =>
             \/ \E o \in c.inputs : t \in o.data
             \/ \E i \in Levels : \E f \in files[i] : t \in f.data
        /\ \A t : InTable(t) /\ t \notin Input(c) => InTable(t)'
        /\ \A o \in c.inputs : \A t \in o.data : InTable(t)'
    BY <1>1, <2>1, <2>2, EditHolds
  <2>6. \A t : InTable(t)' => InTable(t)
    BY <2>3, <2>5 DEF InTable
  <2>7. \A t : InTable(t) => InTable(t)'
    BY <2>4, <2>5
  <2>8. \A t : Held(t)' <=> Held(t)
    BY <1>3, <2>6, <2>7 DEF Held
  <2> QED
    BY <1>3, <2>8, SamePreserved
<1> QED
  BY <1>2, <1>4, <1>5 DEF TrivialMoveFails, BeginCompaction

(* Every step keeps what somebody can still read. *)
LEMMA NextPreserved ==
    ASSUME Inv, Preserved, [Next]_vars
    PROVE  Preserved'
<1>1. Typed /\ TypeOK /\ NewerFirst
  BY DEF Inv, Typed
(* Steps that leave memtables, files and updates alone. *)
<1>2. ASSUME UNCHANGED <<history, mem, imm, files>>,
             snapshots' \subseteq snapshots \union {LastSequence}
      PROVE  Preserved'
  <2>1. \A t : Held(t)' <=> Held(t)
    BY <1>2 DEF Held, InTable
  <2> QED
    BY <1>2, <2>1, SamePreserved
<1>3. ASSUME NEW u \in Updates, Write(u)
      PROVE  Preserved'
  BY <1>1, <1>3, WritePreserved DEF Write, version
<1>4. CASE SwitchMemTable
  <2>1. \A t : Held(t)' <=> Held(t)
    BY <1>4 DEF SwitchMemTable, version, Held, InTable
  <2> QED
    BY <1>4, <2>1, SamePreserved DEF SwitchMemTable
<1>5. CASE GetSnapshot
  BY <1>2, <1>5 DEF GetSnapshot, version
<1>6. ASSUME NEW s \in snapshots, ReleaseSnapshot(s)
      PROVE  Preserved'
  BY <1>2, <1>6 DEF ReleaseSnapshot, version
<1>7. ASSUME NEW l \in 0 .. NumLevels - 2, NEW r \in ManualRanges, CompactRange(l, r)
      PROVE  Preserved'
  BY <1>2, <1>7 DEF CompactRange, version
<1>8. CASE PostAgain
  BY <1>2, <1>8 DEF PostAgain, version
<1>9. CASE ManualReturn
  BY <1>2, <1>9 DEF ManualReturn, version
<1>10. CASE CompactMemTable
  BY <1>10, FlushPreserved
<1>11. CASE CompactMemTableFails
  BY <1>2, <1>11 DEF CompactMemTableFails, version
<1>12. CASE ManualNothing
  BY <1>2, <1>12 DEF ManualNothing, version
<1>13. CASE BackgroundCompaction
  BY <1>13, BeginPreserved
<1>14. CASE EndCompaction
  <2>1. PICK F \in Outputs(Kept(bg)) : files' = Edited(bg, F)
    BY <1>14 DEF EndCompaction
  <2>2. PICK c : c = bg
    OBVIOUS
  <2>3. Work(c) /\ F \in Outputs(Kept(c)) /\ files' = Edited(c, F)
    BY <1>14, <2>1, <2>2 DEF EndCompaction, Inv, WorkKept
  <2>4. UNCHANGED <<history, mem, imm, snapshots>>
    BY <1>14 DEF EndCompaction
  <2> QED
    BY <1>1, <2>3, <2>4, EndPreserved
<1>15. CASE CompactionFails
  BY <1>2, <1>15 DEF CompactionFails, version
<1>16. CASE UNCHANGED vars
  BY <1>2, <1>16 DEF vars
<1> QED
  BY <1>3, <1>4, <1>5, <1>6, <1>7, <1>8, <1>9, <1>10, <1>11, <1>12, <1>13, <1>14, <1>15, <1>16
     DEF Next, Background

(* For the latest sequence number and every snapshot, the newest update a  *)
(* read may see is held somewhere, or it is a deletion and nothing older of*)
(* its key is held: DoCompactionWork drops nothing that anybody can read, for *)
(* any number of clients, snapshots taken meanwhile and flushes included.  *)
THEOREM PreservedAlways == Spec => []Preserved
<1>1. Init => Inv /\ Preserved
  BY InitInv, InitPreserved
<1>2. (Inv /\ Preserved) /\ [Next]_vars => (Inv /\ Preserved)'
  BY NextInv, NextPreserved
<1> QED
  BY <1>1, <1>2, PTL DEF Spec

-----------------------------------------------------------------------------
(* A read finds the latest entry *)

(* The greatest of a set of entries. *)
LEMMA MaxIs ==
    ASSUME TypeOK, NEW S, S \subseteq Entries, NEW m \in S, \A t \in S : t <= m
    PROVE  Max(S) = m
<1>1. S \subseteq Nat
  BY EntryTyped
<1>2. \A t \in S : m >= t
  BY <1>1
<1>3. Max(S) \in S /\ \A t \in S : Max(S) >= t
  BY <1>2 DEF Max
<1>4. Max(S) >= m /\ m >= Max(S) /\ m \in Nat /\ Max(S) \in Nat
  BY <1>1, <1>2, <1>3
<1> QED
  BY <1>4

(* The places of a read, by their number. *)
LEMMA PlacesAre ==
    ASSUME NEW k, NEW s
    PROVE  LET hits == {f \in Searched(0, k, s) : Visible(f.data, k, s) # {}}
               p    == Places(k, s)
           IN  /\ DOMAIN p = 1 .. NumLevels + 2
               /\ p[1] = mem /\ p[2] = imm
               /\ p[3] = IF hits = {} THEN {} ELSE Newest(hits).data
               /\ \A l \in 1 .. NumLevels - 1 : p[l + 3] = Content(Searched(l, k, s))
<1> DEFINE hits == {f \in Searched(0, k, s) : Visible(f.data, k, s) # {}}
           zero == IF hits = {} THEN {} ELSE Newest(hits).data
           U    == {mem, imm, zero} \union {Content(Searched(l, k, s)) : l \in 1 .. NumLevels - 1}
           a    == <<mem, imm, zero>>
           b    == [l \in 1 .. NumLevels - 1 |-> Content(Searched(l, k, s))]
           p    == Places(k, s)
<1>1. p = a \o b
  BY DEF Places
<1> HIDE DEF zero
<1>2. NumLevels - 1 \in Nat /\ NumLevels \in Nat
  BY ZeroIsLevel
<1>3. a \in Seq(U) /\ Len(a) = 3 /\ a[1] = mem /\ a[2] = imm /\ a[3] = zero
  OBVIOUS
<1>4. \A l \in 1 .. NumLevels - 1 : b[l] = Content(Searched(l, k, s)) /\ b[l] \in U
  OBVIOUS
<1>5. b \in [1 .. NumLevels - 1 -> U]
  BY <1>4
<1>6. b \in Seq(U) /\ Len(b) = NumLevels - 1
  <2> HIDE DEF U, b
  <2>1. b \in Seq(U)
    BY <1>2, <1>5
  <2> QED
    BY <1>2, <1>5, <2>1
<1> HIDE DEF a, b, U, p
<1>7. /\ a \o b \in Seq(U) /\ Len(a \o b) = 3 + (NumLevels - 1)
      /\ \A i \in 1 .. 3 + (NumLevels - 1) :
           (a \o b)[i] = IF i <= 3 THEN a[i] ELSE b[i - 3]
  <2>1. a \in Seq(U) /\ b \in Seq(U)
    BY <1>3, <1>6
  <2>2. /\ a \o b \in Seq(U) /\ Len(a \o b) = Len(a) + Len(b)
        /\ \A i \in 1 .. Len(a) + Len(b) :
             (a \o b)[i] = IF i <= Len(a) THEN a[i] ELSE b[i - Len(a)]
    BY <2>1, ConcatProperties
  <2>3. Len(a) = 3 /\ Len(b) = NumLevels - 1
    BY <1>3, <1>6
  <2> QED
    BY <2>2, <2>3
<1>8. p \in Seq(U) /\ Len(p) = NumLevels + 2
      /\ \A i \in 1 .. NumLevels + 2 : p[i] = IF i <= 3 THEN a[i] ELSE b[i - 3]
  BY <1>1, <1>2, <1>7
<1>9. DOMAIN p = 1 .. NumLevels + 2
  BY <1>8
<1>10. p[1] = mem /\ p[2] = imm /\ p[3] = zero
  <2>1. 1 \in 1 .. NumLevels + 2 /\ 2 \in 1 .. NumLevels + 2 /\ 3 \in 1 .. NumLevels + 2
    BY <1>2
  <2> QED
    BY <1>3, <1>8, <2>1
<1>11. ASSUME NEW l \in 1 .. NumLevels - 1
       PROVE  p[l + 3] = Content(Searched(l, k, s))
  <2>1. l + 3 \in 1 .. NumLevels + 2 /\ ~(l + 3 <= 3) /\ (l + 3) - 3 = l
    BY <1>2
  <2>2. p[l + 3] = b[l]
    BY <1>8, <2>1
  <2> QED
    BY <1>4, <2>2
<1> QED
  BY <1>9, <1>10, <1>11 DEF p, zero

(* Get, by the first place that has something visible. *)
LEMMA GetIs ==
    ASSUME NEW k, NEW s, NEW p, p = Places(k, s), DOMAIN p \subseteq Nat
    PROVE  /\ (\A i \in DOMAIN p : Visible(p[i], k, s) = {}) => Get(k, s) = 0
           /\ \A i \in DOMAIN p :
                /\ Visible(p[i], k, s) # {}
                /\ \A j \in DOMAIN p : j < i => Visible(p[j], k, s) = {}
                => Get(k, s) = Value(Visible(p[i], k, s))
<1> DEFINE found == [i \in DOMAIN p |-> Visible(p[i], k, s)]
           hits  == {i \in DOMAIN found : found[i] # {}}
<1>1. Get(k, s) = IF hits = {} THEN 0 ELSE Value(found[Min(hits)])
  BY DEF Get
<1>2. \A i \in DOMAIN p : i \in hits <=> Visible(p[i], k, s) # {}
  OBVIOUS
<1>3. hits \subseteq DOMAIN p
  OBVIOUS
<1>4. \A i \in DOMAIN p : found[i] = Visible(p[i], k, s)
  OBVIOUS
<1> HIDE DEF found, hits
<1>5. ASSUME \A i \in DOMAIN p : Visible(p[i], k, s) = {}
      PROVE  Get(k, s) = 0
  BY <1>1, <1>2, <1>3, <1>5
<1>6. ASSUME NEW i \in DOMAIN p, Visible(p[i], k, s) # {},
             \A j \in DOMAIN p : j < i => Visible(p[j], k, s) = {}
      PROVE  Get(k, s) = Value(Visible(p[i], k, s))
  <2>1. i \in hits
    BY <1>2, <1>6
  <2>2. Min(hits) \in hits /\ Min(hits) <= i
    BY <1>3, <2>1, MinIs
  <2>3. PICK m : m = Min(hits)
    OBVIOUS
  <2>4. m \in Nat /\ i \in Nat /\ m \in DOMAIN p /\ m <= i /\ ~(m < i)
    BY <1>2, <1>3, <1>6, <2>2, <2>3
  <2>5. m = i
    BY <2>4
  <2> QED
    BY <1>1, <1>4, <2>1, <2>3, <2>5
<1> QED
  BY <1>5, <1>6

(* What lies in the places a read searches. *)
LEMMA PlaceIs ==
    ASSUME Typed, NEW k, NEW s, NEW p, p = Places(k, s), NEW i \in DOMAIN p, NEW t \in p[i]
    PROVE  /\ i = 1 => t \in mem
           /\ i = 2 => t \in imm
           /\ i # 1 /\ i # 2 => i - 3 \in Levels /\ \E f \in files[i - 3] : t \in f.data
           /\ i \in 1 .. NumLevels + 2
<1>0. TypeOK
  BY DEF Typed
<1> DEFINE hits == {f \in Searched(0, k, s) : Visible(f.data, k, s) # {}}
<1>1. /\ DOMAIN p = 1 .. NumLevels + 2
      /\ p[1] = mem /\ p[2] = imm
      /\ p[3] = IF hits = {} THEN {} ELSE Newest(hits).data
      /\ \A l \in 1 .. NumLevels - 1 : p[l + 3] = Content(Searched(l, k, s))
  BY PlacesAre
<1>2. 0 \in Levels /\ NumLevels \in Nat
  BY ZeroIsLevel
<1>3. CASE i = 3
  <2>1. hits # {} /\ t \in Newest(hits).data
    BY <1>1, <1>3
  <2>2. hits \subseteq files[0]
    BY <1>2, SearchedIn
  <2> HIDE DEF hits
  <2>3. Newest(hits) \in hits
    BY <1>2, <2>1, <2>2, NewestIs
  <2>4. i - 3 = 0 /\ Newest(hits) \in files[0]
    BY <1>3, <2>2, <2>3
  <2> QED
    BY <1>1, <1>2, <1>3, <2>1, <2>4
<1>4. CASE i # 1 /\ i # 2 /\ i # 3
  <2>1. i - 3 \in 1 .. NumLevels - 1 /\ (i - 3) + 3 = i
    BY <1>1, <1>2, <1>4
  <2>2. i - 3 \in Levels
    BY <2>1 DEF Levels
  <2>3. t \in Content(Searched(i - 3, k, s))
    BY <1>1, <2>1
  <2>4. Searched(i - 3, k, s) \subseteq files[i - 3]
    BY <2>2, SearchedIn
  <2> QED
    BY <1>1, <1>4, <2>2, <2>3, <2>4 DEF Content
<1> QED
  BY <1>1, <1>2, <1>3, <1>4

(* What lies in a place that is searched earlier is newer. *)
LEMMA PlacesOrdered ==
    ASSUME Typed, NewerFirst, NEW k, NEW s, NEW p, p = Places(k, s),
           NEW i \in DOMAIN p, NEW j \in DOMAIN p, j < i,
           NEW m \in p[i], NEW t \in p[j], Key(t) = Key(m)
    PROVE  t > m
<1>1. /\ j = 1 => t \in mem
      /\ j = 2 => t \in imm
      /\ j # 1 /\ j # 2 => j - 3 \in Levels /\ \E f \in files[j - 3] : t \in f.data
      /\ j \in 1 .. NumLevels + 2
  BY PlaceIs
<1>2. /\ i = 1 => m \in mem
      /\ i = 2 => m \in imm
      /\ i # 1 /\ i # 2 => i - 3 \in Levels /\ \E f \in files[i - 3] : m \in f.data
      /\ i \in 1 .. NumLevels + 2
  BY PlaceIs
<1>3. i \in Nat /\ j \in Nat /\ i >= 1 /\ j >= 1
  BY <1>1, <1>2
<1>4. CASE j = 1 /\ i = 2
  BY <1>1, <1>2, <1>4 DEF NewerFirst, Shadows
<1>5. CASE (j = 1 \/ j = 2) /\ i # 1 /\ i # 2
  BY <1>1, <1>2, <1>5, NewerParts DEF Shadows
<1>6. CASE j # 1 /\ j # 2
  <2>1. i # 1 /\ i # 2 /\ j - 3 < i - 3
    BY <1>3, <1>6
  <2> QED
    BY <1>1, <1>2, <1>6, <2>1, NewerParts DEF Shadows
<1> QED
  BY <1>3, <1>4, <1>5, <1>6

(* In a level above 0, the file that is searched is the one that has the   *)
(* latest entry.                                                           *)
LEMMA LevelFinds ==
    ASSUME Typed, LevelsDisjoint, NEW s \in Nat, NEW l \in Levels \ {0}, NEW f \in files[l],
           NEW m \in f.data, Latest(m, s)
    PROVE  f \in Searched(l, Key(m), s)
<1>0. TypeOK
  BY DEF Typed
<1> DEFINE k == Key(m)
           N == {g \in files[l] : \/ Key(Largest(g)) > k
                                  \/ Key(Largest(g)) = k /\ Largest(g) <= s}
<1>1. Searched(l, k, s) = {g \in N : g = Front(N) /\ Key(Smallest(g)) <= k}
  BY DEF Searched
<1>2. IsFirst(Smallest(f), f.data) /\ IsLast(Largest(f), f.data) /\ f.data \subseteq Entries
  BY <1>0, FileEnds, FileTyped
<1>3. /\ Smallest(f) \in Entries /\ Largest(f) \in Entries /\ m \in Entries
      /\ m = Largest(f) \/ Precedes(m, Largest(f))
      /\ m = Smallest(f) \/ Precedes(Smallest(f), m)
  BY <1>2 DEF IsFirst, IsLast
<1>4. /\ m \in Nat /\ Largest(f) \in Nat /\ m <= s
      /\ Key(m) \in Nat /\ Key(Largest(f)) \in Nat /\ Key(Smallest(f)) \in Nat
  BY <1>0, <1>3, EntryTyped DEF Latest
<1>5. f \in N
  <2>1. Key(m) <= Key(Largest(f)) /\ (Key(m) = Key(Largest(f)) => m >= Largest(f))
    BY <1>0, <1>3, <1>4, PrecedesByKey
  <2> QED
    BY <1>4, <2>1
<1>6. Key(Smallest(f)) <= k
  <2>1. Key(Smallest(f)) <= Key(m)
    BY <1>0, FileKeys
  <2> QED
    BY <2>1
<1>7. N \subseteq files[l]
  OBVIOUS
<1>8. \A g \in N : \/ Key(Largest(g)) > k
                   \/ Key(Largest(g)) = k /\ Largest(g) <= s
  OBVIOUS
<1> HIDE DEF N
<1>9. PICK g \in N : g = Front(N) /\ \A q \in N : ~Precedes(Smallest(q), Smallest(g))
  BY <1>0, <1>5, <1>7, FrontIs
<1>10. g = f
  <2> SUFFICES ASSUME g # f PROVE FALSE
    OBVIOUS
  <2>1. /\ Smallest(g) \in Entries /\ Largest(g) \in Entries
        /\ IsLast(Largest(f), f.data) /\ IsLast(Largest(g), g.data)
        /\ Smallest(g) \in g.data
    BY <1>0, <1>7, FileKeys, FileEnds
  <2>2. CASE Precedes(Largest(f), Smallest(g))
    <3>1. Smallest(f) = Largest(f) \/ Precedes(Smallest(f), Largest(f))
      BY <1>2, <2>1 DEF IsFirst, IsLast
    <3>2. Precedes(Smallest(f), Smallest(g))
      BY <1>0, <1>3, <2>1, <2>2, <3>1, PrecedesOrders
    <3> QED
      BY <1>5, <1>9, <3>2
  <2>3. CASE Precedes(Largest(g), Smallest(f))
    <3>1. Precedes(Largest(g), m)
      BY <1>0, <1>3, <2>1, <2>3, PrecedesOrders
    <3>2. /\ Key(Largest(g)) \in Nat /\ Largest(g) \in Nat
          /\ Key(Largest(g)) <= Key(m)
          /\ Key(Largest(g)) = Key(m) => Largest(g) > m
      BY <1>0, <1>3, <2>1, <3>1, PrecedesByKey, EntryTyped
    <3>3. Key(Largest(g)) = k /\ Largest(g) <= s
      BY <1>4, <1>8, <3>2
    <3>4. Largest(g) <= m
      BY <2>1, <3>3 DEF Latest
    <3> QED
      BY <1>4, <3>2, <3>3, <3>4
  <2> QED
    BY <1>7, <2>2, <2>3 DEF LevelsDisjoint
<1> QED
  BY <1>1, <1>5, <1>6, <1>9, <1>10

(* The latest entry, if it is held, is in one of the places. *)
LEMMA PlacesFind ==
    ASSUME Typed, NewerFirst, LevelsDisjoint, NEW s \in Nat, NEW m \in Entries,
           Latest(m, s), Held(m), NEW p, p = Places(Key(m), s)
    PROVE  \E i \in DOMAIN p : m \in p[i]
<1> DEFINE k    == Key(m)
           hits == {f \in Searched(0, k, s) : Visible(f.data, k, s) # {}}
<1>1. /\ DOMAIN p = 1 .. NumLevels + 2
      /\ p[1] = mem /\ p[2] = imm
      /\ p[3] = IF hits = {} THEN {} ELSE Newest(hits).data
      /\ \A l \in 1 .. NumLevels - 1 : p[l + 3] = Content(Searched(l, k, s))
  BY PlacesAre
<1>2. /\ TypeOK /\ 0 \in Levels /\ NumLevels \in Nat
      /\ 1 \in 1 .. NumLevels + 2 /\ 2 \in 1 .. NumLevels + 2 /\ 3 \in 1 .. NumLevels + 2
  BY ZeroIsLevel DEF Typed
<1>3. CASE m \in mem \/ m \in imm
  BY <1>1, <1>2, <1>3
<1>4. ASSUME NEW f \in files[0], m \in f.data
      PROVE  m \in p[3]
  <2>1. /\ Key(Smallest(f)) <= k /\ k <= Key(Largest(f))
        /\ Key(Smallest(f)) \in Nat /\ k \in Nat /\ Key(Largest(f)) \in Nat
    BY <1>2, <1>4, FileKeys, EntryTyped
  <2>2. Overlaps(f, k, k)
    BY <2>1 DEF Overlaps
  <2>3. m \in Visible(f.data, k, s)
    BY <1>4 DEF Visible, Latest
  <2>4. f \in hits
    BY <2>2, <2>3 DEF Searched
  <2>5. hits \subseteq files[0]
    BY <1>2, SearchedIn
  <2>6. \A g \in hits : Visible(g.data, k, s) # {}
    OBVIOUS
  <2> HIDE DEF hits
  <2>7. PICK g \in hits : g = Newest(hits) /\ \A q \in hits : g.num >= q.num
    BY <1>2, <2>4, <2>5, NewestIs
  <2>8. g = f
    <3> SUFFICES ASSUME g # f PROVE FALSE
      OBVIOUS
    <3>1. g.num \in Nat /\ f.num \in Nat
      BY <1>2, <2>5 DEF Typed, NumsTyped
    <3>2. g.num # f.num
      BY <1>2, <2>5 DEF TypeOK
    <3>3. g.num > f.num
      BY <2>4, <2>7, <3>1, <3>2
    <3>4. PICK t \in g.data : Key(t) = k /\ t <= s
      BY <2>6 DEF Visible
    <3>5. t > m
      BY <1>4, <2>5, <3>3, <3>4 DEF NewerFirst, Shadows
    <3>6. t \in Entries /\ t \in Nat /\ m \in Nat
      BY <1>2, <2>5, <3>4, FileTyped, EntryTyped
    <3>7. t <= m
      BY <3>4, <3>6 DEF Latest
    <3> QED
      BY <3>5, <3>6, <3>7
  <2> QED
    BY <1>1, <1>4, <2>4, <2>7, <2>8
<1>5. ASSUME NEW l \in Levels \ {0}, NEW f \in files[l], m \in f.data
      PROVE  m \in p[l + 3] /\ l + 3 \in DOMAIN p
  <2>1. l \in 1 .. NumLevels - 1 /\ l + 3 \in 1 .. NumLevels + 2
    BY <1>2 DEF Levels
  <2>2. f \in Searched(l, k, s)
    BY <1>5, LevelFinds
  <2> QED
    BY <1>1, <1>5, <2>1, <2>2 DEF Content
<1>6. CASE InTable(m)
  <2>1. PICK l \in Levels : \E f \in files[l] : m \in f.data
    BY <1>6 DEF InTable
  <2>2. PICK f \in files[l] : m \in f.data
    BY <2>1
  <2>3. CASE l = 0
    BY <1>1, <1>2, <1>4, <2>2, <2>3
  <2>4. CASE l # 0
    BY <1>5, <2>2, <2>4
  <2> QED
    BY <2>3, <2>4
<1> QED
  BY <1>3, <1>6 DEF Held

(* A read finds the newest update it may see. *)
LEMMA ReadsFind ==
    ASSUME Typed, NewerFirst, LevelsDisjoint, Preserved,
           NEW k \in Keys, NEW s \in snapshots \union {LastSequence}
    PROVE  Get(k, s) = Value(Visible(Entries, k, s))
<1>0. TypeOK
  BY DEF Typed
<1> DEFINE V == Visible(Entries, k, s)
<1>1. PICK p : p = Places(k, s)
  OBVIOUS
<1>2. s \in Nat /\ s <= LastSequence /\ LastSequence \in Nat
  BY <1>0, SnapshotTyped, EntryTyped
<1>3. DOMAIN p \subseteq Nat
  <2>1. DOMAIN p = 1 .. NumLevels + 2
    BY <1>1, PlacesAre
  <2> QED
    BY <2>1
<1>4. \A i \in DOMAIN p : \A t \in p[i] : Held(t) /\ t \in Entries
  <2> TAKE i \in DOMAIN p
  <2> TAKE t \in p[i]
  <2>1. /\ i = 1 => t \in mem
        /\ i = 2 => t \in imm
        /\ i # 1 /\ i # 2 => i - 3 \in Levels /\ \E f \in files[i - 3] : t \in f.data
    BY <1>1, PlaceIs
  <2>2. Held(t)
    BY <2>1 DEF Held, InTable
  <2> QED
    BY <1>0, <2>2, HeldTyped
<1>5. \A i \in DOMAIN p : Visible(p[i], k, s) \subseteq V
  BY <1>4 DEF Visible
<1>6. CASE V = {}
  <2>1. Get(k, s) = 0
    BY <1>1, <1>3, <1>5, <1>6, GetIs
  <2> QED
    BY <1>6, <2>1 DEF Value
<1>7. CASE V # {}
  <2>1. V \subseteq 1 .. LastSequence
    BY DEF Visible, Entries
  <2>2. PICK m \in V : \A t \in V : t <= m
    <3> HIDE DEF V
    <3> QED
      BY <1>2, <1>7, <2>1, LastExists
  <2>3. m \in Entries /\ Key(m) = k /\ m <= s
    BY DEF Visible
  <2>4. Latest(m, s)
    BY <2>2, <2>3 DEF Latest, Visible
  <2>5. Max(V) = m
    <3>1. V \subseteq Entries
      BY DEF Visible
    <3> HIDE DEF V
    <3> QED
      BY <1>0, <2>2, <3>1, MaxIs
  <2>6. CASE Held(m)
    <3>1. PICK i \in DOMAIN p : m \in p[i]
      BY <1>1, <1>2, <2>3, <2>4, <2>6, PlacesFind
    <3>2. m \in Visible(p[i], k, s)
      BY <2>3, <3>1 DEF Visible
    <3>3. ASSUME NEW j \in DOMAIN p, j < i
          PROVE  Visible(p[j], k, s) = {}
      <4> SUFFICES ASSUME NEW t \in Visible(p[j], k, s) PROVE FALSE
        OBVIOUS
      <4>1. t \in p[j] /\ Key(t) = k /\ t <= m
        BY <1>5, <2>2 DEF Visible
      <4>2. t > m
        BY <1>1, <2>3, <3>1, <3>3, <4>1, PlacesOrdered
      <4>3. t \in Nat /\ m \in Nat
        BY <1>0, <1>4, <2>3, <4>1, EntryTyped
      <4> QED
        BY <4>1, <4>2, <4>3
    <3>4. Get(k, s) = Value(Visible(p[i], k, s))
      BY <1>1, <1>3, <3>2, <3>3, GetIs
    <3>5. Max(Visible(p[i], k, s)) = m
      <4>1. /\ Visible(p[i], k, s) \subseteq Entries
            /\ \A t \in Visible(p[i], k, s) : t <= m
        BY <1>4, <1>5, <2>2 DEF Visible
      <4> QED
        BY <1>0, <3>2, <4>1, MaxIs
    <3> QED
      BY <1>7, <2>5, <3>2, <3>4, <3>5 DEF Value
  <2>7. CASE Deletes(m) /\ \A t \in Entries : Key(t) = Key(m) /\ Held(t) => t > s
    <3>1. \A i \in DOMAIN p : Visible(p[i], k, s) = {}
      <4> SUFFICES ASSUME NEW i \in DOMAIN p, NEW t \in Visible(p[i], k, s) PROVE FALSE
        OBVIOUS
      <4>1. t \in p[i] /\ Key(t) = k /\ t <= s
        BY DEF Visible
      <4>2. t \in Entries /\ Held(t) /\ t > s /\ t \in Nat
        BY <1>0, <1>4, <2>3, <2>7, <4>1, EntryTyped
      <4> QED
        BY <1>2, <4>1, <4>2
    <3>2. Get(k, s) = 0
      BY <1>1, <1>3, <3>1, GetIs
    <3> QED
      BY <2>5, <2>7, <3>2 DEF Value
  <2> QED
    BY <2>3, <2>4, <2>6, <2>7 DEF Preserved
<1> QED
  BY <1>6, <1>7

(* ReadsAreCurrent: as long as one client uses the database, Get returns the *)
(* value of the newest update of the key, or of the newest a snapshot may see, *)
(* for every number of keys, levels, writes and compactions.               *)
THEOREM ReadsAreCurrentAlways ==
    ASSUME OneClient
    PROVE  Spec => []ReadsAreCurrent
<1>1. Init => Inv /\ OneInv /\ Preserved
  BY InitInv, OneInit, InitPreserved
<1>2. (Inv /\ OneInv /\ Preserved) /\ [Next]_vars => (Inv /\ OneInv /\ Preserved)'
  BY NextInv, OneNext, NextPreserved
<1>3. Inv /\ OneInv /\ Preserved => ReadsAreCurrent
  <2> SUFFICES ASSUME Inv, OneInv, Preserved PROVE ReadsAreCurrent
    OBVIOUS
  <2>1. Typed /\ TypeOK /\ NewerFirst /\ LevelsParted /\ NoSpan
    BY DEF Inv, Typed, OneInv
  <2>2. LevelsDisjoint
    BY <2>1, PartedIsDisjoint
  <2> QED
    BY <2>1, <2>2, ReadsFind DEF ReadsAreCurrent
<1> QED
  BY <1>1, <1>2, <1>3, PTL DEF Spec

-----------------------------------------------------------------------------
(* A manual compaction leaves nothing of its range behind *)

(* An entry that is below level l, if it is anywhere. *)
Sunk(s, l) ==
    /\ s \notin mem /\ s \notin imm
    /\ \A m \in Levels : m <= l => \A f \in files[m] : s \notin f.data

(* What is left of the work: the entries that the level had in the range   *)
(* are below it up to the key that the rest of the range begins with, and  *)
(* the part that is under way takes what comes next.                       *)
Requested(s) == s \in Content(manual.before) /\ InRange(s, manual.range)
Taken(c) ==
    /\ c.level = manual.level /\ ~manual.done
    /\ \A g \in files[c.level] \ c.inputs : \A s \in g.data :
         Requested(s) => Key(s) >= Key(Largest(Back(c.inputs)))
Covered ==
    manual # NoRequest /\ ~failed =>
        /\ manual.hi = manual.range[2]
        /\ Content(manual.before) \subseteq Entries
        /\ \A s \in Content(manual.before) : Sunk(s, manual.level - 1)
        /\ \A s \in Entries : Requested(s) /\ (manual.done \/ Key(s) < manual.lo) =>
             Sunk(s, manual.level)
        /\ bg # NoWork /\ bg.isManual => Taken(bg)

(* What has sunk below a level does not come back: a flush brings entries   *)
(* of the immutable memtable only.                                         *)
LEMMA SunkFlush ==
    ASSUME Typed, CompactMemTable, NEW s \in Entries, NEW l \in Int, Sunk(s, l)
    PROVE  Sunk(s, l)'
<1>1. PICK k \in PickLevels(imm) :
        files' = [files EXCEPT ![k] = @ \union {[num |-> nextFile, data |-> imm]}]
  BY DEF CompactMemTable
<1>2. PICK h : h = [num |-> nextFile, data |-> imm]
  OBVIOUS
<1>3. Flushed(k, h)
  BY <1>1, <1>2 DEF CompactMemTable, MemTableDue, Flushed
<1>4. /\ h.data = imm /\ k \in Levels
      /\ files'[k] = files[k] \union {h}
      /\ \A i \in Levels : i # k => files'[i] = files[i]
  BY <1>3, FlushIs
<1>5. mem' = mem /\ imm' = {}
  BY DEF CompactMemTable
<1>6. ASSUME NEW m \in Levels, m <= l, NEW f \in files'[m]
      PROVE  s \notin f.data
  BY <1>4, <1>6 DEF Sunk
<1> QED
  BY <1>5, <1>6 DEF Sunk, Levels

(* A compaction brings entries of the level and of the one above.          *)
LEMMA SunkEdit ==
    ASSUME Typed, NEW c, Work(c), NEW added, Added(c, added), files' = Edited(c, added),
           mem' = mem, imm' = imm, NEW s \in Entries, NEW l \in Int, Sunk(s, l)
    PROVE  Sunk(s, l)'
<1>1. /\ c.level \in Levels /\ c.level + 1 \in Levels
      /\ c.inputs \subseteq files[c.level] /\ c.parents \subseteq files[c.level + 1]
      /\ Input(c) = Content(c.inputs) \union Content(c.parents)
  BY InputTyped DEF Typed
<1>2. /\ files'[c.level] = files[c.level] \ c.inputs
      /\ files'[c.level + 1] = (files[c.level + 1] \ c.parents) \union added
      /\ \A i \in Levels : i # c.level /\ i # c.level + 1 => files'[i] = files[i]
  BY EditedIs DEF Typed, Work
<1>3. ASSUME c.level + 1 <= l
      PROVE  s \notin Input(c)
  <2>1. c.level <= l
    BY <1>1, <1>3 DEF Levels
  <2>2. \A f \in files[c.level] \union files[c.level + 1] : s \notin f.data
    BY <1>1, <1>3, <2>1 DEF Sunk
  <2> QED
    BY <1>1, <2>2 DEF Content
<1>4. ASSUME NEW m \in Levels, m <= l, NEW f \in files'[m]
      PROVE  s \notin f.data
  <2>1. CASE f \in files[m]
    BY <1>4, <2>1 DEF Sunk
  <2>2. CASE f \notin files[m]
    <3>1. m = c.level + 1 /\ f \in added
      BY <1>1, <1>2, <1>4, <2>2
    <3>2. f.data \subseteq Input(c)
      BY <3>1 DEF Added
    <3> QED
      BY <1>3, <1>4, <3>1, <3>2
  <2> QED
    BY <2>1, <2>2
<1> QED
  BY <1>4 DEF Sunk, Levels

(* So it is with every step. *)
LEMMA SunkStays ==
    ASSUME Inv, [Next]_vars, NEW s \in Entries, NEW l \in Int, Sunk(s, l)
    PROVE  Sunk(s, l)'
<1>1. Typed /\ TypeOK /\ LevelsParted
  BY DEF Inv, Typed
<1>2. ASSUME NEW u \in Updates, Write(u)
      PROVE  Sunk(s, l)'
  <2>1. s \in Nat /\ s # LastSequence + 1
    BY <1>1, EntryTyped DEF Entries
  <2> QED
    BY <1>2, <2>1 DEF Write, version, Sunk, Levels
<1>3. CASE SwitchMemTable
  BY <1>3 DEF SwitchMemTable, version, Sunk, Levels
<1>4. CASE mem' = mem /\ imm' = imm /\ files' = files
  BY <1>4 DEF Sunk, Levels
<1>5. CASE CompactMemTable
  BY <1>1, <1>5, SunkFlush
<1>6. CASE BackgroundCompaction
  <2>1. PICK c \in Compactions : TrivialMove(c) \/ TrivialMoveFails(c) \/ BeginCompaction(c)
    BY <1>6 DEF BackgroundCompaction
  <2>2. mem' = mem /\ imm' = imm
    BY <1>6 DEF BackgroundCompaction
  <2>3. CASE TrivialMove(c)
    <3>1. Work(c) /\ Added(c, c.inputs) /\ files' = Edited(c, c.inputs)
      BY <1>1, <2>3, CompactionWork, MovedAdded DEF TrivialMove
    <3> QED
      BY <1>1, <2>2, <3>1, SunkEdit
  <2>4. CASE TrivialMoveFails(c) \/ BeginCompaction(c)
    BY <1>4, <2>2, <2>4 DEF TrivialMoveFails, BeginCompaction
  <2> QED
    BY <2>1, <2>3, <2>4
<1>7. CASE EndCompaction
  <2>1. PICK c : c = bg
    OBVIOUS
  <2>2. PICK F \in Outputs(Kept(c)) : files' = Edited(c, F)
    BY <1>7, <2>1 DEF EndCompaction
  <2>3. Work(c) /\ Added(c, F)
    BY <1>1, <1>7, <2>1, <2>2, OutputsAdded DEF EndCompaction, Inv, WorkKept
  <2>4. mem' = mem /\ imm' = imm
    BY <1>7 DEF EndCompaction
  <2> QED
    BY <1>1, <2>2, <2>3, <2>4, SunkEdit
<1>8. \/ \E u \in Updates : Write(u)
      \/ SwitchMemTable \/ CompactMemTable \/ BackgroundCompaction \/ EndCompaction
      \/ mem' = mem /\ imm' = imm /\ files' = files
  BY DEF Next, Background, GetSnapshot, ReleaseSnapshot, CompactRange, PostAgain,
         ManualReturn, CompactMemTableFails, ManualNothing, CompactionFails, vars, version
<1> QED
  BY <1>2, <1>3, <1>4, <1>5, <1>6, <1>7, <1>8

(* A run of files: the level has no other file between two of them. *)
Contiguous(l, F) ==
    \A f1, f2 \in F, g \in files[l] :
        Precedes(Smallest(f1), Smallest(g)) /\ Precedes(Smallest(g), Smallest(f2)) => g \in F

(* Disjoint files lie as their first entries do. *)
LEMMA FirstsOrder ==
    ASSUME TypeOK, LevelsParted, NoSpan, NEW l \in Levels \ {0},
           NEW f \in files[l], NEW g \in files[l]
    PROVE  /\ Smallest(f) \in Entries /\ Smallest(f) \in f.data
           /\ Smallest(g) \in Entries /\ Smallest(g) \in g.data
           /\ f # g => Precedes(Smallest(f), Smallest(g)) \/ Precedes(Smallest(g), Smallest(f))
           /\ Precedes(Smallest(f), Smallest(g)) => Before(f, g)
<1>1. /\ Smallest(f) \in Entries /\ Smallest(f) \in f.data
      /\ Smallest(g) \in Entries /\ Smallest(g) \in g.data
  BY FileKeys
<1>2. f # g => Before(f, g) \/ Before(g, f)
  BY DEF LevelsParted, Parted, NoSpan
<1>3. /\ Before(f, g) => Precedes(Smallest(f), Smallest(g))
      /\ Before(g, f) => Precedes(Smallest(g), Smallest(f))
  BY <1>1 DEF Before
<1> QED
  BY <1>1, <1>2, <1>3, PrecedesOrders

(* GetOverlappingInputs above level 0 returns a run. *)
LEMMA OverlappingContiguous ==
    ASSUME TypeOK, LevelsParted, NoSpan, NEW l \in Levels \ {0}, NEW lo \in Keys, NEW hi \in Keys
    PROVE  Contiguous(l, GetOverlappingInputs(l, lo, hi))
<1>1. GetOverlappingInputs(l, lo, hi) = {f \in files[l] : Overlaps(f, lo, hi)}
  BY OverlappingIsConvex
<1>2. ASSUME NEW f1 \in files[l], NEW f2 \in files[l], NEW g \in files[l],
             Overlaps(f1, lo, hi), Overlaps(f2, lo, hi),
             Precedes(Smallest(f1), Smallest(g)), Precedes(Smallest(g), Smallest(f2))
      PROVE  Overlaps(g, lo, hi)
  <2>1. /\ Smallest(g) \in Entries /\ Smallest(f2) \in Entries
        /\ Largest(f1) \in Entries /\ Largest(f1) \in f1.data
        /\ Largest(g) \in Entries /\ Largest(g) \in g.data
    BY FileKeys
  <2>2. Precedes(Largest(f1), Largest(g))
    BY <1>2, <2>1, FirstsOrder DEF Before
  <2>3. Key(Largest(f1)) <= Key(Largest(g)) /\ Key(Smallest(g)) <= Key(Smallest(f2))
    BY <1>2, <2>1, <2>2, PrecedesByKey
  <2>4. /\ Key(Largest(f1)) \in Nat /\ Key(Largest(g)) \in Nat
        /\ Key(Smallest(g)) \in Nat /\ Key(Smallest(f2)) \in Nat
        /\ lo \in Nat /\ hi \in Nat
    BY <2>1, EntryTyped, LsmAssumption DEF Keys
  <2> QED
    BY <1>2, <2>3, <2>4 DEF Overlaps
<1> QED
  BY <1>1, <1>2 DEF Contiguous

(* A step of AddBoundaryInputs goes on with the run. *)
LEMMA ContiguousStep ==
    ASSUME TypeOK, LevelsParted, NoSpan, NEW l \in Levels \ {0},
           NEW F, F \subseteq files[l], Contiguous(l, F)
    PROVE  Contiguous(l, F \union FirstBoundary(l, F))
<1> SUFFICES ASSUME NEW f1 \in F \union FirstBoundary(l, F),
                    NEW f2 \in F \union FirstBoundary(l, F),
                    NEW g \in files[l], g \notin F \union FirstBoundary(l, F),
                    Precedes(Smallest(f1), Smallest(g)), Precedes(Smallest(g), Smallest(f2))
             PROVE  FALSE
  BY DEF Contiguous
<1>1. \A b \in FirstBoundary(l, F) :
        /\ b \in Boundary(l, F) /\ b \in files[l]
        /\ \A h \in Boundary(l, F) : ~Precedes(Smallest(h), Smallest(b))
        /\ \A f \in F : Precedes(Smallest(f), Smallest(b))
  <2> TAKE b \in FirstBoundary(l, F)
  <2>1. b \in Boundary(l, F) /\ \A h \in Boundary(l, F) : ~Precedes(Smallest(h), Smallest(b))
    BY DEF FirstBoundary
  <2>2. b \in files[l] /\ \A t \in Content(F) : Precedes(t, Smallest(b))
    BY <2>1, BoundaryBehind
  <2>3. \A f \in F : Smallest(f) \in Content(F)
    BY FileKeys DEF Content
  <2> QED
    BY <2>1, <2>2, <2>3
<1>2. f1 \in files[l] /\ f2 \in files[l]
  BY <1>1
<1>3. Smallest(f1) \in Entries /\ Smallest(f2) \in Entries /\ Smallest(g) \in Entries
  BY <1>2, FileKeys
<1>4. ASSUME NEW f \in F
      PROVE  ~Precedes(Smallest(g), Smallest(f))
  <2> SUFFICES ASSUME Precedes(Smallest(g), Smallest(f)) PROVE FALSE
    OBVIOUS
  <2>1. CASE f1 \in F
    BY <2>1 DEF Contiguous
  <2>2. CASE f1 \in FirstBoundary(l, F)
    <3>1. Precedes(Smallest(f), Smallest(f1)) /\ Smallest(f) \in Entries
      BY <1>1, <2>2, FileKeys
    <3> QED
      BY <1>3, <3>1, PrecedesOrders
  <2> QED
    BY <2>1, <2>2
<1>5. f2 \in FirstBoundary(l, F)
  BY <1>4
<1>6. /\ Key(Last(Content(F))) = Key(Smallest(f2)) /\ F # {}
      /\ Precedes(Last(Content(F)), Smallest(f2))
  BY <1>1, <1>5 DEF Boundary
<1>7. PICK p \in F : Last(Content(F)) \in p.data
  BY <1>6, ContentLast
<1>8. Last(Content(F)) \in Entries
  BY <1>6, ContentLast
<1>9. Precedes(Last(Content(F)), Smallest(g))
  <2>1. p # g /\ p \in files[l]
    BY <1>7
  <2>2. Before(p, g)
    BY <1>4, <2>1, FirstsOrder
  <2>3. Smallest(g) \in g.data
    BY FileKeys
  <2> QED
    BY <1>7, <2>2, <2>3 DEF Before
<1>10. Key(Last(Content(F))) = Key(Smallest(g))
  <2>1. Key(Last(Content(F))) <= Key(Smallest(g)) /\ Key(Smallest(g)) <= Key(Smallest(f2))
    BY <1>3, <1>8, <1>9, PrecedesByKey
  <2>2. Key(Smallest(g)) \in Nat /\ Key(Smallest(f2)) \in Nat
    BY <1>3, EntryTyped
  <2> QED
    BY <1>6, <2>1, <2>2
<1>11. g \in Boundary(l, F)
  BY <1>6, <1>9, <1>10 DEF Boundary
<1> QED
  BY <1>1, <1>5, <1>11

(* The whole of AddBoundaryInputs does.                                    *)
LEMMA AddBoundaryContiguous ==
    ASSUME Typed, LevelsParted, NoSpan, NEW l \in Levels \ {0},
           NEW F, F \subseteq files[l], Contiguous(l, F)
    PROVE  Contiguous(l, AddBoundaryInputs(l, F))
<1> DEFINE Q == {G \in SUBSET files[l] : Contiguous(l, G)}
<1>0. TypeOK /\ l \in Levels
  BY DEF Typed
<1>1. F \in Q
  OBVIOUS
<1>2. ASSUME NEW G \in Q
      PROVE  G \union FirstBoundary(l, G) \in Q
  <2>1. FirstBoundary(l, G) \subseteq files[l]
    BY DEF FirstBoundary, Boundary
  <2>2. Contiguous(l, G \union FirstBoundary(l, G))
    BY <1>0, ContiguousStep
  <2> QED
    BY <2>1, <2>2
<1> HIDE DEF Q
<1>3. AddBoundaryInputs(l, F) \in Q
  BY <1>0, <1>1, <1>2, ExtendedKeeps
<1> QED
  BY <1>3 DEF Q

(* The inputs of a manual compaction are a run that takes what CompactRange *)
(* picked: of the files that its range overlaps, those up to some file.    *)
LEMMA ManualInputsAre ==
    ASSUME Typed, LevelsParted, NoSpan, Posted, NEW c \in Compactions
    PROVE  /\ c.level = manual.level
           /\ \E p \in ManualPicks : p[2] # {} /\ p[2] \subseteq c.inputs
           /\ c.level # 0 => Contiguous(c.level, c.inputs)
<1>0. TypeOK
  BY DEF Typed
<1>1. PICK p \in Picks : \E in \in SetupOtherInputs(p[1], p[2]) :
        c = Compaction(p[1], in) /\ p[1] \in 0 .. NumLevels - 2 /\ Choice(p[1], p[2])
  BY CompactionChosen
<1>2. PICK in \in SetupOtherInputs(p[1], p[2]) :
        c = Compaction(p[1], in) /\ p[1] \in 0 .. NumLevels - 2 /\ Choice(p[1], p[2])
  BY <1>1
<1>3. p \in ManualPicks /\ p[1] = manual.level /\ c.level = p[1] /\ c.inputs = in[1]
  BY <1>2 DEF Picks, ManualPicks, Compaction
<1>4. PICK l, F : l = p[1] /\ F = p[2]
  OBVIOUS
<1>5. /\ l \in 0 .. NumLevels - 2 /\ l \in Levels /\ l + 1 \in Levels \ {0}
      /\ Choice(l, F) /\ in \in SetupOtherInputs(l, F)
  BY <1>2, <1>4, LevelsAround
<1>6. F # {} /\ F \subseteq files[l]
  BY <1>5 DEF Choice
<1>7. PICK inputs : inputs = AddBoundaryInputs(l, F)
  OBVIOUS
<1>8. ChoiceMade(l, inputs) /\ F \subseteq inputs
  BY <1>5, <1>7, AddBoundaryChooses
<1>9. PICK P : P = inputs \union With(l + 1, inputs)
  OBVIOUS
<1>10. in[1] = inputs \/ in[1] = With(l, P)
  BY <1>4, <1>5, <1>7, <1>9, SetupChooses
<1>11. Content(P) \subseteq Entries /\ Content(P) # {} /\ inputs \subseteq P
  <2>1. Content(inputs) \subseteq Entries /\ Content(inputs) # {}
    BY <1>0, <1>5, <1>8, ContentTyped DEF ChoiceMade
  <2>2. Low(inputs) \in Keys /\ High(inputs) \in Keys
    BY <1>0, <2>1, EndKeys
  <2>3. With(l + 1, inputs) \subseteq files[l + 1]
    <3>1. GetOverlappingInputs(l + 1, Low(inputs), High(inputs)) \subseteq files[l + 1]
      BY DEF GetOverlappingInputs
    <3> QED
      BY <1>5, <3>1, BoundaryTaken DEF With
  <2>4. Content(With(l + 1, inputs)) \subseteq Entries
    BY <1>0, <1>5, <2>3, ContentTyped
  <2>5. Content(P) = Content(inputs) \union Content(With(l + 1, inputs))
    BY <1>9 DEF Content
  <2> QED
    BY <1>9, <2>1, <2>4, <2>5
<1>12. F \subseteq in[1]
  <2>1. CASE in[1] = inputs
    BY <1>8, <2>1
  <2>2. CASE in[1] = With(l, P)
    <3>1. inputs \subseteq With(l, P)
      BY <1>5, <1>8, <1>11, WithCovers DEF ChoiceMade
    <3> QED
      BY <1>8, <2>2, <3>1
  <2> QED
    BY <1>10, <2>1, <2>2
<1>13. ASSUME l # 0
       PROVE  Contiguous(l, in[1])
  <2>1. l \in Levels \ {0}
    BY <1>5, <1>13
  <2>2. CASE in[1] = inputs
    <3>1. manual.lo \in Keys /\ manual.hi \in Keys
      BY DEF Typed, ManualTyped, Posted
    <3>2. PICK M : M = ManualInputs
      OBVIOUS
    <3>3. Contiguous(l, M) /\ M \subseteq files[l]
      BY <1>0, <1>3, <1>4, <2>1, <3>1, <3>2, OverlappingContiguous, OverlappingIsConvex
         DEF ManualInputs
    <3>4. PICK f \in M : F = {g \in M : ~Precedes(Smallest(f), Smallest(g))}
      BY <1>3, <1>4, <1>13, <3>2 DEF ManualPicks
    <3>5. Contiguous(l, F)
      <4> SUFFICES ASSUME NEW f1 \in F, NEW f2 \in F, NEW g \in files[l],
                          Precedes(Smallest(f1), Smallest(g)), Precedes(Smallest(g), Smallest(f2))
                   PROVE  g \in F
        BY DEF Contiguous
      <4>1. g \in M
        BY <3>3, <3>4 DEF Contiguous
      <4>2. ~Precedes(Smallest(f), Smallest(f2)) /\ f2 \in files[l] /\ f \in files[l]
        BY <3>3, <3>4
      <4>3. Smallest(f) \in Entries /\ Smallest(g) \in Entries /\ Smallest(f2) \in Entries
        BY <1>0, <1>5, <4>2, FileKeys
      <4>4. ~Precedes(Smallest(f), Smallest(g))
        BY <1>0, <4>2, <4>3, PrecedesOrders
      <4> QED
        BY <3>4, <4>1, <4>4
    <3> QED
      BY <1>6, <1>7, <2>1, <2>2, <3>5, AddBoundaryContiguous
  <2>3. CASE in[1] = With(l, P)
    <3>1. Low(P) \in Keys /\ High(P) \in Keys
      BY <1>0, <1>11, EndKeys
    <3>2. PICK M : M = GetOverlappingInputs(l, Low(P), High(P))
      OBVIOUS
    <3>3. Contiguous(l, M) /\ M \subseteq files[l]
      BY <1>0, <2>1, <3>1, <3>2, OverlappingContiguous, OverlappingIsConvex
    <3> QED
      BY <2>1, <2>3, <3>2, <3>3, AddBoundaryContiguous DEF With
  <2> QED
    BY <1>10, <2>2, <2>3
<1> QED
  BY <1>3, <1>4, <1>6, <1>12, <1>13

(* A file with an entry in what is left of the range is asked for. *)
LEMMA RemainingIsInput ==
    ASSUME Typed, manual # NoRequest, NEW f \in files[manual.level], NEW s \in f.data,
           manual.lo <= Key(s), Key(s) <= manual.hi
    PROVE  f \in ManualInputs
<1>1. /\ TypeOK /\ manual.lo \in Keys /\ manual.hi \in Keys /\ manual.level \in Levels
  BY LevelsAround DEF Typed, ManualTyped
<1>2. PICK r : r = IF manual.level = 0 THEN GrownRange(manual.lo, manual.hi)
                   ELSE <<manual.lo, manual.hi>>
  OBVIOUS
<1>3. ManualInputs = {g \in files[manual.level] : Overlaps(g, r[1], r[2])}
  BY <1>2 DEF ManualInputs, GetOverlappingInputs
<1>4. r[1] \in Keys /\ r[2] \in Keys /\ r[1] <= manual.lo /\ r[2] >= manual.hi
  <2>1. CASE manual.level = 0
    <3>1. GrownRange(manual.lo, manual.hi) \in ClosedRanges(manual.lo, manual.hi)
      BY <1>1, GrownRangeIs
    <3> QED
      BY <1>2, <2>1, <3>1 DEF ClosedRanges
  <2>2. CASE manual.level # 0
    <3>1. manual.lo \in Nat /\ manual.hi \in Nat
      BY <1>1, LsmAssumption DEF Keys
    <3> QED
      BY <1>1, <1>2, <2>2, <3>1
  <2> QED
    BY <2>1, <2>2
<1>5. /\ Key(Smallest(f)) <= Key(s) /\ Key(s) <= Key(Largest(f))
      /\ s \in Entries /\ Smallest(f) \in Entries /\ Largest(f) \in Entries
  BY <1>1, FileKeys
<1>6. /\ Key(Smallest(f)) \in Nat /\ Key(Largest(f)) \in Nat /\ Key(s) \in Nat
      /\ manual.lo \in Nat /\ manual.hi \in Nat /\ r[1] \in Nat /\ r[2] \in Nat
  BY <1>1, <1>4, <1>5, EntryTyped, LsmAssumption DEF Keys
<1>7. Overlaps(f, r[1], r[2])
  BY <1>4, <1>5, <1>6 DEF Overlaps
<1> QED
  BY <1>3, <1>7

(* A request that still has an entry of its range in the level, has it in  *)
(* what is left.                                                           *)
LEMMA RemainingHolds ==
    ASSUME Typed, Covered, ~failed, manual # NoRequest,
           NEW f \in files[manual.level], NEW s \in f.data, Requested(s)
    PROVE  ~manual.done /\ f \in ManualInputs
<1>1. TypeOK /\ manual.lo \in Keys /\ manual.level \in Levels
  BY LevelsAround DEF Typed, ManualTyped
<1>2. s \in Entries
  BY <1>1, FileTyped
<1>3. ~Sunk(s, manual.level)
  BY <1>1 DEF Sunk, Levels
<1>4. ~manual.done /\ ~(Key(s) < manual.lo) /\ Key(s) <= manual.hi
  BY <1>2, <1>3 DEF Covered, Requested, InRange
<1>5. Key(s) \in Nat /\ manual.lo \in Nat
  BY <1>1, <1>2, EntryTyped, LsmAssumption DEF Keys
<1>6. manual.lo <= Key(s)
  BY <1>4, <1>5
<1> QED
  BY <1>4, <1>6, RemainingIsInput

(* A manual compaction takes every such entry up to the key at which the   *)
(* rest begins.                                                            *)
LEMMA ManualTakes ==
    ASSUME Typed, LevelsParted, NoSpan, Covered, ~failed, Posted, ~manual.done,
           NEW c \in Compactions
    PROVE  Taken(c)
<1>0. TypeOK /\ manual # NoRequest
  BY DEF Typed, Posted
<1>1. /\ c.level = manual.level
      /\ c.level # 0 => Contiguous(c.level, c.inputs)
  BY ManualInputsAre
<1>2. PICK p \in ManualPicks : p[2] # {} /\ p[2] \subseteq c.inputs
  BY ManualInputsAre
<1>3. c.level \in 0 .. NumLevels - 2 /\ c.inputs \subseteq files[c.level] /\ c.inputs # {}
  BY CompactionParents DEF ChoiceMade
<1>4. c.level \in Levels
  BY <1>3, LevelsAround
<1> SUFFICES ASSUME NEW g \in files[c.level], g \notin c.inputs, NEW s \in g.data, Requested(s)
             PROVE  Key(s) >= Key(Largest(Back(c.inputs)))
  BY <1>1 DEF Taken
<1>5. g \in ManualInputs
  BY <1>0, <1>1, RemainingHolds
<1>6. c.level # 0
  <2> SUFFICES ASSUME c.level = 0 PROVE FALSE
    OBVIOUS
  <2>1. p[2] = ManualInputs
    BY <1>1 DEF ManualPicks
  <2> QED
    BY <1>2, <1>5, <2>1
<1>7. c.level \in Levels \ {0}
  BY <1>4, <1>6
<1>8. PICK f \in ManualInputs : p[2] = {h \in ManualInputs : ~Precedes(Smallest(f), Smallest(h))}
  BY <1>1, <1>6 DEF ManualPicks
<1>9. ManualInputs \subseteq files[c.level]
  BY <1>1 DEF ManualInputs, GetOverlappingInputs
<1>10. Smallest(f) \in Entries /\ Smallest(g) \in Entries
  BY <1>0, <1>4, <1>8, <1>9, FileKeys
<1>11. f \in c.inputs /\ Precedes(Smallest(f), Smallest(g))
  <2>1. f \in p[2]
    BY <1>0, <1>8, <1>10, PrecedesOrders
  <2>2. g \notin p[2]
    BY <1>2
  <2> QED
    BY <1>2, <1>5, <1>8, <2>1, <2>2
<1>12. PICK b \in c.inputs : b = Back(c.inputs)
  BY <1>0, <1>3, <1>4, BackIs
<1>13. ~Precedes(Smallest(g), Smallest(b))
  BY <1>1, <1>6, <1>11 DEF Contiguous
<1>14. b \in files[c.level] /\ b # g
  BY <1>3, <1>12
<1>15. Before(b, g)
  BY <1>0, <1>7, <1>13, <1>14, FirstsOrder
<1>16. Largest(b) \in b.data /\ Largest(b) \in Entries /\ s \in Entries
  BY <1>0, <1>4, <1>14, FileKeys
<1>17. Precedes(Largest(b), s)
  BY <1>15, <1>16 DEF Before
<1>18. Key(Largest(b)) <= Key(s)
  BY <1>0, <1>16, <1>17, PrecedesByKey
<1>19. Key(Largest(b)) \in Nat /\ Key(s) \in Nat
  BY <1>0, <1>16, EntryTyped
<1> QED
  BY <1>12, <1>18, <1>19

(* No step changes an update that was made. *)
LEMMA NextKeeps ==
    ASSUME TypeOK, [Next]_vars
    PROVE  EntriesKept
<1>1. ASSUME NEW u \in Updates, Write(u)
      PROVE  EntriesKept
  BY <1>1, WriteKeeps DEF Write
<1>2. (\E u \in Updates : Write(u)) \/ history' = history
  BY DEF Next, Background, SwitchMemTable, GetSnapshot, ReleaseSnapshot, CompactRange, PostAgain,
         ManualReturn, CompactMemTable, CompactMemTableFails, ManualNothing,
         BackgroundCompaction, EndCompaction, CompactionFails, vars
<1> QED
  BY <1>1, <1>2, SameKeeps

(* What Covered says of the entries, kept while the request is open. *)
LEMMA CoveredStays ==
    ASSUME Inv, [Next]_vars, Covered, manual # NoRequest, ~failed,
           manual' # NoRequest, manual'.level = manual.level, manual'.hi = manual.hi,
           manual'.range = manual.range, manual'.before = manual.before,
           \A s \in Entries : Requested(s) /\ (manual'.done \/ Key(s) < manual'.lo) =>
               \/ manual.done \/ Key(s) < manual.lo
               \/ Sunk(s, manual.level)',
           ~failed' /\ bg' # NoWork /\ bg'.isManual => Taken(bg)'
    PROVE  Covered'
<1>1. Typed /\ TypeOK
  BY DEF Inv, Typed
<1>2. EntriesKept /\ \A s \in Entries : s \in Entries' /\ Key(s)' = Key(s)
  <2>1. EntriesKept
    BY <1>1, NextKeeps
  <2> QED
    BY <2>1, KeysKept
<1>3. manual.level \in Nat
  BY <1>1, LevelsAround DEF Typed, ManualTyped
<1>4. PICK l \in Int : l = manual.level
  BY <1>3
<1>5. PICK before, range : before = manual.before /\ range = manual.range
  OBVIOUS
<1>6. l = manual'.level /\ before = manual'.before /\ range = manual'.range
  BY <1>4, <1>5
<1>7. /\ Content(before) \subseteq Entries /\ manual.hi = range[2]
      /\ \A s \in Content(before) : Sunk(s, l - 1)
  BY <1>4, <1>5 DEF Covered
<1>8. \A s \in Content(before) : Sunk(s, l - 1)'
  <2> TAKE s \in Content(before)
  <2>1. PICK k \in Int : k = l - 1
    OBVIOUS
  <2>2. Sunk(s, k)'
    BY <1>7, <2>1, SunkStays
  <2> QED
    BY <2>1, <2>2
<1>9. ASSUME NEW s \in Entries', Requested(s)', manual'.done \/ Key(s)' < manual'.lo
      PROVE  Sunk(s, l)'
  <2>1. s \in Content(before) /\ (range[1] <= Key(s) /\ Key(s) <= range[2])'
    BY <1>6, <1>9 DEF Requested, InRange, Content
  <2>2. s \in Entries /\ Key(s)' = Key(s)
    BY <1>2, <1>7, <2>1
  <2>3. Requested(s)
    BY <1>4, <1>5, <2>1, <2>2 DEF Requested, InRange
  <2>4. manual.done \/ Key(s) < manual.lo \/ Sunk(s, l)'
    BY <1>4, <1>5, <1>9, <2>2, <2>3
  <2>5. manual.done \/ Key(s) < manual.lo => Sunk(s, l)
    BY <1>4, <1>5, <2>2, <2>3 DEF Covered
  <2> QED
    BY <2>2, <2>4, <2>5, SunkStays
<1>10. Content(before) \subseteq Entries'
  BY <1>2, <1>7
<1> QED
  BY <1>6, <1>7, <1>8, <1>9, <1>10 DEF Covered, Content

(* CompactRange: nothing above a level is in it. *)
LEMMA CoveredRequest ==
    ASSUME OneClient, Inv, OneInv, NEW l \in 0 .. NumLevels - 2, NEW r \in ManualRanges,
           CompactRange(l, r)
    PROVE  Covered'
<1>1. Typed /\ TypeOK /\ NewerFirst /\ l \in Levels
  BY LevelsAround DEF Inv, Typed
<1>2. /\ manual' = [level |-> l, lo |-> r[1], hi |-> r[2], posted |-> TRUE, done |-> FALSE,
                    range |-> r, before |-> files[l]]
      /\ manual = NoRequest /\ ~failed /\ UNCHANGED <<history, mem, imm, version, bg, failed>>
  BY DEF CompactRange
<1>3. files' = files /\ history' = history
  BY <1>2 DEF version
<1>4. ~(bg' # NoWork /\ bg'.isManual)
  BY <1>2 DEF OneInv, Undisturbed, ManualHeld
<1>5. Content(files[l]) \subseteq Entries /\ Entries' = Entries
  BY <1>1, <1>3, ContentTyped, SameKeeps
<1>6. ASSUME NEW f \in files[l], NEW s \in f.data
      PROVE  Sunk(s, l - 1)
  <2>1. s \in Nat
    BY <1>1, FileTyped, EntryTyped
  <2>2. s \notin mem \union imm
    BY <1>1, <2>1, NewerParts DEF Shadows
  <2>3. ASSUME NEW m \in Levels, m <= l - 1, NEW g \in files[m]
        PROVE  s \notin g.data
    <3>1. m < l
      BY <1>1, <2>3 DEF Levels
    <3>2. Shadows(g.data, f.data)
      BY <1>1, <3>1, NewerParts
    <3> QED
      BY <2>1, <3>2 DEF Shadows
  <2> QED
    BY <2>2, <2>3 DEF Sunk
<1>7. \A s \in Content(files[l]) : Sunk(s, l - 1)'
  BY <1>2, <1>3, <1>6 DEF Sunk, Content, Levels
<1>8. ASSUME NEW s \in Entries', Requested(s)', manual'.done \/ Key(s)' < manual'.lo
      PROVE  FALSE
  <2>1. (r[1] <= Key(s))' /\ Key(s)' < r[1]
    BY <1>2, <1>8 DEF Requested, InRange
  <2>2. Key(s)' = Key(s) /\ Key(s) \in Nat /\ r[1] \in Nat
    BY <1>1, <1>3, <1>5, <1>8, EntryTyped, LsmAssumption DEF Key, Keys
  <2> QED
    BY <2>1, <2>2
<1> QED
  BY <1>2, <1>3, <1>4, <1>5, <1>7, <1>8 DEF Covered, Content

(* BackgroundCompaction. *)
LEMMA CoveredBegin ==
    ASSUME OneClient, Inv, OneInv, Covered, BackgroundCompaction
    PROVE  Covered'
<1>1. Typed /\ TypeOK /\ LevelsParted /\ NoSpan
  BY DEF Inv, Typed, OneInv
<1>2. PICK c \in Compactions : TrivialMove(c) \/ TrivialMoveFails(c) \/ BeginCompaction(c)
  BY DEF BackgroundCompaction
<1>3. /\ bg = NoWork /\ ~failed /\ manual' = manual /\ history' = history
      /\ Posted => ~manual.done
  BY DEF BackgroundCompaction, MayBegin, OneInv
<1>4. [Next]_vars
  BY DEF Next, Background
<1>5. SUFFICES ASSUME manual # NoRequest PROVE Covered'
  BY <1>3 DEF Covered
<1>6. ASSUME ~failed', bg' # NoWork, bg'.isManual
      PROVE  Taken(bg)'
  <2>1. BeginCompaction(c)
    BY <1>2, <1>3, <1>6 DEF TrivialMove, TrivialMoveFails
  <2>2. bg' = c /\ files' = files
    BY <2>1 DEF BeginCompaction
  <2>3. c.isManual = Posted
    BY <1>1, CompactionParents
  <2>4. Taken(c)
    BY <1>1, <1>3, <1>6, <2>2, <2>3, ManualTakes
  <2>5. \A s : Requested(s)' = Requested(s) /\ Key(s)' = Key(s)
    BY <1>3 DEF Requested, InRange, Content, Key
  <2>6. Key(Largest(Back(c.inputs)))' = Key(Largest(Back(c.inputs)))
    BY <1>3 DEF Key, Largest, Last, Back, Smallest, First, Precedes
  <2>7. Taken(c)'
    BY <1>3, <2>2, <2>4, <2>5, <2>6 DEF Taken
  <2> QED
    BY <2>2, <2>7
<1>7. \A s \in Entries : Requested(s) /\ (manual'.done \/ Key(s) < manual'.lo) =>
        manual.done \/ Key(s) < manual.lo
  BY <1>3
<1> QED
  BY <1>3, <1>4, <1>5, <1>6, <1>7, CoveredStays

(* EndCompaction: what is left of the range begins behind what it took. *)
LEMMA CoveredEnd ==
    ASSUME OneClient, Inv, OneInv, Covered, EndCompaction
    PROVE  Covered'
<1>1. Typed /\ TypeOK /\ ManualTyped /\ WorkKept
  BY DEF Inv, Typed
<1>2. [Next]_vars
  BY DEF Next, Background
<1>3. PICK c : c = bg
  OBVIOUS
<1>4. PICK F \in Outputs(Kept(c)) : files' = Edited(c, F)
  BY <1>3 DEF EndCompaction
<1>5. /\ bg # NoWork /\ bg' = NoWork /\ failed' = failed /\ history' = history
      /\ EndManual(TRUE)
  BY DEF EndCompaction
<1>6. Work(c)
  BY <1>1, <1>3, <1>5 DEF WorkKept
<1>7. CASE ~bg.isManual
  <2>1. manual' = manual
    BY <1>5, <1>7 DEF EndManual
  <2> QED
    BY <1>2, <1>5, <2>1, CoveredStays DEF Covered
<1>8. CASE bg.isManual
  <2>1. /\ manual # NoRequest
        /\ manual' = [manual EXCEPT !.posted = FALSE, !.done = FALSE, !.lo = RemainingRange]
    BY <1>5, <1>8 DEF EndManual
  <2>2. DOMAIN manual = {"level", "lo", "hi", "posted", "done", "range", "before"}
    BY <1>1, <2>1 DEF ManualTyped
  <2>3. /\ manual'.level = manual.level /\ manual'.hi = manual.hi
        /\ manual'.range = manual.range /\ manual'.before = manual.before
        /\ ~manual'.done /\ manual'.lo = RemainingRange
    BY <2>1, <2>2
  <2>4. manual' # NoRequest
    <3>1. "done" \in DOMAIN manual' /\ "done" \notin DOMAIN NoRequest
      BY <2>1, <2>2 DEF NoRequest
    <3> QED
      BY <3>1
  <2>5. SUFFICES ASSUME ~failed PROVE Covered'
    BY <1>5 DEF Covered
  <2>6. Taken(c)
    BY <1>3, <1>5, <1>8, <2>1, <2>5 DEF Covered
  <2>7. ASSUME NEW s \in Entries, Requested(s), Key(s) < manual'.lo
        PROVE  Sunk(s, manual.level)'
    <3>1. PICK l \in Int : l = manual.level /\ l = c.level
      BY <1>1, <2>1, <2>6 DEF ManualTyped, Taken
    <3>2. s \in Content(manual.before)
      BY <2>7 DEF Requested
    <3>3. PICK k \in Int : k = l - 1
      OBVIOUS
    <3>4. Sunk(s, k)
      BY <2>1, <2>5, <3>1, <3>2, <3>3 DEF Covered
    <3>5. Sunk(s, k)'
      BY <1>2, <3>4, SunkStays
    <3>6. files'[l] = files[l] \ c.inputs
      BY <1>1, <1>4, <1>6, <3>1, EditedIs DEF Work
    <3>7. ASSUME NEW f \in files'[l]
          PROVE  s \notin f.data
      <4> SUFFICES ASSUME s \in f.data PROVE FALSE
        OBVIOUS
      <4>1. Key(s) >= Key(Largest(Back(c.inputs)))
        BY <2>6, <2>7, <3>1, <3>6, <3>7 DEF Taken
      <4>2. Key(s) < Key(Largest(Back(c.inputs)))
        BY <1>3, <2>3, <2>7 DEF RemainingRange
      <4>3. Back(c.inputs) \in files[l] /\ l \in Levels
        BY <1>1, <1>6, <3>1, BackIs, LevelsAround DEF Work, ChoiceMade
      <4>4. Key(Largest(Back(c.inputs))) \in Nat /\ Key(s) \in Nat
        BY <1>1, <4>3, FileKeys, EntryTyped
      <4> QED
        BY <4>1, <4>2, <4>4
    <3>8. ASSUME NEW m \in Levels, m <= l, NEW f \in files'[m]
          PROVE  s \notin f.data
      <4>1. CASE m = l
        BY <3>7, <3>8, <4>1
      <4>2. CASE m # l
        <5>1. m <= k
          BY <3>3, <3>8, <4>2 DEF Levels
        <5> QED
          BY <3>5, <3>8, <5>1 DEF Sunk, Levels
      <4> QED
        BY <4>1, <4>2
    <3>9. Sunk(s, l)'
      BY <3>5, <3>8 DEF Sunk, Levels
    <3> QED
      BY <2>3, <3>1, <3>9
  <2> QED
    BY <1>2, <1>5, <2>1, <2>3, <2>4, <2>5, <2>7, CoveredStays
<1> QED
  BY <1>7, <1>8

(* The part under way takes the same while the request stays what it is. *)
LEMMA TakenSame ==
    ASSUME bg' = bg, files' = files, history' = history,
           manual'.level = manual.level, manual'.done = manual.done,
           manual'.range = manual.range, manual'.before = manual.before, Taken(bg)
    PROVE  Taken(bg)'
<1>1. \A s : Requested(s)' = Requested(s) /\ Key(s)' = Key(s)
  BY DEF Requested, InRange, Content, Key
<1>2. Key(Largest(Back(bg.inputs)))' = Key(Largest(Back(bg.inputs)))
  BY DEF Key, Largest, Last, Back, Smallest, First, Precedes
<1> QED
  BY <1>1, <1>2 DEF Taken

(* Every step of a database with one client keeps it. *)
LEMMA CoveredNext ==
    ASSUME OneClient, Inv, OneInv, Covered, [Next]_vars
    PROVE  Covered'
<1>1. Typed /\ TypeOK /\ ManualTyped
  BY DEF Inv, Typed
<1>2. ASSUME NEW l \in 0 .. NumLevels - 2, NEW r \in ManualRanges, CompactRange(l, r)
      PROVE  Covered'
  BY <1>2, CoveredRequest
<1>3. CASE BackgroundCompaction
  BY <1>3, CoveredBegin
<1>4. CASE EndCompaction
  BY <1>4, CoveredEnd
<1>5. CASE CompactMemTableFails \/ CompactionFails
  BY <1>5 DEF CompactMemTableFails, CompactionFails, Covered
<1>6. CASE ManualReturn
  BY <1>6 DEF ManualReturn, Covered
<1>7. CASE ManualNothing
  <2>1. /\ manual # NoRequest /\ ManualPicks = {} /\ bg' = NoWork /\ ~failed /\ failed' = failed
        /\ files' = files /\ mem' = mem /\ imm' = imm
        /\ manual' = [manual EXCEPT !.posted = FALSE, !.done = TRUE]
    BY <1>7 DEF ManualNothing, MayBegin, Posted, version
  <2>2. DOMAIN manual = {"level", "lo", "hi", "posted", "done", "range", "before"}
    BY <1>1, <2>1 DEF ManualTyped
  <2>3. /\ manual'.level = manual.level /\ manual'.hi = manual.hi
        /\ manual'.range = manual.range /\ manual'.before = manual.before
    BY <2>1, <2>2
  <2>4. manual' # NoRequest
    <3>1. "done" \in DOMAIN manual' /\ "done" \notin DOMAIN NoRequest
      BY <2>1, <2>2 DEF NoRequest
    <3> QED
      BY <3>1
  <2>5. ManualInputs = {}
    <3> SUFFICES ASSUME ManualInputs # {} PROVE FALSE
      OBVIOUS
    <3>1. PICK f \in ManualInputs : TRUE
      OBVIOUS
    <3>2. PICK M : M = ManualInputs
      OBVIOUS
    <3>3. CASE manual.level = 0
      <4>1. <<manual.level, M>> \in ManualPicks
        BY <3>1, <3>2, <3>3 DEF ManualPicks
      <4> QED
        BY <2>1, <4>1
    <3>4. CASE manual.level # 0
      <4>1. PICK F : F = {g \in M : ~Precedes(Smallest(f), Smallest(g))}
        OBVIOUS
      <4>2. <<manual.level, F>> \in ManualPicks
        BY <3>1, <3>2, <3>4, <4>1 DEF ManualPicks
      <4> QED
        BY <2>1, <4>2
    <3> QED
      BY <3>3, <3>4
  <2>6. ASSUME NEW s \in Entries, Requested(s)
        PROVE  Sunk(s, manual.level)'
    <3>1. s \in Content(manual.before)
      BY <2>6 DEF Requested
    <3>2. PICK l \in Int : l = manual.level
      BY <1>1, <2>1 DEF ManualTyped
    <3>3. Sunk(s, l - 1)
      BY <2>1, <3>1, <3>2 DEF Covered
    <3>4. \A f \in files[l] : s \notin f.data
      BY <1>1, <2>1, <2>5, <2>6, <3>2, RemainingHolds
    <3>5. \A m \in Levels : m <= l => m <= l - 1 \/ m = l
      BY DEF Levels
    <3>6. Sunk(s, l)
      BY <3>3, <3>4, <3>5 DEF Sunk
    <3>7. Sunk(s, l)'
      BY <2>1, <3>6 DEF Sunk, Levels
    <3> QED
      BY <2>3, <3>2, <3>7
  <2> QED
    BY <2>1, <2>3, <2>4, <2>6, CoveredStays
<1>8. CASE PostAgain
  <2>1. /\ manual # NoRequest /\ ~failed /\ bg' = bg /\ files' = files /\ history' = history
        /\ manual' = [manual EXCEPT !.posted = TRUE]
    BY <1>8 DEF PostAgain, version
  <2>2. DOMAIN manual = {"level", "lo", "hi", "posted", "done", "range", "before"}
    BY <1>1, <2>1 DEF ManualTyped
  <2>3. /\ manual'.level = manual.level /\ manual'.hi = manual.hi
        /\ manual'.range = manual.range /\ manual'.before = manual.before
        /\ manual'.done = manual.done /\ manual'.lo = manual.lo
    BY <2>1, <2>2
  <2>4. manual' # NoRequest
    <3>1. "done" \in DOMAIN manual' /\ "done" \notin DOMAIN NoRequest
      BY <2>1, <2>2 DEF NoRequest
    <3> QED
      BY <3>1
  <2>5. bg' # NoWork /\ bg'.isManual => Taken(bg)'
    BY <2>1, <2>3, TakenSame DEF Covered
  <2> QED
    BY <2>1, <2>3, <2>4, <2>5, CoveredStays
<1>9. CASE CompactMemTable
  <2>1. /\ manual' = manual /\ failed' = failed /\ bg' = bg /\ imm # {}
    BY <1>9 DEF CompactMemTable, MemTableDue
  <2>2. SUFFICES ASSUME manual # NoRequest, ~failed PROVE Covered'
    BY <2>1 DEF Covered
  <2>3. ~(bg' # NoWork /\ bg'.isManual)
    BY <2>1 DEF OneInv, Undisturbed, ManualHeld
  <2> QED
    BY <2>1, <2>2, <2>3, CoveredStays
<1>10. CASE (\E u \in Updates : Write(u)) \/ SwitchMemTable \/ GetSnapshot
              \/ \E s \in snapshots : ReleaseSnapshot(s)
  <2>1. manual = NoRequest /\ manual' = manual
    BY <1>10 DEF Write, SwitchMemTable, GetSnapshot, ReleaseSnapshot, ClientIsFree
  <2> QED
    BY <2>1 DEF Covered
<1>11. CASE UNCHANGED vars
  <2>1. /\ manual' = manual /\ failed' = failed /\ bg' = bg /\ files' = files
        /\ history' = history
    BY <1>11 DEF vars
  <2>2. SUFFICES ASSUME manual # NoRequest, ~failed PROVE Covered'
    BY <2>1 DEF Covered
  <2>3. bg' # NoWork /\ bg'.isManual => Taken(bg)'
    BY <2>1, <2>2, TakenSame DEF Covered
  <2> QED
    BY <2>1, <2>2, <2>3, CoveredStays
<1> QED
  BY <1>2, <1>3, <1>4, <1>5, <1>6, <1>7, <1>8, <1>9, <1>10, <1>11 DEF Next, Background

(* ManualCovers: with one client, a manual compaction that ended without an *)
(* error left none of the entries of its range in the level it was asked   *)
(* for (DBImpl::TEST_CompactRange, VersionSet::CompactRange).              *)
THEOREM ManualCoversAlways ==
    ASSUME OneClient
    PROVE  Spec => []ManualCovers
<1>1. Init => Inv /\ OneInv /\ Covered
  BY InitInv, OneInit DEF Init, Covered
<1>2. (Inv /\ OneInv /\ Covered) /\ [Next]_vars => (Inv /\ OneInv /\ Covered)'
  BY NextInv, OneNext, CoveredNext
<1>3. Inv /\ OneInv /\ Covered => ManualCovers
  <2> SUFFICES ASSUME Inv, Covered, manual # NoRequest, manual.done, ~failed,
                      NEW s \in Content(manual.before), InRange(s, manual.range)
               PROVE  s \notin Content(files[manual.level])
    BY DEF ManualCovers
  <2>1. s \in Entries /\ Requested(s)
    BY DEF Covered, Requested
  <2>2. Sunk(s, manual.level)
    BY <2>1 DEF Covered
  <2>3. manual.level \in Levels /\ manual.level <= manual.level
    BY LevelsAround DEF Inv, Typed, ManualTyped
  <2> QED
    BY <2>2, <2>3 DEF Sunk, Content
<1> QED
  BY <1>1, <1>2, <1>3, PTL DEF Spec
=============================================================================
