---------------------------- MODULE RecoveryProofs ----------------------------
(***************************************************************************)
(* Logs, MANIFEST files and the opening of a database.                     *)
(*                                                                         *)
(* What is found in a log, whole (LogReadBack) or torn (LogTornTail), for  *)
(* every size of blocks and headers and any records. A fragment begins in  *)
(* the block where its header fits (FragmentPlaced), so that a reader that *)
(* stands at one, or at the zeros before it, goes on to the next or stands *)
(* behind what is kept (TurnPiece).                                        *)
(*                                                                         *)
(* TypeOK and OpensAgain of Recovery, for any records, any number of       *)
(* writes, flushes, compactions, failures, crashes and repairs, with       *)
(* options_.reuse_logs off. The invariant IInv says of the MANIFEST that   *)
(* CURRENT names (CurrentOK): as many of its first edits as a crash may    *)
(* leave of it, which the log format makes whole edits, describe a version *)
(* whose tables are there (SoundFrom). So an edit may be written when its  *)
(* tables are there, and files may go only when the edit that drops them   *)
(* is synced (EditOK), or a MANIFEST is known to be damaged, or archived   *)
(* by RepairDB (Harmed).                                                   *)
(***************************************************************************)
EXTENDS Recovery, DataLemmas, FiniteSetTheorems

-----------------------------------------------------------------------------
(* Blocks *)

(* BlockEnd is the first multiple of the block size behind a position. *)
LEMMA BlockPosition ==
    ASSUME NEW p \in Nat
    PROVE  /\ p \div BlockSize \in Nat /\ (p % BlockSize) \in 0 .. BlockSize - 1
           /\ p = (p \div BlockSize) * BlockSize + (p % BlockSize)
<1>1. BlockSize \in Nat /\ BlockSize > 0
  BY FormatAssumption
<1> QED
  BY <1>1

LEMMA BlockEndIs ==
    ASSUME NEW p \in Nat
    PROVE  /\ BlockEnd(p) \in Nat /\ BlockEnd(p) > p
           /\ (p % BlockSize) \in 0 .. BlockSize - 1
           /\ BlockEnd(p) = p + (BlockSize - (p % BlockSize))
<1>1. BlockSize \in Nat /\ BlockSize > 0
  BY FormatAssumption
<1> QED
  BY <1>1, BlockPosition DEF BlockEnd

LEMMA NextMultiple ==
    ASSUME NEW a \in Nat, NEW c \in Nat, a < c
    PROVE  (a + 1) * BlockSize <= c * BlockSize
<1>1. BlockSize \in Nat
  BY FormatAssumption
<1>2. c - (a + 1) \in Nat
  OBVIOUS
<1>3. (c - (a + 1)) * BlockSize >= 0
  BY <1>1, <1>2
<1> QED
  BY <1>1, <1>3

(* The positions before the end of a block have the same end. *)
LEMMA SameBlock ==
    ASSUME NEW p \in Nat, NEW q \in Nat, p <= q, q < BlockEnd(p)
    PROVE  BlockEnd(q) = BlockEnd(p)
<1> DEFINE a == p \div BlockSize
           c == q \div BlockSize
<1>1. BlockSize \in Nat /\ BlockSize > 0
  BY FormatAssumption
<1>2. /\ a \in Nat /\ c \in Nat /\ a * BlockSize <= p /\ c * BlockSize <= q
      /\ p < (a + 1) * BlockSize /\ q < (c + 1) * BlockSize /\ q < (a + 1) * BlockSize
  BY <1>1, BlockPosition DEF BlockEnd
<1> HIDE DEF a, c
<1>3. ~(a < c)
  BY <1>1, <1>2, NextMultiple
<1>4. ~(c < a)
  BY <1>1, <1>2, NextMultiple
<1>5. a = c
  BY <1>2, <1>3, <1>4
<1> QED
  BY <1>5 DEF a, c, BlockEnd

(* The end of a block is where the next one begins. *)
LEMMA EndIsMultiple ==
    ASSUME NEW p \in Nat
    PROVE  /\ (BlockEnd(p) % BlockSize) = 0
           /\ BlockEnd(BlockEnd(p)) = BlockEnd(p) + BlockSize
<1> DEFINE a == p \div BlockSize + 1
           x == a * BlockSize
           c == x \div BlockSize
<1>1. BlockSize \in Nat /\ BlockSize > 0
  BY FormatAssumption
<1>2. a \in Nat
  BY BlockPosition
<1> HIDE DEF a
<1>3. x \in Nat
  BY <1>1, <1>2
<1>4. c \in Nat /\ x = c * BlockSize + (x % BlockSize) /\ (x % BlockSize) \in 0 .. BlockSize - 1
  BY <1>3, BlockPosition
<1> HIDE DEF c
<1>5. (c * BlockSize) \in Nat /\ (c + 1) * BlockSize = c * BlockSize + BlockSize
  BY <1>1, <1>4
<1>6. ~(a < c)
  BY <1>1, <1>2, <1>4, <1>5, NextMultiple
<1>7. ~(c < a)
  BY <1>1, <1>2, <1>4, <1>5, NextMultiple
<1>8. c = a
  BY <1>2, <1>4, <1>6, <1>7
<1>9. (x % BlockSize) = 0
  BY <1>1, <1>3, <1>4, <1>8
<1>10. (a + 1) * BlockSize = a * BlockSize + BlockSize
  BY <1>1, <1>2
<1> QED
  BY <1>8, <1>9, <1>10 DEF a, c, BlockEnd

-----------------------------------------------------------------------------
(* Fragments *)

(* block_offset_ of a writer at position p of its file: a block that is    *)
(* full ends at BlockSize, or begins at 0 for a writer that opens the file *)
(* again (Writer::Writer takes the length of the file modulo kBlockSize).  *)
AtOffset(offset, p) ==
    /\ offset \in 0 .. BlockSize
    /\ offset = (p % BlockSize) \/ (offset = BlockSize /\ (p % BlockSize) = 0)

(* A fragment written at position p crosses no boundary of blocks, and its *)
(* zeros end at one.                                                       *)
Fits(f, p) ==
    /\ f.pad \in 0 .. HeaderSize - 1
    /\ f.pad # 0 => p + f.pad = BlockEnd(p)
    /\ p + f.pad + HeaderSize + Len(f.data) <= BlockEnd(p + f.pad)

FragmentTypes == {"full", "first", "middle", "last"}
FragmentSet(D) ==
    [pad : Nat, type : FragmentTypes, data : Seq(D), done : Nat, after : Nat]

LEMMA SubSeqOf ==
    ASSUME NEW S, NEW s \in Seq(S), NEW m \in 0 .. Len(s), NEW n \in m .. Len(s)
    PROVE  /\ SubSeq(s, m + 1, n) \in Seq(S) /\ Len(SubSeq(s, m + 1, n)) = n - m
           /\ \A i \in 1 .. n - m : SubSeq(s, m + 1, n)[i] = s[m + i]
<1>1. Len(s) \in Nat
  BY LenProperties
<1>2. \A i \in m + 1 .. n : s[i] \in S
  BY <1>1, ElementOfSeq
<1>3. /\ SubSeq(s, m + 1, n) \in Seq(S)
      /\ Len(SubSeq(s, m + 1, n)) = IF m + 1 <= n THEN n - (m + 1) + 1 ELSE 0
      /\ \A i \in 1 .. n - (m + 1) + 1 : SubSeq(s, m + 1, n)[i] = s[(m + 1) + i - 1]
  BY <1>1, <1>2, SubSeqProperties
<1>4. m \in Nat /\ n \in Nat /\ n - (m + 1) + 1 = n - m
  BY <1>1
<1>5. \A i \in 1 .. n - m : (m + 1) + i - 1 = m + i
  BY <1>4
<1> QED
  BY <1>3, <1>4, <1>5

(* What FragmentAt makes of the data behind the first done cells. *)
Placed(f, D, data, turn, done, o, p) ==
    /\ Fits(f, p) /\ AtOffset(f.after, p + f.pad + HeaderSize + Len(f.data))
    /\ f.done \in done .. Len(data)
    /\ f.type = Type(turn = 0, f.done = Len(data))
    /\ f.data = SubSeq(data, done + 1, f.done)
    /\ f.data \in Seq(D) /\ Len(f.data) = f.done - done
    /\ f \in FragmentSet(D)
    /\ f.done # Len(data) => f.after = BlockSize
    /\ o = BlockSize /\ done # Len(data) => f.done > done

LEMMA FragmentPlaced ==
    ASSUME NEW D, NEW data \in Seq(D), NEW turn, NEW done \in 0 .. Len(data),
           NEW p \in Nat, NEW o, AtOffset(o, p),
           NEW f, f = FragmentAt(data, turn, done, o)
    PROVE  Placed(f, D, data, turn, done, o, p)
<1> DEFINE leftover == BlockSize - o
           start    == IF leftover < HeaderSize THEN 0 ELSE o
           room     == BlockSize - start - HeaderSize
           length   == IF Len(data) - done < room THEN Len(data) - done ELSE room
           e        == BlockEnd(p)
           q        == p + f.pad
<1>1. /\ BlockSize \in Nat /\ HeaderSize \in Nat /\ BlockSize > HeaderSize /\ HeaderSize > 1
      /\ Len(data) \in Nat /\ done \in Nat /\ o \in 0 .. BlockSize
  BY FormatAssumption, LenProperties DEF AtOffset
<1>2. /\ f.pad = (IF leftover < HeaderSize THEN leftover ELSE 0)
      /\ f.type = Type(turn = 0, done + length = Len(data))
      /\ f.data = SubSeq(data, done + 1, done + length)
      /\ f.done = done + length
      /\ f.after = start + HeaderSize + length
  BY DEF FragmentAt
<1>3. room \in Nat /\ length \in 0 .. room /\ done + length \in done .. Len(data)
      /\ start \in Nat /\ leftover \in Nat
      /\ (done + length # Len(data) => length = room)
  BY <1>1
<1>4. e \in Nat /\ e > p /\ e = p + (BlockSize - (p % BlockSize))
      /\ (p % BlockSize) \in 0 .. BlockSize - 1
  BY BlockEndIs
<1>5. f.data \in Seq(D) /\ Len(f.data) = length
  <2> HIDE DEF length
  <2>1. /\ SubSeq(data, done + 1, done + length) \in Seq(D)
        /\ Len(SubSeq(data, done + 1, done + length)) = (done + length) - done
    BY <1>3, SubSeqOf
  <2> QED
    BY <1>1, <1>2, <1>3, <2>1
<1>6. /\ f.pad \in 0 .. HeaderSize - 1 /\ q \in Nat /\ p <= q
      /\ f.pad # 0 => q = e
      /\ q + HeaderSize + room = BlockEnd(q)
      /\ start + HeaderSize + room = BlockSize
      /\ (q % BlockSize) = start
  <2>1. CASE o = BlockSize /\ (p % BlockSize) = 0
    <3>1. leftover = 0 /\ start = 0
      BY <1>1, <2>1
    <3>2. f.pad = 0
      BY <1>1, <1>2, <3>1
    <3>3. q = p
      BY <3>2
    <3> HIDE DEF leftover, start, q
    <3> QED
      BY <1>1, <1>4, <2>1, <3>1, <3>2, <3>3
  <2>2. CASE o = (p % BlockSize) /\ leftover < HeaderSize
    <3>1. f.pad = leftover /\ start = 0 /\ q = e /\ f.pad # 0
      BY <1>1, <1>2, <1>4, <2>2
    <3>2. (e % BlockSize) = 0 /\ BlockEnd(e) = e + BlockSize
      BY EndIsMultiple
    <3> QED
      BY <1>1, <1>2, <1>4, <2>2, <3>1, <3>2
  <2>3. CASE o = (p % BlockSize) /\ ~(leftover < HeaderSize)
    BY <1>1, <1>2, <1>4, <2>3
  <2> QED
    BY <2>1, <2>2, <2>3 DEF AtOffset
<1>7. Fits(f, p)
  <2> HIDE DEF room, length, q
  <2>1. q + HeaderSize + Len(f.data) <= BlockEnd(q)
    BY <1>1, <1>3, <1>5, <1>6
  <2> QED
    BY <1>6, <2>1 DEF Fits, q, e
<1>8. AtOffset(f.after, q + HeaderSize + Len(f.data))
  <2> DEFINE r == q + HeaderSize + Len(f.data)
  <2>1. r \in Nat /\ r <= BlockEnd(q) /\ q <= r /\ BlockEnd(q) = q + (BlockSize - start)
        /\ f.after = start + (r - q) /\ f.after \in 0 .. BlockSize
        /\ (r = BlockEnd(q) => f.after = BlockSize)
    <3>1. BlockEnd(q) = q + (BlockSize - start) /\ r = q + HeaderSize + length
      BY <1>1, <1>3, <1>5, <1>6
    <3>2. f.after = start + HeaderSize + length /\ room = BlockSize - start - HeaderSize
      BY <1>2
    <3> HIDE DEF r, start, q, length, room, leftover
    <3> QED
      BY <1>1, <1>3, <1>6, <3>1, <3>2
  <2> HIDE DEF r, start, q, length, room, leftover
  <2>2. CASE r = BlockEnd(q)
    <3>1. (r % BlockSize) = 0
      BY <1>6, <2>2, EndIsMultiple
    <3> QED
      BY <2>1, <2>2, <3>1 DEF AtOffset, r
  <2>3. CASE r < BlockEnd(q)
    <3>1. BlockEnd(r) = BlockEnd(q)
      BY <1>6, <2>1, <2>3, SameBlock
    <3>2. BlockEnd(r) = r + (BlockSize - (r % BlockSize)) /\ (r % BlockSize) \in 0 .. BlockSize - 1
      BY <2>1, BlockEndIs
    <3>3. f.after = (r % BlockSize)
      BY <1>1, <1>3, <1>6, <2>1, <3>1, <3>2
    <3> QED
      BY <2>1, <3>3 DEF AtOffset, r
  <2> QED
    <3>1. BlockEnd(q) \in Nat
      BY <1>6, BlockEndIs
    <3>2. r = BlockEnd(q) \/ r < BlockEnd(q)
      BY <2>1, <3>1
    <3> QED
      BY <2>2, <2>3, <3>2 DEF r
<1>9. /\ f.done # Len(data) => f.after = BlockSize
      /\ o = BlockSize /\ done # Len(data) => f.done > done
  BY <1>1, <1>2, <1>3, <1>6
<1>10. f.type = Type(turn = 0, f.done = Len(data)) /\ f.data = SubSeq(data, done + 1, f.done)
  <2> HIDE DEF length
  <2> QED
    BY <1>2, Zenon
<1>11. f.done \in done .. Len(data) /\ Len(f.data) = f.done - done
  <2> HIDE DEF length
  <2> QED
    BY <1>1, <1>2, <1>3, <1>5
<1>12. f \in FragmentSet(D)
  <2>1. f.pad \in Nat /\ f.done \in Nat /\ f.after \in Nat
    <3>1. f.after = start + HeaderSize + length
      BY <1>2
    <3> HIDE DEF q, leftover, start, room, length
    <3> QED
      BY <1>1, <1>3, <1>6, <1>11, <3>1
  <2>2. f.type \in FragmentTypes
    <3>1. f.type = Type(turn = 0, f.done = Len(data))
      BY <1>10
    <3>2. \A a, b : Type(a, b) \in FragmentTypes
      BY Zenon DEF Type, FragmentTypes
    <3>3. Type(turn = 0, f.done = Len(data)) \in FragmentTypes
      BY <3>2, Zenon
    <3> QED
      BY <3>1, <3>3, Zenon
  <2>3. f = [pad |-> f.pad, type |-> f.type, data |-> f.data, done |-> f.done, after |-> f.after]
    BY Zenon DEF FragmentAt
  <2> HIDE DEF q, leftover, start, room, length
  <2> QED
    BY <1>5, <2>1, <2>2, <2>3, Zenon DEF FragmentSet
<1> QED
  <2> HIDE DEF leftover, start, room, length
  <2> QED
    BY <1>5, <1>7, <1>8, <1>9, <1>10, <1>11, <1>12, Zenon DEF Placed

(* The recursion of Fragments, for its first n turns. *)
IsTurns(turns, n, data, from) ==
    turns = [i \in 0 .. n |->
               IF i = 0 THEN <<FragmentAt(data, 0, 0, from)>>
               ELSE LET last == turns[i - 1][Len(turns[i - 1])]
                    IN  IF last.done = Len(data) THEN turns[i - 1]
                        ELSE Append(turns[i - 1],
                                    FragmentAt(data, i, last.done, last.after))]

LEMMA TurnsExist ==
    ASSUME NEW data, NEW from, NEW n \in Nat
    PROVE  \E turns : IsTurns(turns, n, data, from)
<1> DEFINE Step(t, i) == LET last == t[Len(t)]
                      IN  IF last.done = Len(data) THEN t
                          ELSE Append(t, FragmentAt(data, i, last.done, last.after))
           first == <<FragmentAt(data, 0, 0, from)>>
           Is(t, m) == t = [i \in 0 .. m |-> IF i = 0 THEN first ELSE Step(t[i - 1], i)]
           S == {m \in 0 .. n : \E t : Is(t, m)}
<1>1. \A t, m : Is(t, m) <=> IsTurns(t, m, data, from)
  BY Zenon DEF IsTurns
<1> HIDE DEF Step, first
<1>2. 0 \in S
  <2> DEFINE t == [i \in 0 .. 0 |-> first]
  <2>1. Is(t, 0)
    OBVIOUS
  <2> HIDE DEF t
  <2> QED
    BY <2>1
<1>3. ASSUME NEW m \in 1 .. n, m - 1 \in S
      PROVE  m \in S
  <2>1. PICK t : Is(t, m - 1)
    BY <1>3
  <2> DEFINE u == [i \in 0 .. m |-> IF i = m THEN Step(t[m - 1], m) ELSE t[i]]
  <2>2. \A i \in 0 .. m : u[i] = IF i = 0 THEN first ELSE Step(u[i - 1], i)
    <3> TAKE i \in 0 .. m
    <3>1. CASE i = m
      <4>1. i # 0 /\ u[i] = Step(t[m - 1], m) /\ u[m - 1] = t[m - 1]
        BY <3>1
      <4> QED
        BY <3>1, <4>1
    <3>2. CASE i # m
      <4>1. i \in 0 .. m - 1 /\ u[i] = t[i]
        BY <3>2
      <4>2. t[i] = IF i = 0 THEN first ELSE Step(t[i - 1], i)
        BY <2>1, <4>1
      <4>3. i # 0 => u[i - 1] = t[i - 1]
        BY <4>1
      <4> QED
        BY <4>1, <4>2, <4>3
    <3> QED
      BY <3>1, <3>2
  <2>3. u = [i \in 0 .. m |-> u[i]]
    OBVIOUS
  <2> HIDE DEF u
  <2>4. Is(u, m)
    BY <2>2, <2>3
  <2> QED
    BY <2>4
<1> HIDE DEF S, Is
<1>4. \A m \in 0 .. n : m \in S
  BY <1>2, <1>3, UpToInduction
<1>5. \E t : Is(t, n)
  BY <1>4 DEF S
<1> QED
  BY <1>1, <1>5, Zenon

(* The fragments of a record, one behind the other. *)
IsFragments(fs, data, from) ==
    /\ Len(fs) \in Nat \ {0} /\ DOMAIN fs = 1 .. Len(fs)
    /\ fs[1] = FragmentAt(data, 0, 0, from)
    /\ \A i \in 1 .. Len(fs) - 1 :
         /\ fs[i].done # Len(data)
         /\ fs[i + 1] = FragmentAt(data, i, fs[i].done, fs[i].after)

(* Fragments after i turns: there are no more, or the last one fills its   *)
(* block and i cells are written.                                          *)
Turned(fs, i, D, data, from) ==
    /\ fs \in Seq(FragmentSet(D)) /\ IsFragments(fs, data, from)
    /\ \E q \in Nat : AtOffset(fs[Len(fs)].after, q)
    /\ fs[Len(fs)].done \in 0 .. Len(data)
    /\ fs[Len(fs)].done # Len(data) =>
         fs[Len(fs)].after = BlockSize /\ fs[Len(fs)].done >= i /\ Len(fs) = i + 1

LEMMA FragmentsHold ==
    ASSUME NEW D, NEW data \in Seq(D), NEW p \in Nat, NEW from, AtOffset(from, p)
    PROVE  /\ Fragments(data, from) \in Seq(FragmentSet(D))
           /\ IsFragments(Fragments(data, from), data, from)
           /\ Fragments(data, from)[Len(Fragments(data, from))].done = Len(data)
<1> DEFINE n == Len(data)
           t == CHOOSE t : IsTurns(t, n, data, from)
           G == {i \in 0 .. n : Turned(t[i], i, D, data, from)}
<1>1. n \in Nat
  BY LenProperties
<1>2. Fragments(data, from) = t[n]
  BY Zenon DEF Fragments, IsTurns
<1>3. IsTurns(t, n, data, from)
  BY <1>1, TurnsExist, Zenon
<1> HIDE DEF t, n
<1>4. \A i \in 0 .. n :
        t[i] = IF i = 0 THEN <<FragmentAt(data, 0, 0, from)>>
               ELSE LET last == t[i - 1][Len(t[i - 1])]
                    IN  IF last.done = Len(data) THEN t[i - 1]
                        ELSE Append(t[i - 1], FragmentAt(data, i, last.done, last.after))
  BY <1>3, Zenon DEF IsTurns
<1>5. 0 \in G
  <2> DEFINE f == FragmentAt(data, 0, 0, from)
             fs == <<f>>
  <2>1. t[0] = fs
    BY <1>1, <1>4
  <2>2. 0 \in 0 .. Len(data)
    BY <1>1 DEF n
  <2>3. /\ f.done \in 0 .. n /\ f \in FragmentSet(D)
        /\ \E q \in Nat : AtOffset(f.after, q)
        /\ f.done # n => f.after = BlockSize
    <3>0. Placed(f, D, data, 0, 0, from, p)
      BY <2>2, FragmentPlaced
    <3> HIDE DEF f, fs
    <3>1. /\ Fits(f, p) /\ AtOffset(f.after, p + f.pad + HeaderSize + Len(f.data))
          /\ f.done \in 0 .. Len(data) /\ f.data \in Seq(D) /\ f \in FragmentSet(D)
          /\ f.done # Len(data) => f.after = BlockSize
      BY <3>0 DEF Placed
    <3>2. p + f.pad + HeaderSize + Len(f.data) \in Nat
      BY <3>1, FormatAssumption, LenProperties DEF Fits
    <3> QED
      BY <3>1, <3>2 DEF n
  <2> HIDE DEF f
  <2>4. fs \in Seq(FragmentSet(D)) /\ Len(fs) = 1 /\ fs[1] = f /\ DOMAIN fs = 1 .. 1
    BY <2>3
  <2> HIDE DEF fs
  <2>5. IsFragments(fs, data, from)
    BY <2>4 DEF IsFragments, f
  <2>6. Turned(fs, 0, D, data, from)
    BY <1>1, <2>3, <2>4, <2>5 DEF Turned, n
  <2> QED
    BY <1>1, <2>1, <2>6
<1>6. ASSUME NEW i \in 1 .. n, i - 1 \in G
      PROVE  i \in G
  <2> DEFINE fs == t[i - 1]
             last == fs[Len(fs)]
             f == FragmentAt(data, i, last.done, last.after)
             hs == Append(fs, f)
  <2>1. i \in 0 .. n /\ i # 0
    BY <1>1
  <2>2. t[i] = IF last.done = n THEN fs ELSE hs
    BY <1>4, <2>1 DEF n
  <2>3. Turned(fs, i - 1, D, data, from)
    BY <1>6 DEF G
  <2> HIDE DEF fs
  <2>4. CASE last.done = n
    <3>1. Turned(fs, i, D, data, from)
      BY <2>3, <2>4 DEF Turned, n
    <3> QED
      BY <2>1, <2>2, <2>4, <3>1
  <2>5. CASE last.done # n
    <3>1. PICK q \in Nat : AtOffset(last.after, q)
      BY <2>3 DEF Turned
    <3>2. last.done \in 0 .. Len(data) /\ last.after = BlockSize /\ last.done # Len(data)
      BY <2>3, <2>5 DEF Turned, n
    <3>0. Placed(f, D, data, i, last.done, last.after, q)
      BY <3>1, <3>2, FragmentPlaced
    <3> HIDE DEF f
    <3>3. /\ Fits(f, q) /\ AtOffset(f.after, q + f.pad + HeaderSize + Len(f.data))
          /\ f.done \in last.done .. Len(data) /\ f.data \in Seq(D)
          /\ f.done # Len(data) => f.after = BlockSize
          /\ f.done > last.done /\ f \in FragmentSet(D)
      BY <3>0, <3>2 DEF Placed
    <3>5. q + f.pad + HeaderSize + Len(f.data) \in Nat
      BY <3>3, FormatAssumption, LenProperties, SMTT(40) DEF Fits
    <3> HIDE DEF f, last
    <3>6. Len(fs) \in Nat /\ Len(fs) # 0 /\ Len(fs) = i /\ fs[1] = FragmentAt(data, 0, 0, from)
      <4>1. Len(fs) \in Nat /\ Len(fs) # 0 /\ fs[1] = FragmentAt(data, 0, 0, from)
        BY <2>3 DEF Turned, IsFragments
      <4>2. Len(fs) = (i - 1) + 1
        BY <2>3, <2>5 DEF Turned, n, last
      <4> QED
        BY <2>1, <4>1, <4>2
    <3>4. fs \in Seq(FragmentSet(D)) /\ hs \in Seq(FragmentSet(D))
      <4>1. fs \in Seq(FragmentSet(D))
        BY <2>3 DEF Turned
      <4> QED
        BY <3>3, <4>1, AppendProperties
    <3>7. /\ Len(hs) = Len(fs) + 1
          /\ \A j \in 1 .. Len(fs) : hs[j] = fs[j]
          /\ hs[Len(fs) + 1] = f
      BY <3>3, <3>4, AppendProperties
    <3>8. DOMAIN hs = 1 .. Len(hs)
      BY <3>4, LenProperties
    <3> HIDE DEF hs
    <3>9. IsFragments(hs, data, from)
      <4>1. hs[1] = FragmentAt(data, 0, 0, from)
        BY <3>6, <3>7
      <4>2. ASSUME NEW j \in 1 .. Len(hs) - 1
            PROVE  /\ hs[j].done # Len(data)
                   /\ hs[j + 1] = FragmentAt(data, j, hs[j].done, hs[j].after)
        <5>1. CASE j = Len(fs)
          BY <3>2, <3>6, <3>7, <5>1 DEF last, f
        <5>2. CASE j # Len(fs)
          <6>1. j \in 1 .. Len(fs) - 1 /\ j \in 1 .. Len(fs) /\ j + 1 \in 1 .. Len(fs)
            BY <3>6, <3>7, <5>2
          <6> QED
            BY <2>3, <3>7, <6>1 DEF Turned, IsFragments
        <5> QED
          BY <5>1, <5>2
      <4> QED
        BY <3>6, <3>7, <3>8, <4>1, <4>2 DEF IsFragments
    <3>10. Turned(hs, i, D, data, from)
      <4>1. hs[Len(hs)] = f
        BY <3>7
      <4>2. f.done # n => f.done >= i
        BY <2>1, <2>3, <2>5, <3>2, <3>3 DEF Turned, n, last
      <4>5. f.done # n => Len(hs) = i + 1
        BY <2>1, <2>3, <2>5, <3>6, <3>7 DEF Turned, n, last
      <4>3. f.done \in 0 .. n
        BY <1>1, <3>2, <3>3 DEF n
      <4>4. \E r \in Nat : AtOffset(f.after, r)
        BY <3>3, <3>5
      <4> QED
        BY <3>3, <3>4, <3>7, <3>9, <4>1, <4>2, <4>3, <4>4, <4>5 DEF Turned, n
    <3> QED
      BY <2>1, <2>2, <2>5, <3>10
  <2> QED
    BY <2>4, <2>5
<1> HIDE DEF G
<1>7. \A i \in 0 .. n : i \in G
  BY <1>1, <1>5, <1>6, UpToInduction
<1>8. Turned(t[n], n, D, data, from)
  BY <1>1, <1>7 DEF G
<1>9. t[n][Len(t[n])].done = n
  BY <1>1, <1>8 DEF Turned, n
<1> QED
  BY <1>2, <1>8, <1>9 DEF Turned, n

-----------------------------------------------------------------------------
(* Cells *)

HeaderCell(i, type, data) == <<"header", i, type, data>>
HeaderCells(D) == {HeaderCell(c[1], c[2], c[3]) : c \in (1 .. HeaderSize) \X FragmentTypes \X Seq(D)}
CellSet(D) == D \union {Zero} \union HeaderCells(D)

LEMMA CellsDiffer ==
    /\ \A i, type, data : HeaderCell(i, type, data) # Zero
    /\ \A i, type, data : /\ HeaderCell(i, type, data)[1] = "header"
                          /\ HeaderCell(i, type, data)[3] = type
                          /\ HeaderCell(i, type, data)[4] = data
BY DEF HeaderCell, Zero

LEMMA HeaderHolds ==
    ASSUME NEW D, NEW type \in FragmentTypes, NEW data \in Seq(D)
    PROVE  /\ Header(type, data) \in Seq(CellSet(D)) /\ Len(Header(type, data)) = HeaderSize
           /\ \A i \in 1 .. HeaderSize : Header(type, data)[i] = HeaderCell(i, type, data)
<1> DEFINE h == [i \in 1 .. HeaderSize |-> HeaderCell(i, type, data)]
<1>1. Header(type, data) = h
  BY Zenon DEF Header, HeaderCell
<1>2. HeaderSize \in Nat
  BY FormatAssumption
<1>3. ASSUME NEW i \in 1 .. HeaderSize
      PROVE  HeaderCell(i, type, data) \in CellSet(D)
  <2>1. <<i, type, data>> \in (1 .. HeaderSize) \X FragmentTypes \X Seq(D)
    OBVIOUS
  <2>2. HeaderCell(i, type, data) \in HeaderCells(D)
    BY <2>1 DEF HeaderCells
  <2> QED
    BY <2>2 DEF CellSet
<1> DEFINE T == CellSet(D)
<1>4. h \in [1 .. HeaderSize -> T]
  BY <1>3
<1>5. \A i \in 1 .. HeaderSize : h[i] = HeaderCell(i, type, data)
  OBVIOUS
<1> HIDE DEF h, T
<1>6. h \in Seq(T)
  BY <1>2, <1>4, SeqDef
<1>7. Len(h) = HeaderSize
  BY <1>2, <1>4, <1>6, LenProperties
<1> QED
  BY <1>1, <1>5, <1>6, <1>7 DEF T

LEMMA ZerosHold ==
    ASSUME NEW D, NEW n \in Nat
    PROVE  /\ [i \in 1 .. n |-> Zero] \in Seq(CellSet(D)) /\ Len([i \in 1 .. n |-> Zero]) = n
<1> DEFINE z == [i \in 1 .. n |-> Zero]
           T == CellSet(D)
<1>1. z \in [1 .. n -> T]
  BY DEF CellSet
<1> HIDE DEF z, T
<1>2. z \in Seq(T)
  BY <1>1, SeqDef
<1>3. Len(z) = n
  BY <1>1, <1>2, LenProperties
<1> QED
  BY <1>2, <1>3 DEF z, T

(* What a fragment looks like in a file. *)
LEMMA CellsHold ==
    ASSUME NEW D, NEW f \in FragmentSet(D)
    PROVE  /\ Cells(f) \in Seq(CellSet(D))
           /\ Len(Cells(f)) = f.pad + HeaderSize + Len(f.data)
           /\ \A i \in 1 .. f.pad : Cells(f)[i] = Zero
           /\ \A i \in 1 .. HeaderSize : Cells(f)[f.pad + i] = HeaderCell(i, f.type, f.data)
           /\ \A i \in 1 .. Len(f.data) : Cells(f)[f.pad + HeaderSize + i] = f.data[i]
<1> DEFINE T == CellSet(D)
           z == [i \in 1 .. f.pad |-> Zero]
           h == Header(f.type, f.data)
           d == f.data
<1>1. f.pad \in Nat /\ f.type \in FragmentTypes /\ d \in Seq(D) /\ HeaderSize \in Nat
  BY FormatAssumption DEF FragmentSet
<1>2. z \in Seq(T) /\ Len(z) = f.pad /\ \A i \in 1 .. f.pad : z[i] = Zero
  BY <1>1, ZerosHold
<1>3. /\ h \in Seq(T) /\ Len(h) = HeaderSize
      /\ \A i \in 1 .. HeaderSize : h[i] = HeaderCell(i, f.type, f.data)
  BY <1>1, HeaderHolds
<1>4. d \in Seq(T)
  <2>1. D \subseteq T
    BY DEF CellSet
  <2> HIDE DEF T, d
  <2> QED
    BY <1>1, <2>1, SeqMonotonic
<1>5. Cells(f) = z \o h \o d
  BY Zenon DEF Cells
<1>6. Len(d) \in Nat
  BY <1>1, LenProperties
<1> HIDE DEF T, z, h, d
<1>7. /\ z \o h \in Seq(T) /\ Len(z \o h) = f.pad + HeaderSize
      /\ \A i \in 1 .. f.pad + HeaderSize :
           (z \o h)[i] = IF i <= f.pad THEN z[i] ELSE h[i - f.pad]
  <2>1. /\ z \o h \in Seq(T) /\ Len(z \o h) = Len(z) + Len(h)
        /\ \A i \in 1 .. Len(z) + Len(h) :
             (z \o h)[i] = IF i <= Len(z) THEN z[i] ELSE h[i - Len(z)]
    <3>1. z \in Seq(T) /\ h \in Seq(T)
      BY <1>2, <1>3
    <3> QED
      BY <3>1, ConcatProperties
  <2>2. Len(z) = f.pad /\ Len(h) = HeaderSize
    BY <1>2, <1>3
  <2> QED
    BY <2>1, <2>2
<1> DEFINE zh == z \o h
<1> HIDE DEF zh
<1>8. /\ zh \o d \in Seq(T) /\ Len(zh \o d) = f.pad + HeaderSize + Len(d)
      /\ \A i \in 1 .. f.pad + HeaderSize + Len(d) :
           (zh \o d)[i] = IF i <= f.pad + HeaderSize THEN zh[i] ELSE d[i - (f.pad + HeaderSize)]
  BY <1>4, <1>7, ConcatProperties DEF zh
<1> DEFINE c == zh \o d
<1>9. Cells(f) = c
  BY <1>5 DEF zh
<1> HIDE DEF c
<1>10. \A i \in 1 .. f.pad : c[i] = Zero
  BY <1>1, <1>2, <1>6, <1>7, <1>8 DEF zh, c
<1>11. ASSUME NEW i \in 1 .. HeaderSize
       PROVE  c[f.pad + i] = HeaderCell(i, f.type, f.data)
  <2>1. /\ f.pad + i \in 1 .. f.pad + HeaderSize /\ f.pad + i \in 1 .. f.pad + HeaderSize + Len(d)
        /\ ~(f.pad + i <= f.pad) /\ (f.pad + i) - f.pad = i /\ f.pad + i <= f.pad + HeaderSize
    BY <1>1, <1>6
  <2> QED
    BY <1>3, <1>7, <1>8, <2>1 DEF zh, c
<1>12. ASSUME NEW i \in 1 .. Len(d)
       PROVE  c[f.pad + HeaderSize + i] = d[i]
  <2>1. /\ f.pad + HeaderSize + i \in 1 .. f.pad + HeaderSize + Len(d)
        /\ ~(f.pad + HeaderSize + i <= f.pad + HeaderSize)
        /\ (f.pad + HeaderSize + i) - (f.pad + HeaderSize) = i
    BY <1>1, <1>6
  <2> QED
    BY <1>8, <2>1 DEF c
<1> QED
  BY <1>8, <1>9, <1>10, <1>11, <1>12 DEF T, c, d

(* Sequences put one behind the other: where each of them is. *)
Joins(w, g, n) == w[0] = <<>> /\ \A i \in 1 .. n : w[i] = w[i - 1] \o g[i]

Pieced(w, g, n, T) ==
    \A m \in 0 .. n :
      /\ w[m] \in Seq(T) /\ Len(w[m]) \in Nat
      /\ \A i \in 1 .. m :
           /\ Len(w[i]) = Len(w[i - 1]) + Len(g[i]) /\ Len(w[i]) <= Len(w[m])
           /\ \A t \in 1 .. Len(g[i]) : w[m][Len(w[i - 1]) + t] = g[i][t]

LEMMA JoinedPieces ==
    ASSUME NEW T, NEW n \in Nat, NEW w, NEW g, Joins(w, g, n), \A i \in 1 .. n : g[i] \in Seq(T)
    PROVE  Pieced(w, g, n, T)
<1> DEFINE P(m) == /\ w[m] \in Seq(T) /\ Len(w[m]) \in Nat
                   /\ \A i \in 1 .. m :
                        /\ Len(w[i]) = Len(w[i - 1]) + Len(g[i]) /\ Len(w[i]) <= Len(w[m])
                        /\ \A t \in 1 .. Len(g[i]) : w[m][Len(w[i - 1]) + t] = g[i][t]
           S == {m \in 0 .. n : P(m) /\ \A i \in 0 .. m : P(i)}
<1>1. 0 \in S
  <2>1. w[0] = <<>> /\ <<>> \in Seq(T) /\ Len(<<>>) = 0
    BY EmptySeq DEF Joins
  <2> HIDE DEF P
  <2>2. P(0)
    BY <2>1 DEF P
  <2> QED
    BY <2>2
<1>2. ASSUME NEW m \in 1 .. n, m - 1 \in S
      PROVE  m \in S
  <2> DEFINE a == w[m - 1]
             b == g[m]
             c == w[m]
  <2>1. P(m - 1) /\ \A i \in 0 .. m - 1 : P(i)
    BY <1>2
  <2>2. a \in Seq(T) /\ b \in Seq(T) /\ c = a \o b
    BY <2>1 DEF Joins
  <2>3. Len(a) \in Nat /\ Len(b) \in Nat
    BY <2>2, LenProperties
  <2> HIDE DEF a, b, c
  <2>4. /\ c \in Seq(T) /\ Len(c) = Len(a) + Len(b)
        /\ \A i \in 1 .. Len(a) + Len(b) : c[i] = IF i <= Len(a) THEN a[i] ELSE b[i - Len(a)]
    BY <2>2, ConcatProperties
  <2>5. ASSUME NEW i \in 1 .. m
        PROVE  /\ Len(w[i]) = Len(w[i - 1]) + Len(g[i]) /\ Len(w[i]) <= Len(c)
               /\ \A t \in 1 .. Len(g[i]) : c[Len(w[i - 1]) + t] = g[i][t]
    <3>1. CASE i = m
      <4>1. w[i] = c /\ w[i - 1] = a /\ g[i] = b
        BY <3>1 DEF a, b, c
      <4>2. ASSUME NEW t \in 1 .. Len(b)
            PROVE  c[Len(a) + t] = b[t]
        <5>1. /\ Len(a) + t \in 1 .. Len(a) + Len(b) /\ ~(Len(a) + t <= Len(a))
              /\ (Len(a) + t) - Len(a) = t
          BY <2>3
        <5> QED
          BY <2>4, <5>1
      <4> QED
        BY <2>3, <2>4, <4>1, <4>2
    <3>2. CASE i # m
      <4>1. i \in 1 .. m - 1 /\ i \in 0 .. m - 1 /\ i - 1 \in 0 .. m - 1
        BY <3>2
      <4>2. /\ Len(w[i]) = Len(w[i - 1]) + Len(g[i]) /\ Len(w[i]) <= Len(a)
            /\ \A t \in 1 .. Len(g[i]) : a[Len(w[i - 1]) + t] = g[i][t]
        BY <2>1, <4>1 DEF a
      <4>3. Len(w[i]) \in Nat /\ Len(w[i - 1]) \in Nat
        BY <2>1, <4>1
      <4> DEFINE x == Len(w[i - 1])
                 y == Len(g[i])
                 z == Len(w[i])
      <4>4. x \in Nat /\ z \in Nat /\ z = x + y /\ z <= Len(a) /\ y \in Nat
        <5>1. g[i] \in Seq(T)
          BY <4>1
        <5> QED
          BY <4>2, <4>3, <5>1, LenProperties
      <4>5. ASSUME NEW t \in 1 .. y
            PROVE  c[x + t] = g[i][t]
        <5>1. x + t \in 1 .. Len(a) + Len(b) /\ x + t <= Len(a)
          <6> HIDE DEF x, y, z
          <6> QED
            BY <2>3, <4>4
        <5>2. c[x + t] = a[x + t]
          BY <2>4, <5>1
        <5> QED
          BY <4>2, <5>2
      <4>6. Len(w[i]) <= Len(c)
        <5>1. Len(c) = Len(a) + Len(b)
          BY <2>4
        <5> HIDE DEF x, y, z
        <5>2. z <= Len(c)
          BY <2>3, <4>4, <5>1
        <5> QED
          BY <5>2 DEF z
      <4> HIDE DEF x, y, z
      <4>7. \A t \in 1 .. y : c[x + t] = g[i][t]
        BY <4>5
      <4> QED
        BY <4>2, <4>6, <4>7 DEF x, y
    <3> QED
      BY <3>1, <3>2
  <2>6. P(m)
    <3>1. Len(c) \in Nat
      BY <2>3, <2>4
    <3>2. /\ c \in Seq(T) /\ Len(c) \in Nat
          /\ \A i \in 1 .. m :
               /\ Len(w[i]) = Len(w[i - 1]) + Len(g[i]) /\ Len(w[i]) <= Len(c)
               /\ \A t \in 1 .. Len(g[i]) : c[Len(w[i - 1]) + t] = g[i][t]
      BY <2>4, <2>5, <3>1, Zenon
    <3> QED
      BY <3>2, Zenon DEF c
  <2>7. \A i \in 0 .. m : P(i)
    <3> HIDE DEF P
    <3> QED
      BY <2>1, <2>6
  <2> HIDE DEF P
  <2> QED
    BY <2>6, <2>7
<1> HIDE DEF P, S
<1>3. \A m \in 0 .. n : m \in S
  BY <1>1, <1>2, UpToInduction
<1>4. \A m \in 0 .. n : P(m)
  BY <1>3 DEF S
<1> QED
  BY <1>4 DEF P, Pieced

-----------------------------------------------------------------------------
(* What AddRecord writes *)

(* How many cells of the record are in front of its i-th fragment, and     *)
(* block_offset_ there.                                                    *)
Before(fs, i) == IF i = 1 THEN 0 ELSE fs[i - 1].done
OffsetOf(fs, from, i) == IF i = 1 THEN from ELSE fs[i - 1].after

(* The cells of the fragments of a record, the i-th of which ends at       *)
(* ends[i], for a writer at position p.                                    *)
Laid(ends, fs, D, data, from, p, cells) ==
    /\ ends[0] = 0 /\ ends[Len(fs)] = Len(cells) /\ \A i \in 0 .. Len(fs) : ends[i] \in Nat
    /\ \A i \in 1 .. Len(fs) :
         /\ Before(fs, i) \in 0 .. Len(data)
         /\ Placed(fs[i], D, data, i - 1, Before(fs, i), OffsetOf(fs, from, i), p + ends[i - 1])
         /\ ends[i] = ends[i - 1] + Len(Cells(fs[i])) /\ ends[i] <= Len(cells)
         /\ \A t \in 1 .. Len(Cells(fs[i])) : cells[ends[i - 1] + t] = Cells(fs[i])[t]

LEMMA EmittedJoins ==
    ASSUME NEW fs, Len(fs) \in Nat
    PROVE  \E w : Emitted(fs) = w[Len(fs)] /\ Joins(w, [i \in 1 .. Len(fs) |-> Cells(fs[i])], Len(fs))
<1> DEFINE n == Len(fs)
           g == [i \in 1 .. n |-> Cells(fs[i])]
           Is(w) == w = [i \in 0 .. n |-> IF i = 0 THEN <<>> ELSE w[i - 1] \o Cells(fs[i])]
           w == CHOOSE w : Is(w)
<1>1. PICK u : IsConcat(u, n, g)
  BY ConcatExists
<1>2. Is(u)
  <2> DEFINE v == [i \in 0 .. n |-> IF i = 0 THEN <<>> ELSE u[i - 1] \o Cells(fs[i])]
  <2>1. u = [i \in 0 .. n |-> IF i = 0 THEN <<>> ELSE u[i - 1] \o g[i]]
    BY <1>1 DEF IsConcat
  <2>2. \A i \in 0 .. n : i # 0 => g[i] = Cells(fs[i])
    OBVIOUS
  <2> HIDE DEF g
  <2>3. \A i \in 0 .. n : (IF i = 0 THEN <<>> ELSE u[i - 1] \o g[i])
                            = IF i = 0 THEN <<>> ELSE u[i - 1] \o Cells(fs[i])
    BY <2>2
  <2> QED
    BY <2>1, <2>3, Zenon
<1>3. Is(w)
  BY <1>2, Zenon
<1>4. Emitted(fs) = w[n]
  BY Zenon DEF Emitted
<1> HIDE DEF w
<1>5. w[0] = <<>> /\ \A i \in 1 .. n : w[i] = w[i - 1] \o Cells(fs[i])
  <2>1. \A i \in 0 .. n : w[i] = IF i = 0 THEN <<>> ELSE w[i - 1] \o Cells(fs[i])
    BY <1>3, Zenon
  <2>2. 0 \in 0 .. n /\ \A i \in 1 .. n : i \in 0 .. n /\ i # 0
    OBVIOUS
  <2> QED
    BY <2>1, <2>2, Zenon
<1>6. \A i \in 1 .. n : g[i] = Cells(fs[i])
  OBVIOUS
<1>7. Joins(w, g, n)
  BY <1>5, <1>6, Zenon DEF Joins
<1> QED
  BY <1>4, <1>7

LEMMA EmittedLaid ==
    ASSUME NEW D, NEW data \in Seq(D), NEW p \in Nat, NEW from, AtOffset(from, p),
           NEW fs, fs = Fragments(data, from)
    PROVE  /\ Emitted(fs) \in Seq(CellSet(D))
           /\ \E ends : Laid(ends, fs, D, data, from, p, Emitted(fs))
<1> DEFINE n == Len(fs)
           g == [i \in 1 .. n |-> Cells(fs[i])]
           T == CellSet(D)
<1>1. /\ fs \in Seq(FragmentSet(D)) /\ IsFragments(fs, data, from)
      /\ fs[Len(fs)].done = Len(data)
  BY FragmentsHold
<1>2. n \in Nat /\ n # 0
  BY <1>1 DEF IsFragments
<1>3. \A i \in 1 .. n : fs[i] \in FragmentSet(D)
  BY <1>1, ElementOfSeq
<1>4. \A i \in 1 .. n : g[i] = Cells(fs[i]) /\ g[i] \in Seq(T)
  BY <1>3, CellsHold
<1>5. PICK w : Emitted(fs) = w[n] /\ Joins(w, g, n)
  BY <1>2, EmittedJoins
<1> HIDE DEF g, T, n
<1>17. Pieced(w, g, n, T)
  BY <1>2, <1>4, <1>5, JoinedPieces
<1>6. \A m \in 0 .. n :
        /\ w[m] \in Seq(T) /\ Len(w[m]) \in Nat
        /\ \A i \in 1 .. m :
             /\ Len(w[i]) = Len(w[i - 1]) + Len(g[i]) /\ Len(w[i]) <= Len(w[m])
             /\ \A t \in 1 .. Len(g[i]) : w[m][Len(w[i - 1]) + t] = g[i][t]
  BY <1>17 DEF Pieced
<1> DEFINE cells == Emitted(fs)
           ends == [i \in 0 .. n |-> Len(w[i])]
<1>7. ends[0] = 0 /\ ends[n] = Len(cells) /\ \A i \in 0 .. n : ends[i] \in Nat /\ ends[i] = Len(w[i])
  BY <1>2, <1>5, <1>6, EmptySeq DEF Joins
<1>8. ASSUME NEW i \in 1 .. n
      PROVE  /\ ends[i] = ends[i - 1] + Len(Cells(fs[i])) /\ ends[i] <= Len(cells)
             /\ \A t \in 1 .. Len(Cells(fs[i])) : cells[ends[i - 1] + t] = Cells(fs[i])[t]
  <2>1. i \in 0 .. n /\ i - 1 \in 0 .. n /\ n \in 0 .. n
    BY <1>2
  <2>2. /\ Len(w[i]) = Len(w[i - 1]) + Len(g[i]) /\ Len(w[i]) <= Len(w[n])
        /\ \A t \in 1 .. Len(g[i]) : w[n][Len(w[i - 1]) + t] = g[i][t]
    BY <1>6, <2>1
  <2>3. g[i] = Cells(fs[i]) /\ w[n] = cells
    BY <1>4, <1>5
  <2>4. ends[i] = Len(w[i]) /\ ends[i - 1] = Len(w[i - 1])
    BY <2>1
  <2> HIDE DEF ends, cells
  <2> QED
    BY <2>2, <2>3, <2>4
<1> HIDE DEF ends, cells
<1> DEFINE Fine(i) == /\ Before(fs, i) \in 0 .. Len(data)
                      /\ Placed(fs[i], D, data, i - 1, Before(fs, i), OffsetOf(fs, from, i),
                                p + ends[i - 1])
           S == {m \in 0 .. n : \A i \in 1 .. m : Fine(i)}
<1>9. 0 \in S
  BY <1>2
<1>10. ASSUME NEW m \in 1 .. n, m - 1 \in S
       PROVE  m \in S
  <2> DEFINE d == Before(fs, m)
             o == OffsetOf(fs, from, m)
             q == p + ends[m - 1]
  <2>1. d \in 0 .. Len(data) /\ AtOffset(o, q) /\ q \in Nat /\ fs[m] = FragmentAt(data, m - 1, d, o)
    <3>1. CASE m = 1
      <4>1. d = 0 /\ o = from /\ q = p + ends[0]
        BY <3>1 DEF Before, OffsetOf
      <4>2. Len(data) \in Nat
        BY LenProperties
      <4>3. fs[m] = FragmentAt(data, 0, 0, from)
        BY <1>1, <3>1 DEF IsFragments
      <4> HIDE DEF d, o, q
      <4>4. m - 1 = 0 /\ q = p
        BY <1>7, <3>1, <4>1
      <4> QED
        BY <4>1, <4>2, <4>3, <4>4
    <3>2. CASE m # 1
      <4>1. m - 1 \in 1 .. m - 1 /\ m - 1 \in 1 .. n /\ m - 1 \in 0 .. n /\ m - 1 \in 1 .. n - 1
            /\ (m - 1) + 1 = m /\ (m - 1) - 1 \in 0 .. n
        BY <1>2, <3>2
      <4> DEFINE e == fs[m - 1]
                 r == p + ends[(m - 1) - 1]
      <4>2. d = e.done /\ o = e.after
        BY <3>2 DEF Before, OffsetOf
      <4>3. Fine(m - 1)
        BY <1>10, <4>1
      <4>4. /\ AtOffset(e.after, r + e.pad + HeaderSize + Len(e.data))
            /\ e.done \in Before(fs, m - 1) .. Len(data) /\ Before(fs, m - 1) \in 0 .. Len(data)
        BY <4>3 DEF Placed
      <4>5. /\ ends[m - 1] = ends[(m - 1) - 1] + Len(Cells(e))
            /\ Len(Cells(e)) = e.pad + HeaderSize + Len(e.data)
        BY <1>3, <1>8, <4>1, CellsHold
      <4>6. e.pad \in Nat /\ Len(e.data) \in Nat /\ HeaderSize \in Nat
        <5>1. e \in FragmentSet(D)
          BY <1>3, <4>1
        <5>2. e.pad \in Nat /\ e.data \in Seq(D)
          BY <5>1 DEF FragmentSet
        <5> QED
          BY <5>2, LenProperties, FormatAssumption
      <4>7. ends[m - 1] \in Nat /\ ends[(m - 1) - 1] \in Nat
        BY <1>7, <4>1
      <4>8. fs[m] = FragmentAt(data, m - 1, e.done, e.after)
        <5>1. fs[(m - 1) + 1] = FragmentAt(data, m - 1, e.done, e.after)
          <6>1. m - 1 \in 1 .. Len(fs) - 1
            BY <4>1 DEF n
          <6> QED
            BY <1>1, <6>1 DEF IsFragments
        <5> QED
          BY <4>1, <5>1
      <4>9. q = r + e.pad + HeaderSize + Len(e.data) /\ q \in Nat
        <5> DEFINE x == ends[m - 1]
                   y == ends[(m - 1) - 1]
                   z == e.pad
                   l == Len(e.data)
        <5>1. x = y + (z + HeaderSize + l) /\ x \in Nat /\ y \in Nat /\ z \in Nat /\ l \in Nat
          BY <4>5, <4>6, <4>7
        <5> HIDE DEF x, y, z, l
        <5>2. p + x = p + y + z + HeaderSize + l /\ p + x \in Nat
          BY <4>6, <5>1
        <5> QED
          BY <5>2 DEF x, y, z, l
      <4> HIDE DEF e, d, o
      <4>10. e.done \in 0 .. Len(data)
        BY <4>4
      <4> QED
        BY <4>2, <4>4, <4>8, <4>9, <4>10
    <3> QED
      BY <3>1, <3>2
  <2> DEFINE f == fs[m]
  <2>2. Placed(f, D, data, m - 1, d, o, q)
    <3>1. f = FragmentAt(data, m - 1, d, o)
      BY <2>1
    <3> HIDE DEF f, d, o, q
    <3> QED
      BY <2>1, <3>1, FragmentPlaced
  <2>3. Fine(m)
    BY <2>1, <2>2
  <2> HIDE DEF Fine
  <2>4. \A i \in 1 .. m : i = m \/ i \in 1 .. m - 1
    OBVIOUS
  <2> QED
    BY <1>10, <2>3, <2>4
<1> HIDE DEF S, Fine
<1>11. \A m \in 0 .. n : m \in S
  BY <1>2, <1>9, <1>10, UpToInduction
<1>12. \A i \in 1 .. n : Fine(i)
  BY <1>2, <1>11 DEF S
<1>13. Laid(ends, fs, D, data, from, p, cells)
  BY <1>7, <1>8, <1>12, Zenon DEF Laid, Fine, n
<1>14. cells \in Seq(CellSet(D))
  <2>0. n \in 0 .. n
    BY <1>2
  <2>1. w[n] \in Seq(T)
    BY <1>6, <2>0, Zenon
  <2> QED
    BY <1>5, <2>1, Zenon DEF cells, T
<1> QED
  BY <1>13, <1>14 DEF cells

(* block_offset_ fits the length of the file: for a writer that opens it,  *)
(* and for one that has written a record, which is all Written asks of     *)
(* writers below.                                                          *)
LEMMA WriterOpens ==
    ASSUME NEW p \in Nat
    PROVE  AtOffset(p % BlockSize, p)
<1>1. BlockSize \in Nat /\ (p % BlockSize) \in 0 .. BlockSize - 1
  BY FormatAssumption, BlockPosition
<1> QED
  BY <1>1 DEF AtOffset

LEMMA WriterGoesOn ==
    ASSUME NEW D, NEW data \in Seq(D), NEW p \in Nat, NEW from, AtOffset(from, p),
           NEW fs, fs = Fragments(data, from)
    PROVE  AtOffset(fs[Len(fs)].after, p + Len(Emitted(fs)))
<1> DEFINE n == Len(fs)
           f == fs[n]
           N == Len(Emitted(fs))
<1>1. PICK ends : Laid(ends, fs, D, data, from, p, Emitted(fs))
  BY EmittedLaid
<1>2. n \in Nat \ {0} /\ n \in 1 .. n
  <2>1. IsFragments(fs, data, from)
    BY FragmentsHold
  <2>2. n \in Nat \ {0}
    BY <2>1 DEF IsFragments
  <2> HIDE DEF n
  <2> QED
    BY <2>2
<1>3. /\ ends[n] = N /\ \A i \in 0 .. n : ends[i] \in Nat
      /\ Placed(f, D, data, n - 1, Before(fs, n), OffsetOf(fs, from, n), p + ends[n - 1])
      /\ ends[n] = ends[n - 1] + Len(Cells(f))
  BY <1>1, <1>2, Zenon DEF Laid
<1>4. AtOffset(f.after, p + ends[n - 1] + f.pad + HeaderSize + Len(f.data)) /\ f \in FragmentSet(D)
  BY <1>3, Zenon DEF Placed
<1>5. Len(Cells(f)) = f.pad + HeaderSize + Len(f.data)
  BY <1>4, CellsHold
<1>6. f.pad \in Nat /\ Len(f.data) \in Nat /\ HeaderSize \in Nat
  <2>1. f.pad \in Nat /\ f.data \in Seq(D)
    BY <1>4 DEF FragmentSet
  <2>2. Len(f.data) \in Nat
    BY <2>1, LenProperties
  <2> QED
    BY <2>1, <2>2, FormatAssumption
<1>7. ends[n - 1] \in Nat
  BY <1>2, <1>3
<1> DEFINE y == ends[n - 1]
           a == f.pad
           l == Len(f.data)
<1>8. N = y + (a + HeaderSize + l) /\ y \in Nat /\ a \in Nat /\ l \in Nat
  BY <1>3, <1>5, <1>6, <1>7
<1> HIDE DEF N, y, a, l, f, n
<1>9. p + y + a + HeaderSize + l = p + N
  BY <1>6, <1>8
<1> QED
  BY <1>4, <1>9 DEF N, y, a, l, f, n

-----------------------------------------------------------------------------
(* What ReadPhysicalRecord finds *)

FileEnd(file, pos) == IF Len(file) < BlockEnd(pos) THEN Len(file) ELSE BlockEnd(pos)
AtEof(file, pos) == Len(file) < BlockEnd(pos)
HeaderThere(file, pos) == SubSeq(file, pos + 1, pos + HeaderSize)
DataThere(file, pos, n) == SubSeq(file, pos + HeaderSize + 1, pos + HeaderSize + n)

LEMMA ReadIs ==
    ASSUME NEW file, NEW pos, NEW checksum
    PROVE  ReadPhysicalRecord(file, pos, checksum) =
             LET end    == FileEnd(file, pos)
                 header == HeaderThere(file, pos)
                 length == Len(header[1][4])
                 data   == DataThere(file, pos, length)
             IN  IF end - pos < HeaderSize
                 THEN Dropped(IF AtEof(file, pos) THEN "eof" ELSE "trailer", end)
                 ELSE IF \A i \in DOMAIN header : header[i] = Zero THEN Dropped("zero", end)
                 ELSE IF ~(header[1][1] = "header" /\ header = Header(header[1][3], header[1][4]))
                 THEN Dropped("bad", end)
                 ELSE IF pos + HeaderSize + length > end
                 THEN Dropped(IF AtEof(file, pos) THEN "eof" ELSE "bad", end)
                 ELSE IF checksum /\ data # header[1][4] THEN Dropped("bad", end)
                 ELSE [type |-> header[1][3], data |-> data, next |-> pos + HeaderSize + length]
BY Zenon DEF ReadPhysicalRecord, FileEnd, AtEof, HeaderThere, DataThere

LEMMA FileEndIs ==
    ASSUME NEW file, Len(file) \in Nat, NEW pos \in Nat, pos < Len(file)
    PROVE  /\ FileEnd(file, pos) \in Nat /\ FileEnd(file, pos) > pos
           /\ FileEnd(file, pos) <= Len(file) /\ FileEnd(file, pos) <= BlockEnd(pos)
           /\ FileEnd(file, pos) # Len(file) => FileEnd(file, pos) = BlockEnd(pos)
           /\ AtEof(file, pos) <=> FileEnd(file, pos) < BlockEnd(pos)
<1>1. BlockEnd(pos) \in Nat /\ BlockEnd(pos) > pos
  BY BlockEndIs
<1> QED
  BY <1>1 DEF FileEnd, AtEof

(* Too little for a header. *)
LEMMA ReadShort ==
    ASSUME NEW file, NEW pos, NEW checksum, FileEnd(file, pos) - pos < HeaderSize
    PROVE  ReadPhysicalRecord(file, pos, checksum) =
             Dropped(IF AtEof(file, pos) THEN "eof" ELSE "trailer", FileEnd(file, pos))
BY ReadIs

LEMMA HeaderCellsThere ==
    ASSUME NEW D, NEW file \in Seq(CellSet(D)), NEW pos \in Nat, pos + HeaderSize <= Len(file)
    PROVE  /\ HeaderThere(file, pos) \in Seq(CellSet(D)) /\ Len(HeaderThere(file, pos)) = HeaderSize
           /\ \A i \in 1 .. HeaderSize : HeaderThere(file, pos)[i] = file[pos + i]
<1> DEFINE T == CellSet(D)
           n == pos + HeaderSize
<1>1. HeaderSize \in Nat /\ Len(file) \in Nat
  BY FormatAssumption, LenProperties
<1>2. pos \in 0 .. Len(file) /\ n \in pos .. Len(file) /\ n - pos = HeaderSize
  BY <1>1
<1> HIDE DEF T, n
<1>3. /\ SubSeq(file, pos + 1, n) \in Seq(T) /\ Len(SubSeq(file, pos + 1, n)) = n - pos
      /\ \A i \in 1 .. n - pos : SubSeq(file, pos + 1, n)[i] = file[pos + i]
  BY <1>2, SubSeqOf DEF T
<1> QED
  BY <1>2, <1>3 DEF T, n, HeaderThere

(* A header of zeros. *)
LEMMA ReadZeros ==
    ASSUME NEW D, NEW file \in Seq(CellSet(D)), NEW pos \in Nat, NEW checksum,
           pos < Len(file), FileEnd(file, pos) - pos >= HeaderSize,
           \A i \in 1 .. HeaderSize : file[pos + i] = Zero
    PROVE  ReadPhysicalRecord(file, pos, checksum) = Dropped("zero", FileEnd(file, pos))
<1> DEFINE h == HeaderThere(file, pos)
<1>1. HeaderSize \in Nat /\ Len(file) \in Nat
  BY FormatAssumption, LenProperties
<1>2. /\ FileEnd(file, pos) \in Nat /\ FileEnd(file, pos) <= Len(file)
  BY <1>1, FileEndIs
<1>3. pos + HeaderSize <= Len(file) /\ ~(FileEnd(file, pos) - pos < HeaderSize)
  BY <1>1, <1>2
<1>4. /\ h \in Seq(CellSet(D)) /\ Len(h) = HeaderSize
      /\ \A i \in 1 .. HeaderSize : h[i] = file[pos + i]
  BY <1>3, HeaderCellsThere
<1>5. DOMAIN h = 1 .. HeaderSize
  BY <1>4, LenProperties
<1> HIDE DEF h
<1>6. \A i \in DOMAIN h : h[i] = Zero
  BY <1>4, <1>5
<1> QED
  BY <1>3, <1>6, ReadIs, Zenon DEF h

(* A header the end of which is lost. *)
LEMMA ReadTornHeader ==
    ASSUME NEW D, NEW file \in Seq(CellSet(D)), NEW pos \in Nat, NEW checksum,
           pos < Len(file), FileEnd(file, pos) - pos >= HeaderSize,
           NEW type, NEW data,
           type \in FragmentTypes, data \in Seq(D),
           file[pos + 1] = HeaderCell(1, type, data), file[pos + HeaderSize] = Zero
    PROVE  ReadPhysicalRecord(file, pos, checksum) = Dropped("bad", FileEnd(file, pos))
<1> DEFINE h == HeaderThere(file, pos)
<1>1. HeaderSize \in Nat /\ HeaderSize > 1 /\ Len(file) \in Nat
  BY FormatAssumption, LenProperties
<1>2. /\ FileEnd(file, pos) \in Nat /\ FileEnd(file, pos) <= Len(file)
  BY <1>1, FileEndIs
<1>3. pos + HeaderSize <= Len(file) /\ ~(FileEnd(file, pos) - pos < HeaderSize)
  BY <1>1, <1>2
<1>4. /\ h \in Seq(CellSet(D)) /\ Len(h) = HeaderSize
      /\ \A i \in 1 .. HeaderSize : h[i] = file[pos + i]
  BY <1>3, HeaderCellsThere
<1>5. DOMAIN h = 1 .. HeaderSize
  BY <1>4, LenProperties
<1>6. h[1] = HeaderCell(1, type, data) /\ h[HeaderSize] = Zero /\ 1 \in DOMAIN h
  BY <1>1, <1>4, <1>5
<1>7. ~ \A i \in DOMAIN h : h[i] = Zero
  BY <1>6, CellsDiffer
<1>8. h # Header(h[1][3], h[1][4])
  <2>1. h[1][3] = type /\ h[1][4] = data
    BY <1>6, CellsDiffer
  <2>2. Header(type, data)[HeaderSize] = HeaderCell(HeaderSize, type, data)
    BY <1>1, HeaderHolds
  <2> HIDE DEF h
  <2> QED
    BY <1>6, <2>1, <2>2, CellsDiffer
<1> HIDE DEF h
<1> QED
  BY <1>3, <1>7, <1>8, ReadIs, Zenon DEF h

(* A header that is whole: its data may be cut off, be another, or be      *)
(* what it says.                                                           *)
HeaderRead(file, pos, checksum, type, data) ==
    IF pos + HeaderSize + Len(data) > FileEnd(file, pos)
    THEN Dropped(IF AtEof(file, pos) THEN "eof" ELSE "bad", FileEnd(file, pos))
    ELSE IF checksum /\ DataThere(file, pos, Len(data)) # data
    THEN Dropped("bad", FileEnd(file, pos))
    ELSE [type |-> type, data |-> DataThere(file, pos, Len(data)),
          next |-> pos + HeaderSize + Len(data)]

LEMMA ReadHeader ==
    ASSUME NEW D, NEW file \in Seq(CellSet(D)), NEW pos \in Nat, NEW checksum,
           pos < Len(file), FileEnd(file, pos) - pos >= HeaderSize,
           NEW type \in FragmentTypes, NEW data \in Seq(D),
           \A i \in 1 .. HeaderSize : file[pos + i] = HeaderCell(i, type, data)
    PROVE  ReadPhysicalRecord(file, pos, checksum) = HeaderRead(file, pos, checksum, type, data)
<1> DEFINE h == HeaderThere(file, pos)
<1>1. HeaderSize \in Nat /\ HeaderSize > 1 /\ Len(file) \in Nat
  BY FormatAssumption, LenProperties
<1>2. /\ FileEnd(file, pos) \in Nat /\ FileEnd(file, pos) <= Len(file)
  BY <1>1, FileEndIs
<1>3. pos + HeaderSize <= Len(file) /\ ~(FileEnd(file, pos) - pos < HeaderSize)
  BY <1>1, <1>2
<1>4. /\ h \in Seq(CellSet(D)) /\ Len(h) = HeaderSize
      /\ \A i \in 1 .. HeaderSize : h[i] = file[pos + i]
  BY <1>3, HeaderCellsThere
<1>5. DOMAIN h = 1 .. HeaderSize
  BY <1>4, LenProperties
<1>6. h[1] = HeaderCell(1, type, data) /\ 1 \in DOMAIN h
  BY <1>1, <1>4, <1>5
<1>7. ~ \A i \in DOMAIN h : h[i] = Zero
  BY <1>6, CellsDiffer
<1>8. h[1][1] = "header" /\ h[1][3] = type /\ h[1][4] = data
  BY <1>6, CellsDiffer
<1>9. h = Header(type, data)
  <2> DEFINE g == Header(type, data)
             T == CellSet(D)
  <2>1. /\ g \in Seq(T) /\ Len(g) = HeaderSize
        /\ \A i \in 1 .. HeaderSize : g[i] = HeaderCell(i, type, data)
    BY HeaderHolds
  <2>2. h \in Seq(T)
    BY <1>4
  <2> HIDE DEF h, g, T
  <2>3. Len(h) = Len(g) /\ \A i \in 1 .. Len(h) : h[i] = g[i]
    BY <1>4, <2>1
  <2>4. h = g
    BY <2>1, <2>2, <2>3, SeqEqual
  <2> QED
    BY <2>4 DEF g
<1>10. h = Header(h[1][3], h[1][4])
  <2> HIDE DEF h
  <2> QED
    BY <1>8, <1>9
<1> HIDE DEF h
<1> QED
  BY <1>3, <1>7, <1>8, <1>10, ReadIs, Zenon DEF h, HeaderRead

(* The first k cells of a file, and zeros behind them, if anything.        *)
Kept(cells, file, k) ==
    /\ k \in 0 .. Len(file) /\ k <= Len(cells)
    /\ \A i \in 1 .. Len(cells) : cells[i] = IF i <= k THEN file[i] ELSE Zero

(* A fragment is in a file at position p. *)
PieceAt(file, p, f) ==
    /\ Fits(f, p) /\ p + Len(Cells(f)) <= Len(file)
    /\ \A t \in 1 .. Len(Cells(f)) : file[p + t] = Cells(f)[t]

PieceCut(cells, type, data, q, k) ==
    /\ q \in Nat /\ Len(cells) \in Nat /\ Len(data) \in Nat /\ HeaderSize \in Nat /\ HeaderSize > 1
    /\ \A i \in 1 .. HeaderSize : q + i <= k => cells[q + i] = HeaderCell(i, type, data)
    /\ \A i \in 1 .. Len(data) : q + HeaderSize + i <= k => cells[q + HeaderSize + i] = data[i]
    /\ \A i \in 1 .. Len(cells) : i > k => cells[i] = Zero

LEMMA PieceHolds ==
    ASSUME NEW D, NEW f \in FragmentSet(D), NEW p \in Nat, NEW file, PieceAt(file, p, f),
           NEW cells \in Seq(CellSet(D)), NEW k \in Nat, Kept(cells, file, k),
           NEW q, q = p + f.pad
    PROVE  PieceCut(cells, f.type, f.data, q, k)
<1>1. /\ f.pad \in Nat /\ Len(f.data) \in Nat /\ HeaderSize \in Nat /\ HeaderSize > 1
      /\ Len(cells) \in Nat
  <2>1. f.pad \in Nat /\ f.data \in Seq(D)
    BY DEF FragmentSet
  <2> QED
    BY <2>1, LenProperties, FormatAssumption
<1>2. /\ Len(Cells(f)) = f.pad + HeaderSize + Len(f.data)
      /\ \A i \in 1 .. HeaderSize : Cells(f)[f.pad + i] = HeaderCell(i, f.type, f.data)
      /\ \A i \in 1 .. Len(f.data) : Cells(f)[f.pad + HeaderSize + i] = f.data[i]
  BY CellsHold
<1>3. \A i \in 1 .. Len(cells) : cells[i] = IF i <= k THEN file[i] ELSE Zero
  BY DEF Kept
<1>4. k <= Len(cells)
  BY DEF Kept
<1>5. \A t \in 1 .. f.pad + HeaderSize + Len(f.data) : file[p + t] = Cells(f)[t]
  BY <1>2 DEF PieceAt
<1> DEFINE l == Len(f.data)
           a == f.pad
<1>6. q = p + a /\ a \in Nat /\ l \in Nat
  BY <1>1
<1> HIDE DEF l, a
<1>7. ASSUME NEW i \in 1 .. HeaderSize, q + i <= k
      PROVE  cells[q + i] = HeaderCell(i, f.type, f.data)
  <2>1. /\ a + i \in 1 .. a + HeaderSize + l /\ q + i = p + (a + i) /\ q + i \in 1 .. Len(cells)
    BY <1>1, <1>4, <1>6, <1>7
  <2>2. cells[q + i] = file[q + i]
    BY <1>3, <1>7, <2>1
  <2>3. file[p + (a + i)] = Cells(f)[a + i]
    BY <1>5, <2>1 DEF a, l
  <2> QED
    BY <1>2, <2>1, <2>2, <2>3 DEF a
<1>8. ASSUME NEW i \in 1 .. l, q + HeaderSize + i <= k
      PROVE  cells[q + HeaderSize + i] = f.data[i]
  <2>1. /\ a + HeaderSize + i \in 1 .. a + HeaderSize + l
        /\ q + HeaderSize + i = p + (a + HeaderSize + i) /\ q + HeaderSize + i \in 1 .. Len(cells)
    BY <1>1, <1>4, <1>6, <1>8
  <2>2. cells[q + HeaderSize + i] = file[q + HeaderSize + i]
    BY <1>3, <1>8, <2>1
  <2>3. file[p + (a + HeaderSize + i)] = Cells(f)[a + HeaderSize + i]
    BY <1>5, <2>1 DEF a, l
  <2>4. Cells(f)[a + HeaderSize + i] = f.data[i]
    BY <1>2 DEF a, l
  <2> QED
    BY <2>1, <2>2, <2>3, <2>4
<1>9. \A i \in 1 .. Len(cells) : i > k => cells[i] = Zero
  BY <1>1, <1>3
<1>10. q \in Nat
  BY <1>6
<1> QED
  BY <1>1, <1>7, <1>8, <1>9, <1>10 DEF l, PieceCut

(* The zeros in front of a fragment. *)
LEMMA ReadPad ==
    ASSUME NEW f, NEW p \in Nat, Fits(f, p), f.pad # 0, NEW cells, Len(cells) \in Nat,
           p < Len(cells), NEW checksum, NEW q, q = p + f.pad
    PROVE  \/ /\ q <= Len(cells)
              /\ ReadPhysicalRecord(cells, p, checksum) = Dropped("trailer", q)
           \/ /\ Len(cells) < q
              /\ ReadPhysicalRecord(cells, p, checksum) = Dropped("eof", Len(cells))
<1>1. f.pad \in 0 .. HeaderSize - 1 /\ q = BlockEnd(p) /\ HeaderSize \in Nat
  BY FormatAssumption DEF Fits
<1>2. q \in Nat
  BY <1>1
<1>3. CASE q <= Len(cells)
  <2>1. FileEnd(cells, p) = q /\ ~AtEof(cells, p)
    BY <1>1, <1>2, <1>3 DEF FileEnd, AtEof
  <2>2. q - p < HeaderSize
    BY <1>1
  <2> QED
    BY <1>3, <2>1, <2>2, ReadShort
<1>4. CASE Len(cells) < q
  <2>1. FileEnd(cells, p) = Len(cells) /\ AtEof(cells, p)
    BY <1>1, <1>2, <1>4 DEF FileEnd, AtEof
  <2>2. Len(cells) - p < HeaderSize
    BY <1>1, <1>4
  <2> QED
    BY <1>4, <2>1, <2>2, ReadShort
<1> QED
  BY <1>2, <1>3, <1>4

LEMMA PartOf ==
    ASSUME NEW a \in Nat, NEW b \in Nat, NEW n \in Nat, a + b <= n
    PROVE  a \in 0 .. n /\ a + b \in a .. n /\ (a + b) - a = b
OBVIOUS

(* A fragment that is whole. *)
FragmentRead(f, next) == [type |-> f.type, data |-> f.data, next |-> next]

LEMMA ReadWhole ==
    ASSUME NEW D, NEW f \in FragmentSet(D), NEW p \in Nat, NEW file, PieceAt(file, p, f),
           NEW cells \in Seq(CellSet(D)), NEW k \in Nat, Kept(cells, file, k),
           NEW checksum, NEW q, q = p + f.pad, q + HeaderSize + Len(f.data) <= k
    PROVE  /\ q < Len(cells)
           /\ ReadPhysicalRecord(cells, q, checksum) = FragmentRead(f, q + HeaderSize + Len(f.data))
<1> DEFINE l == Len(f.data)
           d == DataThere(cells, q, l)
<1>1. /\ q \in Nat /\ Len(cells) \in Nat /\ l \in Nat /\ HeaderSize \in Nat /\ HeaderSize > 1
      /\ \A i \in 1 .. HeaderSize : q + i <= k => cells[q + i] = HeaderCell(i, f.type, f.data)
      /\ \A i \in 1 .. l : q + HeaderSize + i <= k => cells[q + HeaderSize + i] = f.data[i]
  <2>1. PieceCut(cells, f.type, f.data, q, k)
    BY PieceHolds
  <2> QED
    BY <2>1, Zenon DEF PieceCut
<1>2. k <= Len(cells)
  BY DEF Kept
<1>3. q + HeaderSize + l <= BlockEnd(q)
  BY DEF PieceAt, Fits
<1>4. q < Len(cells)
  BY <1>1, <1>2
<1>5. FileEnd(cells, q) \in Nat /\ q + HeaderSize + l <= FileEnd(cells, q)
  <2>1. q + HeaderSize + l <= Len(cells)
    BY <1>1, <1>2
  <2>2. FileEnd(cells, q) \in Nat
    BY <1>1, <1>4, FileEndIs
  <2> QED
    BY <1>3, <2>1, <2>2 DEF FileEnd
<1>6. \A i \in 1 .. HeaderSize : cells[q + i] = HeaderCell(i, f.type, f.data)
  <2>1. \A i \in 1 .. HeaderSize : q + i <= k
    BY <1>1, SMTT(40)
  <2> QED
    BY <1>1, <2>1
<1>7. d = f.data
  <2> DEFINE T == CellSet(D)
             m == q + HeaderSize
             n == q + HeaderSize + l
  <2>1. m \in 0 .. Len(cells) /\ n \in m .. Len(cells) /\ n - m = l
    <3>1. l \in Nat /\ m + l <= Len(cells) /\ m \in Nat /\ Len(cells) \in Nat /\ n = m + l
      BY <1>1, <1>2
    <3> HIDE DEF T, l, m, n
    <3>2. /\ m \in 0 .. Len(cells) /\ m + l \in m .. Len(cells) /\ (m + l) - m = l
      BY <3>1, PartOf
    <3> QED
      BY <3>1, <3>2
  <2>2. \A i \in 1 .. l : cells[m + i] = f.data[i]
    <3>1. \A i \in 1 .. l : q + HeaderSize + i <= k
      BY <1>1, SMTT(40)
    <3> QED
      BY <1>1, <3>1
  <2>3. cells \in Seq(T)
    OBVIOUS
  <2>4. f.data \in Seq(T)
    <3>1. f.data \in Seq(D) /\ D \subseteq T
      BY DEF FragmentSet, CellSet
    <3> HIDE DEF T
    <3> QED
      BY <3>1, SeqMonotonic
  <2>5. d = SubSeq(cells, m + 1, n)
    BY DEF DataThere
  <2> HIDE DEF T, m, n, d
  <2>6. /\ SubSeq(cells, m + 1, n) \in Seq(T) /\ Len(SubSeq(cells, m + 1, n)) = n - m
        /\ \A i \in 1 .. n - m : SubSeq(cells, m + 1, n)[i] = cells[m + i]
    BY <2>1, <2>3, SubSeqOf
  <2>7. d \in Seq(T) /\ Len(d) = Len(f.data) /\ \A i \in 1 .. Len(d) : d[i] = f.data[i]
    BY <2>1, <2>2, <2>5, <2>6
  <2> QED
    BY <2>4, <2>7, SeqEqual
<1>8. FileEnd(cells, q) - q >= HeaderSize /\ ~(q + HeaderSize + l > FileEnd(cells, q))
  BY <1>1, <1>5, SMTT(40)
<1>9. f.type \in FragmentTypes /\ f.data \in Seq(D) /\ cells \in Seq(CellSet(D)) /\ q \in Nat
  BY <1>1 DEF FragmentSet
<1>10. ReadPhysicalRecord(cells, q, checksum) = HeaderRead(cells, q, checksum, f.type, f.data)
  <2> DEFINE type == f.type
             data == f.data
  <2>1. /\ type \in FragmentTypes /\ data \in Seq(D)
        /\ \A i \in 1 .. HeaderSize : cells[q + i] = HeaderCell(i, type, data)
    BY <1>6, <1>9
  <2> HIDE DEF l, d, type, data
  <2>2. ReadPhysicalRecord(cells, q, checksum) = HeaderRead(cells, q, checksum, type, data)
    BY <1>4, <1>8, <1>9, <2>1, ReadHeader
  <2> QED
    BY <2>2 DEF type, data
<1>11. HeaderRead(cells, q, checksum, f.type, f.data) =
         [type |-> f.type, data |-> f.data, next |-> q + HeaderSize + Len(f.data)]
  BY <1>7, <1>8, Zenon DEF HeaderRead
<1> QED
  BY <1>4, <1>10, <1>11 DEF FragmentRead

(* A fragment that is not whole, behind which nothing is kept. *)
LEMMA ReadTorn ==
    ASSUME NEW D, Zero \notin D,
           NEW f \in FragmentSet(D), NEW p \in Nat, NEW file, PieceAt(file, p, f),
           NEW cells \in Seq(CellSet(D)), NEW k \in Nat, Kept(cells, file, k),
           NEW checksum, checksum \/ Len(cells) = k,
           NEW q, q = p + f.pad, q < k, k < q + HeaderSize + Len(f.data)
    PROVE  \E x \in {"eof", "bad"}, y \in k .. Len(cells) :
             /\ ReadPhysicalRecord(cells, q, checksum) = Dropped(x, y)
             /\ y > q /\ (x = "bad" => Len(cells) > k)
<1> DEFINE type == f.type
           data == f.data
           l == Len(data)
           e == FileEnd(cells, q)
           N == Len(cells)
<1>1. /\ q \in Nat /\ N \in Nat /\ l \in Nat /\ HeaderSize \in Nat /\ HeaderSize > 1
      /\ \A i \in 1 .. HeaderSize : q + i <= k => cells[q + i] = HeaderCell(i, type, data)
      /\ \A i \in 1 .. l : q + HeaderSize + i <= k => cells[q + HeaderSize + i] = data[i]
      /\ \A i \in 1 .. N : i > k => cells[i] = Zero
  <2>1. PieceCut(cells, f.type, f.data, q, k)
    BY PieceHolds
  <2>2. PieceCut(cells, type, data, q, k)
    BY <2>1 DEF type, data
  <2> HIDE DEF type, data, e
  <2> QED
    BY <2>2, Zenon DEF PieceCut, l, N
<1>2. type \in FragmentTypes /\ data \in Seq(D) /\ cells \in Seq(CellSet(D))
  BY DEF FragmentSet
<1>3. q + HeaderSize + l <= BlockEnd(q) /\ BlockEnd(q) \in Nat
  BY <1>1, BlockEndIs DEF PieceAt, Fits
<1>4. k <= N /\ q < N
  BY <1>1 DEF Kept
<1>5. q < k /\ k < q + HeaderSize + l /\ (checksum \/ N = k)
  OBVIOUS
<1>6. /\ e \in Nat /\ e > q /\ e <= N /\ e <= BlockEnd(q)
      /\ e # N => e = BlockEnd(q)
      /\ AtEof(cells, q) <=> e < BlockEnd(q)
  BY <1>1, <1>4, FileEndIs
<1> HIDE DEF type, data, l, e, N
<1>7. CASE e < q + HeaderSize + l /\ (e < q + HeaderSize \/ q + HeaderSize <= k)
  <2>1. e = N /\ e < BlockEnd(q) /\ e >= k
    BY <1>1, <1>3, <1>4, <1>6, <1>7
  <2>2. AtEof(cells, q)
    BY <1>6, <2>1
  <2>3. ReadPhysicalRecord(cells, q, checksum) = Dropped("eof", e)
    <3>1. CASE e < q + HeaderSize
      <4>1. FileEnd(cells, q) - q < HeaderSize
        BY <1>1, <1>6, <3>1 DEF e
      <4> QED
        BY <2>2, <4>1, ReadShort DEF e
    <3>2. CASE ~(e < q + HeaderSize)
      <4>1. \A i \in 1 .. HeaderSize : q + i <= k
        BY <1>1, <1>5, <1>6, <1>7, <3>2
      <4>2. \A i \in 1 .. HeaderSize : cells[q + i] = HeaderCell(i, type, data)
        BY <1>1, <4>1
      <4>3. FileEnd(cells, q) - q >= HeaderSize /\ q < Len(cells) /\ q \in Nat
        BY <1>1, <1>4, <1>6, <3>2 DEF e, N
      <4>4. ReadPhysicalRecord(cells, q, checksum) = HeaderRead(cells, q, checksum, type, data)
        BY <1>2, <4>2, <4>3, ReadHeader
      <4>5. q + HeaderSize + Len(data) > FileEnd(cells, q)
        BY <1>1, <1>6, <1>7 DEF e, l
      <4> QED
        BY <2>2, <4>4, <4>5, Zenon DEF HeaderRead, e
    <3> QED
      BY <3>1, <3>2
  <2>4. N \in k .. N /\ N > q
    BY <1>1, <1>4
  <2>5. ReadPhysicalRecord(cells, q, checksum) = Dropped("eof", N)
    BY <2>1, <2>3
  <2>6. N \in k .. Len(cells)
    BY <2>4 DEF N
  <2> WITNESS "eof" \in {"eof", "bad"}, N \in k .. Len(cells)
  <2> QED
    BY <2>4, <2>5
<1>8. CASE ~(e < q + HeaderSize) /\ k < q + HeaderSize
  <2>1. N > k /\ e \in k .. N /\ e > q /\ q + 1 <= k
    BY <1>1, <1>4, <1>5, <1>6, <1>8
  <2>2. cells[q + 1] = HeaderCell(1, type, data)
    <3>1. 1 \in 1 .. HeaderSize
      BY <1>1
    <3> QED
      BY <1>1, <2>1, <3>1, Zenon
  <2>3. q + HeaderSize \in 1 .. N /\ q + HeaderSize > k
    BY <1>1, <1>6, <1>8
  <2>4. cells[q + HeaderSize] = Zero
    BY <1>1, <2>3
  <2>5. FileEnd(cells, q) - q >= HeaderSize /\ q < Len(cells) /\ q \in Nat
    BY <1>1, <1>4, <1>6, <1>8 DEF e, N
  <2>6. ReadPhysicalRecord(cells, q, checksum) = Dropped("bad", e)
    BY <1>2, <2>2, <2>4, <2>5, ReadTornHeader DEF e
  <2> QED
    BY <2>1, <2>6 DEF N
<1>9. CASE ~(e < q + HeaderSize + l) /\ q + HeaderSize <= k
  <2>1. N > k /\ e \in k .. N /\ e > q /\ e >= q + HeaderSize
    BY <1>1, <1>4, <1>5, <1>6, <1>9
  <2>2. \A i \in 1 .. HeaderSize : q + i <= k
    BY <1>1, <1>9
  <2>3. \A i \in 1 .. HeaderSize : cells[q + i] = HeaderCell(i, type, data)
    BY <1>1, <2>2
  <2>4. FileEnd(cells, q) - q >= HeaderSize /\ q < Len(cells) /\ q \in Nat
    BY <1>1, <1>4, <1>6, <2>1 DEF e, N
  <2>5. ReadPhysicalRecord(cells, q, checksum) = HeaderRead(cells, q, checksum, type, data)
    BY <1>2, <2>3, <2>4, ReadHeader
  <2>6. ~(q + HeaderSize + Len(data) > FileEnd(cells, q))
    BY <1>1, <1>6, <1>9 DEF e, l
  <2>7. checksum
    BY <1>5, <2>1, <1>1, <1>4
  <2>8. DataThere(cells, q, Len(data)) # data
    <3> DEFINE m == q + HeaderSize
               i == k + 1 - m
               T == CellSet(D)
    <3>1. m \in Nat /\ l \in Nat /\ m + l <= N /\ N \in Nat /\ i \in 1 .. l /\ m + i = k + 1
          /\ k + 1 \in 1 .. N /\ k + 1 > k
      <4>1. /\ m \in Nat /\ l \in Nat /\ N \in Nat /\ m <= k /\ k < m + l /\ k < N
            /\ e \in Nat /\ m + l <= e /\ e <= N
        BY <1>1, <1>5, <1>6, <1>9, <2>1, SMTT(40)
      <4> HIDE DEF m, T
      <4> QED
        BY <4>1
    <3>2. cells[k + 1] = Zero
      BY <1>1, <3>1
    <3>3. DataThere(cells, q, l) = SubSeq(cells, m + 1, m + l)
      BY DEF DataThere
    <3>4. cells \in Seq(T)
      BY <1>2
    <3> HIDE DEF m, i, T
    <3>5. m \in 0 .. N /\ m + l \in m .. N /\ (m + l) - m = l
      BY <3>1, PartOf
    <3>6. \A j \in 1 .. l : SubSeq(cells, m + 1, m + l)[j] = cells[m + j]
      BY <3>4, <3>5, SubSeqOf DEF N
    <3>7. DataThere(cells, q, l)[i] = Zero
      BY <3>1, <3>2, <3>3, <3>6
    <3>8. data[i] \in D
      BY <1>2, <3>1, ElementOfSeq DEF l
    <3> QED
      BY <3>7, <3>8 DEF l
  <2>9. ReadPhysicalRecord(cells, q, checksum) = Dropped("bad", e)
    BY <2>5, <2>6, <2>7, <2>8, Zenon DEF HeaderRead, e
  <2> QED
    BY <2>1, <2>9 DEF N
<1> QED
  BY <1>1, <1>6, <1>7, <1>8, <1>9

(* Behind what is kept. *)
LEMMA ReadDead ==
    ASSUME NEW D, NEW cells \in Seq(CellSet(D)), NEW k \in Nat, NEW pos \in Nat, pos >= k,
           pos < Len(cells), \A i \in 1 .. Len(cells) : i > k => cells[i] = Zero,
           NEW checksum
    PROVE  \E x \in {"eof", "trailer", "zero"}, y \in k .. Len(cells) :
             ReadPhysicalRecord(cells, pos, checksum) = Dropped(x, y) /\ y > pos
<1> DEFINE e == FileEnd(cells, pos)
           N == Len(cells)
<1>1. N \in Nat /\ HeaderSize \in Nat
  BY FormatAssumption, LenProperties
<1>2. e \in Nat /\ e > pos /\ e <= N
  BY <1>1, FileEndIs
<1> HIDE DEF e, N
<1>3. e \in k .. N
  BY <1>1, <1>2
<1>4. CASE e - pos < HeaderSize
  <2>1. ReadPhysicalRecord(cells, pos, checksum) =
          Dropped(IF AtEof(cells, pos) THEN "eof" ELSE "trailer", e)
    BY <1>4, ReadShort DEF e
  <2> QED
    BY <1>2, <1>3, <2>1 DEF N
<1>5. CASE ~(e - pos < HeaderSize)
  <2>1. \A i \in 1 .. HeaderSize : pos + i \in 1 .. N /\ pos + i > k
    BY <1>1, <1>2, <1>5
  <2>2. \A i \in 1 .. HeaderSize : cells[pos + i] = Zero
    BY <2>1 DEF N
  <2>3. FileEnd(cells, pos) - pos >= HeaderSize
    BY <1>1, <1>2, <1>5 DEF e
  <2>4. ReadPhysicalRecord(cells, pos, checksum) = Dropped("zero", e)
    BY <2>2, <2>3, ReadZeros DEF e
  <2> QED
    BY <1>2, <1>3, <2>4 DEF N
<1> QED
  BY <1>4, <1>5

-----------------------------------------------------------------------------
(* What ReadRecord makes of fragments *)

Reader(rs, sc, op, co) == [records |-> rs, scratch |-> sc, open |-> op, corrupt |-> co]
Between(rs)    == Reader(rs, <<>>, FALSE, FALSE)
Within(rs, sc) == Reader(rs, sc, TRUE, FALSE)

(* A reader has returned the records rs and no more; C says whether it may *)
(* have reported corruption.                                               *)
Returned(r, rs, C) ==
    \E sc, op, co : op \in BOOLEAN /\ co \in C /\ r = Reader(rs, sc, op, co)

LEMMA AfterFull ==
    ASSUME NEW rs, NEW f, f.type = "full"
    PROVE  AfterFragment(Between(rs), f) = Between(Append(rs, f.data))
BY DEF AfterFragment, Between, Reader

LEMMA AfterFirst ==
    ASSUME NEW rs, NEW f, f.type = "first"
    PROVE  AfterFragment(Between(rs), f) = Within(rs, f.data)
BY DEF AfterFragment, Between, Within, Reader

LEMMA AfterMiddle ==
    ASSUME NEW rs, NEW sc, NEW f, f.type = "middle"
    PROVE  AfterFragment(Within(rs, sc), f) = Within(rs, sc \o f.data)
BY DEF AfterFragment, Within, Reader

LEMMA AfterLast ==
    ASSUME NEW rs, NEW sc, NEW f, f.type = "last"
    PROVE  AfterFragment(Within(rs, sc), f) = Between(Append(rs, sc \o f.data))
BY DEF AfterFragment, Between, Within, Reader

LEMMA AfterNothing ==
    ASSUME NEW r, NEW x \in {"eof", "trailer"}, NEW y
    PROVE  AfterFragment(r, Dropped(x, y)) = r
BY DEF AfterFragment, Dropped

LEMMA AfterDropped ==
    ASSUME NEW r, NEW rs, NEW C, Returned(r, rs, C), NEW x \in {"eof", "trailer", "zero", "bad"},
           NEW y, x \in {"zero", "bad"} => C = BOOLEAN
    PROVE  Returned(AfterFragment(r, Dropped(x, y)), rs, C)
<1>1. CASE x \in {"eof", "trailer"}
  BY <1>1, AfterNothing
<1>2. CASE x \in {"zero", "bad"}
  <2>1. PICK sc, op, co : op \in BOOLEAN /\ co \in C /\ r = Reader(rs, sc, op, co)
    BY DEF Returned
  <2> DEFINE c == co \/ x = "bad" \/ op
             f == Dropped(x, y)
  <2>2. c \in C
    BY <1>2
  <2>3. f.type = x
    BY DEF Dropped
  <2>4. AfterFragment(r, f) =
          [r EXCEPT !.scratch = <<>>, !.open = FALSE, !.corrupt = @ \/ x = "bad" \/ r.open]
    <3> HIDE DEF f
    <3> QED
      BY <1>2, <2>3 DEF AfterFragment
  <2>5. r.open = op /\ r.corrupt = co
    BY <2>1 DEF Reader
  <2>6. AfterFragment(r, f) = Reader(rs, <<>>, FALSE, c)
    BY <2>1, <2>4 DEF Reader
  <2> HIDE DEF c, f
  <2>7. Returned(AfterFragment(r, f), rs, C)
    BY <2>2, <2>6 DEF Returned
  <2> QED
    BY <2>7 DEF f
<1> QED
  BY <1>1, <1>2

LEMMA ReturnedInOrder ==
    ASSUME NEW rs, NEW sc, NEW C, FALSE \in C
    PROVE  Returned(Between(rs), rs, C) /\ Returned(Within(rs, sc), rs, C)
BY DEF Returned, Between, Within

-----------------------------------------------------------------------------
(* A whole log *)

(* The i-th of count fragments of a record, behind before cells of it. *)
PieceOf(file, f, D, data, i, count, before, p) ==
    /\ PieceAt(file, p, f) /\ f \in FragmentSet(D)
    /\ before \in 0 .. Len(data) /\ f.done \in before .. Len(data)
    /\ f.data = SubSeq(data, before + 1, f.done)
    /\ f.type = (IF i = 1 THEN (IF i = count THEN "full" ELSE "first")
                 ELSE IF i = count THEN "last" ELSE "middle")
    /\ i = count => f.done = Len(data)

(* A record is in a file behind its first p cells. *)
RecordAt(file, p, fs, ends, D, data) ==
    /\ Len(fs) \in Nat \ {0} /\ ends[0] = 0 /\ \A i \in 0 .. Len(fs) : ends[i] \in Nat
    /\ \A i \in 1 .. Len(fs) :
         /\ PieceOf(file, fs[i], D, data, i, Len(fs), Before(fs, i), p + ends[i - 1])
         /\ ends[i] = ends[i - 1] + Len(Cells(fs[i])) /\ ends[i] <= ends[Len(fs)]

LEMMA RecordLaid ==
    ASSUME NEW D, NEW data \in Seq(D), NEW p \in Nat, NEW from, AtOffset(from, p),
           NEW fs, fs = Fragments(data, from), NEW ends, NEW cells, Len(cells) \in Nat,
           Laid(ends, fs, D, data, from, p, cells),
           NEW file, Len(file) \in Nat, p + Len(cells) <= Len(file),
           \A t \in 1 .. Len(cells) : file[p + t] = cells[t]
    PROVE  RecordAt(file, p, fs, ends, D, data)
<1> DEFINE n == Len(fs)
<1>1. /\ IsFragments(fs, data, from) /\ fs[n].done = Len(data)
  BY FragmentsHold
<1>2. n \in Nat \ {0} /\ \A i \in 1 .. n - 1 : fs[i].done # Len(data)
  BY <1>1 DEF IsFragments
<1>3. /\ ends[0] = 0 /\ ends[n] = Len(cells) /\ \A i \in 0 .. n : ends[i] \in Nat
      /\ \A i \in 1 .. n :
           /\ Before(fs, i) \in 0 .. Len(data)
           /\ Placed(fs[i], D, data, i - 1, Before(fs, i), OffsetOf(fs, from, i), p + ends[i - 1])
           /\ ends[i] = ends[i - 1] + Len(Cells(fs[i])) /\ ends[i] <= Len(cells)
           /\ \A t \in 1 .. Len(Cells(fs[i])) : cells[ends[i - 1] + t] = Cells(fs[i])[t]
  BY Zenon DEF Laid
<1> HIDE DEF n
<1>4. ASSUME NEW i \in 1 .. n
      PROVE  PieceOf(file, fs[i], D, data, i, n, Before(fs, i), p + ends[i - 1])
  <2> DEFINE f == fs[i]
             b == Before(fs, i)
             a == ends[i - 1]
             c == Cells(f)
             l == Len(data)
  <2>1. /\ b \in 0 .. l
        /\ Placed(f, D, data, i - 1, b, OffsetOf(fs, from, i), p + a)
        /\ ends[i] = a + Len(c) /\ ends[i] <= Len(cells)
        /\ \A t \in 1 .. Len(c) : cells[a + t] = c[t]
    BY <1>3, <1>4, Zenon
  <2>2. a \in Nat /\ ends[i] \in Nat
    BY <1>2, <1>3
  <2> HIDE DEF f, b, a, c, l
  <2>3. /\ Fits(f, p + a) /\ f.done \in b .. l
        /\ f.type = Type(i - 1 = 0, f.done = l)
        /\ f.data = SubSeq(data, b + 1, f.done) /\ f \in FragmentSet(D)
    BY <2>1, Zenon DEF Placed, l
  <2>4. Len(c) \in Nat
    <3>1. f.pad \in Nat /\ f.data \in Seq(D)
      BY <2>3 DEF FragmentSet
    <3>2. Len(c) = f.pad + HeaderSize + Len(f.data)
      BY <2>3, CellsHold DEF c
    <3> QED
      BY <3>1, <3>2, FormatAssumption, LenProperties
  <2>5. PieceAt(file, p + a, f)
    <3>1. p + a + Len(c) <= Len(file)
      BY <2>1, <2>2, <2>4
    <3>2. ASSUME NEW t \in 1 .. Len(c)
          PROVE  file[p + a + t] = c[t]
      <4>1. a + t \in 1 .. Len(cells) /\ p + (a + t) = p + a + t
        BY <2>1, <2>2, <2>4, <3>2
      <4>2. file[p + (a + t)] = cells[a + t]
        BY <4>1
      <4>3. cells[a + t] = c[t]
        BY <2>1, <3>2
      <4> QED
        BY <4>1, <4>2, <4>3
    <3> QED
      BY <2>3, <3>1, <3>2 DEF PieceAt, c
  <2>6. f.done = l <=> i = n
    <3>1. i = n \/ i \in 1 .. n - 1
      BY <1>2, <1>4
    <3> QED
      BY <1>1, <1>2, <3>1 DEF f, l, n
  <2>7. i - 1 = 0 <=> i = 1
    BY <1>2, <1>4
  <2>8. Type(i - 1 = 0, f.done = l) = IF i = 1 THEN (IF i = n THEN "full" ELSE "first")
                                      ELSE IF i = n THEN "last" ELSE "middle"
    BY <2>6, <2>7, Zenon DEF Type
  <2> QED
    BY <2>1, <2>3, <2>5, <2>6, <2>8, Zenon DEF PieceOf, f, b, a, l
<1> QED
  BY <1>2, <1>3, <1>4, Zenon DEF RecordAt, n

(* The logs a writer leaves behind: log[j] after j records, each written   *)
(* where the one before ends, whether by the same writer or by one that    *)
(* opened the file again.                                                  *)
Written(log, offsets, records) ==
    /\ log[0] = <<>>
    /\ \A j \in 1 .. Len(records) :
         /\ AtOffset(offsets[j], Len(log[j - 1]))
         /\ log[j] = log[j - 1] \o Emitted(Fragments(records[j], offsets[j]))

(* Where its records are in the last of them. *)
LogLaid(log, fs, ends, D, records) ==
    /\ Len(log[0]) = 0
    /\ \A j \in 0 .. Len(records) : log[j] \in Seq(CellSet(D)) /\ Len(log[j]) \in Nat
    /\ \A j \in 1 .. Len(records) :
         /\ records[j] \in Seq(D)
         /\ RecordAt(log[Len(records)], Len(log[j - 1]), fs[j], ends[j], D, records[j])
         /\ Len(log[j]) = Len(log[j - 1]) + ends[j][Len(fs[j])]
         /\ Len(log[j]) <= Len(log[Len(records)])

LEMMA OffsetSomewhere ==
    ASSUME NEW o \in 0 .. BlockSize
    PROVE  \E p \in Nat : AtOffset(o, p)
<1>1. BlockSize \in Nat /\ BlockSize > 0
  BY FormatAssumption
<1>2. CASE o = BlockSize
  <2>1. (0 % BlockSize) = 0
    BY <1>1
  <2>2. AtOffset(o, 0)
    BY <1>2, <2>1 DEF AtOffset
  <2> QED
    BY <2>2
<1>3. CASE o # BlockSize
  <2>1. o \in Nat /\ (o % BlockSize) = o
    BY <1>1, <1>3
  <2>2. AtOffset(o, o)
    BY <2>1 DEF AtOffset
  <2> QED
    BY <2>1, <2>2
<1> QED
  BY <1>2, <1>3

LEMMA WrittenLaid ==
    ASSUME NEW D, NEW records \in Seq(Seq(D)), NEW log, NEW offsets,
           Written(log, offsets, records)
    PROVE  \E fs, ends : LogLaid(log, fs, ends, D, records)
<1> DEFINE n == Len(records)
           F(j) == Fragments(records[j], offsets[j])
           G(j) == Emitted(F(j))
           fs == [j \in 1 .. n |-> F(j)]
           g == [j \in 1 .. n |-> G(j)]
           T == CellSet(D)
           Lays(e, j) == Laid(e, F(j), D, records[j], offsets[j], Len(log[j - 1]), G(j))
           ends == [j \in 1 .. n |-> CHOOSE e : Lays(e, j)]
<1>1. n \in Nat
  BY LenProperties
<1>2. \A j \in 1 .. n : records[j] \in Seq(D)
  BY ElementOfSeq
<1>3. /\ log[0] = <<>>
      /\ \A j \in 1 .. n : AtOffset(offsets[j], Len(log[j - 1])) /\ log[j] = log[j - 1] \o G(j)
  BY Zenon DEF Written
<1>4. ASSUME NEW j \in 1 .. n
      PROVE  G(j) \in Seq(T)
  <2>1. offsets[j] \in 0 .. BlockSize
    BY <1>3 DEF AtOffset
  <2>2. PICK p \in Nat : AtOffset(offsets[j], p)
    BY <2>1, OffsetSomewhere
  <2> DEFINE data == records[j]
             from == offsets[j]
  <2>3. data \in Seq(D) /\ AtOffset(from, p)
    BY <1>2, <2>2
  <2> HIDE DEF data, from
  <2>4. Emitted(Fragments(data, from)) \in Seq(CellSet(D))
    BY <2>3, EmittedLaid
  <2> QED
    BY <2>4 DEF data, from
<1>5. \A j \in 1 .. n : g[j] = G(j) /\ fs[j] = F(j) /\ ends[j] = CHOOSE e : Lays(e, j)
  OBVIOUS
<1> HIDE DEF n, F, G, fs, g, T, ends
<1>6. Pieced(log, g, n, T)
  <2>1. Joins(log, g, n)
    BY <1>3, <1>5, Zenon DEF Joins
  <2>2. \A j \in 1 .. n : g[j] \in Seq(T)
    BY <1>4, <1>5
  <2> QED
    BY <1>1, <2>1, <2>2, JoinedPieces
<1>7. \A m \in 0 .. n :
        /\ log[m] \in Seq(T) /\ Len(log[m]) \in Nat
        /\ \A i \in 1 .. m :
             /\ Len(log[i]) = Len(log[i - 1]) + Len(g[i]) /\ Len(log[i]) <= Len(log[m])
             /\ \A t \in 1 .. Len(g[i]) : log[m][Len(log[i - 1]) + t] = g[i][t]
  BY <1>6, Zenon DEF Pieced
<1>8. ASSUME NEW j \in 1 .. n
      PROVE  /\ RecordAt(log[n], Len(log[j - 1]), fs[j], ends[j], D, records[j])
             /\ Len(log[j]) = Len(log[j - 1]) + ends[j][Len(fs[j])]
             /\ Len(log[j]) <= Len(log[n])
  <2> DEFINE data == records[j]
             from == offsets[j]
             p == Len(log[j - 1])
             e == ends[j]
             f == fs[j]
             c == g[j]
             file == log[n]
  <2>1. /\ data \in Seq(D) /\ AtOffset(from, p) /\ p \in Nat
        /\ f = Fragments(data, from) /\ c = Emitted(f)
    <3>1. j - 1 \in 0 .. n
      BY <1>1, <1>8
    <3> QED
      BY <1>2, <1>3, <1>5, <1>7, <3>1 DEF F, G
  <2>2. Laid(e, f, D, data, from, p, c)
    <3>1. \E x : Lays(x, j)
      <4> HIDE DEF data, from, p, e, f, c
      <4>1. \E x : Laid(x, f, D, data, from, p, c)
        BY <2>1, EmittedLaid
      <4> QED
        BY <1>5, <4>1, Zenon DEF data, from, p, f, c
    <3>2. e = CHOOSE x : Lays(x, j)
      BY <1>5
    <3> HIDE DEF e
    <3>3. Lays(e, j)
      BY <3>1, <3>2, Zenon
    <3> QED
      BY <1>5, <3>3, Zenon
  <2>3. /\ n \in 0 .. n /\ j \in 1 .. n
        /\ Len(log[j]) = p + Len(c) /\ Len(log[j]) <= Len(file) /\ Len(file) \in Nat
        /\ \A t \in 1 .. Len(c) : file[p + t] = c[t]
    <3>1. n \in 0 .. n
      BY <1>1
    <3> QED
      BY <1>7, <1>8, <3>1, Zenon
  <2>4. Len(c) \in Nat
    BY <1>4, <1>5, LenProperties
  <2> HIDE DEF data, from, p, e, f, c, file
  <2>5. RecordAt(file, p, f, e, D, data)
    BY <2>1, <2>2, <2>3, <2>4, RecordLaid
  <2>6. e[Len(f)] = Len(c)
    BY <2>2, Zenon DEF Laid
  <2> QED
    BY <2>3, <2>5, <2>6 DEF data, p, e, f, file
<1>9. Len(log[0]) = 0
  BY <1>3
<1> QED
  BY <1>2, <1>7, <1>8, <1>9, ZenonT(40) DEF LogLaid, n, T

-----------------------------------------------------------------------------
(* What ReadAll makes of a log *)

(* The data of fragments, put together. *)
LEMMA FirstCells ==
    ASSUME NEW D, NEW data \in Seq(D), NEW b \in 0 .. Len(data)
    PROVE  /\ SubSeq(data, 1, b) \in Seq(D) /\ Len(SubSeq(data, 1, b)) = b
           /\ \A t \in 1 .. b : SubSeq(data, 1, b)[t] = data[t]
<1>1. Len(data) \in Nat
  BY LenProperties
<1>2. 0 \in 0 .. Len(data) /\ b \in 0 .. Len(data) /\ b - 0 = b /\ 0 + 1 = 1
      /\ \A t \in 1 .. b : 0 + t = t
  BY <1>1
<1>3. /\ SubSeq(data, 0 + 1, b) \in Seq(D) /\ Len(SubSeq(data, 0 + 1, b)) = b - 0
      /\ \A t \in 1 .. b - 0 : SubSeq(data, 0 + 1, b)[t] = data[0 + t]
  BY <1>2, SubSeqOf
<1> QED
  BY <1>2, <1>3

LEMMA NoCells ==
    ASSUME NEW D, NEW data \in Seq(D)
    PROVE  SubSeq(data, 1, 0) = <<>>
<1>1. Len(data) \in Nat
  BY LenProperties
<1>2. 0 \in 0 .. Len(data)
  BY <1>1
<1>3. SubSeq(data, 1, 0) \in Seq(D) /\ Len(SubSeq(data, 1, 0)) = 0
  BY <1>2, FirstCells
<1> QED
  BY <1>3, EmptySeq

LEMMA AllCells ==
    ASSUME NEW D, NEW data \in Seq(D)
    PROVE  SubSeq(data, 1, Len(data)) = data
<1> DEFINE s == SubSeq(data, 1, Len(data))
<1>1. Len(data) \in Nat
  BY LenProperties
<1>2. Len(data) \in 0 .. Len(data)
  BY <1>1
<1>3. s \in Seq(D) /\ Len(s) = Len(data) /\ \A t \in 1 .. Len(s) : s[t] = data[t]
  BY <1>2, FirstCells
<1> HIDE DEF s
<1>4. s = data
  BY <1>3, SeqEqual
<1> QED
  BY <1>4 DEF s

LEMMA CellsJoin ==
    ASSUME NEW D, NEW data \in Seq(D), NEW b \in 0 .. Len(data), NEW d \in b .. Len(data)
    PROVE  SubSeq(data, 1, b) \o SubSeq(data, b + 1, d) = SubSeq(data, 1, d)
<1> DEFINE u == SubSeq(data, 1, b)
           v == SubSeq(data, b + 1, d)
           w == SubSeq(data, 1, d)
           x == u \o v
<1>1. Len(data) \in Nat
  BY LenProperties
<1>2. d \in 0 .. Len(data) /\ b \in Nat /\ d \in Nat /\ b <= d
  BY <1>1
<1>3. u \in Seq(D) /\ Len(u) = b /\ \A t \in 1 .. b : u[t] = data[t]
  BY FirstCells
<1>4. w \in Seq(D) /\ Len(w) = d /\ \A t \in 1 .. d : w[t] = data[t]
  BY <1>2, FirstCells
<1>5. v \in Seq(D) /\ Len(v) = d - b /\ \A t \in 1 .. d - b : v[t] = data[b + t]
  BY SubSeqOf
<1> HIDE DEF u, v, w
<1>6. /\ x \in Seq(D) /\ Len(x) = Len(u) + Len(v)
      /\ \A t \in 1 .. Len(u) + Len(v) : x[t] = IF t <= Len(u) THEN u[t] ELSE v[t - Len(u)]
  BY <1>3, <1>5, ConcatProperties
<1>7. Len(x) = d
  BY <1>2, <1>3, <1>5, <1>6
<1> HIDE DEF x
<1>8. ASSUME NEW t \in 1 .. d
      PROVE  x[t] = w[t]
  <2>1. x[t] = IF t <= b THEN u[t] ELSE v[t - b]
    BY <1>2, <1>3, <1>5, <1>6, <1>8
  <2>2. CASE t <= b
    BY <1>2, <1>3, <1>4, <1>8, <2>1, <2>2
  <2>3. CASE ~(t <= b)
    <3>1. t - b \in 1 .. d - b /\ b + (t - b) = t
      BY <1>2, <1>8, <2>3
    <3>2. v[t - b] = data[t]
      BY <1>5, <3>1
    <3> QED
      BY <1>4, <1>8, <2>1, <2>3, <3>2
  <2> QED
    BY <2>2, <2>3
<1>9. x = w
  BY <1>4, <1>6, <1>7, <1>8, SeqEqual
<1> QED
  BY <1>9 DEF u, v, w, x

(* One turn of ReadAll. *)
AfterTurn(cells, checksum, s) ==
    LET f == ReadPhysicalRecord(cells, s.pos, checksum)
    IN  IF s.pos = Len(cells) THEN s
        ELSE [r |-> AfterFragment(s.r, f), pos |-> f.next, torn |-> f.type \in {"eof", "zero", "bad"}]

(* Corruption is reported of no log that is only cut short. *)
Reports(cells, k) == IF Len(cells) = k THEN {FALSE} ELSE BOOLEAN

LEMMA ReportsFalse ==
    ASSUME NEW cells, NEW k
    PROVE  FALSE \in Reports(cells, k)
BY DEF Reports

LEMMA TurnDropped ==
    ASSUME NEW cells, NEW checksum, NEW s, s.pos # Len(cells), NEW x, NEW y,
           ReadPhysicalRecord(cells, s.pos, checksum) = Dropped(x, y)
    PROVE  AfterTurn(cells, checksum, s) =
             [r |-> AfterFragment(s.r, Dropped(x, y)), pos |-> y, torn |-> x \in {"eof", "zero", "bad"}]
<1> DEFINE f == Dropped(x, y)
<1>1. f.next = y /\ f.type = x
  BY DEF Dropped
<1> HIDE DEF f
<1>2. AfterTurn(cells, checksum, s) =
        [r |-> AfterFragment(s.r, f), pos |-> f.next, torn |-> f.type \in {"eof", "zero", "bad"}]
  BY Zenon DEF AfterTurn, f
<1> QED
  BY <1>1, <1>2, Zenon DEF f

(* The reader in front of a fragment of a record, and behind it. *)
InFront(rs, data, i, before) == IF i = 1 THEN Between(rs) ELSE Within(rs, SubSeq(data, 1, before))
InBack(rs, data, i, count, done) ==
    IF i = count THEN Between(Append(rs, data)) ELSE Within(rs, SubSeq(data, 1, done))

(* The reader stands at a fragment, or behind the zeros in front of it.    *)
Facing(s, k, rs, data, i, before, p, pad) ==
    /\ s.pos = p \/ s.pos = p + pad
    /\ s.pos <= k /\ s.torn = FALSE
    /\ s.r = InFront(rs, data, i, before)

(* It has read it. *)
Behind(t, k, rs, data, i, count, done, z) ==
    /\ t.pos = z /\ z <= k /\ t.torn = FALSE
    /\ t.r = InBack(rs, data, i, count, done)

(* It is behind what is kept. *)
Beyond(t, cells, k, rs) ==
    t.pos \in k .. Len(cells) /\ Returned(t.r, rs, Reports(cells, k))

LEMMA TurnPad ==
    ASSUME NEW f, NEW p \in Nat, Fits(f, p), f.pad # 0, NEW cells, Len(cells) \in Nat,
           NEW k \in Nat, k <= Len(cells), NEW checksum, NEW rs, NEW data, NEW i, NEW before,
           NEW s, Facing(s, k, rs, data, i, before, p, f.pad), s.pos = p, s.pos # Len(cells),
           NEW t, t = AfterTurn(cells, checksum, s)
    PROVE  /\ t.pos \in Nat /\ t.pos > s.pos /\ t.pos <= Len(cells)
           /\ \/ Facing(t, k, rs, data, i, before, p, f.pad)
              \/ k < p + f.pad /\ Beyond(t, cells, k, rs)
<1> DEFINE q == p + f.pad
           N == Len(cells)
<1>1. /\ s.pos = p /\ p <= k /\ s.r = InFront(rs, data, i, before)
  BY DEF Facing
<1>2. p < N /\ N \in Nat
  BY <1>1
<1>3. q \in Nat /\ q > p
  <2>1. f.pad \in Nat /\ f.pad # 0
    BY FormatAssumption DEF Fits
  <2> QED
    BY <2>1
<1>4. \/ q <= N /\ ReadPhysicalRecord(cells, p, checksum) = Dropped("trailer", q)
      \/ N < q /\ ReadPhysicalRecord(cells, p, checksum) = Dropped("eof", N)
  <2>1. p < Len(cells)
    BY <1>2
  <2> QED
    BY <2>1, ReadPad
<1>5. Returned(s.r, rs, Reports(cells, k))
  BY <1>1, ReportsFalse, ReturnedInOrder DEF InFront
<1> HIDE DEF q, N
<1>6. CASE q <= N /\ ReadPhysicalRecord(cells, p, checksum) = Dropped("trailer", q)
  <2>0. ReadPhysicalRecord(cells, s.pos, checksum) = Dropped("trailer", q)
    BY <1>1, <1>6
  <2>1. t = [r |-> AfterFragment(s.r, Dropped("trailer", q)), pos |-> q,
             torn |-> "trailer" \in {"eof", "zero", "bad"}]
    BY <2>0, TurnDropped
  <2>2. t.r = s.r /\ t.torn = FALSE /\ t.pos = q
    <3>1. AfterFragment(s.r, Dropped("trailer", q)) = s.r
      BY AfterNothing
    <3>2. ("trailer" \in {"eof", "zero", "bad"}) = FALSE
      OBVIOUS
    <3>3. t = [r |-> s.r, pos |-> q, torn |-> FALSE]
      BY <2>1, <3>1, <3>2, Zenon
    <3> QED
      BY <3>3
  <2>3. CASE q <= k
    BY <1>1, <1>2, <1>3, <1>6, <2>2, <2>3 DEF Facing, q, N
  <2>4. CASE ~(q <= k)
    <3>1. t.pos \in k .. N /\ k < q
      BY <1>2, <1>3, <1>6, <2>2, <2>4
    <3> QED
      BY <1>1, <1>2, <1>3, <1>5, <1>6, <2>2, <3>1 DEF Beyond, q, N
  <2> QED
    BY <2>3, <2>4
<1>7. CASE N < q /\ ReadPhysicalRecord(cells, p, checksum) = Dropped("eof", N)
  <2>0. ReadPhysicalRecord(cells, s.pos, checksum) = Dropped("eof", N)
    BY <1>1, <1>7
  <2>1. t = [r |-> AfterFragment(s.r, Dropped("eof", N)), pos |-> N,
             torn |-> "eof" \in {"eof", "zero", "bad"}]
    BY <2>0, TurnDropped
  <2>2. t.r = s.r /\ t.pos = N
    BY <2>1, AfterNothing
  <2>3. k <= N
    BY DEF N
  <2>4. t.pos \in k .. N /\ k < q
    BY <1>2, <1>3, <1>7, <2>2, <2>3
  <2> QED
    BY <1>1, <1>2, <1>5, <2>2, <2>4 DEF Beyond, q, N
<1> QED
  BY <1>4, <1>6, <1>7

(* A fragment that is kept whole. *)
TypeOf(i, count) == IF i = 1 THEN (IF i = count THEN "full" ELSE "first")
                    ELSE IF i = count THEN "last" ELSE "middle"

LEMMA TypeOfIs ==
    ASSUME NEW i, NEW count, NEW x, x = TypeOf(i, count)
    PROVE  /\ x \notin {"eof", "zero", "bad"}
           /\ i = 1 /\ i = count => x = "full"
           /\ i = 1 /\ i # count => x = "first"
           /\ i # 1 /\ i = count => x = "last"
           /\ i # 1 /\ i # count => x = "middle"
BY DEF TypeOf

PieceIs(f, D, data, i, count, before, done) ==
    /\ data \in Seq(D) /\ before \in 0 .. Len(data) /\ done \in before .. Len(data)
    /\ i = 1 => before = 0
    /\ i = count => done = Len(data)
    /\ f.type = TypeOf(i, count) /\ f.data = SubSeq(data, before + 1, done)

LEMMA AfterPiece ==
    ASSUME NEW D, NEW data, NEW i, NEW count, NEW rs, NEW f, NEW before, NEW done,
           PieceIs(f, D, data, i, count, before, done)
    PROVE  AfterFragment(InFront(rs, data, i, before), f) = InBack(rs, data, i, count, done)
<1> DEFINE r == InFront(rs, data, i, before)
           x == TypeOf(i, count)
           b == SubSeq(data, 1, before)
           e == SubSeq(data, 1, done)
           d == SubSeq(data, before + 1, done)
<1>0. /\ data \in Seq(D) /\ before \in 0 .. Len(data) /\ done \in before .. Len(data)
      /\ i = 1 => before = 0
      /\ i = count => done = Len(data)
  BY DEF PieceIs
<1>1. b \o d = e
  BY <1>0, CellsJoin
<1>2. i = count => e = data
  BY <1>0, AllCells
<1>3. i = 1 => d = e
  BY <1>0
<1>4. f.type = x /\ f.data = d /\ r = IF i = 1 THEN Between(rs) ELSE Within(rs, b)
  BY DEF InFront, PieceIs
<1>5. /\ i = 1 /\ i = count => x = "full"
      /\ i = 1 /\ i # count => x = "first"
      /\ i # 1 /\ i = count => x = "last"
      /\ i # 1 /\ i # count => x = "middle"
  BY TypeOfIs
<1> HIDE DEF r, x, b, e, d
<1>6. CASE i = 1 /\ i = count
  <2>1. r = Between(rs) /\ f.type = "full" /\ f.data = data
    BY <1>2, <1>3, <1>4, <1>5, <1>6
  <2>2. AfterFragment(Between(rs), f) = Between(Append(rs, f.data))
    BY <2>1, AfterFull
  <2>3. InBack(rs, data, i, count, done) = Between(Append(rs, data))
    BY <1>6, Zenon DEF InBack
  <2> QED
    BY <2>1, <2>2, <2>3, Zenon DEF r
<1>7. CASE i = 1 /\ i # count
  <2>1. r = Between(rs) /\ f.type = "first" /\ f.data = e
    BY <1>3, <1>4, <1>5, <1>7
  <2>2. AfterFragment(Between(rs), f) = Within(rs, f.data)
    BY <2>1, AfterFirst
  <2>3. InBack(rs, data, i, count, done) = Within(rs, e)
    BY <1>7, Zenon DEF InBack, e
  <2> QED
    BY <2>1, <2>2, <2>3, Zenon DEF r
<1>8. CASE i # 1 /\ i = count
  <2>1. r = Within(rs, b) /\ f.type = "last" /\ b \o f.data = data
    BY <1>1, <1>2, <1>4, <1>5, <1>8
  <2>2. AfterFragment(Within(rs, b), f) = Between(Append(rs, b \o f.data))
    BY <2>1, AfterLast, Zenon
  <2>3. InBack(rs, data, i, count, done) = Between(Append(rs, data))
    BY <1>8, Zenon DEF InBack
  <2> QED
    BY <2>1, <2>2, <2>3, Zenon DEF r
<1>9. CASE i # 1 /\ i # count
  <2>1. r = Within(rs, b) /\ f.type = "middle" /\ b \o f.data = e
    BY <1>1, <1>4, <1>5, <1>9
  <2>2. AfterFragment(Within(rs, b), f) = Within(rs, b \o f.data)
    BY <2>1, AfterMiddle, Zenon
  <2>3. InBack(rs, data, i, count, done) = Within(rs, e)
    BY <1>9, Zenon DEF InBack, e
  <2> QED
    BY <2>1, <2>2, <2>3, Zenon DEF r
<1> QED
  BY <1>6, <1>7, <1>8, <1>9 DEF r

(* The reader stands at a fragment that is kept whole. *)
LEMMA TurnWhole ==
    ASSUME NEW D, NEW data \in Seq(D), NEW f, NEW file, NEW i, NEW count, NEW before, NEW p \in Nat,
           PieceOf(file, f, D, data, i, count, before, p), i = 1 => before = 0,
           NEW cells \in Seq(CellSet(D)), NEW k \in Nat, Kept(cells, file, k), NEW checksum,
           NEW rs, NEW s, NEW q, q = p + f.pad, s.pos = q,
           s.r = InFront(rs, data, i, before),
           q + HeaderSize + Len(f.data) <= k, NEW t, t = AfterTurn(cells, checksum, s)
    PROVE  /\ s.pos # Len(cells)
           /\ Behind(t, k, rs, data, i, count, f.done, q + HeaderSize + Len(f.data))
<1> DEFINE z == q + HeaderSize + Len(f.data)
           g == FragmentRead(f, z)
           u == AfterFragment(s.r, g)
<1>1. /\ PieceAt(file, p, f) /\ f \in FragmentSet(D)
      /\ before \in 0 .. Len(data) /\ f.done \in before .. Len(data)
      /\ f.data = SubSeq(data, before + 1, f.done) /\ f.type = TypeOf(i, count)
      /\ i = count => f.done = Len(data)
  BY Zenon DEF PieceOf, TypeOf
<1>2. q < Len(cells) /\ ReadPhysicalRecord(cells, q, checksum) = g
  <2>1. PieceAt(file, p, f) /\ f \in FragmentSet(D)
    BY <1>1
  <2> QED
    BY <2>1, ReadWhole
<1>3. s.pos # Len(cells)
  <2>1. q \in Nat /\ Len(cells) \in Nat
    <3>1. f.pad \in Nat
      BY <1>1 DEF FragmentSet
    <3> QED
      BY <3>1, LenProperties
  <2> QED
    BY <1>2, <2>1
<1>4. g.type = f.type /\ g.data = f.data /\ g.next = z
  BY DEF FragmentRead
<1> HIDE DEF z, g, u
<1>5. u = InBack(rs, data, i, count, f.done)
  <2> DEFINE done == f.done
             r == s.r
  <2>1. PieceIs(g, D, data, i, count, before, done) /\ r = InFront(rs, data, i, before)
    BY <1>1, <1>4 DEF PieceIs
  <2> HIDE DEF done, r
  <2>2. AfterFragment(InFront(rs, data, i, before), g) = InBack(rs, data, i, count, done)
    BY <2>1, AfterPiece
  <2> QED
    BY <2>1, <2>2 DEF done, r, u
<1>6. (g.type \in {"eof", "zero", "bad"}) = FALSE
  <2>1. g.type = TypeOf(i, count)
    BY <1>1, <1>4
  <2> HIDE DEF g
  <2> QED
    BY <2>1, TypeOfIs
<1>7. t = [r |-> u, pos |-> z, torn |-> FALSE]
  <2>1. AfterTurn(cells, checksum, s) =
          [r |-> AfterFragment(s.r, g), pos |-> g.next, torn |-> g.type \in {"eof", "zero", "bad"}]
    BY <1>2, <1>3, Zenon DEF AfterTurn
  <2> QED
    BY <1>4, <1>6, <2>1, Zenon DEF u
<1>8. t.pos = z /\ t.torn = FALSE /\ t.r = u
  BY <1>7
<1>9. z <= k
  BY DEF z
<1>10. Behind(t, k, rs, data, i, count, f.done, z)
  BY <1>5, <1>8, <1>9, Zenon DEF Behind
<1> QED
  BY <1>3, <1>10 DEF z

(* The reader stands where nothing can be read. *)
LEMMA TurnDead ==
    ASSUME NEW cells, NEW k \in Nat, NEW rs, NEW checksum, NEW s, s.pos \in Nat,
           s.pos # Len(cells), Returned(s.r, rs, Reports(cells, k)),
           NEW x \in {"eof", "trailer", "zero", "bad"}, NEW y \in k .. Len(cells),
           Len(cells) \in Nat, x \in {"zero", "bad"} => Len(cells) > k,
           ReadPhysicalRecord(cells, s.pos, checksum) = Dropped(x, y), y > s.pos,
           NEW t, t = AfterTurn(cells, checksum, s)
    PROVE  t.pos \in Nat /\ t.pos > s.pos /\ t.pos <= Len(cells) /\ Beyond(t, cells, k, rs)
<1> DEFINE u == AfterFragment(s.r, Dropped(x, y))
           C == Reports(cells, k)
           r == s.r
<1>1. t = [r |-> u, pos |-> y, torn |-> x \in {"eof", "zero", "bad"}]
  <2>1. AfterTurn(cells, checksum, s) = [r |-> u, pos |-> y, torn |-> x \in {"eof", "zero", "bad"}]
    BY TurnDropped
  <2> QED
    BY <2>1, Zenon
<1>2. t.pos = y /\ t.r = u
  <2> HIDE DEF u
  <2> QED
    BY <1>1
<1>3. x \in {"zero", "bad"} => C = BOOLEAN
  BY DEF Reports
<1>4. Returned(r, rs, C)
  OBVIOUS
<1>5. Returned(u, rs, C)
  <2> HIDE DEF r, C
  <2>1. Returned(AfterFragment(r, Dropped(x, y)), rs, C)
    BY <1>3, <1>4, AfterDropped
  <2> QED
    BY <2>1 DEF r
<1> HIDE DEF u
<1>6. Beyond(t, cells, k, rs)
  BY <1>2, <1>5, Zenon DEF Beyond, C
<1> QED
  BY <1>2, <1>6

(* One turn at a fragment of a record.                                     *)
Turns(s, t, cells, k, rs, data, f, i, count, before, p) ==
    /\ t.pos \in Nat /\ t.pos > s.pos /\ t.pos <= Len(cells)
    /\ \/ Facing(t, k, rs, data, i, before, p, f.pad)
       \/ Behind(t, k, rs, data, i, count, f.done, p + Len(Cells(f)))
       \/ k < p + Len(Cells(f)) /\ Beyond(t, cells, k, rs)

LEMMA TurnPiece ==
    ASSUME NEW D, Zero \notin D, NEW data \in Seq(D), NEW f, NEW file, NEW i, NEW count,
           NEW before, NEW p \in Nat, PieceOf(file, f, D, data, i, count, before, p),
           i = 1 => before = 0,
           NEW cells \in Seq(CellSet(D)), NEW k \in Nat, Kept(cells, file, k),
           NEW checksum, checksum \/ Len(cells) = k,
           NEW rs, NEW s, Facing(s, k, rs, data, i, before, p, f.pad), s.pos # Len(cells),
           NEW t, t = AfterTurn(cells, checksum, s)
    PROVE  Turns(s, t, cells, k, rs, data, f, i, count, before, p)
<1> DEFINE q == p + f.pad
           z == q + HeaderSize + Len(f.data)
           N == Len(cells)
<1>1. PieceAt(file, p, f) /\ f \in FragmentSet(D)
  BY Zenon DEF PieceOf
<1>2. /\ f.pad \in Nat /\ Len(f.data) \in Nat /\ HeaderSize \in Nat /\ HeaderSize > 1
      /\ p + Len(Cells(f)) = z
  <2>1. f.pad \in Nat /\ f.data \in Seq(D)
    BY <1>1 DEF FragmentSet
  <2>2. Len(f.data) \in Nat
    BY <2>1, LenProperties
  <2>3. Len(Cells(f)) = f.pad + HeaderSize + Len(f.data)
    BY <1>1, CellsHold
  <2> QED
    BY <2>1, <2>2, <2>3, FormatAssumption
<1>3. N \in Nat /\ k <= N
  BY LenProperties DEF Kept
<1>4. /\ s.pos = p \/ s.pos = q
      /\ s.pos <= k
      /\ s.r = InFront(rs, data, i, before)
  BY Zenon DEF Facing
<1>5. Returned(s.r, rs, Reports(cells, k))
  BY <1>4, ReportsFalse, ReturnedInOrder DEF InFront
<1>6. q \in Nat /\ z \in Nat /\ q < z /\ p <= q /\ s.pos \in Nat
  BY <1>2, <1>4, SMTT(40)
<1> HIDE DEF q, z, N
<1>7. CASE s.pos = p /\ f.pad # 0
  <2>1. Fits(f, p)
    BY <1>1 DEF PieceAt
  <2>2. /\ t.pos \in Nat /\ t.pos > s.pos /\ t.pos <= N
        /\ \/ Facing(t, k, rs, data, i, before, p, f.pad)
           \/ k < q /\ Beyond(t, cells, k, rs)
    <3>1. Len(cells) \in Nat /\ k <= Len(cells)
      BY <1>3 DEF N
    <3> QED
      BY <1>7, <2>1, <3>1, TurnPad DEF q, N
  <2>3. k < q => k < z
    BY <1>6
  <2> QED
    BY <1>2, <2>2, <2>3, Zenon DEF Turns, N
<1>8. CASE ~(s.pos = p /\ f.pad # 0)
  <2>1. s.pos = q
    BY <1>2, <1>4, <1>8 DEF q
  <2>2. CASE z <= k
    <3>1. Behind(t, k, rs, data, i, count, f.done, z)
      <4>1. q + HeaderSize + Len(f.data) <= k
        BY <2>2 DEF z
      <4>2. Behind(t, k, rs, data, i, count, f.done, q + HeaderSize + Len(f.data))
        BY <1>4, <2>1, <4>1, TurnWhole DEF q
      <4> QED
        BY <4>2 DEF z
    <3>2. t.pos = z
      BY <3>1 DEF Behind
    <3>3. t.pos \in Nat /\ t.pos > s.pos /\ t.pos <= N
      BY <1>3, <1>6, <2>1, <2>2, <3>2
    <3> QED
      BY <1>2, <3>1, <3>3, Zenon DEF Turns, N
  <2>3. CASE ~(z <= k)
    <3>1. \E x \in {"eof", "trailer", "zero", "bad"}, y \in k .. N :
            /\ ReadPhysicalRecord(cells, q, checksum) = Dropped(x, y)
            /\ y > q /\ (x \in {"zero", "bad"} => N > k)
      <4>1. CASE q < k
        <5>1. k < q + HeaderSize + Len(f.data)
          BY <1>6, <2>3 DEF z
        <5>2. \E x \in {"eof", "bad"}, y \in k .. Len(cells) :
                /\ ReadPhysicalRecord(cells, q, checksum) = Dropped(x, y)
                /\ y > q /\ (x = "bad" => Len(cells) > k)
          BY <1>1, <4>1, <5>1, ReadTorn DEF q
        <5> QED
          BY <5>2 DEF N
      <4>2. CASE ~(q < k)
        <5>1. q < N /\ q >= k
          BY <1>3, <1>4, <1>6, <2>1, <4>2 DEF N
        <5>2. \A j \in 1 .. Len(cells) : j > k => cells[j] = Zero
          BY <1>3 DEF Kept, N
        <5>3. \E x \in {"eof", "trailer", "zero"}, y \in k .. Len(cells) :
                ReadPhysicalRecord(cells, q, checksum) = Dropped(x, y) /\ y > q
          BY <1>6, <5>1, <5>2, ReadDead DEF N
        <5>4. N > k
          BY <1>3, <1>4, <1>6, <2>1, <4>2, <5>1
        <5> QED
          BY <5>3, <5>4 DEF N
      <4> QED
        BY <4>1, <4>2
    <3>2. PICK x \in {"eof", "trailer", "zero", "bad"}, y \in k .. N :
            /\ ReadPhysicalRecord(cells, q, checksum) = Dropped(x, y)
            /\ y > q /\ (x \in {"zero", "bad"} => N > k)
      BY <3>1
    <3>3. /\ s.pos \in Nat /\ ReadPhysicalRecord(cells, s.pos, checksum) = Dropped(x, y)
          /\ y > s.pos /\ Len(cells) \in Nat /\ (x \in {"zero", "bad"} => Len(cells) > k)
          /\ y \in k .. Len(cells)
      BY <1>3, <1>6, <2>1, <3>2 DEF N
    <3>4. t.pos \in Nat /\ t.pos > s.pos /\ t.pos <= Len(cells) /\ Beyond(t, cells, k, rs)
      BY <1>5, <3>3, TurnDead
    <3>5. k < z
      BY <1>6, <2>3
    <3> QED
      BY <1>2, <3>4, <3>5, Zenon DEF Turns
  <2> QED
    BY <2>2, <2>3
<1> QED
  BY <1>7, <1>8

LEMMA OneMore ==
    ASSUME NEW S, NEW s \in Seq(S), NEW j \in 1 .. Len(s)
    PROVE  Append(SubSeq(s, 1, j - 1), s[j]) = SubSeq(s, 1, j)
<1> DEFINE u == SubSeq(s, 1, j - 1)
           w == SubSeq(s, 1, j)
           x == Append(u, s[j])
<1>1. Len(s) \in Nat
  BY LenProperties
<1>2. j - 1 \in 0 .. Len(s) /\ j \in 0 .. Len(s) /\ j \in Nat /\ (j - 1) + 1 = j
  BY <1>1
<1>3. u \in Seq(S) /\ Len(u) = j - 1 /\ \A t \in 1 .. j - 1 : u[t] = s[t]
  BY <1>2, FirstCells
<1>4. w \in Seq(S) /\ Len(w) = j /\ \A t \in 1 .. j : w[t] = s[t]
  BY <1>2, FirstCells
<1>5. s[j] \in S
  BY ElementOfSeq
<1> HIDE DEF u, w
<1>6. /\ x \in Seq(S) /\ Len(x) = Len(u) + 1
      /\ \A t \in 1 .. Len(u) : x[t] = u[t]
      /\ x[Len(u) + 1] = s[j]
  BY <1>3, <1>5, AppendProperties
<1> HIDE DEF x
<1>7. Len(x) = Len(w)
  BY <1>2, <1>3, <1>4, <1>6
<1>8. ASSUME NEW t \in 1 .. Len(x)
      PROVE  x[t] = w[t]
  <2>1. t = j \/ t \in 1 .. j - 1
    BY <1>2, <1>4, <1>7, <1>8
  <2>2. CASE t = j
    BY <1>2, <1>3, <1>4, <1>6, <2>2
  <2>3. CASE t \in 1 .. j - 1
    BY <1>2, <1>3, <1>4, <1>6, <2>3
  <2> QED
    BY <2>1, <2>2, <2>3
<1>9. x = w
  BY <1>4, <1>6, <1>7, <1>8, SeqEqual
<1> QED
  BY <1>9 DEF u, w, x

(* The reader stands at the i-th fragment of the j-th record.              *)
Standing(s, k, log, fs, ends, records, j, i) ==
    Facing(s, k, SubSeq(records, 1, j - 1), records[j], i, Before(fs[j], i),
           Len(log[j - 1]) + ends[j][i - 1], fs[j][i].pad)

(* It has returned the m records that are kept whole, and is behind them.  *)
Ended(s, cells, k, log, records, m) ==
    /\ m \in 0 .. Len(records) /\ Len(log[m]) <= k
    /\ m # Len(records) => k < Len(log[m + 1])
    /\ Beyond(s, cells, k, SubSeq(records, 1, m))
    /\ Len(log[Len(records)]) = k /\ Len(cells) = k => s.torn = FALSE

Reading(s, cells, k, log, fs, ends, records) ==
    \/ \E j \in 1 .. Len(records) : \E i \in 1 .. Len(fs[j]) :
         Standing(s, k, log, fs, ends, records, j, i)
    \/ \E m \in 0 .. Len(records) : Ended(s, cells, k, log, records, m)

(* The reader has read a fragment.                                         *)
LEMMA ReadOn ==
    ASSUME NEW D, NEW records \in Seq(Seq(D)), NEW log, NEW fs, NEW ends,
           LogLaid(log, fs, ends, D, records), NEW j \in 1 .. Len(records), NEW i \in 1 .. Len(fs[j]),
           NEW cells, Len(cells) \in Nat,
           NEW k \in 0 .. Len(log[Len(records)]), k <= Len(cells), NEW t,
           Behind(t, k, SubSeq(records, 1, j - 1), records[j], i, Len(fs[j]), fs[j][i].done,
                  Len(log[j - 1]) + ends[j][i - 1] + Len(Cells(fs[j][i])))
    PROVE  Reading(t, cells, k, log, fs, ends, records)
<1> DEFINE n == Len(records)
           f == fs[j]
           e == ends[j]
           rs == SubSeq(records, 1, j - 1)
           data == records[j]
           at == Len(log[j - 1])
           count == Len(f)
           z == at + e[i - 1] + Len(Cells(f[i]))
<1>1. n \in Nat
  BY LenProperties
<1>2. /\ \A m \in 0 .. n : Len(log[m]) \in Nat
      /\ RecordAt(log[n], at, f, e, D, data) /\ Len(log[j]) = at + e[count]
      /\ \A m \in 1 .. n : RecordAt(log[n], Len(log[m - 1]), fs[m], ends[m], D, records[m])
  BY Zenon DEF LogLaid
<1>3. /\ count \in Nat \ {0} /\ \A m \in 0 .. count : e[m] \in Nat
      /\ e[i] = e[i - 1] + Len(Cells(f[i]))
  BY <1>2, Zenon DEF RecordAt
<1>4. Behind(t, k, rs, data, i, count, f[i].done, z)
  OBVIOUS
<1> HIDE DEF n, f, e, rs, data, at, count, z
<1>5. t.pos = z /\ z <= k /\ t.torn = FALSE /\ t.r = InBack(rs, data, i, count, f[i].done)
  BY <1>4, Zenon DEF Behind
<1>6. i \in 1 .. count /\ j \in 1 .. n /\ i \in Nat /\ j \in Nat
  BY DEF n, count, f
<1>7. z = at + e[i] /\ at \in Nat /\ z \in Nat
  <2>1. at \in Nat
    <3>1. j - 1 \in 0 .. n
      BY <1>1, <1>6
    <3> QED
      BY <1>2, <3>1 DEF at
  <2>2. i \in 0 .. count /\ i - 1 \in 0 .. count
    BY <1>3, <1>6
  <2>3. e[i] \in Nat /\ e[i - 1] \in Nat
    BY <1>3, <2>2
  <2>4. PieceOf(log[n], f[i], D, data, i, count, Before(f, i), at + e[i - 1])
    BY <1>2, <1>6, Zenon DEF RecordAt, count
  <2>5. f[i] \in FragmentSet(D)
    BY <2>4, Zenon DEF PieceOf
  <2>6. Len(Cells(f[i])) \in Nat
    BY <2>5, CellsHold, LenProperties
  <2> DEFINE x == e[i]
             y == e[i - 1]
             c == Len(Cells(f[i]))
  <2>7. z = at + y + c /\ x = y + c /\ x \in Nat /\ y \in Nat /\ c \in Nat
    BY <1>3, <2>3, <2>6 DEF z
  <2> HIDE DEF x, y, c
  <2>8. z = at + x
    BY <2>1, <2>7
  <2>9. at + x \in Nat
    BY <2>1, <2>7
  <2> QED
    BY <2>1, <2>8, <2>9 DEF x
<1>8. CASE i # count
  <2>1. i + 1 \in 1 .. count /\ i + 1 # 1 /\ (i + 1) - 1 = i
    BY <1>3, <1>6, <1>8
  <2>2. Before(f, i + 1) = f[i].done
    BY <2>1 DEF Before
  <2>3. t.r = InFront(rs, data, i + 1, Before(f, i + 1))
    BY <1>5, <1>8, <2>1, <2>2, Zenon DEF InBack, InFront
  <2>4. t.pos = at + e[(i + 1) - 1]
    BY <1>5, <1>7, <2>1
  <2>5. t.pos <= k
    BY <1>5
  <2>6. Standing(t, k, log, fs, ends, records, j, i + 1)
    BY <1>5, <2>3, <2>4, <2>5, Zenon DEF Standing, Facing, f, e, rs, data, at
  <2> QED
    BY <1>6, <2>1, <2>6, Zenon DEF Reading, n, count, f
<1>9. CASE i = count
  <2>1. z = Len(log[j])
    BY <1>2, <1>7, <1>9
  <2>2. t.r = Between(SubSeq(records, 1, j))
    <3>1. t.r = Between(Append(rs, data))
      BY <1>5, <1>9, Zenon DEF InBack
    <3>2. Append(rs, data) = SubSeq(records, 1, j)
      BY OneMore DEF rs, data
    <3> QED
      BY <3>1, <3>2
  <2>3. CASE j # n
    <3>1. j + 1 \in 1 .. n /\ (j + 1) - 1 = j /\ 1 - 1 = 0
      BY <1>1, <1>6, <2>3
    <3>2. /\ Len(fs[j + 1]) \in Nat \ {0} /\ ends[j + 1][0] = 0
      BY <1>2, <3>1, Zenon DEF RecordAt
    <3>3. t.pos = Len(log[(j + 1) - 1]) + ends[j + 1][1 - 1]
      <4>1. z + 0 = z
        BY <1>7
      <4> QED
        BY <1>5, <2>1, <3>1, <3>2, <4>1
    <3>4. t.r = InFront(SubSeq(records, 1, (j + 1) - 1), records[j + 1], 1, Before(fs[j + 1], 1))
      BY <2>2, <3>1, Zenon DEF InFront
    <3>5. t.pos <= k
      BY <1>5
    <3>6. Standing(t, k, log, fs, ends, records, j + 1, 1)
      BY <1>5, <3>3, <3>4, <3>5, Zenon DEF Standing, Facing
    <3>7. 1 \in 1 .. Len(fs[j + 1])
      BY <3>2
    <3> QED
      BY <3>1, <3>6, <3>7, Zenon DEF Reading, n
  <2>4. CASE j = n
    <3>1. n \in 0 .. n /\ Len(log[n]) = k /\ t.pos = k
      <4>1. k \in 0 .. Len(log[n]) /\ Len(log[n]) \in Nat
        BY <1>1, <1>2 DEF n
      <4> QED
        BY <1>1, <1>5, <2>1, <2>4, <4>1
    <3>2. t.pos \in k .. Len(cells)
      BY <3>1
    <3>3. Returned(t.r, SubSeq(records, 1, n), Reports(cells, k))
      BY <2>2, <2>4, ReportsFalse, ReturnedInOrder
    <3>4. Len(log[n]) <= k
      BY <3>1
    <3>5. Ended(t, cells, k, log, records, n)
      BY <1>5, <3>1, <3>2, <3>3, <3>4, Zenon DEF Ended, Beyond, n
    <3> QED
      BY <3>1, <3>5, Zenon DEF Reading, n
  <2> QED
    BY <2>3, <2>4
<1> QED
  BY <1>8, <1>9

(* It stops in front of what is not kept.                                  *)
LEMMA ReadNoMore ==
    ASSUME NEW D, NEW records \in Seq(Seq(D)), NEW log, NEW fs, NEW ends,
           LogLaid(log, fs, ends, D, records), NEW j \in 1 .. Len(records), NEW i \in 1 .. Len(fs[j]),
           NEW cells, NEW k \in Nat, NEW t, Len(log[j - 1]) + ends[j][i - 1] <= k,
           k < Len(log[j - 1]) + ends[j][i - 1] + Len(Cells(fs[j][i])),
           Beyond(t, cells, k, SubSeq(records, 1, j - 1))
    PROVE  Ended(t, cells, k, log, records, j - 1)
<1> DEFINE n == Len(records)
           f == fs[j]
           e == ends[j]
           at == Len(log[j - 1])
           count == Len(f)
           x == e[i]
           y == e[i - 1]
           c == Len(Cells(f[i]))
           l == e[count]
<1>1. n \in Nat /\ j - 1 \in 0 .. n /\ (j - 1) + 1 = j
  BY LenProperties
<1>2. /\ \A m \in 0 .. n : Len(log[m]) \in Nat
      /\ RecordAt(log[n], at, f, e, D, records[j]) /\ Len(log[j]) = at + l
  BY Zenon DEF LogLaid
<1>3. /\ count \in Nat \ {0} /\ \A m \in 0 .. count : e[m] \in Nat
      /\ PieceOf(log[n], f[i], D, records[j], i, count, Before(f, i), at + y)
      /\ x = y + c /\ x <= l
  BY <1>2, Zenon DEF RecordAt
<1>4. PieceAt(log[n], at + y, f[i]) /\ f[i] \in FragmentSet(D)
  BY <1>3, Zenon DEF PieceOf
<1>5. c \in Nat
  BY <1>4, CellsHold, LenProperties
<1>6. at + y + c <= Len(log[n])
  BY <1>4, Zenon DEF PieceAt
<1>7. at + y <= k /\ k < at + y + c /\ at \in Nat
  BY <1>1, <1>2
<1> HIDE DEF n, e, at, f, count, x, y, c, l
<1>8. y \in Nat /\ l \in Nat
  <2>1. i \in 1 .. count
    BY DEF count, f
  <2>2. i - 1 \in 0 .. count /\ count \in 0 .. count
    BY <1>3, <2>1
  <2> QED
    BY <1>3, <2>2 DEF y, l
<1>9. at <= k
  BY <1>7, <1>8
<1>10. k < Len(log[j])
  <2>1. k < at + l
    BY <1>3, <1>5, <1>7, <1>8
  <2> QED
    BY <1>2, <2>1
<1>11. Len(log[n]) # k
  <2>1. Len(log[n]) \in Nat
    BY <1>1, <1>2
  <2> QED
    BY <1>5, <1>6, <1>7, <1>8, <2>1
<1> QED
  BY <1>1, <1>9, <1>10, <1>11, Zenon DEF Ended, n, at

LEMMA TurnStanding ==
    ASSUME NEW D, Zero \notin D, NEW records \in Seq(Seq(D)), NEW log, NEW fs, NEW ends,
           LogLaid(log, fs, ends, D, records), NEW j \in 1 .. Len(records), NEW i \in 1 .. Len(fs[j]),
           NEW cells \in Seq(CellSet(D)), NEW k \in Nat, Kept(cells, log[Len(records)], k),
           NEW checksum, checksum \/ Len(cells) = k,
           NEW s, Standing(s, k, log, fs, ends, records, j, i), s.pos # Len(cells),
           NEW t, t = AfterTurn(cells, checksum, s)
    PROVE  /\ t.pos \in Nat /\ t.pos > s.pos /\ t.pos <= Len(cells)
           /\ Reading(t, cells, k, log, fs, ends, records)
<1> DEFINE n == Len(records)
           file == log[n]
           f == fs[j]
           e == ends[j]
           rs == SubSeq(records, 1, j - 1)
           data == records[j]
           p == Len(log[j - 1]) + e[i - 1]
           count == Len(f)
           g == f[i]
           b == Before(f, i)
<1>1. n \in Nat /\ j - 1 \in 0 .. n /\ j \in 1 .. n /\ i \in 1 .. count
  BY LenProperties
<1>2. /\ \A m \in 0 .. n : Len(log[m]) \in Nat
      /\ RecordAt(file, Len(log[j - 1]), f, e, D, data) /\ data \in Seq(D)
  BY Zenon DEF LogLaid
<1>3. /\ count \in Nat \ {0} /\ \A m \in 0 .. count : e[m] \in Nat
      /\ PieceOf(file, g, D, data, i, count, b, p)
  BY <1>2, Zenon DEF RecordAt
<1>4. Facing(s, k, rs, data, i, b, p, g.pad)
  BY Zenon DEF Standing
<1>5. i = 1 => b = 0
  BY DEF Before
<1>6. Kept(cells, file, k) /\ Len(cells) \in Nat
  BY LenProperties
<1> HIDE DEF n, file, f, e, rs, data, count, g, b
<1>7. p \in Nat
  <2>1. i - 1 \in 0 .. count
    BY <1>1, <1>3
  <2>2. e[i - 1] \in Nat /\ Len(log[j - 1]) \in Nat
    BY <1>1, <1>2, <1>3, <2>1
  <2> QED
    BY <2>2, SMTT(40)
<1> HIDE DEF p
<1>8. Turns(s, t, cells, k, rs, data, g, i, count, b, p)
  BY <1>2, <1>3, <1>4, <1>5, <1>6, <1>7, TurnPiece
<1>9. /\ t.pos \in Nat /\ t.pos > s.pos /\ t.pos <= Len(cells)
      /\ \/ Facing(t, k, rs, data, i, b, p, g.pad)
         \/ Behind(t, k, rs, data, i, count, g.done, p + Len(Cells(g)))
         \/ k < p + Len(Cells(g)) /\ Beyond(t, cells, k, rs)
  BY <1>8, Zenon DEF Turns
<1>10. Reading(t, cells, k, log, fs, ends, records)
  <2>1. CASE Facing(t, k, rs, data, i, b, p, g.pad)
    <3>1. Standing(t, k, log, fs, ends, records, j, i)
      BY <2>1, Zenon DEF Standing, rs, data, b, p, g, f, e
    <3> QED
      BY <3>1, Zenon DEF Reading
  <2>2. CASE Behind(t, k, rs, data, i, count, g.done, p + Len(Cells(g)))
    <3>1. k \in 0 .. Len(log[Len(records)]) /\ k <= Len(cells)
      BY <1>6 DEF Kept, file, n
    <3>2. Behind(t, k, SubSeq(records, 1, j - 1), records[j], i, Len(fs[j]), fs[j][i].done,
                 Len(log[j - 1]) + ends[j][i - 1] + Len(Cells(fs[j][i])))
      BY <2>2, Zenon DEF rs, data, count, g, p, f, e
    <3> QED
      BY <1>6, <3>1, <3>2, ReadOn
  <2>3. CASE k < p + Len(Cells(g)) /\ Beyond(t, cells, k, rs)
    <3>1. p <= k
      <4>1. g.pad \in Nat
        BY <1>3, Zenon DEF PieceOf, FragmentSet
      <4> QED
        BY <1>4, <1>7, <4>1 DEF Facing
    <3>2. /\ Len(log[j - 1]) + ends[j][i - 1] <= k
          /\ k < Len(log[j - 1]) + ends[j][i - 1] + Len(Cells(fs[j][i]))
          /\ Beyond(t, cells, k, SubSeq(records, 1, j - 1))
      BY <2>3, <3>1, Zenon DEF rs, g, p, f, e
    <3>3. Ended(t, cells, k, log, records, j - 1)
      BY <3>2, ReadNoMore
    <3> QED
      BY <1>1, <3>3, Zenon DEF Reading, n
  <2> QED
    BY <1>9, <2>1, <2>2, <2>3
<1> QED
  BY <1>9, <1>10

(* Behind what is kept there is nothing.                                   *)
LEMMA TurnEnded ==
    ASSUME NEW D, NEW records, NEW log, NEW m \in 0 .. Len(records),
           NEW cells \in Seq(CellSet(D)), NEW k \in Nat, Kept(cells, log[Len(records)], k),
           NEW checksum, NEW s, Ended(s, cells, k, log, records, m), s.pos # Len(cells),
           NEW t, t = AfterTurn(cells, checksum, s)
    PROVE  /\ t.pos \in Nat /\ t.pos > s.pos /\ t.pos <= Len(cells)
           /\ Ended(t, cells, k, log, records, m)
<1> DEFINE rs == SubSeq(records, 1, m)
           N == Len(cells)
<1>1. N \in Nat
  BY LenProperties
<1>2. s.pos \in k .. Len(cells) /\ Returned(s.r, rs, Reports(cells, k))
  BY Zenon DEF Ended, Beyond
<1>3. k <= Len(cells) /\ \A i \in 1 .. Len(cells) : i > k => cells[i] = Zero
  <2>1. \A i \in 1 .. Len(cells) : cells[i] = IF i <= k THEN log[Len(records)][i] ELSE Zero
    BY DEF Kept
  <2> QED
    BY <1>1, <2>1 DEF Kept
<1> HIDE DEF rs
<1>4. s.pos \in Nat /\ s.pos >= k /\ s.pos < Len(cells) /\ Len(cells) > k
  BY <1>1, <1>2, <1>3
<1>5. PICK x \in {"eof", "trailer", "zero"}, y \in k .. Len(cells) :
        ReadPhysicalRecord(cells, s.pos, checksum) = Dropped(x, y) /\ y > s.pos
  BY <1>3, <1>4, ReadDead
<1>6. t.pos \in Nat /\ t.pos > s.pos /\ t.pos <= Len(cells) /\ Beyond(t, cells, k, rs)
  <2>1. x \in {"eof", "trailer", "zero", "bad"} /\ s.pos # Len(cells) /\ Len(cells) \in Nat
    BY <1>1, <1>5
  <2> QED
    BY <1>2, <1>4, <1>5, <2>1, TurnDead
<1>7. Len(cells) # k
  BY <1>1, <1>4
<1>8. /\ m \in 0 .. Len(records) /\ Len(log[m]) <= k
      /\ m # Len(records) => k < Len(log[m + 1])
  BY Zenon DEF Ended
<1>9. Ended(t, cells, k, log, records, m)
  BY <1>6, <1>7, <1>8, Zenon DEF Ended, rs
<1> QED
  BY <1>6, <1>9

(* The first n turns of ReadAll.                                           *)
FirstTurn == [r |-> Nothing, pos |-> 0, torn |-> FALSE]

IsReading(after, n, cells, checksum) ==
    after = [m \in 0 .. n |-> IF m = 0 THEN FirstTurn ELSE AfterTurn(cells, checksum, after[m - 1])]

LEMMA ReadingExists ==
    ASSUME NEW cells, NEW checksum, NEW n \in Nat
    PROVE  \E after : IsReading(after, n, cells, checksum)
<1> DEFINE Step(t) == AfterTurn(cells, checksum, t)
           Is(t, m) == t = [i \in 0 .. m |-> IF i = 0 THEN FirstTurn ELSE Step(t[i - 1])]
           S == {m \in 0 .. n : \E t : Is(t, m)}
<1>1. \A t, m : Is(t, m) <=> IsReading(t, m, cells, checksum)
  BY Zenon DEF IsReading
<1> HIDE DEF Step
<1>2. 0 \in S
  <2> DEFINE t == [i \in 0 .. 0 |-> FirstTurn]
  <2>1. Is(t, 0)
    OBVIOUS
  <2> HIDE DEF t
  <2> QED
    BY <2>1
<1>3. ASSUME NEW m \in 1 .. n, m - 1 \in S
      PROVE  m \in S
  <2>1. PICK t : Is(t, m - 1)
    BY <1>3
  <2> DEFINE u == [i \in 0 .. m |-> IF i = m THEN Step(t[m - 1]) ELSE t[i]]
  <2>2. \A i \in 0 .. m : u[i] = IF i = 0 THEN FirstTurn ELSE Step(u[i - 1])
    <3> TAKE i \in 0 .. m
    <3>1. CASE i = m
      <4>1. i # 0 /\ u[i] = Step(t[m - 1]) /\ u[m - 1] = t[m - 1]
        BY <3>1
      <4> QED
        BY <3>1, <4>1
    <3>2. CASE i # m
      <4>1. i \in 0 .. m - 1 /\ u[i] = t[i]
        BY <3>2
      <4>2. t[i] = IF i = 0 THEN FirstTurn ELSE Step(t[i - 1])
        BY <2>1, <4>1
      <4>3. i # 0 => u[i - 1] = t[i - 1]
        BY <4>1
      <4> QED
        BY <4>1, <4>2, <4>3
    <3> QED
      BY <3>1, <3>2
  <2>3. u = [i \in 0 .. m |-> u[i]]
    OBVIOUS
  <2> HIDE DEF u
  <2>4. Is(u, m)
    BY <2>2, <2>3
  <2> QED
    BY <2>4
<1> HIDE DEF S, Is
<1>4. \A m \in 0 .. n : m \in S
  BY <1>2, <1>3, UpToInduction
<1>5. \E t : Is(t, n)
  BY <1>4 DEF S
<1> QED
  BY <1>1, <1>5, Zenon

LEMMA ReadAllIs ==
    ASSUME NEW cells, NEW checksum, Len(cells) \in Nat
    PROVE  \E after :
             /\ after[0] = FirstTurn
             /\ \A n \in 1 .. Len(cells) : after[n] = AfterTurn(cells, checksum, after[n - 1])
             /\ ReadAll(cells, checksum) =
                  [records |-> after[Len(cells)].r.records, corrupt |-> after[Len(cells)].r.corrupt,
                   torn |-> after[Len(cells)].torn]
<1> DEFINE N == Len(cells)
           after == CHOOSE after : IsReading(after, N, cells, checksum)
<1>1. ReadAll(cells, checksum) =
        [records |-> after[N].r.records, corrupt |-> after[N].r.corrupt, torn |-> after[N].torn]
  BY Zenon DEF ReadAll, IsReading, AfterTurn, FirstTurn
<1>2. IsReading(after, N, cells, checksum)
  BY ReadingExists, Zenon
<1> HIDE DEF after
<1>3. \A m \in 0 .. N :
        after[m] = IF m = 0 THEN FirstTurn ELSE AfterTurn(cells, checksum, after[m - 1])
  BY <1>2, Zenon DEF IsReading
<1>4. after[0] = FirstTurn /\ \A n \in 1 .. N : after[n] = AfterTurn(cells, checksum, after[n - 1])
  <2>1. 0 \in 0 .. N /\ \A n \in 1 .. N : n \in 0 .. N /\ n # 0
    OBVIOUS
  <2> QED
    BY <1>3, <2>1, Zenon
<1> QED
  BY <1>1, <1>4

LEMMA FirstIsReading ==
    ASSUME NEW D, NEW records \in Seq(Seq(D)), NEW log, NEW fs, NEW ends,
           LogLaid(log, fs, ends, D, records),
           NEW cells, Len(cells) \in Nat,
           NEW k \in 0 .. Len(log[Len(records)]), k <= Len(cells)
    PROVE  Reading(FirstTurn, cells, k, log, fs, ends, records)
<1> DEFINE n == Len(records)
           s == FirstTurn
<1>1. n \in Nat
  BY LenProperties
<1>2. Len(log[0]) = 0 /\ \A m \in 0 .. n : Len(log[m]) \in Nat
  BY Zenon DEF LogLaid
<1>3. k \in Nat
  BY <1>1, <1>2
<1>4. SubSeq(records, 1, 0) = <<>>
  BY NoCells
<1>5. s.pos = 0 /\ s.torn = FALSE /\ s.r = Between(SubSeq(records, 1, 0))
  BY <1>4 DEF FirstTurn, Nothing, Between, Reader
<1> HIDE DEF s, n
<1>6. CASE n = 0
  <2>1. k = 0
    BY <1>2, <1>6 DEF n
  <2>2. s.pos \in k .. Len(cells) /\ Returned(s.r, SubSeq(records, 1, 0), Reports(cells, k))
    <3>1. s.pos \in k .. Len(cells)
      BY <1>5, <2>1
    <3>2. Returned(Between(SubSeq(records, 1, 0)), SubSeq(records, 1, 0), Reports(cells, k))
      BY ReportsFalse, ReturnedInOrder
    <3> QED
      BY <1>5, <3>1, <3>2
  <2>3. 0 \in 0 .. n /\ Len(log[0]) <= k
    BY <1>2, <1>3, <1>6
  <2>4. Ended(s, cells, k, log, records, 0)
    BY <1>5, <1>6, <2>2, <2>3, Zenon DEF Ended, Beyond, n
  <2> QED
    BY <2>3, <2>4, Zenon DEF Reading, n, s
<1>7. CASE n # 0
  <2>1. 1 \in 1 .. n /\ 1 - 1 = 0
    BY <1>1, <1>7
  <2>2. Len(fs[1]) \in Nat \ {0} /\ ends[1][0] = 0
    <3>1. RecordAt(log[n], Len(log[1 - 1]), fs[1], ends[1], D, records[1])
      BY <2>1, Zenon DEF LogLaid, n
    <3> QED
      BY <3>1, Zenon DEF RecordAt
  <2>3. s.pos = Len(log[1 - 1]) + ends[1][1 - 1]
    BY <1>2, <1>5, <2>1, <2>2
  <2>4. s.pos <= k
    BY <1>3, <1>5
  <2>5. s.r = InFront(SubSeq(records, 1, 1 - 1), records[1], 1, Before(fs[1], 1))
    BY <1>5, <2>1, Zenon DEF InFront
  <2>6. Standing(s, k, log, fs, ends, records, 1, 1)
    BY <1>5, <2>3, <2>4, <2>5, Zenon DEF Standing, Facing
  <2>7. 1 \in 1 .. Len(fs[1])
    BY <2>2
  <2> QED
    BY <2>1, <2>6, <2>7, Zenon DEF Reading, n, s
<1> QED
  BY <1>6, <1>7

(* At the end of the file.                                                 *)
LEMMA ReadingEnds ==
    ASSUME NEW D, NEW records \in Seq(Seq(D)), NEW log, NEW fs, NEW ends,
           LogLaid(log, fs, ends, D, records),
           NEW cells, Len(cells) \in Nat, NEW k \in Nat, k <= Len(cells),
           NEW s, Reading(s, cells, k, log, fs, ends, records), s.pos = Len(cells)
    PROVE  \E m \in 0 .. Len(records) : Ended(s, cells, k, log, records, m)
<1>1. ASSUME NEW j \in 1 .. Len(records), NEW i \in 1 .. Len(fs[j]),
             Standing(s, k, log, fs, ends, records, j, i)
      PROVE  \E m \in 0 .. Len(records) : Ended(s, cells, k, log, records, m)
  <2> DEFINE rs == SubSeq(records, 1, j - 1)
             p == Len(log[j - 1]) + ends[j][i - 1]
             g == fs[j][i]
  <2>1. /\ s.pos = p \/ s.pos = p + g.pad
        /\ s.pos <= k
        /\ s.r = InFront(rs, records[j], i, Before(fs[j], i))
    BY <1>1, Zenon DEF Standing, Facing
  <2>2. RecordAt(log[Len(records)], Len(log[j - 1]), fs[j], ends[j], D, records[j])
        /\ \A m \in 0 .. Len(records) : Len(log[m]) \in Nat
    BY Zenon DEF LogLaid
  <2>3. /\ PieceOf(log[Len(records)], g, D, records[j], i, Len(fs[j]), Before(fs[j], i), p)
        /\ Len(fs[j]) \in Nat /\ \A m \in 0 .. Len(fs[j]) : ends[j][m] \in Nat
    BY <2>2, Zenon DEF RecordAt
  <2>4. g \in FragmentSet(D)
    BY <2>3, Zenon DEF PieceOf
  <2>5. /\ Len(Cells(g)) = g.pad + HeaderSize + Len(g.data) /\ g.pad \in Nat
        /\ Len(g.data) \in Nat /\ HeaderSize \in Nat /\ HeaderSize > 1
    <3>1. Len(Cells(g)) = g.pad + HeaderSize + Len(g.data)
      BY <2>4, CellsHold
    <3>2. g.pad \in Nat /\ g.data \in Seq(D)
      BY <2>4 DEF FragmentSet
    <3>3. Len(g.data) \in Nat
      BY <3>2, LenProperties
    <3> QED
      BY <3>1, <3>2, <3>3, FormatAssumption
  <2>6. p \in Nat
    <3>0. Len(records) \in Nat /\ Len(fs[j]) \in Nat
      BY <2>3, LenProperties
    <3>1. j - 1 \in 0 .. Len(records) /\ i - 1 \in 0 .. Len(fs[j])
      BY <3>0
    <3>2. Len(log[j - 1]) \in Nat /\ ends[j][i - 1] \in Nat
      BY <2>2, <2>3, <3>1
    <3> DEFINE x == Len(log[j - 1])
               y == ends[j][i - 1]
    <3>3. x \in Nat /\ y \in Nat
      BY <3>2
    <3> HIDE DEF x, y
    <3>4. x + y \in Nat
      BY <3>3
    <3> QED
      BY <3>4 DEF x, y
  <2>7. Returned(s.r, rs, Reports(cells, k))
    BY <2>1, ReportsFalse, ReturnedInOrder DEF InFront
  <2>8. j - 1 \in 0 .. Len(records)
    BY LenProperties
  <2> HIDE DEF rs, p, g
  <2>9. k = Len(cells) /\ k = s.pos
    BY <2>1
  <2>10. p <= k /\ k < p + Len(Cells(g)) /\ s.pos \in k .. Len(cells)
    <3> DEFINE a == g.pad
               c == Len(Cells(g))
    <3>1. a \in Nat /\ c \in Nat /\ a < c
      BY <2>5
    <3>2. k = p \/ k = p + a
      BY <2>1, <2>9
    <3>3. s.pos \in k .. Len(cells)
      BY <2>9
    <3> HIDE DEF a, c
    <3>4. p <= k /\ k < p + c
      BY <2>6, <3>1, <3>2
    <3> QED
      BY <3>3, <3>4 DEF c
  <2>11. /\ Len(log[j - 1]) + ends[j][i - 1] <= k
         /\ k < Len(log[j - 1]) + ends[j][i - 1] + Len(Cells(fs[j][i]))
         /\ Beyond(s, cells, k, SubSeq(records, 1, j - 1))
    BY <2>7, <2>10, Zenon DEF p, g, rs, Beyond
  <2>12. Ended(s, cells, k, log, records, j - 1)
    BY <2>11, ReadNoMore
  <2> QED
    BY <2>8, <2>12, Zenon
<1> QED
  BY <1>1, Zenon DEF Reading

(* ReadAll is done with a log after as many turns as it has cells.         *)
LEMMA ReadsLog ==
    ASSUME NEW D, Zero \notin D, NEW records \in Seq(Seq(D)), NEW log, NEW offsets,
           Written(log, offsets, records),
           NEW cells \in Seq(CellSet(D)), NEW k \in Nat, Kept(cells, log[Len(records)], k),
           NEW checksum, checksum \/ Len(cells) = k
    PROVE  \E s : \E m \in 0 .. Len(records) :
             /\ Ended(s, cells, k, log, records, m)
             /\ ReadAll(cells, checksum) =
                  [records |-> s.r.records, corrupt |-> s.r.corrupt, torn |-> s.torn]
<1> DEFINE N == Len(cells)
<1>1. N \in Nat
  BY LenProperties
<1>2. PICK fs, ends : LogLaid(log, fs, ends, D, records)
  BY WrittenLaid
<1>3. PICK after :
        /\ after[0] = FirstTurn
        /\ \A n \in 1 .. N : after[n] = AfterTurn(cells, checksum, after[n - 1])
        /\ ReadAll(cells, checksum) =
             [records |-> after[N].r.records, corrupt |-> after[N].r.corrupt, torn |-> after[N].torn]
  BY <1>1, ReadAllIs
<1>4. k \in 0 .. Len(log[Len(records)]) /\ k <= Len(cells)
  BY DEF Kept
<1> DEFINE Good(s) == Reading(s, cells, k, log, fs, ends, records)
           S == {n \in 0 .. N : /\ Good(after[n]) /\ after[n].pos \in Nat /\ after[n].pos <= N
                                /\ after[n].pos >= n \/ after[n].pos = N}
<1> HIDE DEF N, Good
<1>5. 0 \in S
  <2>1. Good(FirstTurn)
    BY <1>1, <1>2, <1>4, FirstIsReading DEF Good, N
  <2>2. FirstTurn.pos = 0
    BY DEF FirstTurn
  <2> QED
    BY <1>1, <1>3, <2>1, <2>2
<1>6. ASSUME NEW n \in 1 .. N, n - 1 \in S
      PROVE  n \in S
  <2> DEFINE s == after[n - 1]
             t == after[n]
  <2>1. /\ Good(s) /\ s.pos \in Nat /\ s.pos <= N
        /\ s.pos >= n - 1 \/ s.pos = N
    BY <1>6
  <2>2. t = AfterTurn(cells, checksum, s)
    BY <1>3, <1>6
  <2> HIDE DEF s, t
  <2>3. CASE s.pos = N
    <3>1. t = s
      BY <2>2, <2>3, Zenon DEF AfterTurn, N
    <3> QED
      BY <1>6, <2>1, <2>3, <3>1 DEF t
  <2>4. CASE s.pos # N
    <3>1. s.pos # Len(cells)
      BY <2>4 DEF N
    <3>2. t.pos \in Nat /\ t.pos > s.pos /\ t.pos <= Len(cells) /\ Good(t)
      <4>1. ASSUME NEW j \in 1 .. Len(records), NEW i \in 1 .. Len(fs[j]),
                   Standing(s, k, log, fs, ends, records, j, i)
            PROVE  t.pos \in Nat /\ t.pos > s.pos /\ t.pos <= Len(cells) /\ Good(t)
        <5>1. /\ t.pos \in Nat /\ t.pos > s.pos /\ t.pos <= Len(cells)
              /\ Reading(t, cells, k, log, fs, ends, records)
          BY <1>2, <2>2, <3>1, <4>1, TurnStanding
        <5> QED
          BY <5>1 DEF Good
      <4>2. ASSUME NEW m \in 0 .. Len(records), Ended(s, cells, k, log, records, m)
            PROVE  t.pos \in Nat /\ t.pos > s.pos /\ t.pos <= Len(cells) /\ Good(t)
        <5>1. /\ t.pos \in Nat /\ t.pos > s.pos /\ t.pos <= Len(cells)
              /\ Ended(t, cells, k, log, records, m)
          BY <2>2, <3>1, <4>2, TurnEnded
        <5>2. Good(t)
          BY <4>2, <5>1, Zenon DEF Good, Reading
        <5> QED
          BY <5>1, <5>2
      <4> QED
        BY <2>1, <4>1, <4>2, Zenon DEF Good, Reading
    <3>3. t.pos >= n
      BY <1>6, <2>1, <2>4, <3>2
    <3> QED
      BY <1>6, <3>2, <3>3 DEF t, N
  <2> QED
    BY <2>3, <2>4
<1> HIDE DEF S
<1>7. \A n \in 0 .. N : n \in S
  BY <1>1, <1>5, <1>6, UpToInduction
<1> DEFINE e == after[N]
<1>8. Good(e) /\ e.pos = N
  <2>1. N \in S /\ N \in 0 .. N
    BY <1>1, <1>7
  <2>2. /\ Good(e) /\ e.pos \in Nat /\ e.pos <= N
        /\ e.pos >= N \/ e.pos = N
    BY <2>1 DEF S
  <2> HIDE DEF e
  <2> QED
    BY <1>1, <2>2
<1>9. ReadAll(cells, checksum) = [records |-> e.r.records, corrupt |-> e.r.corrupt, torn |-> e.torn]
  BY <1>3
<1> HIDE DEF e
<1>10. PICK m \in 0 .. Len(records) : Ended(e, cells, k, log, records, m)
  <2>1. Len(cells) \in Nat /\ e.pos = Len(cells) /\ Reading(e, cells, k, log, fs, ends, records)
    BY <1>1, <1>8 DEF N, Good
  <2> QED
    BY <1>2, <1>4, <2>1, ReadingEnds
<1> QED
  BY <1>9, <1>10

(* What ReadRecord finds in a file that keeps k cells of a log: m records. *)
Found(cells, log, records, k, checksum, m) ==
    /\ Len(log[m]) <= k /\ (m # Len(records) => k < Len(log[m + 1]))
    /\ ReadAll(cells, checksum).records = SubSeq(records, 1, m)
    /\ Len(cells) = k => ReadAll(cells, checksum).corrupt = FALSE

LEMMA LogFound ==
    ASSUME NEW D, Zero \notin D, NEW records \in Seq(Seq(D)), NEW log, NEW offsets,
           Written(log, offsets, records),
           NEW cells \in Seq(CellSet(D)), NEW k \in Nat, Kept(cells, log[Len(records)], k),
           NEW checksum, checksum \/ Len(cells) = k
    PROVE  \E m \in 0 .. Len(records) : Found(cells, log, records, k, checksum, m)
<1>1. PICK s : \E m \in 0 .. Len(records) :
        /\ Ended(s, cells, k, log, records, m)
        /\ ReadAll(cells, checksum) = [records |-> s.r.records, corrupt |-> s.r.corrupt, torn |-> s.torn]
  BY ReadsLog
<1>2. PICK m \in 0 .. Len(records) :
        /\ Ended(s, cells, k, log, records, m)
        /\ ReadAll(cells, checksum) = [records |-> s.r.records, corrupt |-> s.r.corrupt, torn |-> s.torn]
  BY <1>1
<1>3. /\ Len(log[m]) <= k /\ (m # Len(records) => k < Len(log[m + 1]))
      /\ Returned(s.r, SubSeq(records, 1, m), Reports(cells, k))
  BY <1>2, Zenon DEF Ended, Beyond
<1> DEFINE rs == SubSeq(records, 1, m)
           r == s.r
<1>4. PICK sc, op, co : co \in Reports(cells, k) /\ r = Reader(rs, sc, op, co)
  BY <1>3 DEF Returned
<1> HIDE DEF rs, r
<1>5. r.records = rs /\ r.corrupt = co
  BY <1>4 DEF Reader
<1>6. Len(cells) = k => co = FALSE
  BY <1>4 DEF Reports
<1>7. ReadAll(cells, checksum) = [records |-> rs, corrupt |-> co, torn |-> s.torn]
  BY <1>2, <1>5, Zenon DEF r
<1>8. ReadAll(cells, checksum).records = rs /\ ReadAll(cells, checksum).corrupt = co
  BY <1>7
<1> QED
  BY <1>2, <1>3, <1>6, <1>8, Zenon DEF rs, Found

(* What of a log is found again when only its first k cells are kept, and  *)
(* perhaps zeros behind them, as a crash leaves a file that was not synced *)
(* (RecoverLogFile, VersionSet::Recover): the records that are kept whole, *)
(* in order, and nothing else; corruption is reported of no log that is    *)
(* only cut short.                                                         *)
THEOREM LogTornTail ==
    ASSUME NEW D, Zero \notin D, NEW records \in Seq(Seq(D)), NEW log, NEW offsets,
           Written(log, offsets, records),
           NEW cells \in Seq(CellSet(D)), NEW k \in Nat, Kept(cells, log[Len(records)], k),
           NEW checksum, checksum \/ Len(cells) = k
    PROVE  \E m \in 0 .. Len(records) :
             /\ Len(log[m]) <= k /\ (m # Len(records) => k < Len(log[m + 1]))
             /\ ReadAll(cells, checksum).records = SubSeq(records, 1, m)
             /\ Len(cells) = k => ReadAll(cells, checksum).corrupt = FALSE
<1>1. PICK m \in 0 .. Len(records) : Found(cells, log, records, k, checksum, m)
  BY LogFound
<1> QED
  BY <1>1, Zenon DEF Found

(* A log that is whole is read back whole, however the reader checks it,   *)
(* and nothing is said to be torn or corrupt: AddRecord and ReadRecord are *)
(* each other's inverse, for any records and block sizes and wherever a    *)
(* writer opened the file again.                                           *)
THEOREM LogReadBack ==
    ASSUME NEW D, Zero \notin D, NEW records \in Seq(Seq(D)), NEW log, NEW offsets,
           Written(log, offsets, records), NEW checksum
    PROVE  ReadAll(log[Len(records)], checksum)
             = [records |-> records, corrupt |-> FALSE, torn |-> FALSE]
<1> DEFINE n == Len(records)
           file == log[n]
           k == Len(file)
<1>1. n \in Nat
  BY LenProperties
<1>2. PICK fs, ends : LogLaid(log, fs, ends, D, records)
  BY WrittenLaid
<1>3. \A j \in 0 .. n : log[j] \in Seq(CellSet(D)) /\ Len(log[j]) \in Nat
  BY <1>2, Zenon DEF LogLaid
<1>4. file \in Seq(CellSet(D)) /\ k \in Nat
  <2>1. n \in 0 .. n
    BY <1>1
  <2> QED
    BY <1>3, <2>1
<1> HIDE DEF n, file
<1>5. Kept(file, file, k)
  BY <1>4 DEF Kept
<1> HIDE DEF k
<1>6. PICK s : \E m \in 0 .. Len(records) :
        /\ Ended(s, file, k, log, records, m)
        /\ ReadAll(file, checksum) = [records |-> s.r.records, corrupt |-> s.r.corrupt, torn |-> s.torn]
  <2>1. Kept(file, log[Len(records)], k)
    BY <1>5 DEF file, n
  <2>2. checksum \/ Len(file) = k
    BY DEF k
  <2> QED
    BY <1>4, <2>1, <2>2, ReadsLog
<1>7. PICK m \in 0 .. Len(records) :
        /\ Ended(s, file, k, log, records, m)
        /\ ReadAll(file, checksum) = [records |-> s.r.records, corrupt |-> s.r.corrupt, torn |-> s.torn]
  BY <1>6
<1>8. /\ Len(log[m]) <= k /\ (m # Len(records) => k < Len(log[m + 1]))
      /\ Returned(s.r, SubSeq(records, 1, m), Reports(file, k))
      /\ Len(log[Len(records)]) = k /\ Len(file) = k => s.torn = FALSE
  BY <1>7, Zenon DEF Ended, Beyond
<1>9. s.torn = FALSE
  BY <1>8 DEF k, file, n
<1>10. m = n
  <2> SUFFICES ASSUME m # n PROVE FALSE
    OBVIOUS
  <2>1. m + 1 \in 1 .. n /\ m + 1 \in 0 .. n
    BY <1>1, <1>7 DEF n
  <2>2. k < Len(log[m + 1])
    BY <1>8 DEF n
  <2>3. Len(log[m + 1]) <= Len(file)
    BY <1>2, <2>1, Zenon DEF LogLaid, file, n
  <2>4. Len(log[m + 1]) \in Nat /\ Len(file) \in Nat
    BY <1>3, <1>4, <2>1 DEF k
  <2> QED
    BY <2>2, <2>3, <2>4 DEF k
<1>11. SubSeq(records, 1, m) = records
  BY <1>10, AllCells DEF n
<1>12. PICK sc, op, co : co \in Reports(file, k) /\ s.r = Reader(records, sc, op, co)
  <2>1. Returned(s.r, records, Reports(file, k))
    BY <1>8, <1>11
  <2> QED
    BY <2>1 DEF Returned
<1>13. co = FALSE
  BY <1>12 DEF Reports, k
<1>14. s.r.records = records /\ s.r.corrupt = co
  <2> DEFINE r == s.r
  <2>1. r = Reader(records, sc, op, co)
    BY <1>12
  <2> HIDE DEF r
  <2>2. r.records = records /\ r.corrupt = co
    BY <2>1 DEF Reader
  <2> QED
    BY <2>2 DEF r
<1> QED
  BY <1>7, <1>9, <1>13, <1>14, Zenon DEF file, n

-----------------------------------------------------------------------------
(* Numbers and edits *)

LEMMA MaxIs ==
    ASSUME NEW n \in Nat, NEW S, S \subseteq 0 .. n, S # {}
    PROVE  Max(S) \in S /\ \A i \in S : i <= Max(S)
<1> DEFINE T == {i \in 1 .. n + 1 : i - 1 \in S}
<1>1. T \subseteq 1 .. n + 1 /\ T # {}
  <2>1. PICK i \in S : i \in 0 .. n
    OBVIOUS
  <2>2. i + 1 \in T
    BY <2>1
  <2> QED
    BY <2>2
<1> HIDE DEF T
<1>2. PICK m \in T : \A k \in T : k <= m
  <2>1. n + 1 \in Nat
    OBVIOUS
  <2> QED
    BY <1>1, <2>1, LastExists
<1>3. m - 1 \in S /\ m \in Nat
  BY DEF T
<1>4. \A i \in S : i \in 0 .. n /\ i + 1 \in T
  BY DEF T
<1>5. \A i \in S : m - 1 >= i
  BY <1>2, <1>3, <1>4
<1>6. Max(S) \in S /\ \A i \in S : Max(S) >= i
  BY <1>3, <1>5 DEF Max
<1> DEFINE x == Max(S)
<1>7. x \in S /\ \A i \in S : x >= i
  BY <1>6
<1> HIDE DEF x
<1>8. x \in Nat /\ \A i \in S : i \in Nat
  BY <1>7
<1>9. \A i \in S : i <= x
  BY <1>7, <1>8
<1> QED
  BY <1>7, <1>9 DEF x

LEMMA MinIs ==
    ASSUME NEW S, S \subseteq Nat, S # {}
    PROVE  Min(S) \in S /\ \A i \in S : Min(S) <= i
<1>0. S \subseteq Nat /\ S # {}
  OBVIOUS
<1>1. PICK i \in S : \A j \in S : ~ (<<j, i>> \in OpToRel(<, Nat))
  BY <1>0, NatLessThanWellFounded, WFMin
<1>2. \A j \in S : ~ (j < i)
  BY <1>1 DEF OpToRel
<1>3. \A j \in S : i <= j
  BY <1>2
<1>4. Min(S) \in S /\ \A y \in S : Min(S) =< y
  BY <1>3, Zenon DEF Min
<1> QED
  BY <1>4

IsList(es) == es \in Seq(ToSet(es))

LEMMA ListHolds ==
    ASSUME NEW es, IsList(es)
    PROVE  /\ Len(es) \in Nat /\ DOMAIN es = 1 .. Len(es)
           /\ \A i \in 1 .. Len(es) : es[i] \in ToSet(es)
           /\ es = [i \in 1 .. Len(es) |-> es[i]]
<1>1. es \in Seq(ToSet(es))
  BY DEF IsList
<1>2. Len(es) \in Nat /\ DOMAIN es = 1 .. Len(es)
  BY <1>1, LenProperties
<1>3. \A i \in 1 .. Len(es) : es[i] \in ToSet(es)
  BY <1>1, ElementOfSeq
<1> QED
  BY <1>1, <1>2, <1>3

LEMMA ListFrom ==
    ASSUME NEW n \in Nat, NEW f, f = [i \in 1 .. n |-> f[i]]
    PROVE  IsList(f) /\ Len(f) = n
<1>1. DOMAIN f = 1 .. n
  OBVIOUS
<1>2. \A i \in 1 .. n : f[i] \in ToSet(f)
  BY <1>1 DEF ToSet
<1>3. f \in [1 .. n -> ToSet(f)]
  BY <1>2
<1>4. f \in Seq(ToSet(f))
  BY <1>3
<1>5. Len(f) = n
  BY <1>1, <1>4, LenProperties
<1> QED
  BY <1>4, <1>5 DEF IsList

LEMMA ListAppend ==
    ASSUME NEW es, IsList(es), NEW e
    PROVE  /\ IsList(Append(es, e)) /\ Len(Append(es, e)) = Len(es) + 1
           /\ Append(es, e)[Len(es) + 1] = e
           /\ \A i \in 1 .. Len(es) : Append(es, e)[i] = es[i]
           /\ \A i \in 1 .. Len(es) + 1 : Append(es, e)[i] = IF i = Len(es) + 1 THEN e ELSE es[i]
<1> DEFINE n == Len(es)
           W == ToSet(es) \union {e}
           f == Append(es, e)
<1>1. n \in Nat /\ es \in Seq(W) /\ e \in W
  <2>1. n \in Nat /\ es = [i \in 1 .. n |-> es[i]] /\ \A i \in 1 .. n : es[i] \in ToSet(es)
    BY ListHolds
  <2>2. \A i \in 1 .. n : es[i] \in W
    BY <2>1
  <2> HIDE DEF W
  <2>3. es \in [1 .. n -> W]
    BY <2>1, <2>2
  <2> QED
    BY <2>1, <2>3 DEF W
<1> HIDE DEF W
<1>2. f \in Seq(W) /\ Len(f) = n + 1 /\ f[n + 1] = e /\ \A i \in 1 .. n : f[i] = es[i]
  BY <1>1, AppendProperties
<1> HIDE DEF n, f
<1>3. f = [i \in 1 .. n + 1 |-> f[i]] /\ n + 1 \in Nat
  BY <1>1, <1>2
<1>4. IsList(f)
  BY <1>3, ListFrom
<1>5. \A i \in 1 .. n + 1 : f[i] = IF i = n + 1 THEN e ELSE es[i]
  <2> TAKE i \in 1 .. n + 1
  <2>1. i = n + 1 \/ i \in 1 .. n
    BY <1>1
  <2> QED
    BY <1>1, <1>2, <2>1
<1> QED
  BY <1>2, <1>4, <1>5 DEF n, f

LEMMA ListPrefix ==
    ASSUME NEW es, IsList(es), NEW m \in 0 .. Len(es)
    PROVE  /\ IsList(SubSeq(es, 1, m)) /\ Len(SubSeq(es, 1, m)) = m
           /\ \A i \in 1 .. m : SubSeq(es, 1, m)[i] = es[i]
           /\ SubSeq(es, 1, m) = [i \in 1 .. m |-> es[i]]
<1> DEFINE W == ToSet(es)
           n == Len(es)
           f == SubSeq(es, 1, m)
<1>1. n \in Nat /\ es \in Seq(W)
  BY ListHolds DEF IsList
<1>2. m \in Nat /\ m <= n /\ 0 \in 0 .. n /\ m \in 0 .. n
  BY <1>1
<1>3. f \in Seq(W) /\ Len(f) = m /\ \A i \in 1 .. m : f[i] = es[i]
  <2> HIDE DEF W
  <2>1. SubSeq(es, 0 + 1, m) \in Seq(W) /\ Len(SubSeq(es, 0 + 1, m)) = m - 0
        /\ \A i \in 1 .. m - 0 : SubSeq(es, 0 + 1, m)[i] = es[0 + i]
    BY <1>1, <1>2, SubSeqOf
  <2>2. 0 + 1 = 1 /\ m - 0 = m /\ \A i \in 1 .. m : 0 + i = i
    BY <1>2
  <2> QED
    BY <2>1, <2>2
<1>4. f = [i \in 1 .. m |-> f[i]]
  BY <1>2, <1>3
<1>5. f = [i \in 1 .. m |-> es[i]]
  BY <1>3, <1>4
<1>6. IsList(f)
  BY <1>2, <1>4, ListFrom
<1> QED
  BY <1>3, <1>5, <1>6

LEMMA ListWhole ==
    ASSUME NEW es, IsList(es)
    PROVE  SubSeq(es, 1, Len(es)) = es
<1>1. Len(es) \in Nat /\ Len(es) \in 0 .. Len(es) /\ es = [i \in 1 .. Len(es) |-> es[i]]
  BY ListHolds
<1> QED
  BY <1>1, ListPrefix

LEMMA AppendPrefix ==
    ASSUME NEW es, IsList(es), NEW e, NEW m \in 0 .. Len(es)
    PROVE  SubSeq(Append(es, e), 1, m) = SubSeq(es, 1, m)
<1> DEFINE f == Append(es, e)
<1>1. IsList(f) /\ Len(f) = Len(es) + 1 /\ Len(es) \in Nat
      /\ \A i \in 1 .. Len(es) : f[i] = es[i]
  BY ListAppend, ListHolds
<1> HIDE DEF f
<1>2. m \in 0 .. Len(f) /\ m \in Nat /\ m <= Len(es)
  BY <1>1
<1>3. SubSeq(f, 1, m) = [i \in 1 .. m |-> f[i]] /\ SubSeq(es, 1, m) = [i \in 1 .. m |-> es[i]]
  BY <1>1, <1>2, ListPrefix
<1>4. \A i \in 1 .. m : f[i] = es[i]
  BY <1>1, <1>2
<1> QED
  BY <1>3, <1>4 DEF f

(* Which tables are live, and which numbers count, after one edit more.    *)
LEMMA LiveAppend ==
    ASSUME NEW es, IsList(es), NEW e
    PROVE  LiveAfter(Append(es, e)) = (LiveAfter(es) \ e.del) \union e.add
<1> DEFINE f == Append(es, e)
           n == Len(es)
<1>1. n \in Nat /\ DOMAIN es = 1 .. n
  BY ListHolds
<1>2. DOMAIN f = 1 .. n + 1 /\ f[n + 1] = e /\ \A i \in 1 .. n : f[i] = es[i]
  BY ListAppend, ListHolds
<1> HIDE DEF f, n
<1>3. \A t : t \in LiveAfter(es) <=> \E i \in 1 .. n : t \in es[i].add /\ \A j \in 1 .. n : j > i => t \notin es[j].del
  BY <1>1 DEF LiveAfter
<1>4. \A t : t \in LiveAfter(f) <=> \E i \in 1 .. n + 1 : t \in f[i].add /\ \A j \in 1 .. n + 1 : j > i => t \notin f[j].del
  BY <1>2 DEF LiveAfter
<1>5. ASSUME NEW t, t \in LiveAfter(f)
      PROVE  t \in (LiveAfter(es) \ e.del) \union e.add
  <2>1. PICK i \in 1 .. n + 1 : t \in f[i].add /\ \A j \in 1 .. n + 1 : j > i => t \notin f[j].del
    BY <1>4, <1>5
  <2>2. CASE i = n + 1
    BY <1>2, <2>1, <2>2
  <2>3. CASE i # n + 1
    <3>1. i \in 1 .. n /\ n + 1 > i /\ n + 1 \in 1 .. n + 1
      BY <1>1, <2>3
    <3>2. t \notin e.del /\ t \in es[i].add
      BY <1>2, <2>1, <3>1
    <3>3. \A j \in 1 .. n : j \in 1 .. n + 1 /\ f[j] = es[j]
      BY <1>1, <1>2
    <3>4. \A j \in 1 .. n : j > i => t \notin es[j].del
      BY <2>1, <3>3
    <3> QED
      BY <1>3, <3>1, <3>2, <3>4
  <2> QED
    BY <2>2, <2>3
<1>6. ASSUME NEW t, t \in LiveAfter(es), t \notin e.del
      PROVE  t \in LiveAfter(f)
  <2>1. PICK i \in 1 .. n : t \in es[i].add /\ \A j \in 1 .. n : j > i => t \notin es[j].del
    BY <1>3, <1>6
  <2>2. i \in 1 .. n + 1 /\ t \in f[i].add
    BY <1>1, <1>2, <2>1
  <2>3. \A j \in 1 .. n + 1 : j > i => t \notin f[j].del
    <3> TAKE j \in 1 .. n + 1
    <3>1. j = n + 1 \/ j \in 1 .. n
      BY <1>1
    <3> QED
      BY <1>2, <1>6, <2>1, <3>1
  <2> QED
    BY <1>4, <2>2, <2>3
<1>7. ASSUME NEW t, t \in e.add
      PROVE  t \in LiveAfter(f)
  <2>1. n + 1 \in 1 .. n + 1 /\ \A j \in 1 .. n + 1 : ~ (j > n + 1)
    BY <1>1
  <2> QED
    BY <1>2, <1>4, <1>7, <2>1
<1> QED
  BY <1>5, <1>6, <1>7 DEF f

LEMMA LiveEmpty == LiveAfter(<<>>) = {}
  BY DEF LiveAfter

LEMMA NumberedAppend ==
    ASSUME NEW es, IsList(es), NEW e, e.kind = "edit"
    PROVE  Numbered(Append(es, e)) # {} /\ Numbers(Append(es, e)) = e
<1> DEFINE f == Append(es, e)
           n == Len(es)
<1>1. n \in Nat
  BY ListHolds
<1>2. DOMAIN f = 1 .. n + 1 /\ f[n + 1] = e
  BY ListAppend, ListHolds
<1> HIDE DEF f, n
<1>3. Numbered(f) \subseteq 0 .. n + 1 /\ n + 1 \in Numbered(f) /\ \A i \in Numbered(f) : i <= n + 1
  BY <1>1, <1>2 DEF Numbered
<1>4. Max(Numbered(f)) \in Numbered(f) /\ \A i \in Numbered(f) : i <= Max(Numbered(f))
  BY <1>1, <1>3, MaxIs
<1>5. Max(Numbered(f)) = n + 1
  BY <1>1, <1>3, <1>4
<1> QED
  BY <1>2, <1>3, <1>5 DEF f, Numbers

-----------------------------------------------------------------------------
(* Files *)

DataCell(c) == <<"data", c[1], c[2]>>
DataCells(W) == {DataCell(c) : c \in W \X Nat}

LEMMA RecordHolds ==
    ASSUME NEW W, NEW w \in W, NEW size \in Nat
    PROVE  /\ Record(w, size) \in Seq(DataCells(W)) /\ Len(Record(w, size)) = size
           /\ \A i \in 1 .. size : Record(w, size)[i] = <<"data", w, i>>
           /\ Zero \notin DataCells(W)
<1> DEFINE D == DataCells(W)
           r == Record(w, size)
<1>1. r = [i \in 1 .. size |-> <<"data", w, i>>]
  BY DEF Record
<1>2. \A i \in 1 .. size : <<"data", w, i>> \in D
  <2> TAKE i \in 1 .. size
  <2>1. <<w, i>> \in W \X Nat /\ <<w, i>>[1] = w /\ <<w, i>>[2] = i
    OBVIOUS
  <2>2. DataCell(<<w, i>>) = <<"data", w, i>>
    BY <2>1 DEF DataCell
  <2> QED
    BY <2>1, <2>2 DEF DataCells
<1>3. r \in Seq(D) /\ Len(r) = size
  <2> HIDE DEF D
  <2>1. r \in [1 .. size -> D]
    BY <1>1, <1>2
  <2> QED
    BY <2>1, LenProperties
<1>4. Zero \notin D
  <2> SUFFICES ASSUME NEW c, DataCell(c) = Zero PROVE FALSE
    BY DEF DataCells
  <2>1. Len(DataCell(c)) = 3 /\ Len(Zero) = 1
    BY DEF DataCell, Zero
  <2> QED
    BY <2>1
<1> QED
  BY <1>1, <1>3, <1>4

(* A file that one writer wrote, with what it holds; the first s records   *)
(* are synced.                                                             *)
Wrote(file, log, offsets, records, s) ==
    /\ Written(log, offsets, records)
    /\ file.cells = log[Len(records)]
    /\ s \in 0 .. Len(records)
    /\ Len(log[s]) <= file.synced
    /\ file.synced \in 0 .. Len(file.cells)

Whole(file, records, s) == \E log, offsets : Wrote(file, log, offsets, records, s)

LEMMA WholeTyped ==
    ASSUME NEW D, Zero \notin D, NEW records \in Seq(Seq(D)), NEW file, NEW s, Whole(file, records, s)
    PROVE  file.cells \in Seq(CellSet(D)) /\ Len(file.cells) \in Nat /\ s \in 0 .. Len(records)
           /\ file.synced \in 0 .. Len(file.cells)
<1>1. PICK log, offsets : Wrote(file, log, offsets, records, s)
  BY DEF Whole
<1>2. PICK fs, ends : LogLaid(log, fs, ends, D, records)
  BY <1>1, WrittenLaid DEF Wrote
<1>3. Len(records) \in Nat
  BY LenProperties
<1>4. Len(records) \in 0 .. Len(records)
  BY <1>3
<1>5. log[Len(records)] \in Seq(CellSet(D)) /\ Len(log[Len(records)]) \in Nat
  BY <1>2, <1>4, Zenon DEF LogLaid
<1> QED
  BY <1>1, <1>5, Zenon DEF Wrote

LEMMA WholeReads ==
    ASSUME NEW D, Zero \notin D, NEW records \in Seq(Seq(D)), NEW file, NEW s, Whole(file, records, s),
           NEW checksum
    PROVE  ReadAll(file.cells, checksum) = [records |-> records, corrupt |-> FALSE, torn |-> FALSE]
<1>1. PICK log, offsets : Wrote(file, log, offsets, records, s)
  BY DEF Whole
<1>2. Written(log, offsets, records) /\ file.cells = log[Len(records)]
  BY <1>1, Zenon DEF Wrote
<1> QED
  BY <1>2, LogReadBack, Zenon

LEMMA WholeEmpty == Whole(EmptyFile, <<>>, 0)
<1> DEFINE log == [j \in 0 .. 0 |-> <<>>]
<1>1. log[0] = <<>> /\ Len(<<>>) = 0 /\ Len(log[0]) = 0
  OBVIOUS
<1> HIDE DEF log
<1>2. Written(log, <<>>, <<>>)
  BY <1>1 DEF Written
<1>3. EmptyFile.cells = <<>> /\ EmptyFile.synced = 0
  BY DEF EmptyFile
<1>4. Wrote(EmptyFile, log, <<>>, <<>>, 0)
  BY <1>1, <1>2, <1>3 DEF Wrote
<1> QED
  BY <1>4 DEF Whole

LEMMA WholeAppend ==
    ASSUME NEW D, Zero \notin D, NEW records \in Seq(Seq(D)), NEW file, NEW s, Whole(file, records, s),
           file = [cells |-> file.cells, synced |-> file.synced],
           NEW record \in Seq(D), NEW o, AtOffset(o, Len(file.cells))
    PROVE  /\ Whole(AddRecord(file, record, o), Append(records, record), s)
           /\ AddRecord(file, record, o) = [cells |-> file.cells \o Emitted(Fragments(record, o)),
                                            synced |-> file.synced]
           /\ AtOffset(OffsetAfter(record, o), Len(AddRecord(file, record, o).cells))
<1> DEFINE n == Len(records)
           e == Emitted(Fragments(record, o))
           new == AddRecord(file, record, o)
           more == Append(records, record)
<1>1. PICK log, offsets : Wrote(file, log, offsets, records, s)
  BY DEF Whole
<1>2. n \in Nat /\ Len(more) = n + 1 /\ more[n + 1] = record
      /\ (\A i \in 1 .. n : more[i] = records[i]) /\ more \in Seq(Seq(D))
  BY LenProperties, AppendProperties
<1>3. new = [cells |-> file.cells \o e, synced |-> file.synced]
  <2>1. new = [file EXCEPT !.cells = file.cells \o e]
    BY Zenon DEF AddRecord
  <2>2. file = [cells |-> file.cells, synced |-> file.synced]
    OBVIOUS
  <2> DEFINE c == file.cells \o e
  <2>3. new = [file EXCEPT !.cells = c]
    BY <2>1
  <2> HIDE DEF c, new
  <2>4. new = [cells |-> c, synced |-> file.synced]
    BY <2>2, <2>3
  <2> QED
    BY <2>4 DEF c
<1>12. n \in Nat
  BY <1>2
<1> DEFINE log2 == [j \in 0 .. n + 1 |-> IF j = n + 1 THEN file.cells \o e ELSE log[j]]
           offsets2 == [j \in 1 .. n + 1 |-> IF j = n + 1 THEN o ELSE offsets[j]]
<1>4. /\ log[0] = <<>> /\ file.cells = log[n] /\ s \in 0 .. n /\ Len(log[s]) <= file.synced
      /\ file.synced \in 0 .. Len(file.cells)
      /\ \A j \in 1 .. n : /\ AtOffset(offsets[j], Len(log[j - 1]))
                           /\ log[j] = log[j - 1] \o Emitted(Fragments(records[j], offsets[j]))
  BY <1>1, Zenon DEF Wrote, Written
<1>5. log2[n + 1] = file.cells \o e /\ offsets2[n + 1] = o
      /\ (\A j \in 0 .. n : log2[j] = log[j]) /\ (\A j \in 1 .. n : offsets2[j] = offsets[j])
  BY <1>2
<1> HIDE DEF log2, offsets2, more, new, n
<1>6. Written(log2, offsets2, more)
  <2>1. log2[0] = <<>>
    <3>1. 0 \in 0 .. n
      BY <1>12
    <3> QED
      BY <1>4, <1>5, <3>1
  <2>2. ASSUME NEW j \in 1 .. n + 1
        PROVE  /\ AtOffset(offsets2[j], Len(log2[j - 1]))
               /\ log2[j] = log2[j - 1] \o Emitted(Fragments(more[j], offsets2[j]))
    <3>1. CASE j = n + 1
      <4>1. log2[j - 1] = file.cells /\ offsets2[j] = o /\ more[j] = record /\ log2[j] = file.cells \o e
        <5>1. j - 1 = n /\ n \in 0 .. n
          BY <1>12, <3>1
        <5> QED
          BY <1>2, <1>4, <1>5, <3>1, <5>1
      <4> HIDE DEF e
      <4>2. log2[j] = log2[j - 1] \o e
        BY <4>1
      <4>3. AtOffset(offsets2[j], Len(log2[j - 1]))
        BY <4>1, Zenon
      <4>4. e = Emitted(Fragments(more[j], offsets2[j]))
        BY <4>1, Zenon DEF e
      <4> QED
        BY <4>2, <4>3, <4>4, Zenon
    <3>2. CASE j \in 1 .. n
      <4>1. j - 1 \in 0 .. n /\ j \in 0 .. n
        BY <1>12, <3>2
      <4>2. log2[j - 1] = log[j - 1] /\ offsets2[j] = offsets[j] /\ more[j] = records[j] /\ log2[j] = log[j]
        BY <1>2, <1>5, <3>2, <4>1
      <4> QED
        <5>1. AtOffset(offsets[j], Len(log[j - 1]))
              /\ log[j] = log[j - 1] \o Emitted(Fragments(records[j], offsets[j]))
          BY <1>4, <3>2
        <5>2. AtOffset(offsets2[j], Len(log2[j - 1]))
          BY <4>2, <5>1
        <5>3. Emitted(Fragments(more[j], offsets2[j])) = Emitted(Fragments(records[j], offsets[j]))
          BY <4>2, Zenon
        <5>4. log2[j - 1] \o Emitted(Fragments(more[j], offsets2[j])) = log[j - 1] \o Emitted(Fragments(records[j], offsets[j]))
          BY <4>2, <5>3, Zenon
        <5> DEFINE x == log2[j - 1] \o Emitted(Fragments(more[j], offsets2[j]))
                   y == log[j - 1] \o Emitted(Fragments(records[j], offsets[j]))
        <5>5. log2[j] = log[j] /\ log[j] = y /\ x = y
          BY <4>2, <5>1, <5>4
        <5> HIDE DEF x, y
        <5>6. log2[j] = x
          BY <5>5
        <5> QED
          BY <5>2, <5>6 DEF x
    <3>3. j = n + 1 \/ j \in 1 .. n
      BY <1>12
    <3> QED
      BY <3>1, <3>2, <3>3, Zenon
  <2> QED
    BY <1>2, <2>1, <2>2, Zenon DEF Written
<1>7. file.cells \in Seq(CellSet(D)) /\ Len(file.cells) \in Nat
  BY WholeTyped
<1>8. e \in Seq(CellSet(D)) /\ Len(e) \in Nat
  <2>1. e \in Seq(CellSet(D))
    BY <1>7, EmittedLaid
  <2> HIDE DEF e
  <2> QED
    BY <2>1, LenProperties
<1>9. Len(file.cells \o e) = Len(file.cells) + Len(e)
  BY <1>7, <1>8, ConcatProperties
<1>10. Wrote(new, log2, offsets2, more, s)
  <2>1. new.cells = log2[Len(more)] /\ new.synced = file.synced
    BY <1>2, <1>3, <1>5
  <2>2. s \in 0 .. n + 1 /\ log2[s] = log[s]
    BY <1>2, <1>4, <1>5
  <2>3. file.synced \in 0 .. Len(file.cells) + Len(e)
    BY <1>4, <1>7, <1>8
  <2>4. new.cells = file.cells \o e
    BY <1>3
  <2> QED
    BY <1>2, <1>4, <1>6, <1>9, <2>1, <2>2, <2>3, <2>4, Zenon DEF Wrote
<1>11. AtOffset(OffsetAfter(record, o), Len(file.cells \o e))
  <2> DEFINE fs == Fragments(record, o)
  <2>1. AtOffset(fs[Len(fs)].after, Len(file.cells) + Len(Emitted(fs)))
    BY <1>7, WriterGoesOn
  <2>2. OffsetAfter(record, o) = fs[Len(fs)].after
    BY DEF OffsetAfter, Last
  <2> QED
    BY <1>9, <2>1, <2>2
<1>13. Whole(new, more, s)
  BY <1>10 DEF Whole
<1>14. new.cells = file.cells \o e
  BY <1>3
<1> HIDE DEF e
<1> QED
  BY <1>3, <1>11, <1>13, <1>14, Zenon DEF new, more, e

LEMMA WholeSync ==
    ASSUME NEW D, Zero \notin D, NEW records \in Seq(Seq(D)), NEW file, NEW s, Whole(file, records, s),
           file = [cells |-> file.cells, synced |-> file.synced]
    PROVE  /\ Whole(SyncFile(file), records, Len(records))
           /\ SyncFile(file) = [cells |-> file.cells, synced |-> Len(file.cells)]
<1> DEFINE n == Len(records)
           l == Len(file.cells)
           new == SyncFile(file)
<1>1. PICK log, offsets : Wrote(file, log, offsets, records, s)
  BY DEF Whole
<1>2. new = [cells |-> file.cells, synced |-> l]
  <2>1. new = [file EXCEPT !.synced = l]
    BY DEF SyncFile
  <2> HIDE DEF l, new
  <2> QED
    BY <2>1
<1>3. l \in Nat /\ n \in Nat
  BY WholeTyped, LenProperties
<1>4. Written(log, offsets, records) /\ file.cells = log[n]
  BY <1>1, Zenon DEF Wrote
<1> HIDE DEF n, l, new
<1>5. new.cells = log[n] /\ Len(log[n]) = l /\ new.synced = l /\ new.cells = file.cells
  BY <1>2, <1>4 DEF l
<1>6. n \in 0 .. n /\ l <= l /\ l \in 0 .. l
  BY <1>3
<1>7. Wrote(new, log, offsets, records, n)
  BY <1>4, <1>5, <1>6 DEF Wrote, n, l
<1> QED
  BY <1>2, <1>7 DEF Whole, new, n, l

(* What a crash leaves of it is read as some of the records, with those    *)
(* that were synced.                                                       *)
LEMMA TailKept ==
    ASSUME NEW C, NEW file, file.cells \in Seq(C), file.synced \in 0 .. Len(file.cells),
           NEW loss, NEW cells \in Tails(file, loss)
    PROVE  \E k \in file.synced .. Len(file.cells) :
             /\ Kept(cells, file.cells, k) /\ cells \in Seq(C \union {Zero})
             /\ loss = "cut" => Len(cells) = k
<1> DEFINE whole == file.cells
           n == Len(whole)
           E == C \union {Zero}
           kept(k) == SubSeq(whole, 1, k)
           lost(k) == IF loss = "cut" THEN <<>> ELSE [i \in 1 .. n - k |-> Zero]
<1>1. n \in Nat /\ whole \in Seq(E)
  <2>1. n \in Nat
    BY LenProperties
  <2>2. \A i \in 1 .. n : whole[i] \in E
    BY ElementOfSeq
  <2>3. whole \in [1 .. n -> E]
    BY <2>2
  <2> QED
    BY <2>1, <2>3
<1>2. PICK k \in file.synced .. n : cells = kept(k) \o lost(k)
  BY DEF Tails
<1> HIDE DEF whole, n, E
<1>3. k \in 0 .. n /\ k \in Nat
  BY <1>1 DEF n, whole
<1>4. kept(k) \in Seq(E) /\ Len(kept(k)) = k /\ \A i \in 1 .. k : kept(k)[i] = whole[i]
  <2>1. 0 \in 0 .. n /\ k \in 0 .. n
    BY <1>1, <1>3
  <2>2. SubSeq(whole, 0 + 1, k) \in Seq(E) /\ Len(SubSeq(whole, 0 + 1, k)) = k - 0
        /\ \A i \in 1 .. k - 0 : SubSeq(whole, 0 + 1, k)[i] = whole[0 + i]
    BY <1>1, <1>3, <2>1, SubSeqOf DEF n
  <2> QED
    BY <1>3, <2>2
<1>5. \E m \in Nat : lost(k) \in Seq(E) /\ Len(lost(k)) = m
                     /\ (\A i \in 1 .. m : lost(k)[i] = Zero) /\ (loss = "cut" => m = 0)
  <2>1. CASE loss = "cut"
    <3>1. lost(k) = <<>> /\ <<>> \in Seq(E) /\ Len(<<>>) = 0
      BY <2>1
    <3> HIDE DEF lost
    <3>2. 0 \in Nat /\ \A i \in 1 .. 0 : lost(k)[i] = Zero
      OBVIOUS
    <3> QED
      BY <3>1, <3>2
  <2>2. CASE loss # "cut"
    <3>1. lost(k) = [i \in 1 .. n - k |-> Zero] /\ n - k \in Nat
      BY <1>1, <1>3, <2>2
    <3> HIDE DEF lost
    <3>2. lost(k) \in [1 .. n - k -> E]
      BY <3>1 DEF E
    <3>3. lost(k) \in Seq(E)
      BY <3>1, <3>2
    <3>4. Len(lost(k)) = n - k
      BY <3>1, <3>3, LenProperties
    <3>5. \A i \in 1 .. n - k : lost(k)[i] = Zero
      BY <3>1
    <3> QED
      BY <2>2, <3>1, <3>3, <3>4, <3>5
  <2> QED
    BY <2>1, <2>2
<1> HIDE DEF kept, lost
<1>6. PICK m \in Nat : lost(k) \in Seq(E) /\ Len(lost(k)) = m
                     /\ (\A i \in 1 .. m : lost(k)[i] = Zero) /\ (loss = "cut" => m = 0)
  BY <1>5
<1> DEFINE a == kept(k)
           b == lost(k)
<1>7. a \in Seq(E) /\ Len(a) = k /\ b \in Seq(E) /\ Len(b) = m /\ cells = a \o b
  BY <1>2, <1>4, <1>6
<1> HIDE DEF a, b
<1>8. cells \in Seq(E) /\ Len(cells) = k + m
      /\ \A i \in 1 .. k + m : cells[i] = IF i <= k THEN a[i] ELSE b[i - k]
  BY <1>7, ConcatProperties
<1>9. \A i \in 1 .. k + m : cells[i] = IF i <= k THEN whole[i] ELSE Zero
  <2> TAKE i \in 1 .. k + m
  <2>1. CASE i <= k
    <3>1. i \in 1 .. k
      BY <1>3, <2>1
    <3> QED
      BY <1>4, <1>8, <2>1, <3>1 DEF a
  <2>2. CASE ~ (i <= k)
    <3>1. i - k \in 1 .. m
      BY <1>3, <2>2
    <3> QED
      BY <1>6, <1>8, <2>2, <3>1 DEF b
  <2> QED
    BY <2>1, <2>2
<1>10. Kept(cells, whole, k)
  <2>1. k \in 0 .. Len(whole) /\ k <= Len(cells)
    BY <1>3, <1>8 DEF n
  <2> QED
    BY <1>8, <1>9, <2>1, Zenon DEF Kept
<1>11. k \in file.synced .. Len(file.cells)
  BY <1>2 DEF n, whole
<1>12. loss = "cut" => Len(cells) = k
  BY <1>3, <1>6, <1>8
<1> QED
  BY <1>8, <1>10, <1>11, <1>12 DEF whole, E

(* A file that is cut off ends in no corruption. *)
LeftOf(cells, loss, records, m) ==
    /\ ReadAll(cells, TRUE).records = SubSeq(records, 1, m)
    /\ Len(cells) \in Nat
    /\ loss = "cut" => ReadAll(cells, TRUE).corrupt = FALSE

LEMMA WholeLoses ==
    ASSUME NEW D, Zero \notin D, NEW records \in Seq(Seq(D)), NEW file, NEW s, Whole(file, records, s),
           NEW loss, NEW cells \in Tails(file, loss)
    PROVE  \E m \in s .. Len(records) : LeftOf(cells, loss, records, m)
<1> DEFINE n == Len(records)
<1>1. PICK log, offsets : Wrote(file, log, offsets, records, s)
  BY DEF Whole
<1>2. file.cells \in Seq(CellSet(D)) /\ Len(file.cells) \in Nat /\ s \in 0 .. n
      /\ file.synced \in 0 .. Len(file.cells)
  BY WholeTyped
<1>3. PICK k \in file.synced .. Len(file.cells) :
        /\ Kept(cells, file.cells, k) /\ cells \in Seq(CellSet(D) \union {Zero})
        /\ loss = "cut" => Len(cells) = k
  BY <1>2, TailKept, Zenon
<1>4. cells \in Seq(CellSet(D)) /\ Len(cells) \in Nat
  <2>1. CellSet(D) \union {Zero} = CellSet(D)
    BY DEF CellSet
  <2>2. cells \in Seq(CellSet(D))
    BY <1>3, <2>1, Zenon
  <2> QED
    BY <2>2, LenProperties
<1>5. n \in Nat /\ Written(log, offsets, records) /\ file.cells = log[n] /\ Len(log[s]) <= file.synced
  <2>1. n \in Nat
    BY LenProperties
  <2> QED
    BY <1>1, <2>1, Zenon DEF Wrote
<1>6. k \in Nat
  BY <1>2
<1>7. PICK m \in 0 .. Len(records) :
             /\ Len(log[m]) <= k /\ (m # Len(records) => k < Len(log[m + 1]))
             /\ ReadAll(cells, TRUE).records = SubSeq(records, 1, m)
             /\ loss = "cut" => ReadAll(cells, TRUE).corrupt = FALSE
  <2>1. Kept(cells, log[Len(records)], k)
    BY <1>3, <1>5
  <2> DEFINE checked == TRUE
  <2>2. checked \/ Len(cells) = k
    OBVIOUS
  <2> HIDE DEF checked
  <2>3. PICK m \in 0 .. Len(records) : Found(cells, log, records, k, checked, m)
    BY <1>4, <1>5, <1>6, <2>1, <2>2, LogFound
  <2> QED
    BY <1>3, <2>3, Zenon DEF Found, checked
<1>8. m >= s
  <2> SUFFICES ASSUME m < s PROVE FALSE
    BY <1>2
  <2> DEFINE first == SubSeq(records, 1, s)
  <2> HIDE DEF n
  <2>1. s \in Nat /\ m + 1 \in 1 .. s /\ m + 1 \in 0 .. s /\ s <= n /\ 0 \in 0 .. n /\ m # n
    BY <1>2, <1>5, <1>7 DEF n
  <2>2. first \in Seq(Seq(D)) /\ Len(first) = s /\ \A i \in 1 .. s : first[i] = records[i]
    <3>1. SubSeq(records, 0 + 1, s) \in Seq(Seq(D)) /\ Len(SubSeq(records, 0 + 1, s)) = s - 0
          /\ \A i \in 1 .. s - 0 : SubSeq(records, 0 + 1, s)[i] = records[0 + i]
      BY <1>2, <2>1, SubSeqOf DEF n
    <3> QED
      BY <2>1, <3>1
  <2> HIDE DEF first
  <2>3. Written(log, offsets, first)
    <3>1. log[0] = <<>>
      BY <1>5, Zenon DEF Written
    <3>2. ASSUME NEW j \in 1 .. Len(first)
          PROVE  /\ AtOffset(offsets[j], Len(log[j - 1]))
                 /\ log[j] = log[j - 1] \o Emitted(Fragments(first[j], offsets[j]))
      <4>1. j \in 1 .. Len(records) /\ first[j] = records[j]
        BY <1>5, <2>1, <2>2 DEF n
      <4> QED
        BY <1>5, <4>1, Zenon DEF Written
    <3> QED
      BY <3>1, <3>2, Zenon DEF Written
  <2>4. PICK fs, ends : LogLaid(log, fs, ends, D, first)
    BY <2>2, <2>3, WrittenLaid
  <2>5. Len(log[m + 1]) <= Len(log[s]) /\ Len(log[m + 1]) \in Nat /\ Len(log[s]) \in Nat
    <3>1. \A j \in 0 .. s : Len(log[j]) \in Nat
      BY <2>2, <2>4, Zenon DEF LogLaid
    <3>2. \A j \in 1 .. s : Len(log[j]) <= Len(log[s])
      BY <2>2, <2>4, Zenon DEF LogLaid
    <3>3. s \in 0 .. s
      BY <2>1
    <3> QED
      BY <2>1, <3>1, <3>2, <3>3
  <2>6. k < Len(log[m + 1])
    BY <1>7, <2>1 DEF n
  <2>7. Len(log[s]) <= k
    BY <1>2, <1>5, <2>5
  <2> QED
    BY <1>6, <2>5, <2>6, <2>7
<1>9. m \in s .. Len(records)
  BY <1>2, <1>5, <1>7, <1>8
<1> QED
  BY <1>4, <1>7, <1>9 DEF LeftOf

(* A MANIFEST whose writer has appended the edits es to it, of which the   *)
(* first s are synced.                                                     *)
EditRecords(es) == [i \in 1 .. Len(es) |-> Record(es[i], EditSize)]

IsFile(file) == file = [cells |-> file.cells, synced |-> file.synced]

ManifestOf(file, es, s) ==
    IsList(es) /\ IsFile(file) /\ Whole(file, EditRecords(es), s)

LEMMA EditRecordsHold ==
    ASSUME NEW es, IsList(es), NEW W, ToSet(es) \subseteq W
    PROVE  /\ EditRecords(es) \in Seq(Seq(DataCells(W))) /\ Zero \notin DataCells(W)
           /\ Len(EditRecords(es)) = Len(es)
           /\ \A i \in 1 .. Len(es) : EditRecords(es)[i] = Record(es[i], EditSize)
           /\ IsList(EditRecords(es))
<1> DEFINE n == Len(es)
           D == DataCells(W)
           rs == EditRecords(es)
<1>1. n \in Nat /\ \A i \in 1 .. n : es[i] \in W
  BY ListHolds
<1>2. EditSize \in Nat
  BY RecoveryAssumption
<1>3. rs = [i \in 1 .. n |-> Record(es[i], EditSize)]
  BY DEF EditRecords
<1> HIDE DEF n, rs
<1>4. \A i \in 1 .. n : Record(es[i], EditSize) \in Seq(D)
  BY <1>1, <1>2, RecordHolds
<1>5. Zero \notin D
  <2>1. Len(Zero) = 1
    BY DEF Zero
  <2>2. \A c : Len(DataCell(c)) = 3
    BY DEF DataCell
  <2> QED
    BY <2>1, <2>2 DEF DataCells
<1> HIDE DEF D
<1>6. rs \in [1 .. n -> Seq(D)]
  BY <1>3, <1>4
<1>7. rs \in Seq(Seq(D)) /\ Len(rs) = n
  BY <1>1, <1>6, LenProperties
<1>8. IsList(rs)
  BY <1>1, <1>3, ListFrom
<1> QED
  BY <1>3, <1>5, <1>7, <1>8 DEF n, rs, D

LEMMA EditRecordsAppend ==
    ASSUME NEW es, IsList(es), NEW e
    PROVE  EditRecords(Append(es, e)) = Append(EditRecords(es), Record(e, EditSize))
<1> DEFINE n == Len(es)
           r == Record(e, EditSize)
           a == EditRecords(Append(es, e))
           b == Append(EditRecords(es), r)
<1>1. n \in Nat /\ IsList(Append(es, e)) /\ Len(Append(es, e)) = n + 1
      /\ \A i \in 1 .. n + 1 : Append(es, e)[i] = IF i = n + 1 THEN e ELSE es[i]
  BY ListHolds, ListAppend
<1>2. a = [i \in 1 .. n + 1 |-> Record(Append(es, e)[i], EditSize)]
  BY <1>1 DEF EditRecords
<1>3. IsList(EditRecords(es)) /\ Len(EditRecords(es)) = n
      /\ \A i \in 1 .. n : EditRecords(es)[i] = Record(es[i], EditSize)
  BY EditRecordsHold
<1>4. IsList(b) /\ Len(b) = n + 1
      /\ \A i \in 1 .. n + 1 : b[i] = IF i = n + 1 THEN r ELSE EditRecords(es)[i]
  BY <1>3, ListAppend
<1>5. b = [i \in 1 .. n + 1 |-> b[i]]
  BY <1>4, ListHolds
<1> HIDE DEF a, b, n
<1>6. \A i \in 1 .. n + 1 : b[i] = Record(Append(es, e)[i], EditSize)
  <2> TAKE i \in 1 .. n + 1
  <2>1. CASE i = n + 1
    BY <1>1, <1>4, <2>1
  <2>2. CASE i # n + 1
    <3>1. i \in 1 .. n
      BY <1>1, <2>2
    <3> QED
      BY <1>1, <1>3, <1>4, <2>2, <3>1
  <2> QED
    BY <2>1, <2>2
<1> QED
  BY <1>2, <1>5, <1>6 DEF a, b

LEMMA EditRecordsPrefix ==
    ASSUME NEW es, IsList(es), NEW m \in 0 .. Len(es)
    PROVE  SubSeq(EditRecords(es), 1, m) = EditRecords(SubSeq(es, 1, m))
<1> DEFINE n == Len(es)
           p == SubSeq(es, 1, m)
           rs == EditRecords(es)
<1>1. n \in Nat /\ m \in Nat /\ m <= n
  BY ListHolds
<1>2. IsList(p) /\ Len(p) = m /\ \A i \in 1 .. m : p[i] = es[i]
  BY ListPrefix
<1>3. IsList(rs) /\ Len(rs) = n /\ \A i \in 1 .. n : rs[i] = Record(es[i], EditSize)
  BY EditRecordsHold
<1> HIDE DEF n, p, rs
<1>4. m \in 0 .. Len(rs)
  BY <1>1, <1>3
<1>5. SubSeq(rs, 1, m) = [i \in 1 .. m |-> rs[i]]
  BY <1>3, <1>4, ListPrefix
<1>6. EditRecords(p) = [i \in 1 .. m |-> Record(p[i], EditSize)]
  BY <1>2 DEF EditRecords
<1>7. \A i \in 1 .. m : rs[i] = Record(p[i], EditSize)
  BY <1>1, <1>2, <1>3
<1> QED
  BY <1>5, <1>6, <1>7 DEF p, rs

LEMMA EditsReadBack ==
    ASSUME NEW es, IsList(es), NEW read, read.records = EditRecords(es)
    PROVE  EditsIn(read) = es
<1> DEFINE n == Len(es)
           rs == EditRecords(es)
<1>1. n \in Nat /\ es = [i \in 1 .. n |-> es[i]]
  BY ListHolds
<1>2. IsList(rs) /\ Len(rs) = n /\ \A i \in 1 .. n : rs[i] = Record(es[i], EditSize)
  BY EditRecordsHold
<1>3. DOMAIN rs = 1 .. n
  BY <1>2, ListHolds
<1>4. \A i \in 1 .. n : rs[i][1][2] = es[i]
  <2> TAKE i \in 1 .. n
  <2>1. EditSize \in Nat /\ 1 \in 1 .. EditSize
    BY RecoveryAssumption
  <2>2. Record(es[i], EditSize)[1] = <<"data", es[i], 1>>
    BY <2>1 DEF Record
  <2> QED
    BY <1>2, <2>2
<1>5. EditsIn(read) = [i \in DOMAIN rs |-> rs[i][1][2]]
  BY DEF EditsIn
<1> HIDE DEF n, rs
<1> QED
  BY <1>1, <1>3, <1>4, <1>5

LEMMA ManifestEmpty == ManifestOf(EmptyFile, <<>>, 0)
<1>1. IsFile(EmptyFile)
  BY DEF IsFile, EmptyFile
<1>2. IsList(<<>>)
  BY DEF IsList
<1>3. EditRecords(<<>>) = <<>>
  BY DEF EditRecords
<1> QED
  BY <1>1, <1>2, <1>3, WholeEmpty DEF ManifestOf

LEMMA ManifestTyped ==
    ASSUME NEW file, NEW es, NEW s, ManifestOf(file, es, s)
    PROVE  /\ Len(es) \in Nat /\ s \in 0 .. Len(es) /\ IsList(es)
           /\ Len(file.cells) \in Nat /\ file.synced \in 0 .. Len(file.cells)
           /\ file.cells \in Seq(ToSet(file.cells))
<1> DEFINE D == DataCells(ToSet(es))
           rs == EditRecords(es)
<1>1. IsList(es) /\ Whole(file, rs, s)
  BY DEF ManifestOf
<1>2. rs \in Seq(Seq(D)) /\ Zero \notin D /\ Len(rs) = Len(es)
  BY <1>1, EditRecordsHold
<1>3. file.cells \in Seq(CellSet(D)) /\ Len(file.cells) \in Nat /\ s \in 0 .. Len(rs)
      /\ file.synced \in 0 .. Len(file.cells)
  BY <1>1, <1>2, WholeTyped
<1>4. IsList(file.cells)
  <2> DEFINE c == file.cells
  <2>1. c = [i \in 1 .. Len(c) |-> c[i]] /\ Len(c) \in Nat
    BY <1>3
  <2> HIDE DEF c
  <2> QED
    BY <2>1, ListFrom DEF c
<1> QED
  BY <1>1, <1>2, <1>3, <1>4, ListHolds DEF IsList

LEMMA ManifestReads ==
    ASSUME NEW file, NEW es, NEW s, ManifestOf(file, es, s)
    PROVE  /\ ReadAll(file.cells, TRUE).corrupt = FALSE
           /\ EditsIn(ReadAll(file.cells, TRUE)) = es
<1> DEFINE D == DataCells(ToSet(es))
           rs == EditRecords(es)
<1>1. IsList(es) /\ Whole(file, rs, s)
  BY DEF ManifestOf
<1>2. rs \in Seq(Seq(D)) /\ Zero \notin D
  BY <1>1, EditRecordsHold
<1> DEFINE read == ReadAll(file.cells, TRUE)
<1>3. read = [records |-> rs, corrupt |-> FALSE, torn |-> FALSE]
  BY <1>1, <1>2, WholeReads, Zenon
<1> HIDE DEF read, rs, D
<1>4. read.records = rs /\ read.corrupt = FALSE
  BY <1>3
<1> QED
  BY <1>1, <1>4, EditsReadBack DEF read, rs

LEMMA ManifestAppend ==
    ASSUME NEW file, NEW es, NEW s, ManifestOf(file, es, s), NEW e
    PROVE  ManifestOf(ManifestWith(file, e), Append(es, e), s)
<1> DEFINE W == ToSet(es) \union {e}
           D == DataCells(W)
           rs == EditRecords(es)
           r == Record(e, EditSize)
           o == Len(file.cells) % BlockSize
           new == AddRecord(file, r, o)
<1>1. IsList(es) /\ Whole(file, rs, s) /\ file = [cells |-> file.cells, synced |-> file.synced]
  BY DEF ManifestOf, IsFile
<1>2. rs \in Seq(Seq(D)) /\ Zero \notin D
  <2>1. ToSet(es) \subseteq W
    OBVIOUS
  <2> QED
    BY <1>1, <2>1, EditRecordsHold
<1>3. r \in Seq(D)
  <2>1. e \in W /\ EditSize \in Nat
    BY RecoveryAssumption
  <2> QED
    BY <2>1, RecordHolds
<1>4. Len(file.cells) \in Nat
  BY ManifestTyped
<1>5. AtOffset(o, Len(file.cells))
  BY <1>4, WriterOpens
<1> HIDE DEF W, D, rs, r, o
<1>6. Whole(new, Append(rs, r), s) /\ new = [cells |-> file.cells \o Emitted(Fragments(r, o)),
                                            synced |-> file.synced]
  <2>1. Whole(file, rs, s) /\ file = [cells |-> file.cells, synced |-> file.synced]
    BY <1>1
  <2>2. /\ Whole(AddRecord(file, r, o), Append(rs, r), s)
        /\ AddRecord(file, r, o) = [cells |-> file.cells \o Emitted(Fragments(r, o)), synced |-> file.synced]
    <3> HIDE DEF new
    <3> QED
      BY <1>2, <1>3, <1>5, <2>1, WholeAppend, SMTT(40)
  <2> QED
    BY <2>2
<1>7. new = ManifestWith(file, e)
  BY DEF ManifestWith, r, o
<1>8. IsFile(new)
  <2> DEFINE c == file.cells \o Emitted(Fragments(r, o))
  <2>1. new = [cells |-> c, synced |-> file.synced]
    BY <1>6
  <2> HIDE DEF c, new
  <2> QED
    BY <2>1 DEF IsFile
<1>9. Append(rs, r) = EditRecords(Append(es, e)) /\ IsList(Append(es, e))
  BY <1>1, EditRecordsAppend, ListAppend DEF rs, r
<1> QED
  BY <1>6, <1>7, <1>8, <1>9, Zenon DEF ManifestOf

LEMMA ManifestSync ==
    ASSUME NEW file, NEW es, NEW s, ManifestOf(file, es, s)
    PROVE  ManifestOf(SyncFile(file), es, Len(es))
<1> DEFINE D == DataCells(ToSet(es))
           rs == EditRecords(es)
           new == SyncFile(file)
<1>1. IsList(es) /\ Whole(file, rs, s) /\ file = [cells |-> file.cells, synced |-> file.synced]
  BY DEF ManifestOf, IsFile
<1>2. rs \in Seq(Seq(D)) /\ Zero \notin D /\ Len(rs) = Len(es)
  BY <1>1, EditRecordsHold
<1>3. Whole(new, rs, Len(rs)) /\ new = [cells |-> file.cells, synced |-> Len(file.cells)]
  BY <1>1, <1>2, WholeSync, Zenon
<1>4. IsFile(new)
  <2> DEFINE l == Len(file.cells)
  <2>1. new = [cells |-> file.cells, synced |-> l]
    BY <1>3
  <2> HIDE DEF l, new
  <2> QED
    BY <2>1 DEF IsFile
<1> QED
  BY <1>1, <1>2, <1>3, <1>4 DEF ManifestOf

LEMMA ManifestLoses ==
    ASSUME NEW file, NEW es, NEW s, ManifestOf(file, es, s), NEW loss,
           NEW cells \in Tails(file, loss)
    PROVE  \E m \in s .. Len(es) :
             /\ EditsIn(ReadAll(cells, TRUE)) = SubSeq(es, 1, m) /\ Len(cells) \in Nat
             /\ loss = "cut" => ReadAll(cells, TRUE).corrupt = FALSE
<1> DEFINE D == DataCells(ToSet(es))
           rs == EditRecords(es)
           read == ReadAll(cells, TRUE)
<1>1. IsList(es) /\ Whole(file, rs, s)
  BY DEF ManifestOf
<1>2. rs \in Seq(Seq(D)) /\ Zero \notin D /\ Len(rs) = Len(es)
  BY <1>1, EditRecordsHold
<1>3. PICK m \in s .. Len(rs) : LeftOf(cells, loss, rs, m)
  BY <1>1, <1>2, WholeLoses, Zenon
<1>4. m \in s .. Len(es) /\ m \in 0 .. Len(es)
  BY <1>2, <1>3, ManifestTyped
<1>5. SubSeq(rs, 1, m) = EditRecords(SubSeq(es, 1, m)) /\ IsList(SubSeq(es, 1, m))
  BY <1>1, <1>4, EditRecordsPrefix, ListPrefix
<1> HIDE DEF read
<1>6. read.records = SubSeq(rs, 1, m) /\ Len(cells) \in Nat /\ (loss = "cut" => read.corrupt = FALSE)
  BY <1>3, Zenon DEF LeftOf, read
<1>7. EditsIn(read) = SubSeq(es, 1, m)
  BY <1>5, <1>6, EditsReadBack
<1> QED
  BY <1>4, <1>6, <1>7 DEF read

-----------------------------------------------------------------------------
(* Log files, of which only the type matters here *)

FileOK(f) == IsFile(f) /\ IsList(f.cells) /\ f.synced \in 0 .. Len(f.cells)
IsOffset(o) == \E p \in Nat : AtOffset(o, p)

LEMMA ListIn ==
    ASSUME NEW T, NEW c \in Seq(T)
    PROVE  IsList(c) /\ Len(c) \in Nat
<1>1. c = [i \in 1 .. Len(c) |-> c[i]] /\ Len(c) \in Nat
  BY LenProperties
<1> QED
  BY <1>1, ListFrom

LEMMA ListConcat ==
    ASSUME NEW a, IsList(a), NEW b, IsList(b)
    PROVE  IsList(a \o b) /\ Len(a \o b) = Len(a) + Len(b) /\ Len(a) \in Nat /\ Len(b) \in Nat
<1> DEFINE A == ToSet(a)
           B == ToSet(b)
           T == A \union B
<1>1. a \in Seq(A) /\ b \in Seq(B)
  BY DEF IsList
<1> HIDE DEF A, B
<1>2. a \in Seq(T) /\ b \in Seq(T)
  <2>1. A \subseteq T /\ B \subseteq T
    OBVIOUS
  <2> HIDE DEF T
  <2> QED
    BY <1>1, <2>1, SeqMonotonic
<1> HIDE DEF T
<1>3. a \o b \in Seq(T) /\ Len(a \o b) = Len(a) + Len(b)
  BY <1>2, ConcatProperties
<1> QED
  BY <1>2, <1>3, ListIn

LEMMA FileAppends ==
    ASSUME NEW f, FileOK(f), NEW c, IsList(c)
    PROVE  FileOK([f EXCEPT !.cells = @ \o c])
<1> DEFINE d == f.cells \o c
           new == [f EXCEPT !.cells = @ \o c]
<1>1. f = [cells |-> f.cells, synced |-> f.synced] /\ IsList(f.cells) /\ f.synced \in 0 .. Len(f.cells)
  BY DEF FileOK, IsFile
<1>2. IsList(d) /\ Len(d) = Len(f.cells) + Len(c) /\ Len(f.cells) \in Nat /\ Len(c) \in Nat
  BY <1>1, ListConcat
<1>3. new = [f EXCEPT !.cells = d]
  OBVIOUS
<1> HIDE DEF d, new
<1>4. new = [cells |-> d, synced |-> f.synced]
  BY <1>1, <1>3
<1>5. new.synced \in 0 .. Len(new.cells) /\ IsList(new.cells) /\ IsFile(new)
  BY <1>1, <1>2, <1>4 DEF IsFile
<1> QED
  BY <1>5 DEF FileOK, new

LEMMA FileSynced ==
    ASSUME NEW f, FileOK(f)
    PROVE  FileOK(SyncFile(f))
<1> DEFINE l == Len(f.cells)
           new == SyncFile(f)
<1>1. f = [cells |-> f.cells, synced |-> f.synced] /\ IsList(f.cells)
  BY DEF FileOK, IsFile
<1>2. l \in Nat
  BY <1>1, ListHolds
<1>3. new = [f EXCEPT !.synced = l]
  BY DEF SyncFile
<1> HIDE DEF l, new
<1>4. new = [cells |-> f.cells, synced |-> l]
  BY <1>1, <1>3
<1>5. new.synced \in 0 .. Len(new.cells) /\ IsList(new.cells) /\ IsFile(new)
  BY <1>1, <1>2, <1>4 DEF IsFile, l
<1> QED
  BY <1>5 DEF FileOK, new

LEMMA EmptyFileOK == FileOK(EmptyFile)
<1>1. EmptyFile = [cells |-> <<>>, synced |-> 0] /\ IsList(<<>>)
  BY DEF EmptyFile, IsList
<1> QED
  BY <1>1 DEF FileOK, IsFile

LEMMA LostFileOK ==
    ASSUME NEW f, FileOK(f), NEW loss, NEW cells \in Tails(f, loss)
    PROVE  FileOK([cells |-> cells, synced |-> Len(cells)])
<1> DEFINE C == ToSet(f.cells)
           l == Len(cells)
<1>1. f.cells \in Seq(C) /\ f.synced \in 0 .. Len(f.cells)
  BY DEF FileOK, IsList
<1> HIDE DEF C
<1>2. PICK k \in f.synced .. Len(f.cells) : Kept(cells, f.cells, k) /\ cells \in Seq(C \union {Zero})
  BY <1>1, TailKept, Zenon
<1>3. IsList(cells) /\ l \in Nat
  <2> DEFINE E == C \union {Zero}
  <2>1. cells \in Seq(E)
    BY <1>2
  <2> HIDE DEF E
  <2> QED
    BY <2>1, ListIn
<1> DEFINE new == [cells |-> cells, synced |-> l]
<1>4. new.cells = cells /\ new.synced = l /\ new = [cells |-> new.cells, synced |-> new.synced]
  BY Zenon
<1> HIDE DEF new
<1>5. new.synced \in 0 .. Len(new.cells)
  BY <1>3, <1>4
<1>6. FileOK(new)
  BY <1>3, <1>4, <1>5 DEF FileOK, IsFile
<1> QED
  BY <1>6 DEF new

(* AddRecord, and the part of it that is in a file when it fails.          *)
LEMMA LogWritten ==
    ASSUME NEW f, FileOK(f), NEW id, NEW size \in Sizes, NEW o, IsOffset(o)
    PROVE  /\ FileOK(AddRecord(f, Record(id, size), o))
           /\ IsOffset(OffsetAfter(Record(id, size), o))
<1> DEFINE r == Record(id, size)
           D == DataCells({id})
           fs == Fragments(r, o)
           e == Emitted(fs)
<1>1. size \in Nat
  BY RecoveryAssumption
<1>2. r \in Seq(D)
  BY <1>1, RecordHolds
<1>3. PICK p \in Nat : AtOffset(o, p)
  BY DEF IsOffset
<1> HIDE DEF r, D
<1>4. e \in Seq(CellSet(D)) /\ AtOffset(fs[Len(fs)].after, p + Len(e))
  BY <1>2, <1>3, EmittedLaid, WriterGoesOn
<1>5. IsList(e) /\ Len(e) \in Nat
  BY <1>4, ListIn
<1>6. p + Len(e) \in Nat
  BY <1>5
<1>7. OffsetAfter(r, o) = fs[Len(fs)].after
  BY DEF OffsetAfter, Last
<1>8. AddRecord(f, r, o) = [f EXCEPT !.cells = @ \o e]
  BY DEF AddRecord
<1> HIDE DEF e, fs
<1>9. IsOffset(OffsetAfter(r, o)) /\ FileOK(AddRecord(f, r, o))
  BY <1>4, <1>5, <1>6, <1>7, <1>8, FileAppends DEF IsOffset
<1> QED
  BY <1>9 DEF r

LEMMA LogPartWritten ==
    ASSUME NEW f, FileOK(f), NEW id, NEW size \in Sizes, NEW o, IsOffset(o),
           NEW k \in DOMAIN Fragments(Record(id, size), o)
    PROVE  /\ FileOK([f EXCEPT !.cells = @ \o Emitted(SubSeq(Fragments(Record(id, size), o), 1, k - 1))])
           /\ IsOffset(Fragments(Record(id, size), o)[k].after)
<1> DEFINE r == Record(id, size)
           D == DataCells({id})
           fs == Fragments(r, o)
           part == SubSeq(fs, 1, k - 1)
           e == Emitted(part)
           F == FragmentSet(D)
           T == CellSet(D)
           g == [i \in 1 .. Len(part) |-> Cells(part[i])]
<1>1. size \in Nat
  BY RecoveryAssumption
<1>2. r \in Seq(D)
  BY <1>1, RecordHolds
<1>3. PICK p \in Nat : AtOffset(o, p)
  BY DEF IsOffset
<1> HIDE DEF r, D
<1>4. fs \in Seq(F)
  BY <1>2, <1>3, FragmentsHold
<1>5. PICK ends : Laid(ends, fs, D, r, o, p, Emitted(fs))
  BY <1>2, <1>3, EmittedLaid
<1>6. Len(fs) \in Nat /\ k \in 1 .. Len(fs)
  <2>1. DOMAIN fs = 1 .. Len(fs) /\ Len(fs) \in Nat
    BY <1>4, LenProperties
  <2> QED
    BY <2>1 DEF r
<1>7. part \in Seq(F) /\ Len(part) \in Nat
  <2> HIDE DEF fs, F
  <2>1. 0 \in 0 .. Len(fs) /\ k - 1 \in 0 .. Len(fs)
    BY <1>6
  <2>2. SubSeq(fs, 0 + 1, k - 1) \in Seq(F)
    BY <1>4, <2>1, SubSeqOf
  <2>3. part \in Seq(F)
    BY <2>2
  <2> HIDE DEF part
  <2> QED
    BY <2>3, LenProperties
<1>8. IsList(e)
  <2> HIDE DEF fs, part
  <2>1. \A i \in 1 .. Len(part) : g[i] = Cells(part[i]) /\ g[i] \in Seq(T)
    <3> TAKE i \in 1 .. Len(part)
    <3> HIDE DEF F, T
    <3>1. part[i] \in F
      BY <1>7, ElementOfSeq
    <3>2. Cells(part[i]) \in Seq(T)
      BY <3>1, CellsHold DEF F, T
    <3> QED
      BY <3>2
  <2>2. PICK w : e = w[Len(part)] /\ Joins(w, g, Len(part))
    BY <1>7, EmittedJoins
  <2> HIDE DEF T, g
  <2>3. Pieced(w, g, Len(part), T)
    BY <1>7, <2>1, <2>2, JoinedPieces
  <2>4. Len(part) \in 0 .. Len(part)
    BY <1>7
  <2>5. e \in Seq(T)
    BY <2>2, <2>3, <2>4, Zenon DEF Pieced
  <2> QED
    BY <2>5, ListIn
<1>9. IsOffset(fs[k].after)
  <2> DEFINE x == p + ends[k - 1] + fs[k].pad + HeaderSize + Len(fs[k].data)
  <2>1. Placed(fs[k], D, r, k - 1, Before(fs, k), OffsetOf(fs, o, k), p + ends[k - 1])
    BY <1>5, <1>6, Zenon DEF Laid
  <2>2. AtOffset(fs[k].after, x) /\ fs[k] \in FragmentSet(D)
    BY <2>1, Zenon DEF Placed
  <2>3. ends[k - 1] \in Nat
    <3>1. \A i \in 0 .. Len(fs) : ends[i] \in Nat
      BY <1>5, Zenon DEF Laid
    <3>2. k - 1 \in 0 .. Len(fs)
      BY <1>6
    <3> QED
      BY <3>1, <3>2
  <2>4. fs[k].pad \in Nat /\ fs[k].data \in Seq(D)
    BY <2>2 DEF FragmentSet
  <2>5. Len(fs[k].data) \in Nat
    BY <2>4, LenProperties
  <2> DEFINE a == ends[k - 1]
             b == fs[k].pad
             c == Len(fs[k].data)
  <2>6. a \in Nat /\ b \in Nat /\ c \in Nat /\ HeaderSize \in Nat
    BY <2>3, <2>4, <2>5, FormatAssumption
  <2>7. x = p + a + b + HeaderSize + c
    OBVIOUS
  <2> HIDE DEF x, a, b, c
  <2>8. x \in Nat
    BY <2>6, <2>7
  <2> QED
    BY <2>2, <2>8 DEF IsOffset
<1>10. FileOK([f EXCEPT !.cells = @ \o e])
  <2> HIDE DEF e
  <2> QED
    BY <1>8, FileAppends
<1> QED
  BY <1>9, <1>10 DEF r

ReaderOf(r) == [records |-> r.records, scratch |-> r.scratch, open |-> r.open, corrupt |-> r.corrupt]

LEMMA AfterFragmentList ==
    ASSUME NEW r, r = ReaderOf(r), IsList(r.records), NEW f
    PROVE  LET t == AfterFragment(r, f) IN t = ReaderOf(t) /\ IsList(t.records)
<1> DEFINE lost == r.open /\ r.scratch # <<>>
           t == AfterFragment(r, f)
           A == Append(r.records, f.data)
           B == Append(r.records, r.scratch \o f.data)
           c1 == r.corrupt \/ lost
           c2 == r.corrupt \/ f.type = "bad" \/ r.open
<1>1. r = [records |-> r.records, scratch |-> r.scratch, open |-> r.open, corrupt |-> r.corrupt]
  BY DEF ReaderOf
<1>2. \/ t = [r EXCEPT !.records = A, !.scratch = <<>>, !.open = FALSE, !.corrupt = c1]
      \/ t = [r EXCEPT !.scratch = f.data, !.open = TRUE, !.corrupt = c1]
      \/ t = [r EXCEPT !.corrupt = TRUE]
      \/ t = [r EXCEPT !.scratch = @ \o f.data]
      \/ t = [r EXCEPT !.records = B, !.scratch = <<>>, !.open = FALSE]
      \/ t = [r EXCEPT !.scratch = <<>>, !.open = FALSE, !.corrupt = c2]
      \/ t = r
  BY Zenon DEF AfterFragment
<1>3. IsList(A) /\ IsList(B) /\ IsList(r.records)
  BY ListAppend
<1> HIDE DEF t, A, B, c1, c2
<1>4. \E a, b, c, d : t = [records |-> a, scratch |-> b, open |-> c, corrupt |-> d] /\ IsList(a)
  BY <1>1, <1>2, <1>3
<1> QED
  BY <1>4 DEF t, ReaderOf

(* Whatever is in a file, what is read from it is a list of records.       *)
LEMMA ReadIsList ==
    ASSUME NEW cells, Len(cells) \in Nat, NEW checksum
    PROVE  IsList(ReadAll(cells, checksum).records)
<1> DEFINE n == Len(cells)
           Fine(s) == s.r = ReaderOf(s.r) /\ IsList(s.r.records)
<1>1. PICK after :
        /\ after[0] = FirstTurn
        /\ \A m \in 1 .. n : after[m] = AfterTurn(cells, checksum, after[m - 1])
        /\ ReadAll(cells, checksum) =
             [records |-> after[n].r.records, corrupt |-> after[n].r.corrupt, torn |-> after[n].torn]
  BY ReadAllIs
<1> DEFINE S == {m \in 0 .. n : Fine(after[m])}
<1>2. 0 \in S
  <2>1. FirstTurn.r = Nothing
    BY DEF FirstTurn
  <2>2. Nothing = ReaderOf(Nothing) /\ IsList(Nothing.records)
    BY DEF Nothing, ReaderOf, IsList
  <2>3. Fine(after[0])
    BY <1>1, <2>1, <2>2
  <2> HIDE DEF Fine
  <2> QED
    BY <2>3
<1>3. ASSUME NEW m \in 1 .. n, m - 1 \in S
      PROVE  m \in S
  <2> DEFINE s == after[m - 1]
             f == ReadPhysicalRecord(cells, s.pos, checksum)
             t == after[m]
  <2>1. Fine(s)
    BY <1>3
  <2>2. t = AfterTurn(cells, checksum, s)
    BY <1>1
  <2> HIDE DEF s, t, f
  <2>3. t = s \/ t.r = AfterFragment(s.r, f)
    <3>1. CASE s.pos = Len(cells)
      BY <2>2, <3>1, Zenon DEF AfterTurn
    <3>2. CASE s.pos # Len(cells)
      <4>1. t = [r |-> AfterFragment(s.r, f), pos |-> f.next, torn |-> f.type \in {"eof", "zero", "bad"}]
        BY <2>2, <3>2, Zenon DEF AfterTurn, f
      <4> QED
        BY <4>1, Zenon
    <3> QED
      BY <3>1, <3>2
  <2>4. Fine(t)
    <3>1. AfterFragment(s.r, f) = ReaderOf(AfterFragment(s.r, f)) /\ IsList(AfterFragment(s.r, f).records)
      BY <2>1, AfterFragmentList
    <3> QED
      BY <2>1, <2>3, <3>1
  <2> HIDE DEF Fine
  <2> QED
    BY <2>4 DEF t
<1>4. n \in Nat
  OBVIOUS
<1> HIDE DEF n, S
<1>5. \A m \in 0 .. n : m \in S
  BY <1>2, <1>3, <1>4, UpToInduction
<1>6. Fine(after[n])
  BY <1>4, <1>5 DEF S
<1> QED
  BY <1>1, <1>6

-----------------------------------------------------------------------------
(* The invariant *)

Below(n) == 0 .. n - 1
(* A MANIFEST is known to have been damaged. *)
HarmedIn(D) == \E d \in D : d[1] = "manifest"
Harmed == HarmedIn(damaged)

(* The records that the members and locals are. *)
VsetOf(v) == [live |-> v.live, log |-> v.log, next |-> v.next, last |-> v.last,
              manifest |-> v.manifest, open |-> v.open]
DbOf(d) == [mem |-> d.mem, imm |-> d.imm, log |-> d.log, offset |-> d.offset, failed |-> d.failed]
OpenOf(o) == [reuse |-> o.reuse, tolerant |-> o.tolerant, todo |-> o.todo, add |-> o.add,
              save |-> o.save, last |-> o.last]
ApplyOf(a) == [stage |-> a.stage, kind |-> a.kind, edit |-> a.edit, new |-> a.new]
ShapesOK == vset = VsetOf(vset) /\ db = DbOf(db) /\ open = OpenOf(open)

(* What holds whatever the process is doing. *)
FilesOK ==
    /\ \E b \in Nat : DOMAIN logs \union DOMAIN manifests \union DOMAIN tables \subseteq Below(b)
    /\ \A n \in DOMAIN logs : FileOK(logs[n])
    /\ \A n \in DOMAIN manifests : FileOK(manifests[n])
    /\ \A t \in DOMAIN tables : tables[t] \subseteq Updates \union {Garbage}
    /\ current \in Nat
    /\ writes \in Seq(ToSet(writes))

(* A MANIFEST that nobody writes to any more and that no crash can change. *)
Settled(f, es, D) ==
    /\ IsList(es)
    /\ f.synced = Len(f.cells)
    /\ EditsIn(ReadAll(f.cells, TRUE)) = es
    /\ ReadAll(f.cells, TRUE).corrupt => HarmedIn(D)

Known(f, es, s, D) == ManifestOf(f, es, s) \/ (Settled(f, es, D) /\ s = Len(es))

(* What a recovery from the edits es of MANIFEST n would find, if there    *)
(* are the tables T.                                                       *)
Numbering(es, n, D) ==
    LET e == Numbers(es)
    IN  /\ e.next \in Nat /\ e.log \in Below(e.next)
        /\ LiveAfter(es) \subseteq Below(e.next)
        /\ n < e.next \/ HarmedIn(D)

Sound(es, n, T, D) ==
    /\ LiveAfter(es) \subseteq T
    /\ IF Numbered(es) = {} THEN HarmedIn(D) ELSE Numbering(es, n, D)

SoundFrom(es, s, n, T, D) == \A m \in s .. Len(es) : Sound(SubSeq(es, 1, m), n, T, D)

GoodFile(f, n, T, D) == \E es, s : Known(f, es, s, D) /\ SoundFrom(es, s, n, T, D)

Good(n) == n \in DOMAIN manifests /\ GoodFile(manifests[n], n, DOMAIN tables, damaged)

CurrentOK ==
    \/ current = 0
    \/ Good(current)
    \/ Harmed /\ current \notin DOMAIN manifests

RefusedOK == refused # "missing" /\ (refused = "manifest" => Harmed)

Quiet == apply = NoEdit /\ writing = NoWrite

DownOK == pc \notin {"edit", "running"} => Quiet /\ db = NoDB
WriterOK ==
    /\ pc # "running" => writing = NoWrite
    /\ writing # NoWrite => writing.id \in Updates

NewDBOK == pc = "newdb" => current = 0 /\ Good(1)

NumbersOK ==
    /\ vset.next \in Nat /\ vset.log \in Below(vset.next)
    /\ vset.live \subseteq DOMAIN tables \intersect Below(vset.next)

LogsOK ==
    pc = "logs" =>
        /\ NumbersOK /\ vset.open = FALSE
        /\ vset.manifest \in Below(vset.next) /\ (vset.manifest # current \/ Harmed)
        /\ open.add \subseteq DOMAIN tables \intersect Below(vset.next)
        /\ open.todo \subseteq DOMAIN logs
        /\ DOMAIN logs \subseteq Below(vset.next) \union open.todo
        /\ open.save = TRUE /\ open.reuse = FALSE

EditOK ==
    apply # NoEdit =>
        /\ apply = ApplyOf(apply)
        /\ apply.stage \in {"written", "synced"} /\ apply.new \in BOOLEAN
        /\ apply.edit.kind = "edit"
        /\ apply.edit.add \subseteq DOMAIN tables
        /\ apply.edit.next \in Nat /\ apply.edit.next <= vset.next
        /\ apply.edit.log \in Below(apply.edit.next) /\ apply.edit.log <= db.log
        /\ (vset.live \ apply.edit.del) \union apply.edit.add \subseteq Below(apply.edit.next)
        /\ vset.manifest < apply.edit.next \/ Harmed
        /\ apply.new => pc = "edit" /\ (vset.manifest # current \/ Harmed)
        /\ ~apply.new => vset.manifest = current
        /\ (pc = "edit") <=> (apply.kind = "open")
        /\ \E es, s :
             /\ ManifestOf(manifests[vset.manifest], Append(es, apply.edit), s)
             /\ IsList(es) /\ LiveAfter(es) = vset.live
             /\ apply.stage = "synced" => s = Len(es) + 1
OpenOK ==
    pc \in {"edit", "running"} =>
        /\ NumbersOK
        /\ DOMAIN logs \subseteq Below(vset.next)
        /\ db.log \in DOMAIN logs /\ vset.log <= db.log
        /\ vset.manifest \in DOMAIN manifests \intersect Below(vset.next)
        /\ db.mem \subseteq Updates /\ db.imm \subseteq Updates
        /\ IsOffset(db.offset)

RunningOK ==
    pc = "running" =>
        /\ vset.manifest = current /\ vset.open
        /\ apply = NoEdit /\ ~db.failed =>
             \E es : /\ ManifestOf(manifests[vset.manifest], es, Len(es))
                     /\ LiveAfter(es) = vset.live

EditingOK == pc = "edit" => apply # NoEdit /\ db.failed = FALSE

RepairOK ==
    /\ pc \in {"repair", "archive", "manifests"} =>
         /\ vset.next \in Nat \ {0} /\ DOMAIN tables \subseteq Below(vset.next)
         /\ open.todo \subseteq DOMAIN logs
    /\ pc = "repaired" => Harmed /\ Good(1)

IInv ==
    /\ ShapesOK /\ FilesOK /\ CurrentOK /\ RefusedOK /\ DownOK /\ WriterOK /\ NewDBOK
    /\ LogsOK /\ EditOK /\ OpenOK /\ RunningOK /\ EditingOK /\ RepairOK

-----------------------------------------------------------------------------
(* What is kept *)

LEMMA HarmedKept ==
    ASSUME NEW C, NEW D, C \subseteq D, HarmedIn(C)
    PROVE  HarmedIn(D)
  BY DEF HarmedIn

LEMMA SoundKept ==
    ASSUME NEW S, NEW T, S \subseteq T, NEW C, NEW D, C \subseteq D,
           NEW es, NEW n, Sound(es, n, S, C)
    PROVE  Sound(es, n, T, D)
<1>1. HarmedIn(C) => HarmedIn(D)
  BY HarmedKept
<1>2. Numbering(es, n, C) => Numbering(es, n, D)
  BY <1>1, Zenon DEF Numbering
<1> QED
  BY <1>1, <1>2 DEF Sound

LEMMA SoundFromKept ==
    ASSUME NEW S, NEW T, S \subseteq T, NEW C, NEW D, C \subseteq D,
           NEW es, NEW s, NEW n, SoundFrom(es, s, n, S, C)
    PROVE  SoundFrom(es, s, n, T, D)
  BY SoundKept DEF SoundFrom

LEMMA GoodKept ==
    ASSUME NEW S, NEW T, S \subseteq T, NEW C, NEW D, C \subseteq D,
           NEW f, NEW n, GoodFile(f, n, S, C)
    PROVE  GoodFile(f, n, T, D)
<1>1. HarmedIn(C) => HarmedIn(D)
  BY HarmedKept
<1>2. PICK es, s : Known(f, es, s, C) /\ SoundFrom(es, s, n, S, C)
  BY DEF GoodFile
<1>3. Known(f, es, s, D)
  BY <1>1, <1>2, Zenon DEF Known, Settled
<1>4. SoundFrom(es, s, n, T, D)
  BY <1>2, SoundFromKept
<1> QED
  BY <1>3, <1>4 DEF GoodFile

LEMMA GoodStays ==
    ASSUME NEW n, Good(n), DOMAIN tables \subseteq DOMAIN tables', damaged \subseteq damaged',
           n \in DOMAIN manifests', manifests'[n] = manifests[n]
    PROVE  Good(n)'
  BY GoodKept DEF Good

LEMMA CurrentKept ==
    ASSUME CurrentOK, DOMAIN tables \subseteq DOMAIN tables', damaged \subseteq damaged',
           current' = current, manifests' = manifests
    PROVE  CurrentOK'
<1>1. Harmed => Harmed'
  BY HarmedKept DEF Harmed
<1> QED
  BY <1>1, GoodKept DEF CurrentOK, Good

LEMMA RefusedKept ==
    ASSUME RefusedOK, refused' = refused, damaged \subseteq damaged'
    PROVE  RefusedOK'
  BY DEF RefusedOK, Harmed, HarmedIn

LEMMA FilesKept ==
    ASSUME FilesOK, logs' = logs, manifests' = manifests, tables' = tables, current' = current,
           writes' = writes
    PROVE  FilesOK'
  BY DEF FilesOK, Updates

(* Nothing is under way, and no file is about to be put in its place.      *)
LEMMA Resting ==
    ASSUME pc' \in {"down", "halted", "versions"}, apply' = NoEdit, writing' = NoWrite,
           db' = NoDB
    PROVE  /\ NewDBOK' /\ DownOK' /\ WriterOK' /\ LogsOK' /\ EditOK' /\ OpenOK' /\ RunningOK'
           /\ EditingOK' /\ RepairOK'
  BY DEF NewDBOK, DownOK, Quiet, WriterOK, LogsOK, EditOK, OpenOK, RunningOK, EditingOK, RepairOK

LEMMA NoneShapes ==
    /\ NoVset = VsetOf(NoVset) /\ NoDB = DbOf(NoDB) /\ NoOpen = OpenOf(NoOpen)
  BY DEF NoVset, NoDB, NoOpen, VsetOf, DbOf, OpenOf

LEMMA InitInv == Init => IInv
<1> SUFFICES ASSUME Init PROVE IInv
  OBVIOUS
<1>1. ShapesOK
  BY NoneShapes DEF Init, ShapesOK
<1>2. FilesOK
  <2>1. 0 \in Nat /\ <<>> \in Seq(ToSet(<<>>)) /\ DOMAIN <<>> = {}
    OBVIOUS
  <2> QED
    BY <2>1 DEF Init, FilesOK
<1>3. CurrentOK /\ RefusedOK
  BY DEF Init, CurrentOK, RefusedOK
<1>4. NewDBOK /\ DownOK /\ WriterOK /\ LogsOK /\ EditOK /\ OpenOK /\ RunningOK /\ EditingOK /\ RepairOK
  BY DEF Init, NewDBOK, DownOK, Quiet, WriterOK, LogsOK, EditOK, OpenOK, RunningOK, EditingOK, RepairOK
<1> QED
  BY <1>1, <1>2, <1>3, <1>4 DEF IInv

LEMMA StopInv ==
    ASSUME IInv, Stop, pc' \in {"down", "halted"}
    PROVE  IInv'
<1>1. ShapesOK'
  BY NoneShapes DEF Stop, ShapesOK
<1>2. FilesOK' /\ CurrentOK' /\ RefusedOK'
  BY FilesKept, CurrentKept, RefusedKept DEF Stop, disk, IInv
<1>3. NewDBOK' /\ DownOK' /\ WriterOK' /\ LogsOK' /\ EditOK' /\ OpenOK' /\ RunningOK'
      /\ EditingOK' /\ RepairOK'
  BY Resting DEF Stop
<1> QED
  BY <1>1, <1>2, <1>3 DEF IInv

LEMMA GiveUpInv ==
    ASSUME IInv, NEW why, GiveUp(why), pc \notin {"edit", "running"},
           why # "missing", why = "manifest" => Harmed
    PROVE  IInv'
<1>1. ShapesOK'
  BY NoneShapes DEF GiveUp, ShapesOK
<1>2. FilesOK' /\ CurrentOK'
  BY FilesKept, CurrentKept DEF GiveUp, disk, IInv
<1>3. RefusedOK'
  BY DEF GiveUp, RefusedOK, Harmed, HarmedIn
<1>4. apply' = NoEdit /\ writing' = NoWrite /\ pc' = "down" /\ db' = NoDB
  BY DEF GiveUp, IInv, DownOK, Quiet
<1>5. NewDBOK' /\ DownOK' /\ WriterOK' /\ LogsOK' /\ EditOK' /\ OpenOK' /\ RunningOK'
      /\ EditingOK' /\ RepairOK'
  BY <1>4, Resting
<1> QED
  BY <1>1, <1>2, <1>3, <1>5 DEF IInv

-----------------------------------------------------------------------------
(* What is found in a MANIFEST *)

LEMMA SoundWhole ==
    ASSUME NEW es, IsList(es), NEW s \in 0 .. Len(es), NEW n, NEW T, NEW D,
           SoundFrom(es, s, n, T, D)
    PROVE  Sound(es, n, T, D)
<1>1. Len(es) \in Nat
  BY ListHolds
<1>2. Len(es) \in s .. Len(es) /\ SubSeq(es, 1, Len(es)) = es
  BY <1>1, ListWhole
<1>3. Sound(SubSeq(es, 1, Len(es)), n, T, D)
  BY <1>2 DEF SoundFrom
<1> QED
  BY <1>2, <1>3

LEMMA WholeSound ==
    ASSUME NEW es, IsList(es), NEW n, NEW T, NEW D, Sound(es, n, T, D)
    PROVE  SoundFrom(es, Len(es), n, T, D)
<1>1. Len(es) \in Nat /\ SubSeq(es, 1, Len(es)) = es
  BY ListHolds, ListWhole
<1> SUFFICES ASSUME NEW m \in Len(es) .. Len(es) PROVE Sound(SubSeq(es, 1, m), n, T, D)
  BY DEF SoundFrom
<1>2. m = Len(es)
  BY <1>1
<1> QED
  BY <1>1, <1>2

LEMMA MoreSound ==
    ASSUME NEW es, IsList(es), NEW s \in 0 .. Len(es), NEW e, NEW n, NEW T, NEW D,
           SoundFrom(es, s, n, T, D), Sound(Append(es, e), n, T, D)
    PROVE  SoundFrom(Append(es, e), s, n, T, D)
<1> DEFINE f == Append(es, e)
<1>1. Len(es) \in Nat /\ Len(f) = Len(es) + 1 /\ IsList(f)
  BY ListHolds, ListAppend
<1> SUFFICES ASSUME NEW m \in s .. Len(f) PROVE Sound(SubSeq(f, 1, m), n, T, D)
  BY DEF SoundFrom
<1>2. CASE m = Len(f)
  BY <1>1, <1>2, ListWhole
<1>3. CASE m # Len(f)
  <2>1. m \in s .. Len(es) /\ m \in 0 .. Len(es)
    BY <1>1, <1>3
  <2>2. Sound(SubSeq(es, 1, m), n, T, D)
    BY <2>1 DEF SoundFrom
  <2> QED
    BY <2>1, <2>2, AppendPrefix
<1> QED
  BY <1>2, <1>3

LEMMA SoundEdit ==
    ASSUME NEW es, IsList(es), NEW e, e.kind = "edit", NEW n, NEW T, NEW D,
           (LiveAfter(es) \ e.del) \union e.add \subseteq T \intersect Below(e.next),
           e.next \in Nat, e.log \in Below(e.next), n < e.next \/ HarmedIn(D)
    PROVE  Sound(Append(es, e), n, T, D)
<1>1. LiveAfter(Append(es, e)) = (LiveAfter(es) \ e.del) \union e.add
  BY LiveAppend
<1>2. Numbered(Append(es, e)) # {} /\ Numbers(Append(es, e)) = e
  BY NumberedAppend
<1> QED
  BY <1>1, <1>2 DEF Sound, Numbering

LEMMA KnownReads ==
    ASSUME NEW f, NEW es, NEW s, NEW D, Known(f, es, s, D)
    PROVE  /\ IsList(es) /\ s \in 0 .. Len(es) /\ EditsIn(ReadAll(f.cells, TRUE)) = es
           /\ ReadAll(f.cells, TRUE).corrupt => HarmedIn(D)
<1>1. CASE ManifestOf(f, es, s)
  BY <1>1, ManifestTyped, ManifestReads
<1>2. CASE Settled(f, es, D) /\ s = Len(es)
  <2>1. IsList(es) /\ Len(es) \in Nat
    BY <1>2, ListHolds DEF Settled
  <2>2. s \in 0 .. Len(es)
    BY <1>2, <2>1
  <2> QED
    BY <1>2, <2>1, <2>2, Zenon DEF Settled
<1> QED
  BY <1>1, <1>2 DEF Known

LEMMA GoodReads ==
    ASSUME NEW f, NEW n, NEW T, NEW D, GoodFile(f, n, T, D)
    PROVE  /\ Sound(EditsIn(ReadAll(f.cells, TRUE)), n, T, D)
           /\ ReadAll(f.cells, TRUE).corrupt => HarmedIn(D)
<1>1. PICK es, s : Known(f, es, s, D) /\ SoundFrom(es, s, n, T, D)
  BY DEF GoodFile
<1> QED
  BY <1>1, KnownReads, SoundWhole

(* A file that one writer wrote holds the edits that are read from it.     *)
LEMMA GoodHolds ==
    ASSUME NEW f, NEW n, NEW T, NEW D, GoodFile(f, n, T, D), NEW es, NEW s, ManifestOf(f, es, s)
    PROVE  Sound(es, n, T, D)
<1>1. Sound(EditsIn(ReadAll(f.cells, TRUE)), n, T, D)
  BY GoodReads
<1>2. EditsIn(ReadAll(f.cells, TRUE)) = es
  BY ManifestReads
<1> QED
  BY <1>1, <1>2

LEMMA SyncedGood ==
    ASSUME NEW f, NEW es, NEW s, ManifestOf(f, es, s), NEW n, NEW T, NEW D, Sound(es, n, T, D)
    PROVE  GoodFile(SyncFile(f), n, T, D)
<1>1. ManifestOf(SyncFile(f), es, Len(es)) /\ IsList(es)
  BY ManifestSync, ManifestTyped
<1>2. SoundFrom(es, Len(es), n, T, D)
  BY <1>1, WholeSound
<1> QED
  BY <1>1, <1>2 DEF GoodFile, Known

LEMMA ManifestFileOK ==
    ASSUME NEW f, NEW es, NEW s, ManifestOf(f, es, s)
    PROVE  FileOK(f)
  BY ManifestTyped DEF FileOK, ManifestOf, IsList

LEMMA PutHolds ==
    ASSUME NEW f, NEW n, NEW x, NEW g, g = Put(f, n, x)
    PROVE  /\ DOMAIN g = DOMAIN f \union {n} /\ g[n] = x
           /\ \A m \in DOMAIN f : m # n => g[m] = f[m]
  BY DEF Put

LEMMA WithoutHolds ==
    ASSUME NEW f, NEW S, NEW g, g = Without(f, S)
    PROVE  DOMAIN g = DOMAIN f \ S /\ \A m \in DOMAIN f \ S : g[m] = f[m]
  BY DEF Without

LEMMA MoreNumbers ==
    ASSUME NEW S, NEW b \in Nat, S \subseteq Below(b), NEW n \in Nat
    PROVE  \E c \in Nat : S \union {n} \subseteq Below(c)
<1> DEFINE c == b + n + 1
<1>1. c \in Nat /\ \A i \in Below(b) : i \in Below(c)
  BY DEF Below
<1>2. n \in Below(c)
  BY DEF Below
<1> QED
  BY <1>1, <1>2

(* A step that changes one file, or puts one there. *)
LEMMA ManifestPut ==
    ASSUME FilesOK, logs' = logs, tables' = tables, writes' = writes, current' \in Nat,
           NEW n \in Nat, NEW f, FileOK(f), manifests' = Put(manifests, n, f)
    PROVE  FilesOK'
<1>1. PICK b \in Nat : DOMAIN logs \union DOMAIN manifests \union DOMAIN tables \subseteq Below(b)
  BY DEF FilesOK
<1>2. DOMAIN manifests' = DOMAIN manifests \union {n} /\ manifests'[n] = f
      /\ \A m \in DOMAIN manifests : m # n => manifests'[m] = manifests[m]
  BY DEF Put
<1>3. \E c \in Nat : (DOMAIN logs \union DOMAIN manifests \union DOMAIN tables)' \subseteq Below(c)
  <2>1. PICK c \in Nat : (DOMAIN logs \union DOMAIN manifests \union DOMAIN tables) \union {n} \subseteq Below(c)
    BY <1>1, MoreNumbers
  <2> QED
    BY <1>2, <2>1
<1>4. \A m \in DOMAIN manifests' : FileOK(manifests'[m])
  BY <1>2 DEF FilesOK
<1> QED
  BY <1>3, <1>4 DEF FilesOK, Updates

LEMMA NewDBManifestInv ==
    ASSUME IInv, NewDBManifest
    PROVE  IInv'
<1> DEFINE e == Edit({}, {}, 0, 2, 0)
           f == ManifestWith(EmptyFile, e)
           es == Append(<<>>, e)
<1>1. pc = "down" /\ current = 0 /\ pc' = "newdb" /\ apply = NoEdit /\ writing = NoWrite /\ db = NoDB
      /\ manifests' = Put(manifests, 1, SyncFile(f))
      /\ UNCHANGED <<logs, tables, current, open, db, vset, writing, apply, ghosts>>
  BY DEF NewDBManifest, IInv, DownOK, Quiet
<1>2. ManifestOf(f, es, 0)
  BY ManifestEmpty, ManifestAppend
<1>3. Sound(es, 1, DOMAIN tables, damaged)
  <2>1. IsList(<<>>) /\ LiveAfter(<<>>) = {}
    BY LiveEmpty DEF IsList
  <2>2. e.kind = "edit" /\ e.add = {} /\ e.del = {} /\ e.log = 0 /\ e.next = 2
    BY DEF Edit
  <2>3. 0 \in Below(2) /\ 1 < 2
    BY DEF Below
  <2> HIDE DEF e
  <2> QED
    <3>1. (LiveAfter(<<>>) \ e.del) \union e.add \subseteq DOMAIN tables \intersect Below(e.next)
      BY <2>1, <2>2
    <3>2. e.next \in Nat /\ e.log \in Below(e.next) /\ 1 < e.next
      BY <2>2, <2>3
    <3>3. Sound(Append(<<>>, e), 1, DOMAIN tables, damaged)
      BY <2>1, <2>2, <3>1, <3>2, SoundEdit
    <3> QED
      BY <3>3
<1>4. GoodFile(SyncFile(f), 1, DOMAIN tables, damaged) /\ FileOK(SyncFile(f))
  BY <1>2, <1>3, SyncedGood, ManifestFileOK, FileSynced
<1> HIDE DEF f, es, e
<1>5. ShapesOK'
  BY <1>1 DEF IInv, ShapesOK
<1>6. FilesOK'
  BY <1>1, <1>4, ManifestPut DEF IInv, ghosts, history
<1>7. CurrentOK' /\ RefusedOK'
  BY <1>1 DEF CurrentOK, RefusedOK, IInv, ghosts, history, Harmed
<1>8. NewDBOK'
  <2>1. 1 \in DOMAIN manifests' /\ manifests'[1] = SyncFile(f)
    BY <1>1, Zenon DEF Put
  <2> QED
    BY <1>1, <1>4, <2>1 DEF NewDBOK, Good, ghosts, history
<1>9. DownOK' /\ WriterOK' /\ LogsOK' /\ EditOK' /\ OpenOK' /\ RunningOK' /\ EditingOK' /\ RepairOK'
  BY <1>1 DEF DownOK, Quiet, WriterOK, LogsOK, EditOK, OpenOK, RunningOK, EditingOK, RepairOK
<1> QED
  BY <1>5, <1>6, <1>7, <1>8, <1>9 DEF IInv

LEMMA NewDBCurrentInv ==
    ASSUME IInv, NewDBCurrent
    PROVE  IInv'
<1>1. pc = "newdb" /\ pc' = "versions" /\ current' = 1 /\ Good(1) /\ apply = NoEdit /\ writing = NoWrite /\ db = NoDB
      /\ UNCHANGED <<logs, manifests, tables, open, db, vset, writing, apply, ghosts>>
  BY DEF NewDBCurrent, IInv, NewDBOK, DownOK, Quiet
<1>2. ShapesOK'
  BY <1>1 DEF IInv, ShapesOK
<1>3. FilesOK'
  BY <1>1 DEF IInv, FilesOK, ghosts, history, Updates
<1>4. CurrentOK' /\ RefusedOK'
  BY <1>1 DEF CurrentOK, Good, RefusedOK, IInv, ghosts, history, Harmed
<1>5. NewDBOK' /\ DownOK' /\ WriterOK' /\ LogsOK' /\ EditOK' /\ OpenOK' /\ RunningOK'
      /\ EditingOK' /\ RepairOK'
  BY <1>1, Resting
<1> QED
  BY <1>2, <1>3, <1>4, <1>5 DEF IInv

-----------------------------------------------------------------------------
(* DB::Open *)

LEMMA RecoverVersionsInv ==
    ASSUME IInv, ReuseLogs \subseteq {FALSE}, NEW option \in ReuseLogs, RecoverVersions(option)
    PROVE  IInv'
<1> DEFINE read    == ReadAll(manifests[current].cells, TRUE)
           edits   == EditsIn(read)
           live    == LiveAfter(edits)
           found   == current \in DOMAIN manifests /\ ~read.corrupt /\ Numbered(edits) # {}
           numbers == DOMAIN tables \union DOMAIN logs \union DOMAIN manifests
           last    == Numbers(edits)
<1>1. pc \in {"down", "versions"} /\ current # 0 /\ option = FALSE
      /\ apply = NoEdit /\ writing = NoWrite /\ db = NoDB
  BY DEF RecoverVersions, IInv, DownOK, Quiet
<1>2. Good(current) \/ (Harmed /\ current \notin DOMAIN manifests)
  BY <1>1, Zenon DEF IInv, CurrentOK
<1>3. Good(current) =>
        /\ current \in DOMAIN manifests
        /\ Sound(edits, current, DOMAIN tables, damaged) /\ (read.corrupt => HarmedIn(damaged))
  BY GoodReads, Zenon DEF Good
<1> DEFINE v(reuse) == [live |-> live, log |-> last.log, next |-> last.next + 1,
                        last |-> last.last, open |-> reuse,
                        manifest |-> IF reuse THEN current ELSE last.next]
<1>4. \/ ~found /\ GiveUp("manifest")
      \/ found /\ ~(live \subseteq numbers) /\ GiveUp("missing")
      \/ /\ found /\ live \subseteq numbers
         /\ \E reuse \in {FALSE, option} :
              /\ vset' = v(reuse)
              /\ open' = [NoOpen EXCEPT !.reuse = option, !.save = ~reuse,
                                        !.todo = LogsToReplay(v(reuse))]
              /\ pc' = "logs"
              /\ UNCHANGED <<disk, db, writing, apply, ghosts>>
  BY Zenon DEF RecoverVersions
<1> HIDE DEF read, v
<1>5. CASE ~found /\ GiveUp("manifest")
  <2>1. Harmed
    <3>1. CASE ~Good(current)
      BY <1>2, <3>1
    <3>2. CASE Good(current)
      <4>1. CASE read.corrupt
        BY <1>3, <3>2, <4>1, Zenon DEF Harmed
      <4>2. CASE Numbered(edits) = {}
        BY <1>3, <3>2, <4>2, Zenon DEF Harmed, Sound
      <4> QED
        BY <1>3, <1>5, <3>2, <4>1, <4>2, Zenon
    <3> QED
      BY <3>1, <3>2
  <2>2. pc \notin {"edit", "running"} /\ "manifest" # "missing"
    BY <1>1
  <2> QED
    BY <1>5, <2>1, <2>2, GiveUpInv
<1>6. CASE found /\ ~(live \subseteq numbers) /\ GiveUp("missing")
  <2>1. Good(current)
    BY <1>2, <1>6, Zenon
  <2>2. live \subseteq DOMAIN tables
    BY <1>3, <2>1, Zenon DEF Sound
  <2> QED
    BY <1>6, <2>2
<1>7. CASE /\ found /\ live \subseteq numbers
           /\ \E reuse \in {FALSE, option} :
                /\ vset' = v(reuse)
                /\ open' = [NoOpen EXCEPT !.reuse = option, !.save = ~reuse,
                                          !.todo = LogsToReplay(v(reuse))]
                /\ pc' = "logs"
                /\ UNCHANGED <<disk, db, writing, apply, ghosts>>
  <2>1. /\ vset' = v(FALSE)
        /\ open' = [NoOpen EXCEPT !.reuse = FALSE, !.save = ~FALSE, !.todo = LogsToReplay(v(FALSE))]
        /\ pc' = "logs"
        /\ UNCHANGED <<disk, db, writing, apply, ghosts>>
    BY <1>1, <1>7
  <2>2. vset' = [live |-> live, log |-> last.log, next |-> last.next + 1,
                 last |-> last.last, open |-> FALSE, manifest |-> last.next]
    BY <2>1, Zenon DEF v
  <2>3. Good(current) /\ Numbered(edits) # {}
    BY <1>2, <1>7, Zenon
  <2>4. Sound(edits, current, DOMAIN tables, damaged)
    BY <1>3, <2>3, Zenon
  <2>5. live \subseteq DOMAIN tables /\ Numbering(edits, current, damaged)
    BY <2>3, <2>4, Zenon DEF Sound
  <2> DEFINE k == last.next
             l == last.log
  <2> HIDE DEF last, live
  <2>6. k \in Nat /\ l \in Below(k) /\ live \subseteq Below(k) /\ (current < k \/ Harmed)
    BY <2>5, Zenon DEF Numbering, Harmed, last, live
  <2> DEFINE w == LogsToReplay(v(FALSE))
             m == last.last
  <2>7. vset' = [live |-> live, log |-> l, next |-> k + 1, last |-> m, open |-> FALSE, manifest |-> k]
        /\ open' = [reuse |-> FALSE, tolerant |-> FALSE, todo |-> w, add |-> {}, save |-> TRUE, last |-> 0]
    BY <2>1, <2>2 DEF NoOpen
  <2>8. w = {n \in DOMAIN logs : n >= l}
    <3>1. v(FALSE).log = l
      BY DEF v
    <3> QED
      BY <3>1, Zenon DEF LogsToReplay
  <2> HIDE DEF k, l, m, w
  <2>9. ShapesOK'
    BY <2>1, <2>7 DEF IInv, ShapesOK, VsetOf, OpenOf, DbOf
  <2>10. FilesOK' /\ CurrentOK' /\ RefusedOK'
    BY <2>1, FilesKept, CurrentKept, RefusedKept DEF disk, ghosts, history, IInv
  <2>11. LogsOK'
    <3>1. DOMAIN logs \subseteq Nat /\ current \in Nat
      BY DEF IInv, FilesOK, Below
    <3>0. /\ vset'.next = k + 1 /\ vset'.log = l /\ vset'.live = live /\ vset'.open = FALSE
          /\ vset'.manifest = k /\ tables' = tables /\ logs' = logs /\ current' = current
          /\ damaged' = damaged
          /\ open'.todo = w /\ open'.add = {} /\ open'.save = TRUE /\ open'.reuse = FALSE
      <4>1. /\ vset'.next = k + 1 /\ vset'.log = l /\ vset'.live = live /\ vset'.open = FALSE
            /\ vset'.manifest = k
        BY <2>7
      <4>2. open'.todo = w /\ open'.add = {} /\ open'.save = TRUE /\ open'.reuse = FALSE
        BY <2>7
      <4>3. tables' = tables /\ logs' = logs /\ current' = current /\ damaged' = damaged
        BY <2>1 DEF disk, ghosts, history
      <4> QED
        BY <4>1, <4>2, <4>3
    <3>2. NumbersOK'
      <4>1. k + 1 \in Nat /\ l \in Below(k + 1) /\ live \subseteq Below(k + 1)
        BY <2>6 DEF Below
      <4> QED
        BY <2>5, <3>0, <4>1 DEF NumbersOK
    <3>3. k \in Below(k + 1) /\ (k # current \/ Harmed)
      BY <2>6, <3>1 DEF Below
    <3>4. DOMAIN logs \subseteq Below(k + 1) \union w
      BY <2>6, <2>8, <3>1 DEF Below
    <3>5. w \subseteq DOMAIN logs
      BY <2>8
    <3> QED
      BY <3>0, <3>2, <3>3, <3>4, <3>5 DEF LogsOK, Harmed
  <2>12. NewDBOK' /\ DownOK' /\ WriterOK' /\ EditOK' /\ OpenOK' /\ RunningOK' /\ EditingOK' /\ RepairOK'
    BY <1>1, <2>1 DEF NewDBOK, DownOK, Quiet, WriterOK, EditOK, OpenOK, RunningOK, EditingOK, RepairOK
  <2> QED
    BY <2>9, <2>10, <2>11, <2>12 DEF IInv
<1> QED
  BY <1>4, <1>5, <1>6, <1>7

(* The numbers of the tables that RecoverLogFile makes. *)
LEMMA NumbersGoOn ==
    ASSUME NEW k \in Nat, NEW end \in Nat, NEW ends, ends \subseteq 1 .. end
    PROVE  /\ Cardinality(ends) \in Nat
           /\ \A e \in ends : k + Cardinality({c \in ends : c < e}) \in k .. k + Cardinality(ends) - 1
<1>1. IsFiniteSet(1 .. end)
  BY FS_Interval
<1>2. IsFiniteSet(ends) /\ Cardinality(ends) \in Nat
  BY <1>1, FS_Subset, FS_CardinalityType
<1>3. ASSUME NEW e \in ends
      PROVE  k + Cardinality({c \in ends : c < e}) \in k .. k + Cardinality(ends) - 1
  <2> DEFINE T == {c \in ends : c < e}
  <2>1. T \in SUBSET ends /\ e \notin T
    BY <1>3
  <2> HIDE DEF T
  <2>2. IsFiniteSet(T) /\ Cardinality(T) <= Cardinality(ends)
        /\ (Cardinality(ends) = Cardinality(T) => ends = T)
    BY <1>2, <2>1, FS_Subset
  <2>3. Cardinality(T) \in Nat /\ Cardinality(T) # Cardinality(ends)
    BY <2>1, <2>2, FS_CardinalityType
  <2>4. k + Cardinality(T) \in k .. k + Cardinality(ends) - 1
    BY <1>2, <2>2, <2>3
  <2> QED
    BY <2>4 DEF T
<1> QED
  BY <1>2, <1>3

LEMMA FlushedIs ==
    ASSUME NEW ids, NEW end \in Nat, NEW U, \A j \in 1 .. end : ids[j] \in U,
           NEW cuts, cuts \subseteq 1 .. end, NEW i \in 1 .. end
    PROVE  Flushed(ids, cuts, i) \subseteq U
<1> DEFINE C == {c \in cuts : c < i}
           from == IF \E c \in cuts : c < i THEN Max(C) ELSE 0
<1>1. from \in Nat
  <2>1. CASE \E c \in cuts : c < i
    <3>1. PICK c \in cuts : c < i
      BY <2>1
    <3>2. c \in C
      BY <3>1
    <3>3. C \subseteq 0 .. end
      <4>1. \A d \in C : d \in 1 .. end
        OBVIOUS
      <4> HIDE DEF C
      <4> QED
        BY <4>1
    <3>4. from = Max(C)
      BY <2>1
    <3> HIDE DEF C, from
    <3>5. Max(C) \in C
      BY <3>2, <3>3, MaxIs
    <3>6. Max(C) \in 0 .. end
      BY <3>3, <3>5
    <3>7. Max(C) \in Nat
      BY <3>6
    <3> QED
      BY <3>4, <3>7
  <2>2. CASE ~ \E c \in cuts : c < i
    BY <2>2
  <2> QED
    BY <2>1, <2>2
<1>2. Flushed(ids, cuts, i) = {ids[j] : j \in from + 1 .. i}
  BY Zenon DEF Flushed
<1> HIDE DEF from
<1>3. \A j \in from + 1 .. i : j \in 1 .. end
  BY <1>1
<1> QED
  BY <1>2, <1>3

LEMMA UpdateIs ==
    ASSUME NEW record
    PROVE  UpdateOf(record) \in Updates \union {Garbage}
<1>1. CASE \E i \in Updates : record = Record(i, writes[i].size)
  BY <1>1 DEF UpdateOf
<1>2. CASE ~ \E i \in Updates : record = Record(i, writes[i].size)
  BY <1>2 DEF UpdateOf
<1> QED
  BY <1>1, <1>2

(* A step that puts tables there and removes none. *)
LEMMA TablesMore ==
    ASSUME FilesOK, logs' = logs, manifests' = manifests, current' = current, writes' = writes,
           DOMAIN tables \subseteq DOMAIN tables',
           \A t \in DOMAIN tables' : tables'[t] \subseteq Updates \union {Garbage},
           NEW b \in Nat, DOMAIN tables' \subseteq DOMAIN tables \union Below(b)
    PROVE  FilesOK'
<1>1. PICK c \in Nat : DOMAIN logs \union DOMAIN manifests \union DOMAIN tables \subseteq Below(c)
  BY DEF FilesOK
<1>2. \E d \in Nat : (DOMAIN logs \union DOMAIN manifests \union DOMAIN tables)' \subseteq Below(d)
  <2> DEFINE d == b + c
  <2>1. d \in Nat /\ Below(b) \subseteq Below(d) /\ Below(c) \subseteq Below(d)
    BY DEF Below
  <2>2. (DOMAIN logs \union DOMAIN manifests \union DOMAIN tables)' \subseteq Below(d)
    BY <1>1, <2>1
  <2> QED
    BY <2>1, <2>2
<1>3. (\A n \in DOMAIN logs : FileOK(logs[n])) /\ (\A n \in DOMAIN manifests : FileOK(manifests[n]))
      /\ current \in Nat /\ writes \in Seq(ToSet(writes))
  BY DEF FilesOK
<1> QED
  BY <1>2, <1>3 DEF FilesOK, Updates

LEMMA RecoverLogFileInv ==
    ASSUME IInv, RecoverLogFile
    PROVE  IInv'
<1> DEFINE n == Min(open.todo)
           read == ReadLog(n)
<1>1. /\ pc = "logs" /\ open.todo # {}
      /\ apply = NoEdit /\ writing = NoWrite /\ db = NoDB
      /\ NumbersOK /\ vset.open = FALSE
      /\ vset.manifest \in Below(vset.next) /\ (vset.manifest # current \/ Harmed)
      /\ open.add \subseteq DOMAIN tables \intersect Below(vset.next)
      /\ open.todo \subseteq DOMAIN logs
      /\ DOMAIN logs \subseteq Below(vset.next) \union open.todo
      /\ open.save = TRUE /\ open.reuse = FALSE
  BY DEF RecoverLogFile, IInv, DownOK, Quiet, LogsOK
<1>2. DOMAIN logs \subseteq Nat
  BY DEF IInv, FilesOK, Below
<1>3. n \in open.todo /\ n \in Nat
  <2> HIDE DEF n
  <2>1. open.todo \subseteq Nat /\ open.todo # {}
    BY <1>1, <1>2
  <2> QED
    BY <2>1, MinIs DEF n
<1>4. \/ GiveUp("paranoid")
      \/ Replay(n, read) /\ UNCHANGED <<logs, manifests, current, pc, writing, apply, ghosts>>
  BY Zenon DEF RecoverLogFile
<1>5. CASE GiveUp("paranoid")
  <2>1. pc \notin {"edit", "running"} /\ "paranoid" # "missing" /\ "paranoid" # "manifest"
    BY <1>1
  <2> QED
    BY <1>5, <2>1, GiveUpInv
<1>6. CASE Replay(n, read) /\ UNCHANGED <<logs, manifests, current, pc, writing, apply, ghosts>>
  <2> DEFINE ids == [i \in DOMAIN read.records |-> UpdateOf(read.records[i])]
             end == Len(ids)
             ends(cuts) == IF Reuses(cuts) THEN {} ELSE cuts \union ({end} \ {0})
             Number(cuts, e) == vset.next + Cardinality({c \in ends(cuts) : c < e})
             new(cuts) == {Number(cuts, e) : e \in ends(cuts)}
             after(cuts) == vset.next + Cardinality(ends(cuts))
  <2>1. PICK cuts \in SUBSET (1 .. end) :
          /\ tables' = [t \in DOMAIN tables \union new(cuts) |->
                          IF t \in new(cuts)
                          THEN Segment(ids, cuts, CHOOSE e \in ends(cuts) : Number(cuts, e) = t)
                          ELSE tables[t]]
          /\ db' = IF ~Reuses(cuts) THEN db
                   ELSE [db EXCEPT !.mem = ToSet(ids), !.log = n,
                                   !.offset = Len(logs[n].cells) % BlockSize]
          /\ vset' = [vset EXCEPT !.next = IF n >= after(cuts) THEN n + 1 ELSE after(cuts)]
          /\ open' = [open EXCEPT !.todo = @ \ {n}, !.add = @ \union new(cuts),
                         !.save = @ \/ new(cuts) # {},
                         !.tolerant = @ \/ read.corrupt,
                         !.last = Max({@} \union {Sequence(i) : i \in ToSet(ids)})]
    BY <1>6, Zenon DEF Replay
  <2>2. ~Reuses(cuts)
    BY <1>1 DEF Reuses
  <2>3. end \in Nat /\ \A j \in 1 .. end : ids[j] \in Updates \union {Garbage}
    <3>1. FileOK(logs[n])
      BY <1>1, <1>3 DEF IInv, FilesOK
    <3>2. IsList(logs[n].cells)
      BY <3>1 DEF FileOK
    <3>3. Len(logs[n].cells) \in Nat
      BY <3>2, ListHolds
    <3>4. IsList(read.records)
      BY <3>3, ReadIsList DEF ReadLog
    <3>5. Len(read.records) \in Nat /\ DOMAIN read.records = 1 .. Len(read.records)
      BY <3>4, ListHolds
    <3> DEFINE m == Len(read.records)
               rs == read.records
    <3> HIDE DEF read, m
    <3>6. m \in Nat /\ ids = [i \in 1 .. m |-> UpdateOf(rs[i])]
      BY <3>5 DEF m
    <3> HIDE DEF ids
    <3>7. \A i \in 1 .. m : ids[i] = UpdateOf(rs[i])
      BY <3>6
    <3>8. ids = [i \in 1 .. m |-> ids[i]]
      BY <3>6, <3>7
    <3>9. Len(ids) = m
      BY <3>6, <3>8, ListFrom
    <3> QED
      BY <3>6, <3>7, <3>9, UpdateIs
  <2> DEFINE E == ends(cuts)
             N == new(cuts)
             k == after(cuts)
  <2> HIDE DEF ids, read, n
  <2>4. E = cuts \union ({end} \ {0}) /\ E \subseteq 1 .. end
    BY <2>1, <2>2, <2>3
  <2>5. Cardinality(E) \in Nat
        /\ \A e \in E : vset.next + Cardinality({c \in E : c < e}) \in vset.next .. vset.next + Cardinality(E) - 1
    <3>1. vset.next \in Nat
      BY <1>1 DEF NumbersOK
    <3> HIDE DEF E, end
    <3> QED
      BY <2>3, <2>4, <3>1, NumbersGoOn
  <2> HIDE DEF E
  <2>6. N = {vset.next + Cardinality({c \in E : c < e}) : e \in E} /\ k = vset.next + Cardinality(E)
    BY DEF E
  <2>7. \A t \in N : \E e \in E : Number(cuts, e) = t
    BY DEF E
  <2>8. \A t \in N : tables'[t] \subseteq Updates \union {Garbage}
    <3> TAKE t \in N
    <3> DEFINE e == CHOOSE e \in E : Number(cuts, e) = t
    <3>1. e \in E
      BY <2>7
    <3> HIDE DEF e
    <3>2. tables'[t] = Segment(ids, cuts, CHOOSE d \in ends(cuts) : Number(cuts, d) = t)
      <4> HIDE DEF new, ends, Number
      <4> QED
        BY <2>1
    <3>3. tables'[t] = Segment(ids, cuts, e)
      BY <3>2, Zenon DEF e, E
    <3>4. Segment(ids, cuts, e) = Flushed(ids, cuts, e)
      BY Zenon DEF Segment
    <3> DEFINE U == Updates \union {Garbage}
    <3> HIDE DEF U, end
    <3>5. \A j \in 1 .. end : ids[j] \in U
      BY <2>3 DEF U
    <3>6. Flushed(ids, cuts, e) \subseteq U
      BY <2>1, <2>3, <2>4, <3>1, <3>5, FlushedIs
    <3> QED
      BY <3>3, <3>4, <3>6 DEF U
  <2>9. DOMAIN tables' = DOMAIN tables \union N /\ \A t \in DOMAIN tables \ N : tables'[t] = tables[t]
    <3> HIDE DEF new, ends, Number
    <3> QED
      BY <2>1
  <2> DEFINE m == IF n >= k THEN n + 1 ELSE k
  <2>10. vset' = [vset EXCEPT !.next = m] /\ db' = db
    <3> HIDE DEF new, ends, Number
    <3> QED
      BY <2>1, <2>2
  <2> DEFINE s == open.save \/ N # {}
             o == open.tolerant \/ read.corrupt
             l == Max({open.last} \union {Sequence(i) : i \in ToSet(ids)})
             a == open.add \union N
             d == open.todo \ {n}
  <2>11. open' = [open EXCEPT !.todo = d, !.add = a, !.save = s, !.tolerant = o, !.last = l]
    <3> HIDE DEF new, ends, Number
    <3> QED
      BY <2>1, Zenon
  <2>12. s = TRUE
    BY <1>1
  <2>13. vset = VsetOf(vset) /\ open = OpenOf(open)
    BY DEF IInv, ShapesOK
  <2>15. UNCHANGED <<logs, manifests, current, pc, writing, apply, ghosts>>
    BY <1>6
  <2> HIDE DEF N, k, m, s, o, l, a, d, ends, Number, new, after
  <2>14. /\ vset' = [live |-> vset.live, log |-> vset.log, next |-> m, last |-> vset.last,
                     manifest |-> vset.manifest, open |-> vset.open]
         /\ open' = [reuse |-> open.reuse, tolerant |-> o, todo |-> d, add |-> a,
                     save |-> s, last |-> l]
    BY <2>10, <2>11, <2>13 DEF VsetOf, OpenOf
  <2>16. m \in Nat /\ k \in Nat /\ k <= m /\ n < m /\ vset.next \in Nat /\ vset.next <= k
    <3>1. vset.next \in Nat
      BY <1>1 DEF NumbersOK
    <3>2. k \in Nat /\ vset.next <= k
      BY <2>5, <2>6, <3>1
    <3>3. m = IF n >= k THEN n + 1 ELSE k
      BY DEF m
    <3>4. n \in Nat
      BY <1>3
    <3> QED
      BY <3>1, <3>2, <3>3, <3>4
  <2>17. N \subseteq Below(k) /\ Below(k) \subseteq Below(m) /\ Below(vset.next) \subseteq Below(m) /\ n \in Below(m)
    <3>1. \A t \in N : t \in vset.next .. vset.next + Cardinality(E) - 1
      BY <2>5, <2>6
    <3>2. N \subseteq Below(k)
      <4> DEFINE c == Cardinality(E)
                 b == vset.next
      <4>1. c \in Nat /\ b \in Nat /\ k = b + c /\ \A t \in N : t \in b .. b + c - 1
        BY <2>5, <2>6, <2>16, <3>1
      <4> HIDE DEF c, b
      <4>2. \A t \in N : t \in 0 .. k - 1
        BY <4>1
      <4> QED
        BY <4>2 DEF Below
    <3>3. n \in Nat
      BY <1>3
    <3>4. n \in Below(m) /\ \A x \in Below(k) : x \in Below(m)
      BY <2>16, <3>3 DEF Below
    <3>5. \A x \in Below(vset.next) : x \in Below(m)
      BY <2>16 DEF Below
    <3> QED
      BY <3>2, <3>4, <3>5
  <2>18. ShapesOK'
    BY <2>10, <2>14 DEF IInv, ShapesOK, VsetOf, OpenOf, DbOf
  <2>19. FilesOK'
    <3>1. \A t \in DOMAIN tables' : tables'[t] \subseteq Updates \union {Garbage}
      <4> TAKE t \in DOMAIN tables'
      <4>1. CASE t \in N
        BY <2>8, <4>1
      <4>2. CASE t \notin N
        <5>1. t \in DOMAIN tables /\ tables'[t] = tables[t]
          BY <2>9, <4>2
        <5> QED
          BY <5>1, Zenon DEF IInv, FilesOK
      <4> QED
        BY <4>1, <4>2
    <3>2. FilesOK /\ logs' = logs /\ manifests' = manifests /\ current' = current /\ writes' = writes
      BY <2>15 DEF IInv, ghosts, history
    <3> QED
      BY <2>9, <2>16, <2>17, <3>1, <3>2, TablesMore
  <2>20. CurrentOK' /\ RefusedOK'
    <3>1. DOMAIN tables \subseteq DOMAIN tables'
      BY <2>9
    <3> QED
      BY <2>15, <3>1, CurrentKept, RefusedKept DEF ghosts, history, IInv
  <2>21. LogsOK'
    <3>1. /\ vset'.next = m /\ vset'.log = vset.log /\ vset'.live = vset.live
          /\ vset'.open = FALSE /\ vset'.manifest = vset.manifest
      BY <1>1, <2>14
    <3>2. open'.todo = d /\ open'.add = a /\ open'.save = TRUE /\ open'.reuse = FALSE
      BY <1>1, <2>12, <2>14
    <3>3. NumbersOK'
      BY <1>1, <2>9, <2>16, <2>17, <3>1 DEF NumbersOK
    <3>4. a \subseteq DOMAIN tables' \intersect Below(m)
      BY <1>1, <2>9, <2>17 DEF a
    <3>5. d \subseteq DOMAIN logs /\ DOMAIN logs \subseteq Below(m) \union d
      BY <1>1, <2>17 DEF d
    <3>6. vset.manifest \in Below(m) /\ (vset.manifest # current' \/ Harmed')
      BY <1>1, <2>15, <2>17 DEF Harmed, ghosts, history
    <3> QED
      BY <2>15, <3>1, <3>2, <3>3, <3>4, <3>5, <3>6 DEF LogsOK
  <2>22. NewDBOK' /\ DownOK' /\ WriterOK' /\ EditOK' /\ OpenOK' /\ RunningOK' /\ EditingOK' /\ RepairOK'
    BY <1>1, <2>10, <2>15 DEF NewDBOK, DownOK, Quiet, WriterOK, EditOK, OpenOK, RunningOK, EditingOK, RepairOK
  <2> QED
    BY <2>18, <2>19, <2>20, <2>21, <2>22 DEF IInv
<1> QED
  BY <1>4, <1>5, <1>6

(* LogAndApply, up to the unsynced edit, in a MANIFEST of its own.         *)
LEMMA OneEdit ==
    ASSUME NEW e
    PROVE  /\ IsList(Append(<<>>, e)) /\ Len(Append(<<>>, e)) = 1 /\ Append(<<>>, e)[1] = e
           /\ LiveAfter(Append(<<>>, e)) = e.add
<1> DEFINE z == <<>>
<1>1. IsList(z) /\ LiveAfter(z) = {} /\ Len(z) = 0
  BY LiveEmpty DEF IsList
<1> HIDE DEF z
<1>2. IsList(Append(z, e)) /\ Len(Append(z, e)) = Len(z) + 1 /\ Append(z, e)[Len(z) + 1] = e
  BY <1>1, ListAppend
<1>3. Len(z) + 1 = 1
  BY <1>1
<1>4. LiveAfter(Append(z, e)) = (LiveAfter(z) \ e.del) \union e.add
  BY <1>1, LiveAppend
<1> QED
  BY <1>1, <1>2, <1>3, <1>4 DEF z

LEMMA SnapshotSound ==
    ASSUME NEW live, NEW n, NEW T, live \subseteq T, NEW D, HarmedIn(D)
    PROVE  SoundFrom(Append(<<>>, Snapshot(live)), 0, n, T, D)
<1> DEFINE e == Snapshot(live)
           es == Append(<<>>, e)
<1>1. IsList(<<>>) /\ LiveAfter(<<>>) = {} /\ Len(<<>>) = 0 /\ Numbered(<<>>) = {}
  BY LiveEmpty DEF IsList, Numbered
<1>2. Sound(<<>>, n, T, D)
  BY <1>1 DEF Sound
<1>3. e.add = live /\ e.del = {} /\ e.kind = "snapshot"
  BY DEF Snapshot
<1> HIDE DEF e
<1>4. LiveAfter(es) = live
  BY <1>3, OneEdit
<1>5. IsList(es) /\ Len(es) = 1 /\ es[1] = e
  BY OneEdit
<1> HIDE DEF es
<1>6. DOMAIN es = 1 .. 1
  BY <1>5, ListHolds
<1>7. Numbered(es) = {}
  BY <1>3, <1>5, <1>6 DEF Numbered
<1>8. Sound(es, n, T, D)
  BY <1>4, <1>7 DEF Sound
<1>9. SoundFrom(<<>>, 0, n, T, D)
  <2> DEFINE z == <<>>
  <2> HIDE DEF z
  <2>1. SoundFrom(z, Len(z), n, T, D)
    BY <1>1, <1>2, WholeSound DEF z
  <2> QED
    BY <1>1, <2>1 DEF z
<1>10. 0 \in 0 .. Len(<<>>)
  BY <1>1
<1>11. Sound(Append(<<>>, e), n, T, D)
  BY <1>8 DEF es
<1>12. SoundFrom(Append(<<>>, e), 0, n, T, D)
  BY <1>1, <1>9, <1>10, <1>11, MoreSound
<1> QED
  BY <1>12 DEF e

LEMMA FinishRecoverInv ==
    ASSUME IInv, FinishRecover
    PROVE  IInv'
<1> DEFINE k == vset.next
           v == [vset EXCEPT !.last = LastSequence, !.next = @ + 1]
           e == Edit(open.add, {}, k, k + 1, LastSequence)
           es == Append(<<>>, Snapshot(vset.live))
           f == ManifestWith(ManifestWith(EmptyFile, Snapshot(vset.live)), e)
           n == vset.manifest
<1>1. /\ pc = "logs" /\ open.todo = {}
      /\ apply = NoEdit /\ writing = NoWrite /\ db = NoDB
      /\ NumbersOK /\ vset.open = FALSE
      /\ n \in Below(k) /\ (n # current \/ Harmed)
      /\ open.add \subseteq DOMAIN tables \intersect Below(k)
      /\ DOMAIN logs \subseteq Below(k)
      /\ open.save = TRUE
  BY DEF FinishRecover, IInv, DownOK, Quiet, LogsOK
<1>2. vset = VsetOf(vset) /\ db = DbOf(db) /\ db.log = 0 /\ db.mem = {} /\ db.imm = {} /\ db.offset = 0
      /\ db.failed = FALSE
  BY <1>1 DEF IInv, ShapesOK, NoDB
<1>3. k \in Nat /\ vset.log \in Below(k) /\ vset.live \subseteq DOMAIN tables \intersect Below(k)
  BY <1>1 DEF NumbersOK
<1> DEFINE l == LastSequence
<1>4. v = [live |-> vset.live, log |-> vset.log, next |-> k + 1, last |-> l,
           manifest |-> n, open |-> vset.open]
  <2> HIDE DEF l
  <2>1. v = [vset EXCEPT !.last = l, !.next = k + 1]
    BY DEF l
  <2>2. vset = [live |-> vset.live, log |-> vset.log, next |-> k, last |-> vset.last,
                manifest |-> n, open |-> vset.open]
    BY <1>2 DEF VsetOf
  <2> DEFINE w == [vset EXCEPT !.last = l]
             m == k + 1
  <2>3. w = [live |-> vset.live, log |-> vset.log, next |-> k, last |-> l,
             manifest |-> n, open |-> vset.open]
    BY <2>2
  <2> HIDE DEF v, w, m
  <2>4. [w EXCEPT !.next = m] = [live |-> vset.live, log |-> vset.log, next |-> m, last |-> l,
                                 manifest |-> n, open |-> vset.open]
    BY <2>3
  <2>5. v = [w EXCEPT !.next = m]
    BY <2>1 DEF w, m
  <2> QED
    BY <2>4, <2>5, Zenon DEF m
<1>5. /\ logs' = Put(logs, k, EmptyFile)
      /\ db' = [db EXCEPT !.log = k]
      /\ vset' = v
      /\ WriteEdit(v, Edit(open.add, {}, k, v.next, v.last), "open")
      /\ open' = NoOpen /\ pc' = "edit"
      /\ UNCHANGED <<tables, current, writing, ghosts>>
  BY <1>1, <1>2 DEF FinishRecover
<1>6. v.next = k + 1 /\ v.last = l /\ v.live = vset.live /\ v.manifest = n /\ v.open = FALSE
  <2> HIDE DEF v, l
  <2> QED
    BY <1>1, <1>4
<1> HIDE DEF v
<1>7. /\ manifests' = Put(manifests, n, f)
      /\ apply' = [stage |-> "written", kind |-> "open", edit |-> e, new |-> TRUE]
  BY <1>5, <1>6 DEF WriteEdit
<1>8. e.add = open.add /\ e.del = {} /\ e.log = k /\ e.next = k + 1 /\ e.kind = "edit"
  BY DEF Edit
<1>9. ManifestOf(f, Append(es, e), 0) /\ IsList(es) /\ LiveAfter(es) = vset.live
  <2> DEFINE g == ManifestWith(EmptyFile, Snapshot(vset.live))
  <2>1. ManifestOf(g, es, 0)
    BY ManifestEmpty, ManifestAppend
  <2>2. ManifestOf(f, Append(es, e), 0)
    <3> HIDE DEF g, es, e
    <3> QED
      BY <2>1, ManifestAppend DEF g
  <2>3. Snapshot(vset.live).add = vset.live
    BY DEF Snapshot
  <2>4. IsList(es) /\ LiveAfter(es) = vset.live
    BY <2>3, OneEdit
  <2> QED
    BY <2>2, <2>4
<1> HIDE DEF f, es, e, l
<1>10. FileOK(f)
  BY <1>9, ManifestFileOK
<1>11. n \in Nat /\ n < k + 1 /\ k \in Below(k + 1) /\ Below(k) \subseteq Below(k + 1)
  <2>1. n \in Below(k)
    BY <1>1
  <2>2. \A x \in Below(k) : x \in Below(k + 1) /\ x \in Nat /\ x < k + 1
    BY <1>3 DEF Below
  <2> QED
    BY <1>3, <2>1, <2>2 DEF Below
<1>12. ShapesOK'
  <2>1. vset' = VsetOf(vset')
    BY <1>4, <1>5 DEF VsetOf
  <2>2. db' = DbOf(db')
    BY <1>2, <1>5 DEF DbOf
  <2> QED
    BY <1>5, <2>1, <2>2, NoneShapes DEF ShapesOK
<1>13. DOMAIN logs' = DOMAIN logs \union {k} /\ logs'[k] = EmptyFile
       /\ \A m \in DOMAIN logs : m # k => logs'[m] = logs[m]
  BY <1>5, Zenon DEF Put
<1>14. DOMAIN manifests' = DOMAIN manifests \union {n} /\ manifests'[n] = f
       /\ \A m \in DOMAIN manifests : m # n => manifests'[m] = manifests[m]
  BY <1>7, Zenon DEF Put
<1>15. FilesOK'
  <2>1. PICK b \in Nat : DOMAIN logs \union DOMAIN manifests \union DOMAIN tables \subseteq Below(b)
    BY DEF IInv, FilesOK
  <2>2. PICK c \in Nat : (DOMAIN logs \union DOMAIN manifests \union DOMAIN tables) \union {k} \subseteq Below(c)
    BY <1>3, <2>1, MoreNumbers
  <2>3. PICK d \in Nat : ((DOMAIN logs \union DOMAIN manifests \union DOMAIN tables) \union {k}) \union {n} \subseteq Below(d)
    BY <1>11, <2>2, MoreNumbers
  <2>4. (DOMAIN logs \union DOMAIN manifests \union DOMAIN tables)' \subseteq Below(d)
    BY <1>5, <1>13, <1>14, <2>3
  <2>5. \A m \in DOMAIN logs' : FileOK(logs'[m])
    BY <1>13, EmptyFileOK DEF IInv, FilesOK
  <2>6. \A m \in DOMAIN manifests' : FileOK(manifests'[m])
    BY <1>10, <1>14 DEF IInv, FilesOK
  <2> QED
    BY <1>5, <2>4, <2>5, <2>6 DEF IInv, FilesOK, Updates, ghosts, history
<1>16. CurrentOK'
  <2>1. CASE n # current
    <3>1. CASE Good(current)
      <4>1. current \in DOMAIN manifests' /\ manifests'[current] = manifests[current]
        BY <1>14, <2>1, <3>1 DEF Good
      <4> QED
        BY <1>5, <3>1, <4>1 DEF CurrentOK, Good, ghosts, history
    <3>2. CASE current = 0
      BY <1>5, <3>2 DEF CurrentOK
    <3>3. CASE Harmed /\ current \notin DOMAIN manifests
      BY <1>5, <1>14, <2>1, <3>3 DEF CurrentOK, Harmed, ghosts, history
    <3> QED
      BY <3>1, <3>2, <3>3, Zenon DEF IInv, CurrentOK
  <2>2. CASE n = current
    <3>1. Harmed
      BY <1>1, <2>2
    <3>2. SoundFrom(es, 0, n, DOMAIN tables, damaged)
      BY <1>3, <3>1, SnapshotSound DEF es, Harmed
    <3>3. Sound(Append(es, e), n, DOMAIN tables, damaged)
      <4>1. (LiveAfter(es) \ e.del) \union e.add \subseteq DOMAIN tables \intersect Below(e.next)
        BY <1>1, <1>3, <1>8, <1>9, <1>11
      <4>2. e.next \in Nat /\ e.log \in Below(e.next)
        BY <1>3, <1>8, <1>11
      <4> QED
        BY <1>8, <1>9, <3>1, <4>1, <4>2, SoundEdit DEF Harmed
    <3>4. 0 \in 0 .. Len(es)
      BY <1>9, ListHolds
    <3>5. SoundFrom(Append(es, e), 0, n, DOMAIN tables, damaged)
      BY <1>9, <3>2, <3>3, <3>4, MoreSound
    <3>6. GoodFile(f, n, DOMAIN tables, damaged)
      BY <1>9, <3>5 DEF GoodFile, Known
    <3> QED
      BY <1>5, <1>14, <2>2, <3>6 DEF CurrentOK, Good, ghosts, history
  <2> QED
    BY <2>1, <2>2
<1>17. vset'.next = k + 1 /\ vset'.log = vset.log /\ vset'.live = vset.live /\ vset'.manifest = n
       /\ db'.log = k /\ db'.mem = {} /\ db'.imm = {} /\ db'.offset = 0 /\ db'.failed = FALSE
  <2>1. db' = [mem |-> {}, imm |-> {}, log |-> k, offset |-> 0, failed |-> FALSE]
    BY <1>2, <1>5 DEF DbOf
  <2> QED
    BY <1>4, <1>5, <2>1
<1>18. EditOK'
  <2>1. apply' = ApplyOf(apply') /\ apply'.stage = "written" /\ apply'.kind = "open"
        /\ apply'.edit = e /\ apply'.new = TRUE
    BY <1>7 DEF ApplyOf
  <2>2. (vset.live \ e.del) \union e.add \subseteq Below(k + 1)
    BY <1>1, <1>3, <1>8, <1>11
  <2>3. e.next \in Nat /\ e.next <= k + 1 /\ k \in Nat /\ k <= k
    BY <1>3, <1>8
  <2>4. n # current' \/ Harmed'
    BY <1>1, <1>5 DEF Harmed, ghosts, history
  <2>5. \E xs, s : /\ ManifestOf(f, Append(xs, e), s) /\ IsList(xs) /\ LiveAfter(xs) = vset.live
                   /\ apply'.stage = "synced" => s = Len(xs) + 1
    BY <1>9, <2>1
  <2>6. e.add \subseteq DOMAIN tables'
    BY <1>1, <1>5, <1>8
  <2> QED
    BY <1>5, <1>8, <1>11, <1>14, <1>17, <2>1, <2>2, <2>3, <2>4, <2>5, <2>6 DEF EditOK
<1>19. OpenOK'
  <2>1. NumbersOK'
    <3>1. vset.log \in Below(k + 1) /\ vset.live \subseteq DOMAIN tables \intersect Below(k + 1)
      BY <1>3, <1>11
    <3> QED
      BY <1>3, <1>5, <1>17, <3>1 DEF NumbersOK
  <2>2. DOMAIN logs' \subseteq Below(k + 1)
    BY <1>1, <1>11, <1>13
  <2>3. IsOffset(0)
    <3>1. 0 \in 0 .. BlockSize
      BY FormatAssumption
    <3> QED
      BY <3>1, OffsetSomewhere DEF IsOffset
  <2>4. vset.log <= k /\ n \in Below(k + 1)
    BY <1>3, <1>11 DEF Below
  <2> QED
    BY <1>13, <1>14, <1>17, <2>1, <2>2, <2>3, <2>4 DEF OpenOK
<1>20. RefusedOK'
  BY <1>5, RefusedKept DEF IInv, ghosts, history
<1>21. NewDBOK' /\ DownOK' /\ WriterOK' /\ LogsOK' /\ RunningOK' /\ EditingOK' /\ RepairOK'
  <2>1. apply' # NoEdit
    <3>1. apply'.stage = "written" /\ NoEdit.stage = "none"
      BY <1>7 DEF NoEdit
    <3> QED
      BY <3>1
  <2> QED
    BY <1>1, <1>5, <1>17, <2>1 DEF NewDBOK, DownOK, Quiet, WriterOK, LogsOK, RunningOK, EditingOK, RepairOK
<1> QED
  BY <1>12, <1>15, <1>16, <1>18, <1>19, <1>20, <1>21 DEF IInv

-----------------------------------------------------------------------------
(* What a running database keeps *)

(* The files and the version set are as they were, but for more numbers.   *)
LEMMA EditKept ==
    ASSUME EditOK, apply' = apply, pc' = pc, manifests' = manifests, current' = current,
           DOMAIN tables \subseteq DOMAIN tables', damaged \subseteq damaged',
           vset'.live = vset.live, vset'.manifest = vset.manifest,
           vset.next \in Nat, vset'.next \in Nat, vset.next <= vset'.next,
           db.log \in Nat, db'.log \in Nat, db.log <= db'.log
    PROVE  EditOK'
<1> SUFFICES ASSUME apply # NoEdit PROVE EditOK'
  BY DEF EditOK
<1>1. Harmed => Harmed'
  BY HarmedKept DEF Harmed
<1>2. apply'.edit.add \subseteq DOMAIN tables'
  BY DEF EditOK
<1>3. apply'.edit.next \in Nat /\ apply'.edit.next <= vset'.next /\ apply'.edit.log <= db'.log
  <2>1. apply.edit.next \in Nat /\ apply.edit.next <= vset.next
    BY DEF EditOK
  <2>2. apply.edit.log \in Nat /\ apply.edit.log <= db.log
    BY <2>1 DEF EditOK, Below
  <2> QED
    BY <2>1, <2>2
<1> QED
  BY <1>1, <1>2, <1>3 DEF EditOK

LEMMA RunningKept ==
    ASSUME RunningOK, apply' = apply, pc' = pc, manifests' = manifests, current' = current,
           vset'.live = vset.live, vset'.manifest = vset.manifest, vset'.open = vset.open,
           db.failed => db'.failed
    PROVE  RunningOK'
  BY DEF RunningOK

LEMMA NumbersKept ==
    ASSUME NumbersOK, DOMAIN tables \subseteq DOMAIN tables', vset'.live = vset.live,
           vset'.log = vset.log, vset'.next \in Nat, vset.next <= vset'.next
    PROVE  NumbersOK' /\ Below(vset.next) \subseteq Below(vset'.next)
<1>1. vset.next \in Nat
  BY DEF NumbersOK
<1>2. \A x \in Below(vset.next) : x \in Below(vset'.next)
  BY <1>1 DEF Below
<1> QED
  BY <1>2 DEF NumbersOK

(* What is left when only a running database may act. *)
LEMMA Running ==
    ASSUME pc' = "running"
    PROVE  NewDBOK' /\ DownOK' /\ LogsOK' /\ EditingOK' /\ RepairOK'
  BY DEF NewDBOK, DownOK, LogsOK, EditingOK, RepairOK

LEMMA VsetWithLast ==
    ASSUME NEW v, v = VsetOf(v), NEW x, NEW w, w = [v EXCEPT !.last = x]
    PROVE  /\ w = VsetOf(w)
           /\ w.live = v.live /\ w.log = v.log /\ w.next = v.next /\ w.manifest = v.manifest
           /\ w.open = v.open
<1>1. w = [live |-> v.live, log |-> v.log, next |-> v.next, last |-> x,
           manifest |-> v.manifest, open |-> v.open]
  BY DEF VsetOf
<1> QED
  BY <1>1 DEF VsetOf

LEMMA VsetWithNext ==
    ASSUME NEW v, v = VsetOf(v), NEW x, NEW w, w = [v EXCEPT !.next = x]
    PROVE  /\ w = VsetOf(w)
           /\ w.live = v.live /\ w.log = v.log /\ w.next = x /\ w.manifest = v.manifest
           /\ w.open = v.open /\ w.last = v.last
<1>1. w = [live |-> v.live, log |-> v.log, next |-> x, last |-> v.last,
           manifest |-> v.manifest, open |-> v.open]
  BY DEF VsetOf
<1> QED
  BY <1>1 DEF VsetOf

LEMMA DbWithOffset ==
    ASSUME NEW d, d = DbOf(d), NEW x, NEW e, e = [d EXCEPT !.offset = x]
    PROVE  /\ e = DbOf(e) /\ e.offset = x
           /\ e.mem = d.mem /\ e.imm = d.imm /\ e.log = d.log /\ e.failed = d.failed
<1>1. e = [mem |-> d.mem, imm |-> d.imm, log |-> d.log, offset |-> x, failed |-> d.failed]
  BY DEF DbOf
<1> QED
  BY <1>1 DEF DbOf

LEMMA DbWithMem ==
    ASSUME NEW d, d = DbOf(d), NEW x, NEW e, e = [d EXCEPT !.mem = x]
    PROVE  /\ e = DbOf(e) /\ e.mem = x
           /\ e.offset = d.offset /\ e.imm = d.imm /\ e.log = d.log /\ e.failed = d.failed
<1>1. e = [mem |-> x, imm |-> d.imm, log |-> d.log, offset |-> d.offset, failed |-> d.failed]
  BY DEF DbOf
<1> QED
  BY <1>1 DEF DbOf

LEMMA DbWithImm ==
    ASSUME NEW d, d = DbOf(d), NEW x, NEW e, e = [d EXCEPT !.imm = x]
    PROVE  /\ e = DbOf(e) /\ e.imm = x
           /\ e.offset = d.offset /\ e.mem = d.mem /\ e.log = d.log /\ e.failed = d.failed
<1>1. e = [mem |-> d.mem, imm |-> x, log |-> d.log, offset |-> d.offset, failed |-> d.failed]
  BY DEF DbOf
<1> QED
  BY <1>1 DEF DbOf

LEMMA DbWithFailed ==
    ASSUME NEW d, d = DbOf(d), NEW e, NEW x, e = [d EXCEPT !.failed = x]
    PROVE  /\ e = DbOf(e) /\ e.failed = x
           /\ e.offset = d.offset /\ e.mem = d.mem /\ e.imm = d.imm /\ e.log = d.log
<1>1. e = [mem |-> d.mem, imm |-> d.imm, log |-> d.log, offset |-> d.offset, failed |-> x]
  BY DEF DbOf
<1> QED
  BY <1>1 DEF DbOf

(* One of the logs is written to. *)
LEMMA LogChanged ==
    ASSUME FilesOK, NEW n \in DOMAIN logs, NEW f, FileOK(f), logs' = [logs EXCEPT ![n] = f],
           manifests' = manifests, tables' = tables, current' = current,
           Updates \subseteq Updates', writes' \in Seq(ToSet(writes'))
    PROVE  FilesOK' /\ DOMAIN logs' = DOMAIN logs
<1>1. DOMAIN logs' = DOMAIN logs /\ logs'[n] = f /\ \A m \in DOMAIN logs : m # n => logs'[m] = logs[m]
  OBVIOUS
<1>2. \A m \in DOMAIN logs' : FileOK(logs'[m])
  BY <1>1 DEF FilesOK
<1>3. \A t \in DOMAIN tables' : tables'[t] \subseteq Updates' \union {Garbage}
  BY DEF FilesOK
<1>4. \E b \in Nat : (DOMAIN logs \union DOMAIN manifests \union DOMAIN tables)' \subseteq Below(b)
  BY <1>1 DEF FilesOK
<1>5. (\A m \in DOMAIN manifests' : FileOK(manifests'[m])) /\ current' \in Nat
  BY DEF FilesOK
<1> QED
  BY <1>1, <1>2, <1>3, <1>4, <1>5, Zenon DEF FilesOK

LEMMA WritesAppend ==
    ASSUME FilesOK, NEW u, writes' = Append(writes, u)
    PROVE  /\ writes' \in Seq(ToSet(writes')) /\ Updates \subseteq Updates'
           /\ Len(writes) + 1 \in Updates'
<1>1. IsList(writes)
  BY DEF FilesOK, IsList
<1>2. Len(writes) \in Nat /\ IsList(Append(writes, u)) /\ Len(Append(writes, u)) = Len(writes) + 1
  BY <1>1, ListHolds, ListAppend
<1> QED
  BY <1>2 DEF IsList, Updates

-----------------------------------------------------------------------------
(* Writes *)

(* What the actions of the writer and of the background thread rest on.    *)
LEMMA RunningFacts ==
    ASSUME IInv, pc = "running"
    PROVE  /\ vset = VsetOf(vset) /\ db = DbOf(db)
           /\ NumbersOK /\ vset.next \in Nat
           /\ DOMAIN logs \subseteq Below(vset.next) /\ db.log \in DOMAIN logs /\ db.log \in Nat
           /\ vset.log <= db.log
           /\ vset.manifest \in DOMAIN manifests /\ vset.manifest \in Below(vset.next)
           /\ vset.manifest \in Nat
           /\ db.mem \subseteq Updates /\ db.imm \subseteq Updates /\ IsOffset(db.offset)
           /\ vset.manifest = current /\ vset.open
<1>1. OpenOK /\ RunningOK /\ ShapesOK
  BY DEF IInv
<1>2. vset.next \in Nat /\ \A x \in Below(vset.next) : x \in Nat
  BY <1>1 DEF OpenOK, NumbersOK, Below
<1> QED
  BY <1>1, <1>2 DEF OpenOK, RunningOK, ShapesOK

LEMMA WriteLogInv ==
    ASSUME IInv, NEW size \in Sizes, NEW sync \in BOOLEAN, WriteLog(size, sync)
    PROVE  IInv'
<1> DEFINE id == Len(writes) + 1
           record == Record(id, size)
           f == AddRecord(logs[db.log], record, db.offset)
           o == OffsetAfter(record, db.offset)
<1>1. /\ pc = "running" /\ pc' = "running" /\ ~db.failed
      /\ writes' = Append(writes, NextUpdate(size))
      /\ logs' = [logs EXCEPT ![db.log] = f]
      /\ db' = [db EXCEPT !.offset = o]
      /\ writing' = [id |-> id, sync |-> sync]
      /\ damaged \subseteq damaged'
      /\ UNCHANGED <<manifests, tables, current, open, vset, apply, refused, faults>>
  BY DEF WriteLog, MayWrite
<1>2. /\ vset = VsetOf(vset) /\ db = DbOf(db)
      /\ NumbersOK /\ vset.next \in Nat
      /\ DOMAIN logs \subseteq Below(vset.next) /\ db.log \in DOMAIN logs /\ db.log \in Nat
      /\ vset.log <= db.log
      /\ vset.manifest \in DOMAIN manifests /\ vset.manifest \in Below(vset.next)
      /\ db.mem \subseteq Updates /\ db.imm \subseteq Updates /\ IsOffset(db.offset)
  BY <1>1, RunningFacts
<1>3. FileOK(f) /\ IsOffset(o)
  <2>1. FileOK(logs[db.log])
    BY <1>2 DEF IInv, FilesOK
  <2> QED
    BY <1>2, <2>1, LogWritten
<1> HIDE DEF f, o, record
<1>4. writes' \in Seq(ToSet(writes')) /\ Updates \subseteq Updates' /\ id \in Updates'
  BY <1>1, WritesAppend DEF IInv
<1> HIDE DEF id
<1>5. FilesOK' /\ DOMAIN logs' = DOMAIN logs
  BY <1>1, <1>2, <1>3, <1>4, LogChanged DEF IInv
<1>6. db' = DbOf(db') /\ db'.offset = o
      /\ db'.mem = db.mem /\ db'.imm = db.imm /\ db'.log = db.log /\ db'.failed = db.failed
  BY <1>1, <1>2, DbWithOffset
<1>7. ShapesOK'
  BY <1>1, <1>2, <1>6 DEF IInv, ShapesOK
<1>8. CurrentOK' /\ RefusedOK'
  BY <1>1, CurrentKept, RefusedKept DEF IInv
<1>9. EditOK'
  BY <1>1, <1>2, <1>6, EditKept DEF IInv
<1>10. RunningOK'
  BY <1>1, <1>6, RunningKept DEF IInv
<1>11. OpenOK'
  BY <1>1, <1>2, <1>3, <1>4, <1>5, <1>6 DEF OpenOK, NumbersOK
<1>12. WriterOK'
  BY <1>1, <1>4 DEF WriterOK
<1> QED
  BY <1>1, <1>5, <1>7, <1>8, <1>9, <1>10, <1>11, <1>12, Running DEF IInv

LEMMA WriteLogFailsInv ==
    ASSUME IInv, NEW size \in Sizes, WriteLogFails(size)
    PROVE  IInv'
<1> DEFINE fs == Fragments(Record(Len(writes) + 1, size), db.offset)
           file == logs[db.log]
           u == [NextUpdate(size) EXCEPT !.log = 0]
<1>1. PICK k \in DOMAIN fs :
        /\ logs' = [logs EXCEPT ![db.log].cells = @ \o Emitted(SubSeq(fs, 1, k - 1))]
        /\ db' = [db EXCEPT !.offset = fs[k].after]
  BY DEF WriteLogFails
<1> DEFINE c == Emitted(SubSeq(fs, 1, k - 1))
           f == [file EXCEPT !.cells = @ \o c]
           o == fs[k].after
<1>2. /\ pc = "running" /\ pc' = "running" /\ writing = NoWrite /\ ~db.failed
      /\ writes' = Append(writes, u)
      /\ vset' = [vset EXCEPT !.last = @ + 1]
      /\ UNCHANGED <<manifests, tables, current, open, writing, apply, damaged, refused>>
  BY DEF WriteLogFails, MayWrite
<1>3. /\ vset = VsetOf(vset) /\ db = DbOf(db)
      /\ NumbersOK /\ vset.next \in Nat
      /\ DOMAIN logs \subseteq Below(vset.next) /\ db.log \in DOMAIN logs /\ db.log \in Nat
      /\ vset.log <= db.log
      /\ vset.manifest \in DOMAIN manifests /\ vset.manifest \in Below(vset.next)
      /\ db.mem \subseteq Updates /\ db.imm \subseteq Updates /\ IsOffset(db.offset)
  BY <1>2, RunningFacts
<1>4. FileOK(f) /\ IsOffset(o)
  <2>1. FileOK(file)
    BY <1>3 DEF IInv, FilesOK
  <2> QED
    BY <1>3, <2>1, LogPartWritten
<1>5. logs' = [logs EXCEPT ![db.log] = f]
  <2> HIDE DEF c
  <2> QED
    BY <1>1 DEF c
<1>16. db' = [db EXCEPT !.offset = o]
  BY <1>1
<1>17. vset' = [vset EXCEPT !.last = @ + 1] /\ vset = VsetOf(vset) /\ db = DbOf(db)
  BY <1>2, <1>3
<1> HIDE DEF f, o, u, fs
<1>6. writes' \in Seq(ToSet(writes')) /\ Updates \subseteq Updates'
  BY <1>2, WritesAppend DEF IInv
<1>7. FilesOK' /\ DOMAIN logs' = DOMAIN logs
  BY <1>2, <1>3, <1>4, <1>5, <1>6, LogChanged DEF IInv
<1>8. db' = DbOf(db') /\ db'.offset = o
      /\ db'.mem = db.mem /\ db'.imm = db.imm /\ db'.log = db.log /\ db'.failed = db.failed
  BY <1>16, <1>17, DbWithOffset
<1>9. vset' = VsetOf(vset') /\ vset'.live = vset.live /\ vset'.log = vset.log
      /\ vset'.next = vset.next /\ vset'.manifest = vset.manifest /\ vset'.open = vset.open
  BY <1>17, VsetWithLast
<1>10. ShapesOK'
  BY <1>2, <1>8, <1>9 DEF IInv, ShapesOK
<1>11. CurrentOK' /\ RefusedOK'
  BY <1>2, CurrentKept, RefusedKept DEF IInv
<1>12. EditOK'
  BY <1>2, <1>3, <1>8, <1>9, EditKept DEF IInv
<1>13. RunningOK'
  BY <1>2, <1>8, <1>9, RunningKept DEF IInv
<1>14. OpenOK'
  BY <1>2, <1>3, <1>4, <1>6, <1>7, <1>8, <1>9 DEF OpenOK, NumbersOK
<1>15. WriterOK'
  BY <1>2 DEF WriterOK
<1> QED
  BY <1>2, <1>7, <1>10, <1>11, <1>12, <1>13, <1>14, <1>15, Running DEF IInv

(* A write that ends, well or not: only the last sequence moves on. *)
LEMMA WriteEnds ==
    ASSUME IInv, writing # NoWrite, vset' = [vset EXCEPT !.last = @ + 1], writing' = NoWrite,
           FilesOK', DOMAIN logs' = DOMAIN logs,
           db' = DbOf(db'), db'.mem \subseteq Updates, db'.imm = db.imm, db'.log = db.log,
           db'.offset = db.offset, db.failed => db'.failed, Updates' = Updates,
           UNCHANGED <<manifests, tables, current, pc, open, apply, damaged, refused>>
    PROVE  IInv'
<1>1. pc = "running" /\ pc' = "running"
  BY DEF IInv, WriterOK
<1>2. /\ vset = VsetOf(vset) /\ db = DbOf(db)
      /\ NumbersOK /\ vset.next \in Nat
      /\ DOMAIN logs \subseteq Below(vset.next) /\ db.log \in DOMAIN logs /\ db.log \in Nat
      /\ vset.log <= db.log
      /\ vset.manifest \in DOMAIN manifests /\ vset.manifest \in Below(vset.next)
      /\ db.mem \subseteq Updates /\ db.imm \subseteq Updates /\ IsOffset(db.offset)
  BY <1>1, RunningFacts
<1>3. vset' = VsetOf(vset') /\ vset'.live = vset.live /\ vset'.log = vset.log
      /\ vset'.next = vset.next /\ vset'.manifest = vset.manifest /\ vset'.open = vset.open
  BY <1>2, VsetWithLast
<1>4. ShapesOK'
  BY <1>3 DEF IInv, ShapesOK
<1>5. CurrentOK' /\ RefusedOK'
  BY CurrentKept, RefusedKept DEF IInv
<1>6. EditOK'
  BY <1>2, <1>3, EditKept DEF IInv
<1>7. RunningOK'
  BY <1>3, RunningKept DEF IInv
<1>8. OpenOK'
  BY <1>2, <1>3 DEF OpenOK, NumbersOK
<1>9. WriterOK'
  BY DEF WriterOK
<1> QED
  BY <1>1, <1>4, <1>5, <1>6, <1>7, <1>8, <1>9, Running DEF IInv

LEMMA FinishWriteInv ==
    ASSUME IInv, FinishWrite
    PROVE  IInv'
<1> DEFINE id == writing.id
           f == SyncFile(logs[db.log])
           x == [writes[id] EXCEPT !.synced = writing.sync]
           m == db.mem \union {id}
<1>1. /\ writing # NoWrite
      /\ logs' = IF writing.sync THEN [logs EXCEPT ![db.log] = f] ELSE logs
      /\ writes' = [writes EXCEPT ![id] = x]
      /\ db' = [db EXCEPT !.mem = m]
      /\ vset' = [vset EXCEPT !.last = @ + 1] /\ writing' = NoWrite
      /\ UNCHANGED <<manifests, tables, current, pc, open, apply, damaged, refused, faults>>
  BY DEF FinishWrite
<1>2. pc = "running" /\ id \in Updates
  BY <1>1 DEF IInv, WriterOK
<1>3. /\ db = DbOf(db) /\ db.log \in DOMAIN logs
      /\ db.mem \subseteq Updates /\ db.imm \subseteq Updates
  BY <1>2, RunningFacts
<1>4. writes' \in Seq(ToSet(writes')) /\ Updates' = Updates
  <2> DEFINE n == Len(writes)
  <2>1. n \in Nat /\ writes = [i \in 1 .. n |-> writes[i]]
    BY ListHolds DEF IInv, FilesOK, IsList
  <2> HIDE DEF n, x
  <2>2. writes' = [i \in 1 .. n |-> writes'[i]]
    BY <1>1, <2>1
  <2>3. IsList(writes') /\ Len(writes') = n
    BY <2>1, <2>2, ListFrom
  <2> QED
    BY <2>3 DEF Updates, IsList, n
<1> HIDE DEF x
<1>5. FileOK(f)
  BY <1>3, FileSynced DEF IInv, FilesOK
<1> HIDE DEF f
<1>6. FilesOK' /\ DOMAIN logs' = DOMAIN logs
  <2>1. CASE writing.sync
    <3>1. logs' = [logs EXCEPT ![db.log] = f]
      BY <1>1, <2>1
    <3> QED
      BY <1>1, <1>3, <1>4, <1>5, <3>1, LogChanged DEF IInv
  <2>2. CASE ~writing.sync
    <3>1. logs' = logs
      BY <1>1, <2>2
    <3> QED
      BY <1>1, <1>4, <3>1 DEF IInv, FilesOK
  <2> QED
    BY <2>1, <2>2
<1> HIDE DEF m
<1>7. db' = DbOf(db') /\ db'.mem = m
      /\ db'.offset = db.offset /\ db'.imm = db.imm /\ db'.log = db.log /\ db'.failed = db.failed
  BY <1>1, <1>3, DbWithMem
<1>8. m \subseteq Updates
  BY <1>2, <1>3 DEF m
<1> QED
  BY <1>1, <1>4, <1>6, <1>7, <1>8, WriteEnds

LEMMA SyncFailsInv ==
    ASSUME IInv, SyncFails
    PROVE  IInv'
<1>1. /\ writing # NoWrite /\ writing' = NoWrite
      /\ db' = [db EXCEPT !.failed = TRUE]
      /\ vset' = [vset EXCEPT !.last = @ + 1]
      /\ UNCHANGED <<disk, pc, open, apply, history>>
  BY DEF SyncFails
<1>2. pc = "running"
  BY <1>1 DEF IInv, WriterOK
<1>3. db = DbOf(db) /\ db.mem \subseteq Updates /\ db.imm \subseteq Updates
  BY <1>2, RunningFacts
<1>4. db' = DbOf(db') /\ db'.failed
      /\ db'.offset = db.offset /\ db'.mem = db.mem /\ db'.imm = db.imm /\ db'.log = db.log
  BY <1>1, <1>3, DbWithFailed
<1>5. FilesOK'
  BY <1>1, FilesKept DEF disk, history, IInv
<1> QED
  BY <1>1, <1>3, <1>4, <1>5, WriteEnds DEF disk, history, Updates

LEMMA SwitchMemTableInv ==
    ASSUME IInv, SwitchMemTable
    PROVE  IInv'
<1> DEFINE k == vset.next
           m == db.mem
<1>1. /\ pc = "running" /\ pc' = "running" /\ writing = NoWrite
      /\ logs' = Put(logs, k, EmptyFile)
      /\ db' = [db EXCEPT !.imm = m, !.mem = {}, !.log = k, !.offset = 0]
      /\ vset' = [vset EXCEPT !.next = k + 1]
      /\ UNCHANGED <<manifests, tables, current, open, writing, apply, ghosts>>
  BY DEF SwitchMemTable, MayWrite
<1>2. /\ vset = VsetOf(vset) /\ db = DbOf(db)
      /\ NumbersOK /\ k \in Nat
      /\ DOMAIN logs \subseteq Below(k) /\ db.log \in DOMAIN logs /\ db.log \in Nat
      /\ vset.log <= db.log
      /\ vset.manifest \in DOMAIN manifests /\ vset.manifest \in Below(k)
      /\ m \subseteq Updates
  BY <1>1, RunningFacts
<1>3. vset' = VsetOf(vset') /\ vset'.live = vset.live /\ vset'.log = vset.log
      /\ vset'.next = k + 1 /\ vset'.manifest = vset.manifest /\ vset'.open = vset.open
  BY <1>1, <1>2, VsetWithNext
<1>4. db' = DbOf(db') /\ db'.mem = {} /\ db'.imm = m /\ db'.log = k /\ db'.offset = 0
      /\ db'.failed = db.failed
  <2> HIDE DEF k, m
  <2>1. db' = [mem |-> {}, imm |-> m, log |-> k, offset |-> 0, failed |-> db.failed]
    BY <1>1, <1>2 DEF DbOf
  <2> QED
    BY <2>1 DEF DbOf
<1>5. DOMAIN logs' = DOMAIN logs \union {k} /\ logs'[k] = EmptyFile
      /\ \A n \in DOMAIN logs : n # k => logs'[n] = logs[n]
  BY <1>1, Zenon DEF Put
<1>6. /\ vset.next <= vset'.next /\ vset'.next \in Nat /\ db.log <= db'.log /\ db'.log \in Nat
      /\ vset.log <= k /\ k \in Below(k + 1) /\ Below(k) \subseteq Below(k + 1)
  <2>1. db.log \in Below(k)
    BY <1>2
  <2>2. k \in Nat /\ k <= k + 1 /\ k + 1 \in Nat
    BY <1>2
  <2>3. db.log <= k
    BY <2>1, <2>2 DEF Below
  <2>4. k \in Below(k + 1) /\ \A x \in Below(k) : x \in Below(k + 1)
    BY <2>2 DEF Below
  <2>5. vset.log \in Nat
    BY <1>2 DEF NumbersOK, Below
  <2>6. vset.log <= k
    BY <1>2, <2>2, <2>3, <2>5
  <2> QED
    BY <1>3, <1>4, <2>2, <2>3, <2>4, <2>6
<1>7. FilesOK'
  <2>1. PICK b \in Nat : DOMAIN logs \union DOMAIN manifests \union DOMAIN tables \subseteq Below(b)
    BY DEF IInv, FilesOK
  <2>2. PICK c \in Nat : (DOMAIN logs \union DOMAIN manifests \union DOMAIN tables) \union {k} \subseteq Below(c)
    BY <1>2, <2>1, MoreNumbers
  <2>3. (DOMAIN logs \union DOMAIN manifests \union DOMAIN tables)' \subseteq Below(c)
    BY <1>1, <1>5, <2>2
  <2>4. \A n \in DOMAIN logs' : FileOK(logs'[n])
    BY <1>5, EmptyFileOK DEF IInv, FilesOK
  <2> QED
    BY <1>1, <2>3, <2>4 DEF IInv, FilesOK, Updates, ghosts, history
<1>8. ShapesOK'
  BY <1>1, <1>3, <1>4 DEF IInv, ShapesOK
<1>9. CurrentOK' /\ RefusedOK'
  BY <1>1, CurrentKept, RefusedKept DEF IInv, ghosts, history
<1>10. EditOK'
  BY <1>1, <1>2, <1>3, <1>6, EditKept DEF IInv, ghosts, history
<1>11. RunningOK'
  BY <1>1, <1>3, <1>4, RunningKept DEF IInv
<1>12. OpenOK'
  <2>1. NumbersOK'
    BY <1>1, <1>2, <1>3, <1>6, NumbersKept
  <2>2. IsOffset(0)
    <3>1. 0 \in 0 .. BlockSize
      BY FormatAssumption
    <3> QED
      BY <3>1, OffsetSomewhere DEF IsOffset
  <2>3. DOMAIN logs' \subseteq Below(k + 1) /\ vset.manifest \in Below(k + 1)
    BY <1>2, <1>5, <1>6
  <2>4. {} \subseteq Updates' /\ m \subseteq Updates'
    BY <1>1, <1>2 DEF Updates, ghosts, history
  <2> QED
    BY <1>1, <1>2, <1>3, <1>4, <1>5, <1>6, <2>1, <2>2, <2>3, <2>4 DEF OpenOK
<1>13. WriterOK'
  BY <1>1 DEF WriterOK
<1> QED
  BY <1>1, <1>7, <1>8, <1>9, <1>10, <1>11, <1>12, <1>13, Running DEF IInv

-----------------------------------------------------------------------------
(* LogAndApply *)

(* An edit under way: what it is about, and what its MANIFEST holds.       *)
LEMMA EditFacts ==
    ASSUME IInv, apply.stage # "none"
    PROVE  /\ pc \in {"edit", "running"} /\ apply # NoEdit /\ apply = ApplyOf(apply)
           /\ vset = VsetOf(vset) /\ db = DbOf(db)
           /\ NumbersOK /\ vset.next \in Nat
           /\ DOMAIN logs \subseteq Below(vset.next) /\ db.log \in DOMAIN logs /\ db.log \in Nat
           /\ vset.log <= db.log
           /\ vset.manifest \in DOMAIN manifests /\ vset.manifest \in Below(vset.next)
           /\ vset.manifest \in Nat
           /\ db.mem \subseteq Updates /\ db.imm \subseteq Updates /\ IsOffset(db.offset)
<1>1. apply # NoEdit
  BY DEF NoEdit
<1>2. pc \in {"edit", "running"}
  BY <1>1 DEF IInv, DownOK, Quiet
<1>3. OpenOK /\ ShapesOK /\ EditOK
  BY DEF IInv
<1>4. vset.next \in Nat /\ \A x \in Below(vset.next) : x \in Nat
  BY <1>2, <1>3 DEF OpenOK, NumbersOK, Below
<1> QED
  BY <1>1, <1>2, <1>3, <1>4 DEF OpenOK, ShapesOK, EditOK

(* Once its edit is written, a MANIFEST describes the next version. *)
LEMMA EditSound ==
    ASSUME IInv, apply # NoEdit, NEW es, IsList(es), LiveAfter(es) = vset.live,
           NEW T, (vset.live \ apply.edit.del) \union apply.edit.add \subseteq T
    PROVE  Sound(Append(es, apply.edit), vset.manifest, T, damaged)
<1> DEFINE e == apply.edit
<1>1. /\ e.kind = "edit" /\ e.next \in Nat /\ e.log \in Below(e.next)
      /\ (vset.live \ e.del) \union e.add \subseteq Below(e.next)
      /\ vset.manifest < e.next \/ HarmedIn(damaged)
  BY DEF IInv, EditOK, Harmed
<1> HIDE DEF e
<1>2. (LiveAfter(es) \ e.del) \union e.add \subseteq T \intersect Below(e.next)
  BY <1>1 DEF e
<1>3. Sound(Append(es, e), vset.manifest, T, damaged)
  BY <1>1, <1>2, SoundEdit
<1> QED
  BY <1>3 DEF e

LEMMA ApplySynced ==
    ASSUME NEW a, a = ApplyOf(a), NEW b, b = [a EXCEPT !.stage = "synced"]
    PROVE  b = ApplyOf(b) /\ b.stage = "synced" /\ b.kind = a.kind /\ b.edit = a.edit
           /\ b.new = a.new
<1>1. b = [stage |-> "synced", kind |-> a.kind, edit |-> a.edit, new |-> a.new]
  BY DEF ApplyOf
<1> QED
  BY <1>1 DEF ApplyOf

LEMMA ApplyRenamed ==
    ASSUME NEW a, a = ApplyOf(a), NEW x, NEW b, b = [a EXCEPT !.new = x]
    PROVE  b = ApplyOf(b) /\ b.stage = a.stage /\ b.kind = a.kind /\ b.edit = a.edit /\ b.new = x
<1>1. b = [stage |-> a.stage, kind |-> a.kind, edit |-> a.edit, new |-> x]
  BY DEF ApplyOf
<1> QED
  BY <1>1 DEF ApplyOf

LEMMA SyncEditInv ==
    ASSUME IInv, SyncEdit
    PROVE  IInv'
<1> DEFINE n == vset.manifest
           f == SyncFile(manifests[n])
           e == apply.edit
<1>1. /\ apply.stage = "written"
      /\ manifests' = [manifests EXCEPT ![n] = f]
      /\ apply' = [apply EXCEPT !.stage = "synced"]
      /\ UNCHANGED <<logs, tables, current, pc, open, db, vset, writing, ghosts>>
  BY DEF SyncEdit
<1>2. /\ pc \in {"edit", "running"} /\ apply # NoEdit /\ apply = ApplyOf(apply)
      /\ NumbersOK /\ vset.next \in Nat /\ n \in DOMAIN manifests /\ n \in Nat
  BY <1>1, EditFacts
<1>3. apply' = ApplyOf(apply') /\ apply'.stage = "synced" /\ apply'.kind = apply.kind
      /\ apply'.edit = e /\ apply'.new = apply.new
  BY <1>1, <1>2, ApplySynced
<1>4. apply' # NoEdit
  <2>1. apply'.stage = "synced"
    BY <1>3
  <2>2. NoEdit.stage = "none"
    BY DEF NoEdit
  <2> QED
    BY <2>1, <2>2
<1>5. PICK es, s : ManifestOf(manifests[n], Append(es, e), s) /\ IsList(es) /\ LiveAfter(es) = vset.live
  BY <1>2 DEF IInv, EditOK
<1> DEFINE all == Append(es, e)
<1>6. Len(all) = Len(es) + 1
  BY <1>5, ListAppend
<1>7. ManifestOf(f, all, Len(all)) /\ FileOK(f)
  <2>1. ManifestOf(f, all, Len(all))
    BY <1>5, ManifestSync
  <2> QED
    BY <2>1, ManifestFileOK
<1>8. DOMAIN manifests' = DOMAIN manifests /\ manifests'[n] = f
      /\ \A m \in DOMAIN manifests : m # n => manifests'[m] = manifests[m]
  <2> HIDE DEF f, n
  <2> QED
    BY <1>1, <1>2
<1>9. CurrentOK'
  <2>1. CASE current = n
    <3>1. Good(n) \/ current = 0
      BY <1>2, <2>1, Zenon DEF IInv, CurrentOK
    <3>2. CASE current = 0
      BY <1>1, <3>2 DEF CurrentOK
    <3>3. CASE Good(n)
      <4>1. Sound(all, n, DOMAIN tables, damaged)
        BY <1>5, <3>3, GoodHolds DEF Good
      <4>2. GoodFile(f, n, DOMAIN tables, damaged)
        BY <1>5, <4>1, SyncedGood
      <4> HIDE DEF f, n
      <4> QED
        BY <1>1, <1>2, <1>8, <2>1, <4>2 DEF CurrentOK, Good, ghosts, history
    <3> QED
      BY <3>1, <3>2, <3>3
  <2>2. CASE current # n
    <3> HIDE DEF f, n
    <3> QED
      BY <1>1, <1>8, <2>2 DEF IInv, CurrentOK, Good, Harmed, ghosts, history
  <2> QED
    BY <2>1, <2>2
<1> HIDE DEF f
<1>10. ShapesOK'
  BY <1>1 DEF IInv, ShapesOK
<1>11. FilesOK'
  <2>1. \A m \in DOMAIN manifests' : FileOK(manifests'[m])
    BY <1>7, <1>8 DEF IInv, FilesOK
  <2> QED
    BY <1>1, <1>8, <2>1 DEF IInv, FilesOK, Updates, ghosts, history
<1>12. EditOK'
  <2>1. ManifestOf(manifests'[n], Append(es, e), Len(es) + 1)
    BY <1>6, <1>7, <1>8
  <2> HIDE DEF n, e, all
  <2>2. vset' = vset /\ db' = db /\ pc' = pc /\ current' = current /\ damaged' = damaged /\ tables' = tables
    BY <1>1 DEF ghosts, history
  <2>3. \E xs, r :
             /\ ManifestOf(manifests'[vset'.manifest], Append(xs, apply'.edit), r)
             /\ IsList(xs) /\ LiveAfter(xs) = vset'.live
             /\ apply'.stage = "synced" => r = Len(xs) + 1
    BY <1>3, <1>5, <2>1, <2>2 DEF n
  <2>4. EditOK
    BY DEF IInv
  <2> QED
    BY <1>2, <1>3, <2>2, <2>3, <2>4 DEF EditOK, e, Harmed
<1>13. OpenOK' /\ RunningOK' /\ EditingOK'
  <2>1. OpenOK'
    BY <1>1, <1>2, <1>8 DEF IInv, OpenOK, NumbersOK, ghosts, history, Updates
  <2>2. RunningOK'
    BY <1>1, <1>4 DEF IInv, RunningOK
  <2>3. EditingOK'
    BY <1>1, <1>4 DEF IInv, EditingOK
  <2> QED
    BY <2>1, <2>2, <2>3
<1>14. RefusedOK' /\ WriterOK' /\ DownOK' /\ NewDBOK' /\ LogsOK' /\ RepairOK'
  BY <1>1, <1>2 DEF IInv, RefusedOK, WriterOK, DownOK, NewDBOK, LogsOK, RepairOK, Harmed, ghosts, history, Updates
<1> QED
  BY <1>9, <1>10, <1>11, <1>12, <1>13, <1>14 DEF IInv

LEMMA RenameCurrentInv ==
    ASSUME IInv, RenameCurrent
    PROVE  IInv'
<1> DEFINE n == vset.manifest
           e == apply.edit
<1>1. /\ apply.stage = "synced" /\ apply.new
      /\ current' = n
      /\ apply' = [apply EXCEPT !.new = FALSE]
      /\ UNCHANGED <<logs, manifests, tables, pc, open, db, vset, writing, ghosts>>
  BY DEF RenameCurrent
<1>2. /\ pc \in {"edit", "running"} /\ apply # NoEdit /\ apply = ApplyOf(apply)
      /\ NumbersOK /\ vset.next \in Nat /\ n \in DOMAIN manifests /\ n \in Nat
  BY <1>1, EditFacts
<1>3. apply' = ApplyOf(apply') /\ apply'.stage = "synced" /\ apply'.kind = apply.kind
      /\ apply'.edit = e /\ apply'.new = FALSE
  BY <1>1, <1>2, ApplyRenamed
<1>4. apply' # NoEdit
  <2>1. apply'.stage = "synced"
    BY <1>3
  <2>2. NoEdit.stage = "none"
    BY DEF NoEdit
  <2> QED
    BY <2>1, <2>2
<1>5. pc = "edit"
  BY <1>1, <1>2 DEF IInv, EditOK
<1>6. PICK es, s : ManifestOf(manifests[n], Append(es, e), s) /\ IsList(es)
                   /\ LiveAfter(es) = vset.live /\ s = Len(es) + 1
  BY <1>1, <1>2 DEF IInv, EditOK
<1> DEFINE all == Append(es, e)
<1>7. Len(all) = s /\ IsList(all)
  BY <1>6, ListAppend
<1>8. CurrentOK'
  <2>1. (vset.live \ e.del) \union e.add \subseteq DOMAIN tables
    BY <1>2 DEF IInv, EditOK, NumbersOK
  <2>2. Sound(all, n, DOMAIN tables, damaged)
    BY <1>2, <1>6, <2>1, EditSound
  <2>3. SoundFrom(all, s, n, DOMAIN tables, damaged)
    BY <1>7, <2>2, WholeSound
  <2>4. GoodFile(manifests[n], n, DOMAIN tables, damaged)
    BY <1>6, <2>3 DEF GoodFile, Known
  <2> QED
    BY <1>1, <1>2, <2>4 DEF CurrentOK, Good, ghosts, history
<1>9. ShapesOK'
  BY <1>1 DEF IInv, ShapesOK
<1>10. FilesOK'
  BY <1>1, <1>2 DEF IInv, FilesOK, Updates, ghosts, history
<1>11. EditOK'
  <2> HIDE DEF n, e, all
  <2>1. vset' = vset /\ db' = db /\ pc' = pc /\ current' = vset.manifest /\ damaged' = damaged /\ tables' = tables
        /\ manifests' = manifests
    BY <1>1 DEF ghosts, history, n
  <2>2. \E xs, r :
             /\ ManifestOf(manifests'[vset'.manifest], Append(xs, apply'.edit), r)
             /\ IsList(xs) /\ LiveAfter(xs) = vset'.live
             /\ apply'.stage = "synced" => r = Len(xs) + 1
    BY <1>3, <1>6, <2>1 DEF n
  <2>3. EditOK
    BY DEF IInv
  <2> QED
    BY <1>2, <1>3, <2>1, <2>2, <2>3 DEF EditOK, e, Harmed
<1>12. OpenOK' /\ RunningOK' /\ EditingOK'
  <2>1. OpenOK'
    BY <1>1, <1>2 DEF IInv, OpenOK, NumbersOK, ghosts, history, Updates
  <2>2. RunningOK'
    BY <1>1, <1>5 DEF RunningOK
  <2>3. EditingOK'
    BY <1>1, <1>4 DEF IInv, EditingOK
  <2> QED
    BY <2>1, <2>2, <2>3
<1>13. RefusedOK' /\ WriterOK' /\ DownOK' /\ NewDBOK' /\ LogsOK' /\ RepairOK'
  BY <1>1, <1>2 DEF IInv, RefusedOK, WriterOK, DownOK, NewDBOK, LogsOK, RepairOK, Harmed, ghosts, history, Updates
<1> QED
  BY <1>8, <1>9, <1>10, <1>11, <1>12, <1>13 DEF IInv

LEMMA EditFailsInv ==
    ASSUME IInv, EditFails
    PROVE  IInv'
<1>1. /\ apply.stage = "written" /\ apply.kind # "open"
      /\ db' = [db EXCEPT !.failed = TRUE] /\ apply' = NoEdit
      /\ UNCHANGED <<disk, pc, open, vset, writing, history>>
  BY DEF EditFails
<1>2. /\ pc \in {"edit", "running"} /\ apply # NoEdit /\ db = DbOf(db)
  BY <1>1, EditFacts
<1>3. pc = "running"
  BY <1>1, <1>2 DEF IInv, EditOK
<1>4. db' = DbOf(db') /\ db'.failed
      /\ db'.offset = db.offset /\ db'.mem = db.mem /\ db'.imm = db.imm /\ db'.log = db.log
  BY <1>1, <1>2, DbWithFailed
<1>5. FilesOK' /\ CurrentOK' /\ RefusedOK'
  BY <1>1, FilesKept, CurrentKept, RefusedKept DEF disk, history, IInv
<1>6. ShapesOK'
  BY <1>1, <1>4 DEF IInv, ShapesOK
<1>7. EditOK' /\ WriterOK'
  BY <1>1, <1>3 DEF EditOK, IInv, WriterOK, history, Updates
<1>8. OpenOK'
  BY <1>1, <1>3, <1>4 DEF IInv, OpenOK, NumbersOK, disk, history, Updates
<1>9. RunningOK'
  BY <1>1, <1>3, <1>4 DEF IInv, RunningOK, disk
<1>10. pc' = "running"
  BY <1>1, <1>3
<1> QED
  BY <1>5, <1>6, <1>7, <1>8, <1>9, <1>10, Running DEF IInv

LEMMA OpenEditFailsInv ==
    ASSUME IInv, OpenEditFails
    PROVE  IInv'
<1> DEFINE n == vset.manifest
<1>1. /\ apply.stage # "none" /\ apply.kind = "open"
      /\ manifests' = IF apply.new THEN Without(manifests, {n}) ELSE manifests
      /\ apply' = NoEdit
      /\ pc' = "down" /\ open' = NoOpen /\ db' = NoDB /\ vset' = NoVset
      /\ UNCHANGED <<logs, tables, current, writing, history>>
  BY DEF OpenEditFails
<1>2. pc \in {"edit", "running"} /\ apply # NoEdit
  BY <1>1, EditFacts
<1>3. pc = "edit" /\ writing = NoWrite /\ (apply.new => n # current \/ Harmed)
  BY <1>1, <1>2 DEF IInv, EditOK, WriterOK
<1>4. /\ DOMAIN manifests' \subseteq DOMAIN manifests
      /\ \A m \in DOMAIN manifests' : manifests'[m] = manifests[m]
      /\ \A m \in DOMAIN manifests : m # n => m \in DOMAIN manifests'
      /\ apply.new => n \notin DOMAIN manifests'
      /\ ~apply.new => manifests' = manifests
  <2>1. CASE apply.new
    <3>1. manifests' = Without(manifests, {n})
      BY <1>1, <2>1
    <3>2. DOMAIN manifests' = DOMAIN manifests \ {n}
          /\ \A m \in DOMAIN manifests \ {n} : manifests'[m] = manifests[m]
      BY <3>1, Zenon DEF Without
    <3> QED
      BY <2>1, <3>2
  <2>2. CASE ~apply.new
    <3>1. manifests' = manifests
      BY <1>1, <2>2
    <3> QED
      BY <2>2, <3>1
  <2> QED
    BY <2>1, <2>2
<1>5. ShapesOK'
  BY <1>1, NoneShapes DEF ShapesOK
<1>6. FilesOK'
  BY <1>1, <1>4 DEF IInv, FilesOK, history, Updates
<1>7. CurrentOK'
  <2>1. CASE ~apply.new
    BY <1>1, <1>4, <2>1, CurrentKept DEF IInv, history
  <2>2. CASE apply.new /\ n # current
    BY <1>1, <1>4, <2>2 DEF IInv, CurrentOK, Good, Harmed, history
  <2>3. CASE apply.new /\ n = current
    BY <1>1, <1>3, <1>4, <2>3 DEF CurrentOK, Harmed, history
  <2> QED
    BY <2>1, <2>2, <2>3
<1>8. RefusedOK'
  BY <1>1, RefusedKept DEF IInv, history
<1>9. writing' = NoWrite /\ apply' = NoEdit /\ pc' = "down" /\ db' = NoDB
  BY <1>1, <1>3
<1> QED
  BY <1>5, <1>6, <1>7, <1>8, <1>9, Resting DEF IInv

(* The version that is installed, and what is left of the files then.      *)
LEMMA InstalledIs ==
    ASSUME vset = VsetOf(vset)
    PROVE  /\ Installed = VsetOf(Installed)
           /\ Installed.live = (vset.live \ apply.edit.del) \union apply.edit.add
           /\ Installed.log = apply.edit.log /\ Installed.next = vset.next
           /\ Installed.manifest = vset.manifest /\ Installed.open = TRUE
<1> DEFINE l == (vset.live \ apply.edit.del) \union apply.edit.add
           g == apply.edit.log
           o == TRUE
<1>1. Installed = [vset EXCEPT !.live = l, !.log = g, !.open = o]
  BY DEF Installed
<1> HIDE DEF l, g, o
<1>2. Installed = [live |-> l, log |-> g, next |-> vset.next, last |-> vset.last,
                   manifest |-> vset.manifest, open |-> o]
  BY <1>1 DEF VsetOf
<1> QED
  BY <1>2 DEF VsetOf, l, g, o

LEMMA RemovedKeeps ==
    ASSUME NEW v, v = VsetOf(v), RemoveObsoleteFiles(v)
    PROVE  /\ DOMAIN logs' \subseteq DOMAIN logs /\ \A n \in DOMAIN logs' : logs'[n] = logs[n]
           /\ \A n \in DOMAIN logs : ~(n < v.log) => n \in DOMAIN logs'
           /\ DOMAIN manifests' \subseteq DOMAIN manifests
           /\ \A n \in DOMAIN manifests' : manifests'[n] = manifests[n]
           /\ \A n \in DOMAIN manifests : ~(n < v.manifest) => n \in DOMAIN manifests'
           /\ DOMAIN tables' \subseteq DOMAIN tables /\ \A n \in DOMAIN tables' : tables'[n] = tables[n]
           /\ \A n \in DOMAIN tables : n \in v.live => n \in DOMAIN tables'
<1>1. CASE UNCHANGED <<logs, manifests, tables>>
  BY <1>1
<1>2. CASE Removed(v)
  <2> DEFINE L == Obsolete(v).logs
             M == Obsolete(v).manifests
             T == Obsolete(v).tables
  <2>1. logs' = Without(logs, L) /\ manifests' = Without(manifests, M) /\ tables' = Without(tables, T)
    BY <1>2 DEF Removed
  <2>2. L = {n \in DOMAIN logs : n < v.log} /\ M = {n \in DOMAIN manifests : n < v.manifest}
        /\ T = DOMAIN tables \ v.live
    BY DEF Obsolete
  <2> HIDE DEF L, M, T
  <2>3. DOMAIN logs' = DOMAIN logs \ L /\ \A n \in DOMAIN logs \ L : logs'[n] = logs[n]
    BY <2>1, Zenon DEF Without
  <2>4. DOMAIN manifests' = DOMAIN manifests \ M /\ \A n \in DOMAIN manifests \ M : manifests'[n] = manifests[n]
    BY <2>1, Zenon DEF Without
  <2>5. DOMAIN tables' = DOMAIN tables \ T /\ \A n \in DOMAIN tables \ T : tables'[n] = tables[n]
    BY <2>1, Zenon DEF Without
  <2> QED
    BY <2>2, <2>3, <2>4, <2>5
<1> QED
  BY <1>1, <1>2 DEF RemoveObsoleteFiles, NotRemoved

LEMMA InstallEditInv ==
    ASSUME IInv, InstallEdit
    PROVE  IInv'
<1> DEFINE n == vset.manifest
           e == apply.edit
           live == (vset.live \ e.del) \union e.add
<1>1. /\ apply.stage = "synced" /\ ~apply.new
      /\ vset' = Installed /\ apply' = NoEdit
      /\ RemoveObsoleteFiles(vset')
      /\ db' = IF apply.kind = "flush" THEN [db EXCEPT !.imm = {}] ELSE db
      /\ pc' = "running"
      /\ UNCHANGED <<current, open, writing, history>>
  BY DEF InstallEdit
<1>2. /\ pc \in {"edit", "running"} /\ apply # NoEdit
      /\ vset = VsetOf(vset) /\ db = DbOf(db)
      /\ NumbersOK /\ vset.next \in Nat
      /\ DOMAIN logs \subseteq Below(vset.next) /\ db.log \in DOMAIN logs /\ db.log \in Nat
      /\ n \in DOMAIN manifests /\ n \in Below(vset.next) /\ n \in Nat
      /\ db.mem \subseteq Updates /\ db.imm \subseteq Updates /\ IsOffset(db.offset)
  BY <1>1, EditFacts
<1>3. /\ e.add \subseteq DOMAIN tables /\ e.next \in Nat /\ e.next <= vset.next
      /\ e.log \in Below(e.next) /\ e.log <= db.log /\ live \subseteq Below(e.next)
      /\ n = current
  BY <1>1, <1>2 DEF IInv, EditOK
<1>4. PICK es, s : ManifestOf(manifests[n], Append(es, e), s) /\ IsList(es)
                   /\ LiveAfter(es) = vset.live /\ s = Len(es) + 1
  BY <1>1, <1>2 DEF IInv, EditOK
<1> DEFINE all == Append(es, e)
<1>5. Len(all) = s /\ IsList(all) /\ LiveAfter(all) = live
  BY <1>4, ListAppend, LiveAppend
<1>6. vset' = VsetOf(vset') /\ vset'.live = live /\ vset'.log = e.log /\ vset'.next = vset.next
      /\ vset'.manifest = n /\ vset'.open = TRUE
  BY <1>1, <1>2, InstalledIs
<1>7. db' = DbOf(db') /\ db'.mem = db.mem /\ db'.imm \subseteq Updates /\ db'.log = db.log
      /\ db'.offset = db.offset
  <2>1. CASE apply.kind = "flush"
    <3>1. db' = [db EXCEPT !.imm = {}]
      BY <1>1, <2>1
    <3> QED
      BY <1>2, <3>1, DbWithImm
  <2>2. CASE apply.kind # "flush"
    BY <1>1, <1>2, <2>2
  <2> QED
    BY <2>1, <2>2
<1> DEFINE v == vset'
<1>8. /\ DOMAIN logs' \subseteq DOMAIN logs /\ \A m \in DOMAIN logs' : logs'[m] = logs[m]
      /\ \A m \in DOMAIN logs : ~(m < v.log) => m \in DOMAIN logs'
      /\ DOMAIN manifests' \subseteq DOMAIN manifests
      /\ \A m \in DOMAIN manifests' : manifests'[m] = manifests[m]
      /\ \A m \in DOMAIN manifests : ~(m < v.manifest) => m \in DOMAIN manifests'
      /\ DOMAIN tables' \subseteq DOMAIN tables /\ \A m \in DOMAIN tables' : tables'[m] = tables[m]
      /\ \A m \in DOMAIN tables : m \in v.live => m \in DOMAIN tables'
  <2> HIDE DEF v
  <2>1. v = VsetOf(v) /\ RemoveObsoleteFiles(v)
    BY <1>1, <1>6 DEF v
  <2> QED
    BY <2>1, RemovedKeeps
<1>9. n \in DOMAIN manifests' /\ manifests'[n] = manifests[n] /\ db.log \in DOMAIN logs'
  <2>1. ~(n < n)
    BY <1>2
  <2>2. ~(db.log < e.log)
    BY <1>2, <1>3 DEF Below
  <2> QED
    BY <1>2, <1>6, <1>8, <2>1, <2>2
<1>10. live \subseteq DOMAIN tables'
  BY <1>2, <1>3, <1>6, <1>8 DEF NumbersOK
<1>11. CurrentOK'
  <2>1. Sound(all, n, DOMAIN tables', damaged)
    BY <1>2, <1>4, <1>10, EditSound
  <2>2. SoundFrom(all, s, n, DOMAIN tables', damaged)
    BY <1>5, <2>1, WholeSound
  <2>3. GoodFile(manifests[n], n, DOMAIN tables', damaged)
    BY <1>4, <2>2 DEF GoodFile, Known
  <2> QED
    BY <1>1, <1>3, <1>9, <2>3 DEF CurrentOK, Good, history
<1> HIDE DEF live, e
<1>12. ShapesOK'
  BY <1>1, <1>6, <1>7 DEF IInv, ShapesOK
<1>13. FilesOK'
  BY <1>1, <1>8 DEF IInv, FilesOK, Updates, history
<1>14. NumbersOK' /\ vset'.log <= db'.log
  <2>1. e.log \in Below(vset.next) /\ live \subseteq Below(vset.next)
    <3>1. \A x \in Below(e.next) : x \in Below(vset.next)
      BY <1>2, <1>3 DEF Below
    <3> QED
      BY <1>3, <3>1
  <2> QED
    BY <1>2, <1>3, <1>6, <1>7, <1>10, <2>1 DEF NumbersOK
<1>15. OpenOK'
  <2>1. db.mem \subseteq Updates' /\ db'.imm \subseteq Updates'
    BY <1>1, <1>2, <1>7 DEF Updates, history
  <2>2. DOMAIN logs' \subseteq Below(vset.next)
    BY <1>2, <1>8
  <2> QED
    BY <1>2, <1>6, <1>7, <1>9, <1>14, <2>1, <2>2 DEF OpenOK
<1>16. RunningOK'
  <2>1. ManifestOf(manifests'[n], all, Len(all)) /\ LiveAfter(all) = vset'.live
    BY <1>4, <1>5, <1>6, <1>9
  <2> HIDE DEF all
  <2> QED
    BY <1>1, <1>3, <1>6, <2>1 DEF RunningOK
<1>17. RefusedOK' /\ EditOK' /\ WriterOK'
  BY <1>1, RefusedKept DEF IInv, EditOK, WriterOK, history, Updates
<1> QED
  BY <1>1, <1>11, <1>12, <1>13, <1>15, <1>16, <1>17, Running DEF IInv

-----------------------------------------------------------------------------
(* The background thread *)

LEMMA EditIs ==
    ASSUME NEW add, NEW del, NEW log, NEW next, NEW last, NEW e, e = Edit(add, del, log, next, last)
    PROVE  e.kind = "edit" /\ e.add = add /\ e.del = del /\ e.log = log /\ e.next = next
           /\ e.last = last
  BY DEF Edit

(* A table, and the edit that names it, behind the edits of this MANIFEST. *)
LEMMA BuildTableInv ==
    ASSUME IInv, MayWork, NEW updates, updates \subseteq Updates \union {Garbage},
           NEW del, NEW log \in Nat, log \in Below(vset.next), log <= db.log,
           NEW kind, kind # "open",
           BuildTable(updates, del, log, kind),
           UNCHANGED <<logs, current, pc, open, db, writing, ghosts>>
    PROVE  IInv'
<1> DEFINE n == vset.manifest
           k == vset.next
           v == [vset EXCEPT !.next = @ + 1]
           e == Edit({k}, del, log, v.next, v.last)
           f == ManifestWith(manifests[n], e)
<1>1. /\ pc = "running" /\ ~db.failed /\ apply = NoEdit
  BY DEF MayWork
<1>2. /\ vset = VsetOf(vset) /\ db = DbOf(db)
      /\ NumbersOK /\ k \in Nat
      /\ DOMAIN logs \subseteq Below(k) /\ db.log \in DOMAIN logs /\ db.log \in Nat
      /\ vset.log <= db.log
      /\ n \in DOMAIN manifests /\ n \in Below(k) /\ n \in Nat
      /\ db.mem \subseteq Updates /\ db.imm \subseteq Updates /\ IsOffset(db.offset)
      /\ n = current /\ vset.open
  BY <1>1, RunningFacts
<1>3. v = VsetOf(v) /\ v.live = vset.live /\ v.log = vset.log /\ v.next = k + 1 /\ v.manifest = n
      /\ v.open = vset.open /\ v.last = vset.last
  <2> DEFINE x == k + 1
             w == v
  <2>0. vset = VsetOf(vset)
    BY <1>2
  <2>1. w = [vset EXCEPT !.next = x]
    OBVIOUS
  <2> HIDE DEF x, w
  <2>2. w = VsetOf(w) /\ w.live = vset.live /\ w.log = vset.log /\ w.next = x
        /\ w.manifest = vset.manifest /\ w.open = vset.open /\ w.last = vset.last
    BY <2>0, <2>1, VsetWithNext
  <2> QED
    BY <2>2 DEF w, x
<1>4. /\ tables' = Put(tables, k, updates) /\ vset' = v
      /\ WriteEdit(v, e, kind)
  BY DEF BuildTable
<1> HIDE DEF v
<1>5. /\ manifests' = Put(manifests, n, f)
      /\ apply' = [stage |-> "written", kind |-> kind, edit |-> e, new |-> FALSE]
  BY <1>2, <1>3, <1>4 DEF WriteEdit
<1>6. e.kind = "edit" /\ e.add = {k} /\ e.del = del /\ e.log = log /\ e.next = k + 1
  BY <1>3, EditIs
<1>7. PICK es : ManifestOf(manifests[n], es, Len(es)) /\ LiveAfter(es) = vset.live
  BY <1>1 DEF IInv, RunningOK
<1>8. IsList(es) /\ Len(es) \in Nat /\ Len(es) \in 0 .. Len(es)
  BY <1>7, ManifestTyped
<1> HIDE DEF e
<1>9. ManifestOf(f, Append(es, e), Len(es)) /\ FileOK(f)
  <2>1. ManifestOf(f, Append(es, e), Len(es))
    BY <1>7, ManifestAppend
  <2> QED
    BY <2>1, ManifestFileOK
<1> HIDE DEF f
<1>10. DOMAIN tables' = DOMAIN tables \union {k} /\ tables'[k] = updates
       /\ \A t \in DOMAIN tables : t # k => tables'[t] = tables[t]
  BY <1>4, Zenon DEF Put
<1>11. DOMAIN manifests' = DOMAIN manifests \union {n} /\ manifests'[n] = f
       /\ \A m \in DOMAIN manifests : m # n => manifests'[m] = manifests[m]
  BY <1>5, Zenon DEF Put
<1>12. k + 1 \in Nat /\ k \in Below(k + 1) /\ Below(k) \subseteq Below(k + 1) /\ n < k + 1
       /\ k <= k + 1
  <2>1. \A x \in Below(k) : x \in Below(k + 1) /\ x < k + 1
    BY <1>2 DEF Below
  <2> QED
    BY <1>2, <2>1 DEF Below
<1>13. (vset.live \ e.del) \union e.add \subseteq DOMAIN tables' \intersect Below(k + 1)
  BY <1>2, <1>6, <1>10, <1>12 DEF NumbersOK
<1>14. log \in Below(k + 1)
  BY <1>12
<1>15. CurrentOK'
  <2>1. CASE current = 0
    BY <2>1 DEF CurrentOK
  <2>2. CASE current # 0
    <3>1. Good(n)
      BY <1>2, <2>2, Zenon DEF IInv, CurrentOK
    <3>2. Sound(es, n, DOMAIN tables, damaged)
      BY <1>7, <3>1, GoodHolds DEF Good
    <3>3. Sound(es, n, DOMAIN tables', damaged)
      <4>1. DOMAIN tables \subseteq DOMAIN tables' /\ damaged \subseteq damaged
        BY <1>10
      <4> QED
        BY <3>2, <4>1, SoundKept
    <3>4. SoundFrom(es, Len(es), n, DOMAIN tables', damaged)
      BY <1>8, <3>3, WholeSound
    <3>5. Sound(Append(es, e), n, DOMAIN tables', damaged)
      <4>1. (LiveAfter(es) \ e.del) \union e.add \subseteq DOMAIN tables' \intersect Below(e.next)
        BY <1>6, <1>7, <1>13
      <4>2. e.next \in Nat /\ e.log \in Below(e.next) /\ n < e.next
        BY <1>6, <1>12, <1>14
      <4> QED
        BY <1>6, <1>8, <4>1, <4>2, SoundEdit
    <3>6. SoundFrom(Append(es, e), Len(es), n, DOMAIN tables', damaged)
      BY <1>8, <3>4, <3>5, MoreSound
    <3>7. GoodFile(f, n, DOMAIN tables', damaged)
      BY <1>9, <3>6 DEF GoodFile, Known
    <3> QED
      BY <1>2, <1>11, <3>7 DEF CurrentOK, Good, ghosts, history
  <2> QED
    BY <2>1, <2>2
<1>16. ShapesOK'
  BY <1>3, <1>4 DEF IInv, ShapesOK
<1>17. FilesOK'
  <2> DEFINE S == DOMAIN logs \union DOMAIN manifests \union DOMAIN tables
  <2>1. PICK b \in Nat : S \subseteq Below(b)
    BY DEF IInv, FilesOK
  <2>0. k \in Nat
    BY <1>2
  <2>2. PICK c \in Nat : S \union {k} \subseteq Below(c)
    <3> HIDE DEF S, k
    <3> QED
      BY <2>0, <2>1, MoreNumbers
  <2>3. (DOMAIN logs \union DOMAIN manifests \union DOMAIN tables)' \subseteq Below(c)
    BY <1>2, <1>10, <1>11, <2>2
  <2>4. \A m \in DOMAIN manifests' : FileOK(manifests'[m])
    BY <1>9, <1>11 DEF IInv, FilesOK
  <2>5. \A t \in DOMAIN tables' : tables'[t] \subseteq Updates \union {Garbage}
    BY <1>10 DEF IInv, FilesOK
  <2> QED
    BY <2>3, <2>4, <2>5 DEF IInv, FilesOK, Updates, ghosts, history
<1>18. vset'.live = vset.live /\ vset'.log = vset.log /\ vset'.next = k + 1 /\ vset'.manifest = n
       /\ vset'.open
  BY <1>2, <1>3, <1>4
<1>19. EditOK'
  <2>1. apply' = ApplyOf(apply') /\ apply'.stage = "written" /\ apply'.kind = kind
        /\ apply'.edit = e /\ apply'.new = FALSE
    BY <1>5 DEF ApplyOf
  <2>2. e.add \subseteq DOMAIN tables'
    BY <1>6, <1>10
  <2>3. e.next \in Nat /\ e.next <= vset'.next /\ e.log \in Below(e.next) /\ e.log <= db'.log
    BY <1>6, <1>12, <1>14, <1>18
  <2>4. (vset'.live \ e.del) \union e.add \subseteq Below(e.next) /\ vset'.manifest < e.next
    BY <1>6, <1>12, <1>13, <1>18
  <2>5. \E xs, s : /\ ManifestOf(manifests'[n], Append(xs, e), s) /\ IsList(xs)
                   /\ LiveAfter(xs) = vset'.live
                   /\ apply'.stage = "synced" => s = Len(xs) + 1
    BY <1>7, <1>8, <1>9, <1>11, <1>18, <2>1
  <2> QED
    BY <1>1, <1>2, <1>6, <1>18, <2>1, <2>2, <2>3, <2>4, <2>5 DEF EditOK
<1>20. OpenOK'
  <2>1. NumbersOK'
    BY <1>2, <1>10, <1>12, <1>18, NumbersKept
  <2>2. DOMAIN logs' \subseteq Below(k + 1) /\ n \in Below(k + 1)
    BY <1>2, <1>12
  <2> QED
    BY <1>2, <1>11, <1>18, <2>1, <2>2 DEF OpenOK, Updates, ghosts, history
<1>21. RunningOK'
  <2>1. apply' # NoEdit
    <3>1. apply'.stage = "written" /\ NoEdit.stage = "none"
      BY <1>5 DEF NoEdit
    <3> QED
      BY <3>1
  <2> QED
    BY <1>2, <1>18, <2>1 DEF RunningOK
<1>22. RefusedOK' /\ WriterOK'
  BY <1>1, RefusedKept DEF IInv, WriterOK, ghosts, history, Updates
<1>23. pc' = "running"
  BY <1>1
<1> QED
  BY <1>15, <1>16, <1>17, <1>19, <1>20, <1>21, <1>22, <1>23, Running DEF IInv

LEMMA CompactMemTableInv ==
    ASSUME IInv, CompactMemTable
    PROVE  IInv'
<1>1. /\ MayWork /\ BuildTable(db.imm, {}, db.log, "flush")
      /\ UNCHANGED <<logs, current, pc, open, db, writing, ghosts>>
  BY DEF CompactMemTable, LogAfterFlush
<1>2. pc = "running"
  BY <1>1 DEF MayWork
<1>3. db.log \in Below(vset.next) /\ db.log \in Nat /\ db.log <= db.log /\ db.imm \subseteq Updates
  BY <1>2, RunningFacts
<1>4. db.imm \subseteq Updates \union {Garbage} /\ "flush" # "open"
  BY <1>3
<1> QED
  BY <1>1, <1>3, <1>4, BuildTableInv

LEMMA CompactInv ==
    ASSUME IInv, Compact
    PROVE  IInv'
<1> DEFINE u == UNION {tables[t] : t \in vset.live}
<1>1. /\ MayWork /\ BuildTable(u, vset.live, vset.log, "compaction")
      /\ UNCHANGED <<logs, current, pc, open, db, writing, ghosts>>
  BY DEF Compact
<1>2. pc = "running"
  BY <1>1 DEF MayWork
<1>3. NumbersOK /\ vset.log <= db.log /\ vset.next \in Nat
  BY <1>2, RunningFacts
<1>4. vset.log \in Below(vset.next) /\ vset.log \in Nat
  BY <1>3 DEF NumbersOK, Below
<1>5. u \subseteq Updates \union {Garbage}
  <2>1. \A t \in vset.live : tables[t] \subseteq Updates \union {Garbage}
    BY <1>3 DEF NumbersOK, IInv, FilesOK
  <2> QED
    BY <2>1
<1>6. "compaction" # "open"
  OBVIOUS
<1> HIDE DEF u
<1> QED
  BY <1>1, <1>3, <1>4, <1>5, <1>6, BuildTableInv

-----------------------------------------------------------------------------
(* Crashes and RepairDB *)

LEMMA LoseLogTailInv ==
    ASSUME IInv, LoseLogTail
    PROVE  IInv'
<1> DEFINE n == Min(Unsynced(logs))
<1>1. PICK cells : /\ logs' = WithTail(logs, n, cells)
                   /\ \E loss \in Losses : cells \in Tails(logs[n], loss)
  BY DEF LoseLogTail
<1> DEFINE f == [cells |-> cells, synced |-> Len(cells)]
<1>2. /\ pc = "halted" /\ Unsynced(logs) # {}
      /\ pc' \in {"down", "halted"}
      /\ UNCHANGED <<manifests, tables, current, open, db, vset, writing, apply, ghosts>>
  BY DEF LoseLogTail, AfterLoss
<1>3. n \in DOMAIN logs
  <2>1. Unsynced(logs) \subseteq DOMAIN logs /\ DOMAIN logs \subseteq Nat
    BY DEF Unsynced, IInv, FilesOK, Below
  <2>2. Min(Unsynced(logs)) \in Unsynced(logs)
    BY <1>2, <2>1, MinIs
  <2> QED
    BY <2>1, <2>2
<1>4. FileOK(f)
  <2>1. FileOK(logs[n])
    BY <1>3 DEF IInv, FilesOK
  <2>2. PICK loss : cells \in Tails(logs[n], loss)
    BY <1>1
  <2> QED
    BY <2>1, <2>2, LostFileOK
<1>5. logs' = [logs EXCEPT ![n] = f]
  BY <1>1 DEF WithTail
<1> HIDE DEF f, n
<1>6. Updates \subseteq Updates' /\ writes' \in Seq(ToSet(writes'))
  BY <1>2 DEF Updates, IInv, FilesOK, ghosts, history
<1>7. FilesOK'
  BY <1>2, <1>3, <1>4, <1>5, <1>6, LogChanged DEF IInv
<1>8. ShapesOK'
  BY <1>2 DEF IInv, ShapesOK
<1>9. CurrentOK' /\ RefusedOK'
  BY <1>2, CurrentKept, RefusedKept DEF IInv, ghosts, history
<1>10. apply' = NoEdit /\ writing' = NoWrite /\ db' = NoDB
  BY <1>2 DEF IInv, DownOK, Quiet
<1> QED
  BY <1>2, <1>7, <1>8, <1>9, <1>10, Resting DEF IInv

(* What the crash leaves of a good MANIFEST is a good one. *)
LEMMA LostIsGood ==
    ASSUME NEW f, NEW n, NEW T, NEW C, GoodFile(f, n, T, C), f.synced # Len(f.cells),
           NEW loss, NEW cells \in Tails(f, loss), NEW D, C \subseteq D,
           loss = "cut" \/ cells = f.cells \/ HarmedIn(D)
    PROVE  GoodFile([cells |-> cells, synced |-> Len(cells)], n, T, D)
<1> DEFINE g == [cells |-> cells, synced |-> Len(cells)]
<1>1. PICK es, s : Known(f, es, s, C) /\ SoundFrom(es, s, n, T, C)
  BY DEF GoodFile
<1>2. ManifestOf(f, es, s)
  BY <1>1, Zenon DEF Known, Settled
<1>3. PICK m \in s .. Len(es) :
        /\ EditsIn(ReadAll(cells, TRUE)) = SubSeq(es, 1, m) /\ Len(cells) \in Nat
        /\ loss = "cut" => ReadAll(cells, TRUE).corrupt = FALSE
  BY <1>2, ManifestLoses
<1> DEFINE xs == SubSeq(es, 1, m)
<1>4. IsList(es) /\ s \in 0 .. Len(es) /\ Len(es) \in Nat
  BY <1>2, ManifestTyped
<1>5. m \in 0 .. Len(es)
  BY <1>3, <1>4
<1>6. IsList(xs) /\ Len(xs) = m
  BY <1>4, <1>5, ListPrefix
<1>7. g.cells = cells /\ g.synced = Len(cells)
  OBVIOUS
<1>8. Sound(xs, n, T, D)
  <2>1. Sound(xs, n, T, C)
    BY <1>1, <1>3 DEF SoundFrom
  <2> QED
    BY <2>1, SoundKept
<1> HIDE DEF xs, g
<1>9. SoundFrom(xs, Len(xs), n, T, D)
  BY <1>6, <1>8, WholeSound
<1>10. EditsIn(ReadAll(g.cells, TRUE)) = xs
  BY <1>3, <1>7, Zenon DEF xs
<1>11. ReadAll(cells, TRUE).corrupt => HarmedIn(D)
  <2>1. ReadAll(f.cells, TRUE).corrupt = FALSE
    BY <1>2, ManifestReads
  <2> QED
    BY <1>3, <2>1
<1>12. Settled(g, xs, D)
  BY <1>6, <1>7, <1>10, <1>11, Zenon DEF Settled
<1>13. GoodFile(g, n, T, D)
  BY <1>9, <1>12, Zenon DEF GoodFile, Known
<1> QED
  BY <1>13 DEF g

LEMMA LoseManifestTailInv ==
    ASSUME IInv, LoseManifestTail
    PROVE  IInv'
<1> DEFINE n == Min(Unsynced(manifests))
<1> DEFINE Left(cells, loss) ==
             /\ loss \in Losses /\ cells \in Tails(manifests[n], loss)
             /\ damaged' = damaged \union IF loss = "zeros" /\ cells # manifests[n].cells
                                          THEN {<<"manifest", n>>} ELSE {}
<1>1. PICK cells :
        /\ manifests' = WithTail(manifests, n, cells)
        /\ n # current => cells = <<>> /\ damaged' = damaged
        /\ n = current => \E loss : Left(cells, loss)
  <2>1. CASE n # current
    BY <2>1 DEF LoseManifestTail
  <2>2. CASE n = current
    BY <2>2 DEF LoseManifestTail
  <2> QED
    BY <2>1, <2>2
<1> DEFINE f == [cells |-> cells, synced |-> Len(cells)]
<1>2. /\ pc = "halted" /\ Unsynced(manifests) # {}
      /\ pc' \in {"down", "halted"}
      /\ UNCHANGED <<logs, tables, current, open, db, vset, writing, apply, writes, refused, sessions,
                     faults>>
  BY DEF LoseManifestTail, AfterLoss
<1>3. n \in DOMAIN manifests /\ manifests[n].synced # Len(manifests[n].cells)
  <2>1. Unsynced(manifests) \subseteq DOMAIN manifests /\ DOMAIN manifests \subseteq Nat
    BY DEF Unsynced, IInv, FilesOK, Below
  <2>2. Min(Unsynced(manifests)) \in Unsynced(manifests)
    BY <1>2, <2>1, MinIs
  <2> HIDE DEF n
  <2>3. n \in Unsynced(manifests)
    BY <2>2 DEF n
  <2>4. manifests[n].synced < Len(manifests[n].cells) /\ FileOK(manifests[n])
    BY <2>1, <2>3 DEF Unsynced, IInv, FilesOK
  <2>5. manifests[n].synced \in Nat
    <3>1. Len(manifests[n].cells) \in Nat /\ manifests[n].synced \in 0 .. Len(manifests[n].cells)
      BY <2>4, ListHolds DEF FileOK
    <3> QED
      BY <3>1
  <2> QED
    BY <2>1, <2>3, <2>4, <2>5
<1> HIDE DEF n
<1>4. FileOK(manifests[n])
  BY <1>3 DEF IInv, FilesOK
<1>5. FileOK(f)
  <2>1. CASE n = current
    <3>1. PICK loss : cells \in Tails(manifests[n], loss)
      BY <1>1, <2>1
    <3> QED
      BY <1>4, <3>1, LostFileOK
  <2>2. CASE n # current
    <3>1. f = EmptyFile
      BY <1>1, <2>2 DEF EmptyFile
    <3> QED
      BY <3>1, EmptyFileOK
  <2> QED
    BY <2>1, <2>2
<1>6. manifests' = [manifests EXCEPT ![n] = f]
  BY <1>1 DEF WithTail
<1>7. DOMAIN manifests' = DOMAIN manifests /\ manifests'[n] = f
      /\ \A m \in DOMAIN manifests : m # n => manifests'[m] = manifests[m]
  <2> HIDE DEF f
  <2> QED
    BY <1>3, <1>6
<1>8. damaged \subseteq damaged'
  <2>1. CASE n = current
    <3>1. PICK loss : Left(cells, loss)
      BY <1>1, <2>1
    <3> QED
      BY <3>1
  <2> QED
    BY <1>1, <2>1
<1>9. CurrentOK'
  <2>1. Harmed => Harmed'
    BY <1>8, HarmedKept DEF Harmed
  <2>2. CASE n = current
    <3>1. CASE current = 0
      BY <1>2, <3>1 DEF CurrentOK
    <3>2. CASE current # 0
      <4>1. GoodFile(manifests[n], n, DOMAIN tables, damaged)
        BY <1>3, <2>2, <3>2, Zenon DEF IInv, CurrentOK, Good
      <4>2. PICK loss : Left(cells, loss)
        BY <1>1, <2>2
      <4>3. loss = "cut" \/ cells = manifests[n].cells \/ HarmedIn(damaged')
        <5> SUFFICES ASSUME loss # "cut", cells # manifests[n].cells PROVE HarmedIn(damaged')
          OBVIOUS
        <5>1. loss = "zeros"
          BY <4>2, RecoveryAssumption
        <5>2. <<"manifest", n>> \in damaged'
          BY <4>2, <5>1
        <5> QED
          BY <5>2 DEF HarmedIn
      <4>4. GoodFile(f, n, DOMAIN tables, damaged')
        BY <1>3, <1>8, <4>1, <4>2, <4>3, LostIsGood
      <4> HIDE DEF f
      <4> QED
        BY <1>2, <1>3, <1>7, <2>2, <4>4 DEF CurrentOK, Good
    <3> QED
      BY <3>1, <3>2
  <2>3. CASE n # current
    <3>1. CASE Good(current)
      <4> HIDE DEF f
      <4>1. current \in DOMAIN manifests' /\ manifests'[current] = manifests[current]
        BY <1>7, <2>3, <3>1 DEF Good
      <4>2. Good(current)'
        BY <1>2, <1>8, <3>1, <4>1, GoodKept DEF Good
      <4> QED
        BY <4>2 DEF CurrentOK
    <3>2. CASE ~Good(current)
      BY <1>2, <1>7, <2>1, <3>2, Zenon DEF IInv, CurrentOK
    <3> QED
      BY <3>1, <3>2
  <2> QED
    BY <2>2, <2>3
<1> HIDE DEF f
<1>10. FilesOK'
  <2>1. \A m \in DOMAIN manifests' : FileOK(manifests'[m])
    BY <1>5, <1>7 DEF IInv, FilesOK
  <2> QED
    BY <1>2, <1>7, <2>1 DEF IInv, FilesOK, Updates
<1>11. ShapesOK'
  BY <1>2 DEF IInv, ShapesOK
<1>12. RefusedOK'
  BY <1>2, <1>8, RefusedKept DEF IInv
<1>13. apply' = NoEdit /\ writing' = NoWrite /\ db' = NoDB
  BY <1>2 DEF IInv, DownOK, Quiet
<1> QED
  BY <1>2, <1>9, <1>10, <1>11, <1>12, <1>13, Resting DEF IInv

LEMMA StartRepairInv ==
    ASSUME IInv, StartRepair
    PROVE  IInv'
<1> DEFINE S == {0} \union DOMAIN logs \union DOMAIN tables
           k == Max(S) + 1
           todo == DOMAIN logs
<1>1. /\ pc = "down" /\ pc' = "repair"
      /\ vset' = [NoVset EXCEPT !.next = k]
      /\ open' = [NoOpen EXCEPT !.todo = todo]
      /\ UNCHANGED <<disk, db, writing, apply, history>>
  BY DEF StartRepair
<1>2. Max(S) \in S /\ Max(S) \in Nat /\ \A i \in S : i <= Max(S)
  <2>1. PICK b \in Nat : DOMAIN logs \union DOMAIN manifests \union DOMAIN tables \subseteq Below(b)
    BY DEF IInv, FilesOK
  <2>2. \A i \in S : i \in 0 .. b
    BY <2>1 DEF Below
  <2>3. S # {}
    OBVIOUS
  <2> HIDE DEF S
  <2>4. S \subseteq 0 .. b
    BY <2>2
  <2>5. Max(S) \in S /\ \A i \in S : i <= Max(S)
    BY <2>3, <2>4, MaxIs
  <2>6. Max(S) \in 0 .. b
    BY <2>2, <2>5
  <2>7. Max(S) \in Nat
    BY <2>6
  <2> QED
    BY <2>5, <2>7
<1>3. k \in Nat \ {0} /\ DOMAIN tables \subseteq Below(k)
  <2> DEFINE m == Max(S)
  <2>1. m \in Nat /\ \A i \in S : i <= m
    BY <1>2
  <2>2. DOMAIN tables \subseteq S /\ DOMAIN tables \subseteq Nat
    BY DEF IInv, FilesOK, Below
  <2> HIDE DEF m, S
  <2>3. \A i \in DOMAIN tables : i \in 0 .. m
    BY <2>1, <2>2
  <2>4. m + 1 \in Nat \ {0} /\ \A i \in DOMAIN tables : i \in 0 .. (m + 1) - 1
    BY <2>1, <2>3
  <2> QED
    BY <2>4 DEF Below, m
<1> HIDE DEF k, todo
<1>4. vset' = VsetOf(vset') /\ vset'.next = k /\ open' = OpenOf(open') /\ open'.todo = todo
  <2>1. vset' = [live |-> {}, log |-> 0, next |-> k, last |-> 0, manifest |-> 0, open |-> FALSE]
    BY <1>1 DEF NoVset
  <2>2. open' = [reuse |-> FALSE, tolerant |-> FALSE, todo |-> todo, add |-> {}, save |-> FALSE,
                 last |-> 0]
    BY <1>1 DEF NoOpen
  <2>3. vset' = VsetOf(vset') /\ vset'.next = k
    BY <2>1 DEF VsetOf
  <2>4. open' = OpenOf(open') /\ open'.todo = todo
    BY <2>2 DEF OpenOf
  <2> QED
    BY <2>3, <2>4
<1>5. ShapesOK'
  BY <1>1, <1>4 DEF IInv, ShapesOK
<1>6. FilesOK' /\ CurrentOK' /\ RefusedOK'
  BY <1>1, FilesKept, CurrentKept, RefusedKept DEF disk, history, IInv
<1>7. apply' = NoEdit /\ writing' = NoWrite /\ db' = NoDB
  BY <1>1 DEF IInv, DownOK, Quiet
<1>8. RepairOK'
  BY <1>1, <1>3, <1>4 DEF RepairOK, disk, todo
<1>9. NewDBOK' /\ DownOK' /\ WriterOK' /\ LogsOK' /\ EditOK' /\ OpenOK' /\ RunningOK' /\ EditingOK'
  BY <1>1, <1>7 DEF NewDBOK, DownOK, Quiet, WriterOK, LogsOK, EditOK, OpenOK, RunningOK, EditingOK
<1> QED
  BY <1>5, <1>6, <1>8, <1>9 DEF IInv

LEMMA RepairLogInv ==
    ASSUME IInv, RepairLog
    PROVE  IInv'
<1> DEFINE n == Min(open.todo)
           ids == {UpdateOf(r) : r \in ToSet(ReadAll(logs[n].cells, FALSE).records)}
           k == vset.next
<1>1. /\ pc = "repair" /\ pc' = "archive"
      /\ tables' = RepairedTable(ids)
      /\ vset' = [vset EXCEPT !.next = k + 1]
      /\ UNCHANGED <<logs, manifests, current, open, db, writing, apply, ghosts>>
  BY DEF RepairLog
<1>2. k \in Nat /\ DOMAIN tables \subseteq Below(k) /\ open.todo \subseteq DOMAIN logs
  BY <1>1 DEF IInv, RepairOK
<1>3. ids \subseteq Updates \union {Garbage}
  BY UpdateIs
<1> HIDE DEF ids, n
<1>4. DOMAIN tables \subseteq DOMAIN tables' /\ DOMAIN tables' \subseteq DOMAIN tables \union {k}
      /\ \A t \in DOMAIN tables' : tables'[t] \subseteq Updates \union {Garbage}
  <2>1. CASE ids = {}
    BY <1>1, <2>1 DEF RepairedTable, IInv, FilesOK
  <2>2. CASE ids # {}
    <3>1. tables' = Put(tables, k, ids)
      BY <1>1, <2>2 DEF RepairedTable
    <3>2. DOMAIN tables' = DOMAIN tables \union {k} /\ tables'[k] = ids
          /\ \A t \in DOMAIN tables : t # k => tables'[t] = tables[t]
      BY <3>1, Zenon DEF Put
    <3> QED
      BY <1>3, <3>2 DEF IInv, FilesOK
  <2> QED
    BY <2>1, <2>2
<1>5. vset' = VsetOf(vset') /\ vset'.next = k + 1
  <2> DEFINE x == k + 1
  <2>1. vset = VsetOf(vset) /\ vset' = [vset EXCEPT !.next = x]
    BY <1>1 DEF IInv, ShapesOK
  <2> HIDE DEF x
  <2>2. vset' = VsetOf(vset') /\ vset'.next = x
    BY <2>1, VsetWithNext
  <2> QED
    BY <2>2 DEF x
<1>6. ShapesOK'
  BY <1>1, <1>5 DEF IInv, ShapesOK
<1>7. k + 1 \in Nat \ {0} /\ DOMAIN tables' \subseteq Below(k + 1)
  <2>1. k \in Below(k + 1) /\ \A x \in Below(k) : x \in Below(k + 1)
    BY <1>2 DEF Below
  <2>2. k + 1 \in Nat \ {0}
    BY <1>2
  <2> QED
    BY <1>2, <1>4, <2>1, <2>2
<1>8. FilesOK'
  <2> DEFINE S == DOMAIN logs \union DOMAIN manifests \union DOMAIN tables
  <2>1. PICK b \in Nat : S \subseteq Below(b)
    BY DEF IInv, FilesOK
  <2>2. PICK c \in Nat : S \union {k} \subseteq Below(c)
    <3> HIDE DEF S, k
    <3>1. k \in Nat
      BY <1>2
    <3> QED
      BY <2>1, <3>1, MoreNumbers
  <2>3. (DOMAIN logs \union DOMAIN manifests \union DOMAIN tables)' \subseteq Below(c)
    BY <1>1, <1>4, <2>2
  <2> QED
    BY <1>1, <1>4, <2>3 DEF IInv, FilesOK, Updates, ghosts, history
<1>9. CurrentOK' /\ RefusedOK'
  BY <1>1, <1>4, CurrentKept, RefusedKept DEF IInv, ghosts, history
<1>10. apply' = NoEdit /\ writing' = NoWrite /\ db' = NoDB
  BY <1>1 DEF IInv, DownOK, Quiet
<1>11. RepairOK'
  BY <1>1, <1>2, <1>5, <1>7 DEF RepairOK
<1>12. NewDBOK' /\ DownOK' /\ WriterOK' /\ LogsOK' /\ EditOK' /\ OpenOK' /\ RunningOK' /\ EditingOK'
  BY <1>1, <1>10 DEF NewDBOK, DownOK, Quiet, WriterOK, LogsOK, EditOK, OpenOK, RunningOK, EditingOK
<1> QED
  BY <1>6, <1>8, <1>9, <1>11, <1>12 DEF IInv

LEMMA ArchiveLogInv ==
    ASSUME IInv, ArchiveLog
    PROVE  IInv'
<1> DEFINE n == Min(open.todo)
           todo == open.todo \ {n}
<1>1. /\ pc = "archive" /\ pc' = "repair"
      /\ logs' = Without(logs, {n})
      /\ open' = [open EXCEPT !.todo = todo]
      /\ UNCHANGED <<manifests, tables, current, db, vset, writing, apply, ghosts>>
  BY DEF ArchiveLog
<1> HIDE DEF n
<1>2. DOMAIN logs' = DOMAIN logs \ {n} /\ \A m \in DOMAIN logs \ {n} : logs'[m] = logs[m]
  BY <1>1, Zenon DEF Without
<1>3. open' = OpenOf(open') /\ open'.todo = todo
  <2> DEFINE x == todo
  <2>1. open = OpenOf(open) /\ open' = [open EXCEPT !.todo = x]
    BY <1>1 DEF IInv, ShapesOK
  <2> HIDE DEF x
  <2>2. open' = [reuse |-> open.reuse, tolerant |-> open.tolerant, todo |-> x, add |-> open.add,
                 save |-> open.save, last |-> open.last]
    BY <2>1 DEF OpenOf
  <2>3. open' = OpenOf(open') /\ open'.todo = x
    BY <2>2 DEF OpenOf
  <2> QED
    BY <2>3 DEF x
<1>4. ShapesOK'
  BY <1>1, <1>3 DEF IInv, ShapesOK
<1>5. FilesOK'
  <2>1. PICK b \in Nat : DOMAIN logs \union DOMAIN manifests \union DOMAIN tables \subseteq Below(b)
    BY DEF IInv, FilesOK
  <2>2. (DOMAIN logs \union DOMAIN manifests \union DOMAIN tables)' \subseteq Below(b)
    BY <1>1, <1>2, <2>1
  <2>3. \A m \in DOMAIN logs' : FileOK(logs'[m])
    BY <1>2 DEF IInv, FilesOK
  <2> QED
    BY <1>1, <2>2, <2>3 DEF IInv, FilesOK, Updates, ghosts, history
<1>6. CurrentOK' /\ RefusedOK'
  BY <1>1, CurrentKept, RefusedKept DEF IInv, ghosts, history
<1>7. apply' = NoEdit /\ writing' = NoWrite /\ db' = NoDB
  BY <1>1 DEF IInv, DownOK, Quiet
<1>8. RepairOK'
  <2>1. vset.next \in Nat \ {0} /\ DOMAIN tables \subseteq Below(vset.next)
        /\ open.todo \subseteq DOMAIN logs
    BY <1>1 DEF IInv, RepairOK
  <2>2. todo \subseteq DOMAIN logs'
    BY <1>2, <2>1
  <2> QED
    BY <1>1, <1>3, <2>1, <2>2 DEF RepairOK
<1>9. NewDBOK' /\ DownOK' /\ WriterOK' /\ LogsOK' /\ EditOK' /\ OpenOK' /\ RunningOK' /\ EditingOK'
  BY <1>1, <1>7 DEF NewDBOK, DownOK, Quiet, WriterOK, LogsOK, EditOK, OpenOK, RunningOK, EditingOK
<1> QED
  BY <1>4, <1>5, <1>6, <1>8, <1>9 DEF IInv

(* From here on CURRENT may name no file, and a MANIFEST is missed.        *)
LEMMA ArchiveManifestInv ==
    ASSUME IInv, ArchiveManifest
    PROVE  IInv'
<1>1. /\ pc \in {"repair", "manifests"} /\ pc' = "manifests"
      /\ UNCHANGED <<logs, tables, current, open, db, vset, writing, apply, writes, refused, sessions,
                     faults>>
  BY DEF ArchiveManifest, LogsConverted
<1>2. PICK n \in DOMAIN manifests :
        manifests' = Without(manifests, {n}) /\ damaged' = damaged \union {<<"manifest", n>>}
  BY DEF ArchiveManifest
<1>3. DOMAIN manifests' = DOMAIN manifests \ {n}
      /\ \A m \in DOMAIN manifests \ {n} : manifests'[m] = manifests[m]
  BY <1>2, Zenon DEF Without
<1>4. HarmedIn(damaged') /\ Harmed' /\ damaged \subseteq damaged'
  <2>1. <<"manifest", n>> \in damaged'
    BY <1>2
  <2> QED
    BY <1>2, <2>1 DEF HarmedIn, Harmed
<1>5. CurrentOK'
  <2>1. CASE current = 0
    BY <1>1, <2>1 DEF CurrentOK
  <2>2. CASE current \notin DOMAIN manifests'
    BY <1>1, <1>4, <2>2 DEF CurrentOK
  <2>3. CASE current # 0 /\ current \in DOMAIN manifests'
    <3>1. current \in DOMAIN manifests /\ manifests'[current] = manifests[current]
      BY <1>3, <2>3
    <3>2. Good(current)
      BY <2>3, <3>1 DEF IInv, CurrentOK
    <3>3. Good(current)'
      BY <1>1, <1>4, <2>3, <3>1, <3>2, GoodKept DEF Good
    <3> QED
      BY <3>3 DEF CurrentOK
  <2> QED
    BY <2>1, <2>2, <2>3
<1>6. ShapesOK'
  BY <1>1 DEF IInv, ShapesOK
<1>7. FilesOK'
  <2>1. PICK b \in Nat : DOMAIN logs \union DOMAIN manifests \union DOMAIN tables \subseteq Below(b)
    BY DEF IInv, FilesOK
  <2>2. (DOMAIN logs \union DOMAIN manifests \union DOMAIN tables)' \subseteq Below(b)
    BY <1>1, <1>3, <2>1
  <2>3. \A m \in DOMAIN manifests' : FileOK(manifests'[m])
    BY <1>3 DEF IInv, FilesOK
  <2> QED
    BY <1>1, <2>2, <2>3 DEF IInv, FilesOK, Updates
<1>8. RefusedOK'
  BY <1>1, <1>4, RefusedKept DEF IInv
<1>9. apply' = NoEdit /\ writing' = NoWrite /\ db' = NoDB
  BY <1>1 DEF IInv, DownOK, Quiet
<1>10. RepairOK'
  BY <1>1 DEF IInv, RepairOK
<1>11. NewDBOK' /\ DownOK' /\ WriterOK' /\ LogsOK' /\ EditOK' /\ OpenOK' /\ RunningOK' /\ EditingOK'
  BY <1>1, <1>9 DEF NewDBOK, DownOK, Quiet, WriterOK, LogsOK, EditOK, OpenOK, RunningOK, EditingOK
<1> QED
  BY <1>5, <1>6, <1>7, <1>8, <1>10, <1>11 DEF IInv

LEMMA RenameDescriptorInv ==
    ASSUME IInv, RenameDescriptor
    PROVE  IInv'
<1> DEFINE last == Max({0} \union {Sequence(i) : i \in UNION {tables[t] : t \in DOMAIN tables}})
           e == Edit(DOMAIN tables, {}, 0, vset.next, last)
           f == ManifestWith(EmptyFile, e)
           es == Append(<<>>, e)
<1>1. /\ pc \in {"repair", "manifests"} /\ pc' = "repaired"
      /\ manifests' = [n \in {1} |-> f]
      /\ damaged' = damaged \union {<<"manifest", 1>>}
      /\ UNCHANGED <<logs, tables, current, open, db, vset, writing, apply, writes, refused, sessions,
                     faults>>
  BY DEF RenameDescriptor, LogsConverted, Descriptor
<1>2. vset.next \in Nat \ {0} /\ DOMAIN tables \subseteq Below(vset.next)
  BY <1>1 DEF IInv, RepairOK
<1> HIDE DEF last
<1>3. e.kind = "edit" /\ e.add = DOMAIN tables /\ e.del = {} /\ e.log = 0 /\ e.next = vset.next
  BY EditIs
<1>4. ManifestOf(f, es, 0)
  BY ManifestEmpty, ManifestAppend
<1> HIDE DEF e
<1>5. FileOK(f)
  BY <1>4, ManifestFileOK
<1> HIDE DEF f
<1>6. HarmedIn(damaged') /\ Harmed' /\ damaged \subseteq damaged'
  <2>1. <<"manifest", 1>> \in damaged'
    BY <1>1
  <2> QED
    BY <1>1, <2>1 DEF HarmedIn, Harmed
<1>7. GoodFile(f, 1, DOMAIN tables, damaged')
  <2> DEFINE z == <<>>
             T == DOMAIN tables
             D == damaged'
  <2>1. IsList(z) /\ LiveAfter(z) = {} /\ Len(z) = 0 /\ Numbered(z) = {}
    BY LiveEmpty DEF IsList, Numbered
  <2>2. es = Append(z, e)
    OBVIOUS
  <2>3. HarmedIn(D)
    BY <1>6
  <2> HIDE DEF z, es, D
  <2>4. Sound(z, 1, T, D)
    BY <2>1, <2>3 DEF Sound
  <2>5. SoundFrom(z, 0, 1, T, D)
    <3>1. SoundFrom(z, Len(z), 1, T, D)
      BY <2>1, <2>4, WholeSound
    <3> QED
      BY <2>1, <3>1
  <2>6. Sound(Append(z, e), 1, T, D)
    <3>1. (LiveAfter(z) \ e.del) \union e.add \subseteq T \intersect Below(e.next)
      BY <1>2, <1>3, <2>1
    <3>2. e.next \in Nat /\ e.log \in Below(e.next)
      BY <1>2, <1>3 DEF Below
    <3> QED
      BY <1>3, <2>1, <2>3, <3>1, <3>2, SoundEdit
  <2>7. 0 \in 0 .. Len(z)
    BY <2>1
  <2>8. SoundFrom(es, 0, 1, T, D)
    BY <2>1, <2>2, <2>5, <2>6, <2>7, MoreSound
  <2>9. Known(f, es, 0, D)
    BY <1>4 DEF Known
  <2>10. GoodFile(f, 1, T, D)
    BY <2>8, <2>9 DEF GoodFile
  <2> QED
    BY <2>10 DEF D
<1> HIDE DEF es
<1>8. DOMAIN manifests' = {1} /\ manifests'[1] = f
  BY <1>1
<1>9. Good(1)'
  BY <1>1, <1>7, <1>8 DEF Good
<1>10. CurrentOK'
  BY <1>6, <1>8, <1>9 DEF CurrentOK
<1>11. ShapesOK'
  BY <1>1 DEF IInv, ShapesOK
<1>12. FilesOK'
  <2> DEFINE S == DOMAIN logs \union DOMAIN manifests \union DOMAIN tables
             k == 1
  <2>1. PICK b \in Nat : S \subseteq Below(b)
    BY DEF IInv, FilesOK
  <2>2. PICK c \in Nat : S \union {k} \subseteq Below(c)
    <3>1. k \in Nat
      OBVIOUS
    <3> HIDE DEF S, k
    <3> QED
      BY <2>1, <3>1, MoreNumbers
  <2>3. (DOMAIN logs \union DOMAIN manifests \union DOMAIN tables)' \subseteq Below(c)
    BY <1>1, <1>8, <2>2
  <2>4. \A m \in DOMAIN manifests' : FileOK(manifests'[m])
    BY <1>5, <1>8
  <2> QED
    BY <1>1, <2>3, <2>4 DEF IInv, FilesOK, Updates
<1>13. RefusedOK'
  BY <1>1, <1>6, RefusedKept DEF IInv
<1>14. apply' = NoEdit /\ writing' = NoWrite /\ db' = NoDB
  BY <1>1 DEF IInv, DownOK, Quiet
<1>15. RepairOK'
  BY <1>1, <1>6, <1>9 DEF RepairOK
<1>16. NewDBOK' /\ DownOK' /\ WriterOK' /\ LogsOK' /\ EditOK' /\ OpenOK' /\ RunningOK' /\ EditingOK'
  BY <1>1, <1>14 DEF NewDBOK, DownOK, Quiet, WriterOK, LogsOK, EditOK, OpenOK, RunningOK, EditingOK
<1> QED
  BY <1>10, <1>11, <1>12, <1>13, <1>15, <1>16 DEF IInv

LEMMA RepairCurrentInv ==
    ASSUME IInv, RepairCurrent
    PROVE  IInv'
<1>1. /\ pc = "repaired" /\ pc' = "down" /\ current' = 1 /\ open' = NoOpen /\ vset' = NoVset
      /\ UNCHANGED <<logs, manifests, tables, db, writing, apply, ghosts>>
  BY DEF RepairCurrent
<1>2. Good(1)
  BY <1>1 DEF IInv, RepairOK
<1>3. apply' = NoEdit /\ writing' = NoWrite /\ db' = NoDB
  BY <1>1 DEF IInv, DownOK, Quiet
<1>4. ShapesOK'
  BY <1>1, <1>3, NoneShapes DEF ShapesOK
<1>5. FilesOK'
  BY <1>1 DEF IInv, FilesOK, Updates, ghosts, history
<1>6. CurrentOK'
  BY <1>1, <1>2 DEF CurrentOK, Good, ghosts, history
<1>7. RefusedOK'
  BY <1>1, RefusedKept DEF IInv, ghosts, history
<1> QED
  BY <1>1, <1>3, <1>4, <1>5, <1>6, <1>7, Resting DEF IInv

-----------------------------------------------------------------------------
(* The theorems *)

LEMMA NextInv ==
    ASSUME IInv, Next, ReuseLogs \subseteq {FALSE}
    PROVE  IInv'
<1>1. CASE Open
  BY <1>1, NewDBManifestInv, NewDBCurrentInv, RecoverVersionsInv, RecoverLogFileInv,
     FinishRecoverInv, OpenEditFailsInv DEF Open
<1>2. CASE Run
  BY <1>2, WriteLogInv, WriteLogFailsInv, FinishWriteInv, SyncFailsInv, SwitchMemTableInv,
     CompactMemTableInv, CompactInv, SyncEditInv, RenameCurrentInv, InstallEditInv, EditFailsInv
  DEF Run
<1>3. CASE ProcessEnds
  BY <1>3, StopInv DEF ProcessEnds
<1>4. CASE MachineCrash
  BY <1>4, StopInv DEF MachineCrash
<1> QED
  BY <1>1, <1>2, <1>3, <1>4, LoseLogTailInv, LoseManifestTailInv, StartRepairInv, RepairLogInv,
     ArchiveLogInv, ArchiveManifestInv, RenameDescriptorInv, RepairCurrentInv DEF Next

LEMMA StutterInv ==
    ASSUME IInv, UNCHANGED vars
    PROVE  IInv'
<1>1. UNCHANGED <<logs, manifests, tables, current, pc, open, db, vset, writing, apply,
                  writes, damaged, refused, faults>>
  BY DEF vars, disk, ghosts, history
<1>2. ShapesOK' /\ FilesOK' /\ CurrentOK' /\ RefusedOK'
  BY <1>1, FilesKept, CurrentKept, RefusedKept DEF IInv, ShapesOK
<1>3. DownOK' /\ WriterOK' /\ NewDBOK' /\ RepairOK'
  BY <1>1 DEF IInv, DownOK, Quiet, WriterOK, NewDBOK, Good, RepairOK, Harmed, Updates
<1>4. LogsOK' /\ EditOK' /\ OpenOK' /\ RunningOK' /\ EditingOK'
  BY <1>1 DEF IInv, LogsOK, EditOK, OpenOK, RunningOK, EditingOK, NumbersOK, Harmed, Updates
<1> QED
  BY <1>2, <1>3, <1>4 DEF IInv

LEMMA InvTypes == IInv => TypeOK
<1> SUFFICES ASSUME IInv PROVE TypeOK
  OBVIOUS
<1>1. \A f \in {logs[n] : n \in DOMAIN logs} \union {manifests[n] : n \in DOMAIN manifests} :
         f.synced \in 0 .. Len(f.cells)
  BY DEF IInv, FilesOK, FileOK
<1>2. \A t \in DOMAIN tables : tables[t] \subseteq Updates \union {Garbage}
  BY DEF IInv, FilesOK
<1>3. pc = "running" => /\ db.log \in DOMAIN logs /\ vset.live \subseteq DOMAIN tables
                        /\ current \in DOMAIN manifests /\ current = vset.manifest
                        /\ db.log >= vset.log
                        /\ \A n \in DOMAIN logs \union vset.live : n < vset.next
  <2> SUFFICES ASSUME pc = "running"
               PROVE  /\ db.log \in DOMAIN logs /\ vset.live \subseteq DOMAIN tables
                      /\ current \in DOMAIN manifests /\ current = vset.manifest
                      /\ db.log >= vset.log
                      /\ \A n \in DOMAIN logs \union vset.live : n < vset.next
    OBVIOUS
  <2>1. /\ NumbersOK /\ vset.next \in Nat
        /\ DOMAIN logs \subseteq Below(vset.next) /\ db.log \in DOMAIN logs /\ db.log \in Nat
        /\ vset.log <= db.log /\ vset.manifest \in DOMAIN manifests /\ vset.manifest = current
    BY RunningFacts
  <2>2. vset.live \subseteq DOMAIN tables /\ vset.live \subseteq Below(vset.next) /\ vset.log \in Nat
    BY <2>1 DEF NumbersOK, Below
  <2>3. \A n \in Below(vset.next) : n < vset.next
    BY <2>1 DEF Below
  <2>4. db.log >= vset.log
    BY <2>1, <2>2
  <2> QED
    BY <2>1, <2>2, <2>3, <2>4
<1> QED
  BY <1>1, <1>2, <1>3 DEF TypeOK

LEMMA InvOpens == IInv => OpensAgain
  BY DEF IInv, RefusedOK, OpensAgain, Harmed, HarmedIn

(* What an open database has, it has on the disk, after any crashes and    *)
(* failures: the log that it writes, the tables of its version, and the    *)
(* MANIFEST that CURRENT names, with numbers below the next file's         *)
(* (VersionSet::Recover and LogAndApply, DBImpl::RecoverLogFile,           *)
(* RemoveObsoleteFiles, Repairer), as long as no log is reused.            *)
THEOREM TypeOKAlways == ReuseLogs \subseteq {FALSE} => (Spec => []TypeOK)
<1> SUFFICES ASSUME ReuseLogs \subseteq {FALSE} PROVE Spec => []TypeOK
  OBVIOUS
<1>1. IInv /\ [Next]_vars => IInv'
  BY NextInv, StutterInv
<1> QED
  BY <1>1, InitInv, InvTypes, PTL DEF Spec

(* DB::Open is refused no database that was not damaged: wherever the      *)
(* process ends or the machine crashes, RepairDB included until it         *)
(* archives a MANIFEST, CURRENT names a MANIFEST that VersionSet::Recover  *)
(* reads, however short a crash cuts it (LogTornTail), and no table that   *)
(* it describes was removed, even after RepairDB (LogAndApply,             *)
(* RemoveObsoleteFiles, Repairer), as long as no log is reused.            *)
THEOREM OpensAgainAlways == ReuseLogs \subseteq {FALSE} => (Spec => []OpensAgain)
<1> SUFFICES ASSUME ReuseLogs \subseteq {FALSE} PROVE Spec => []OpensAgain
  OBVIOUS
<1>1. IInv /\ [Next]_vars => IInv'
  BY NextInv, StutterInv
<1> QED
  BY <1>1, InitInv, InvOpens, PTL DEF Spec
=============================================================================
