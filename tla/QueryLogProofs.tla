--------------------------- MODULE QueryLogProofs ---------------------------
(***************************************************************************)
(* The query log: the circular buffer, for every capacity and every        *)
(* sequence of inserts, and the stream of its entries to the clients, for  *)
(* any number of handlers and requests.                                    *)
(***************************************************************************)
EXTENDS LogStream, FiniteSetTheorems, WellFoundedInduction, TLAPS

\* Leaves are for Zenon unless they cite another prover.
USE Zenon

LEMMA SomeCapacity == Capacity \in Nat \ {0}
  BY BufferAssumption

-----------------------------------------------------------------------------
(* Induction over numbers, in a form without operator parameters: a set of *)
(* numbers has a least one, and a set that holds 0 and with a number the   *)
(* next one holds all of them.  With it a loop that is written as a        *)
(* recursive function on 0..n is shown to be defined.                      *)

LEMMA LeastNumber ==
    ASSUME NEW T \in SUBSET Nat, T # {}
    PROVE  \E x \in T : \A y \in T : x <= y
  <1> DEFINE R == OpToRel(<, Nat)
  <1>1. IsWellFoundedOn(R, Nat)
    BY NatLessThanWellFounded, Zenon
  <1>2. \A x, y \in Nat : <<x, y>> \in R <=> x < y
    BY DEF OpToRel
  <1> HIDE DEF R
  <1>3. PICK x \in T : \A y \in T : ~(<<y, x>> \in R)
    BY <1>1, WFMin
  <1>4. ASSUME NEW y \in T PROVE x <= y
    <2>1. x \in Nat /\ y \in Nat /\ ~(<<y, x>> \in R)
      BY <1>3
    <2>2. ~(y < x)
      BY <1>2, <2>1
    <2> QED
      BY SMT, <2>1, <2>2
  <1> QED
    BY <1>4

LEMMA Induction ==
    ASSUME NEW n \in Nat, NEW S, 0 \in S, \A i \in 1..n : i - 1 \in S => i \in S
    PROVE  \A i \in 0..n : i \in S
  <1> DEFINE T == {i \in 0..n : i \notin S}
  <1> SUFFICES ASSUME T # {} PROVE FALSE
    OBVIOUS
  <1>1. T \in SUBSET Nat
    BY SMT
  <1> HIDE DEF T
  <1>2. PICK x \in T : \A y \in T : x <= y
    BY <1>1, LeastNumber
  <1> QED
    BY SMT, <1>2 DEF T

\* A loop of n rounds that starts with a and goes from one of the values in V to
\* the next by the function step.
IsLoop(f, n, V, a, step) ==
    /\ f \in [0..n -> V]
    /\ f[0] = a
    /\ \A i \in 1..n : f[i] = step[<<f[i - 1], i>>]

LEMMA LoopExists ==
    ASSUME NEW V, NEW a \in V, NEW n \in Nat, NEW step \in [V \X (1..n) -> V]
    PROVE  \E f : IsLoop(f, n, V, a, step)
  <1> DEFINE S == {k \in 0..n : \E f : IsLoop(f, k, V, a, step)}
  <1>1. 0 \in S
    <2>1. IsLoop([i \in 0..0 |-> a], 0, V, a, step)
      BY SMT DEF IsLoop
    <2> QED
      BY SMT, <2>1
  <1>2. ASSUME NEW k \in 1..n, k - 1 \in S PROVE k \in S
    <2>1. PICK f : IsLoop(f, k - 1, V, a, step)
      BY <1>2
    <2> DEFINE g == [i \in 0..k |-> IF i = k THEN step[<<f[k - 1], k>>] ELSE f[i]]
    <2>2. f[k - 1] \in V /\ step[<<f[k - 1], k>>] \in V
      BY SMT, <2>1 DEF IsLoop
    <2>3. g \in [0..k -> V] /\ g[0] = a
      BY SMT, <2>1, <2>2 DEF IsLoop
    <2>4. \A i \in 1..k : g[i] = step[<<g[i - 1], i>>]
      BY SMTT(30), <2>1 DEF IsLoop
    <2> HIDE DEF g
    <2>5. IsLoop(g, k, V, a, step)
      BY <2>3, <2>4 DEF IsLoop
    <2> QED
      BY SMT, <2>5
  <1> HIDE DEF S
  <1>3. n \in S
    BY SMT, <1>1, <1>2, Induction
  <1> QED
    BY <1>3 DEF S

-----------------------------------------------------------------------------
(* The buffer.  HoldsLast speaks of what the readers return; the inductive *)
(* invariant says where the items are: before the buffer is full the       *)
(* position counts them, and the item i steps back from the position is    *)
(* the i-th newest.                                                        *)

BufferInv ==
    /\ BufferTypeOK
    /\ length = Least(Len(log), Capacity)
    /\ length < Capacity => position = length
    /\ \A i \in 1..length : buffer[Pos(i)] = log[Len(log) - i + 1]

\* The remainder, where the index passes the end of the buffer at most once.
LEMMA ModOnce ==
    ASSUME NEW c \in Nat \ {0}, NEW x \in 0..2*c-1
    PROVE  x % c = IF x < c THEN x ELSE x - c
  <1>1. CASE x < c
    BY <1>1, SMT
  <1>2. CASE x >= c
    BY <1>2, SMT
  <1> QED
    BY SMT, <1>1, <1>2

\* Wrap is the next slot, and the first one after the last.
LEMMA WrapIs ==
    ASSUME NEW p \in Slots
    PROVE  Wrap(p) = IF p = Capacity - 1 THEN 0 ELSE p + 1
  BY SMT, SomeCapacity, ModOnce DEF Wrap, Slots

LEMMA EmptyLog == << >> \in Seq(Items) /\ Len(<< >>) = 0
  BY SMT

LEMMA BufferInvInit == NewCircularBuffer => BufferInv
  BY SMT, SomeCapacity, EmptyLog DEF NewCircularBuffer, BufferInv, BufferTypeOK, Slots, Least

\* Insert keeps the items in place: the new one is one step back from the new
\* position, and every other one is one step further back than it was.
LEMMA BufferInvInsert ==
    ASSUME BufferInv, NEW item \in Items, InsertItem(item)
    PROVE  BufferInv'
  <1> USE SomeCapacity
  <1>0. /\ position \in Slots /\ length \in 0..Capacity /\ log \in Seq(Items)
        /\ Capacity \in Nat \ {0}
        /\ buffer \in [Slots -> Items \cup {Zero}]
    BY DEF BufferInv, BufferTypeOK
  <1>1. position' = IF position = Capacity - 1 THEN 0 ELSE position + 1
    BY <1>0, WrapIs DEF InsertItem
  <1>2. log' \in Seq(Items) /\ Len(log') = Len(log) + 1 /\ Len(log) \in Nat
    BY SMT, <1>0 DEF InsertItem
  <1>3. length' = Least(Len(log'), Capacity)
    BY SMT, <1>0, <1>2 DEF BufferInv, InsertItem, Least
  <1>4. BufferTypeOK'
    <2>1. buffer' \in [Slots -> Items \cup {Zero}]
      BY <1>0 DEF InsertItem
    <2>2. position' \in Slots
      BY SMT, <1>0, <1>1 DEF Slots
    <2>3. length' \in 0..Capacity
      BY SMT, <1>0 DEF InsertItem
    <2> QED
      BY <2>1, <2>2, <2>3, <1>2 DEF BufferTypeOK
  <1>5. length' < Capacity => position' = length'
    BY SMT, <1>0, <1>1 DEF BufferInv, InsertItem, Slots
  <1>6. ASSUME NEW i \in 1..length'
        PROVE  buffer'[Pos(i)'] = log'[Len(log') - i + 1]
    <2>0. i \in 1..Capacity /\ i <= Len(log) + 1 /\ length <= Len(log)
      BY SMT, <1>0, <1>2, <1>3 DEF Least, BufferInv
    <2>1. CASE i = 1
      <3>1. Pos(1)' = position
        BY SMT, <1>0, <1>1, <2>0, <2>1 DEF Pos, BufferInv, InsertItem, Slots
      <3>2. log'[Len(log')] = item
        BY SMT, <1>0, <1>2 DEF InsertItem
      <3>3. buffer'[position] = item
        BY <1>0 DEF InsertItem
      <3> QED
        BY SMT, <2>1, <3>1, <3>2, <3>3, <1>2
    <2>2. CASE i # 1
      <3>1. i - 1 \in 1..length
        BY SMT, <1>0, <2>2 DEF InsertItem
      <3>2. Pos(i)' = Pos(i - 1) /\ Pos(i - 1) \in Slots /\ Pos(i - 1) # position
        <4>1. length' = (IF length < Capacity THEN length + 1 ELSE length)
          BY DEF InsertItem
        <4>2. CASE length < Capacity
          <5>1. position = length
            BY <4>2 DEF BufferInv
          <5>2. Pos(i - 1) = position - (i - 1)
            BY SMT, <1>0, <3>1, <5>1 DEF Pos, Slots
          <5>3. Pos(i)' = position - (i - 1)
            BY SMT, <1>0, <1>1, <2>0, <2>2, <3>1, <4>1, <4>2, <5>1 DEF Pos, Slots
          <5> QED
            BY SMT, <1>0, <2>0, <2>2, <3>1, <4>2, <5>1, <5>2, <5>3 DEF Slots
        <4>3. CASE length = Capacity
          BY SMT, <1>0, <1>1, <2>0, <2>2, <4>1, <4>3 DEF Pos, Slots
        <4> QED
          BY SMT, <1>0, <4>2, <4>3
      <3>3. buffer'[Pos(i - 1)] = buffer[Pos(i - 1)]
        BY <1>0, <3>2 DEF InsertItem
      <3>4. buffer[Pos(i - 1)] = log[Len(log) - (i - 1) + 1]
        BY <3>1 DEF BufferInv
      <3>5. /\ Len(log') - i + 1 = Len(log) - (i - 1) + 1
            /\ Len(log) - (i - 1) + 1 \in 1..Len(log)
        BY SMT, <1>2, <2>0, <2>2
      <3>6. log'[Len(log) - (i - 1) + 1] = log[Len(log) - (i - 1) + 1]
        BY SMT, <1>0, <3>5 DEF InsertItem
      <3> QED
        BY <3>2, <3>3, <3>4, <3>5, <3>6
    <2> QED
      BY <2>1, <2>2
  <1> QED
    BY <1>3, <1>4, <1>5, <1>6 DEF BufferInv

LEMMA BufferInvNext == BufferInv /\ [BufferNext]_ring => BufferInv'
  <1>1. ASSUME BufferInv, BufferNext PROVE BufferInv'
    BY <1>1, BufferInvInsert DEF BufferNext
  <1>2. ASSUME BufferInv, UNCHANGED ring PROVE BufferInv'
    BY <1>2 DEF BufferInv, BufferTypeOK, ring, Pos
  <1> QED
    BY <1>1, <1>2

\* The items the readers return, by the place in the log: i-th newest, and the
\* k-th from the oldest one that is kept.
LEMMA NewestIs ==
    ASSUME BufferInv, NEW i \in 1..length
    PROVE  Newest[i] = log[Len(log) - i + 1]
  BY DEF BufferInv, Newest

LEMMA OldestIs ==
    ASSUME BufferInv, NEW k \in 1..length
    PROVE  buffer[(Start + k - 1) % Capacity] = log[Len(log) - length + k]
  <1> USE SomeCapacity
  <1>0. /\ position \in Slots /\ length \in 0..Capacity /\ Len(log) \in Nat
        /\ length < Capacity => position = length
    BY SMT DEF BufferInv, BufferTypeOK
  <1> DEFINE i == length - k + 1
  <1>1. i \in 1..length
    BY SMT, <1>0
  <1>2. Start \in 0..Capacity-1 /\ Start + k - 1 \in 0..2*Capacity-1
    BY SMT, <1>0 DEF Start, Slots
  <1>3. (Start + k - 1) % Capacity =
            IF Start + k - 1 < Capacity THEN Start + k - 1 ELSE (Start + k - 1) - Capacity
    <2> DEFINE x == Start + k - 1
    <2>1. x \in 0..2*Capacity-1 /\ Capacity \in Nat \ {0}
      BY <1>2
    <2> HIDE DEF x
    <2>2. x % Capacity = IF x < Capacity THEN x ELSE x - Capacity
      BY <2>1, ModOnce
    <2> QED
      BY <2>2 DEF x
  <1>4. (Start + k - 1) % Capacity = Pos(i)
    <2>1. CASE length < Capacity
      BY SMT, <1>0, <1>3, <2>1 DEF Start, Pos, Slots
    <2>2. CASE length = Capacity
      BY SMT, <1>0, <1>3, <2>2 DEF Start, Pos, Slots
    <2> QED
      BY SMT, <1>0, <2>1, <2>2
  <1>5. Len(log) - i + 1 = Len(log) - length + k
    BY SMT, <1>0
  <1>6. buffer[Pos(i)] = log[Len(log) - i + 1]
    BY <1>1 DEF BufferInv
  <1> QED
    BY <1>4, <1>5, <1>6

LEMMA BufferHoldsLast == BufferInv => HoldsLast
  <1> SUFFICES ASSUME BufferInv PROVE HoldsLast
    OBVIOUS
  <1> USE SomeCapacity
  <1> DEFINE n == Len(log)
             kept == Least(n, Capacity)
  <1>0. /\ n \in Nat /\ kept = length /\ length \in 0..Capacity /\ length <= n
        /\ log \in Seq(Items)
    BY SMT DEF BufferInv, BufferTypeOK, Least
  <1>1. ASSUME NEW count \in 0..Capacity+1
        PROVE  TailOf(count) = [i \in 1..Least(count, kept) |-> log[n - i + 1]]
    <2> DEFINE size == IF count > length THEN length ELSE count
    <2>1. size = Least(count, kept) /\ size \in 0..length
      BY SMT, <1>0 DEF Least
    <2>2. Newest = [i \in 1..length |-> log[n - i + 1]]
      BY NewestIs DEF Newest
    <2>3. SubSeq(Newest, 1, size) = [i \in 1..size |-> Newest[i]]
      BY SMT, <2>1, <1>0
    <2>4. \A i \in 1..size : Newest[i] = log[n - i + 1]
      BY SMT, <1>0, <2>1, <2>2
    <2> HIDE DEF size
    <2>5. SubSeq(Newest, 1, size) = [i \in 1..size |-> log[n - i + 1]]
      BY <2>3, <2>4
    <2> QED
      BY <2>1, <2>5 DEF TailOf, size
  <1>2. ASSUME NEW offset \in 0..Capacity+1, NEW count \in -1..Capacity+1
        PROVE  GetOffset(offset, count) = SubSeq(log, n - kept + offset + 1,
                                                 Least(n - kept + offset + count, n))
    <2> DEFINE a == n - length + offset + 1
               b == Least(n - length + offset + count, n)
    <2>1. CASE offset > length \/ count <= 0
      <3>1. a \in Int /\ b \in Int /\ b < a
        BY SMT, <1>0, <2>1 DEF Least
      <3>2. SubSeq(log, a, b) = << >>
        BY SMT, <3>1, <1>0
      <3> QED
        BY <1>0, <2>1, <3>2 DEF GetOffset
    <2>2. CASE offset <= length /\ count > 0
      <3> DEFINE size == IF count + offset > length THEN length - offset ELSE count
      <3>1. size = b - a + 1 /\ size \in Nat /\ offset + size <= length
            /\ a \in 1..n+1 /\ b \in 0..n
        BY SMT, <1>0, <2>2 DEF Least
      <3>2. \A i \in 1..size : buffer[(Start + offset + i - 1) % Capacity] = log[a + i - 1]
        <4> TAKE i \in 1..size
        <4>1. offset + i \in 1..length /\ n - length + (offset + i) = a + i - 1
          BY SMT, <1>0, <3>1
        <4>2. Start \in Int
          BY SMT, <1>0 DEF Start, BufferInv, BufferTypeOK, Slots
        <4>3. Start + offset + i - 1 = Start + (offset + i) - 1
          BY SMT, <4>1, <4>2, <1>0
        <4> QED
          BY <4>1, <4>3, OldestIs
      <3>3. SubSeq(log, a, b) = [i \in 1..size |-> log[a + i - 1]]
        BY <1>0, <3>1, SMTT(30)
      <3>4. GetOffset(offset, count) = [i \in 1..size |-> buffer[(Start + offset + i - 1) % Capacity]]
        BY SMT, <1>0, <2>2 DEF GetOffset
      <3> HIDE DEF size, a, b
      <3>5. GetOffset(offset, count) = SubSeq(log, a, b)
        BY <3>2, <3>3, <3>4
      <3> QED
        BY <1>0, <3>5 DEF a, b
    <2> QED
      BY SMT, <1>0, <2>1, <2>2
  <1> QED
    BY <1>1, <1>2 DEF HoldsLast

\* The invariant of the buffer: where Insert has put each of the last items.
THEOREM BufferInvariance == BufferSpec => []BufferInv
  BY BufferInvInit, BufferInvNext, PTL DEF BufferSpec

\* BufferTypeOK: the position stays inside the buffer and the length at its capacity.
THEOREM BufferTypeCorrect == BufferSpec => []BufferTypeOK
  <1>1. BufferInv => BufferTypeOK
    BY DEF BufferInv
  <1> QED
    BY <1>1, BufferInvariance, PTL

\* HoldsLast: for every capacity, Tail and GetOffset return the last items of
\* the log for every offset and count.
THEOREM ReadsLast == BufferSpec => []HoldsLast
  BY BufferHoldsLast, BufferInvariance, PTL
-----------------------------------------------------------------------------
(* TailBetween and TailFilter.  Their loops go through the items from the  *)
(* newest one on; after i rounds they have collected what IsRange says of  *)
(* the i newest items.                                                     *)

\* The locals of TailBetween.
Locals == [start : BOOLEAN, res : Seq(Items), break : BOOLEAN]

NoneYet == [start |-> FALSE, res |-> << >>, break |-> FALSE]

LEMMA LogItems ==
    ASSUME BufferInv
    PROVE  /\ length \in Nat /\ length <= Len(log) /\ length = Least(Len(log), Capacity)
           /\ \A i \in 1..length : Newest[i] = At(i) /\ At(i) \in Items
  <1>1. /\ length \in Nat /\ length <= Len(log) /\ length = Least(Len(log), Capacity)
        /\ log \in Seq(Items)
    BY SMT, SomeCapacity DEF BufferInv, BufferTypeOK, Least
  <1>2. ASSUME NEW i \in 1..length
        PROVE  Newest[i] = At(i) /\ At(i) \in Items
    <2>1. Len(log) - i + 1 \in 1..Len(log)
      BY SMT, <1>1
    <2>2. log[Len(log) - i + 1] \in Items
      BY SMT, <1>1, <2>1
    <2> QED
      BY <2>2, NewestIs DEF At
  <1> QED
    BY <1>1, <1>2

LEMMA RoundType ==
    ASSUME NEW p \in Locals, NEW item \in Items, NEW count \in Nat, NEW starts, NEW ends, NEW accepts
    PROVE  Round(p, item, count, starts, ends, accepts) \in Locals
  <1> DEFINE start == p.start \/ item \in starts
             res == IF start /\ item \in accepts THEN Append(p.res, item) ELSE p.res
             break == count > 0 /\ Len(res) = count
  <1>1. start \in BOOLEAN /\ res \in Seq(Items) /\ break \in BOOLEAN
    BY SMT DEF Locals
  <1>2. [start |-> start, res |-> res, break |-> break] \in Locals
    BY <1>1 DEF Locals
  <1>3. [p EXCEPT !.break = TRUE] \in Locals
    BY DEF Locals
  <1> QED
    BY <1>2, <1>3, Zenon DEF Round

\* The locals after each round of TailBetween's loop, the last of which it returns.
IsRun(f, count, starts, ends, accepts) ==
    /\ f \in [0..length -> Locals]
    /\ f[0] = NoneYet
    /\ \A i \in 1..length : f[i] = Round(f[i - 1], At(i), count, starts, ends, accepts)
    /\ TailBetween(count, starts, ends, accepts) = f[length].res

\* TailBetween's loop is defined, and goes on as its body says.
LEMMA BetweenLoop ==
    ASSUME BufferInv, NEW count \in Nat, NEW starts, NEW ends, NEW accepts
    PROVE  \E f : IsRun(f, count, starts, ends, accepts)
  <1> DEFINE Body(g) ==
               [i \in 0..length |->
                 IF i = 0 THEN NoneYet
                 ELSE Round(g[i - 1], Newest[i], count, starts, ends, accepts)]
             step == [x \in Locals \X (1..length) |->
                       Round(x[1], At(x[2]), count, starts, ends, accepts)]
             loop == CHOOSE g : g = Body(g)
  <1>1. NoneYet \in Locals /\ length \in Nat
    BY SMT, LogItems DEF NoneYet, Locals
  <1>2. step \in [Locals \X (1..length) -> Locals]
    BY LogItems, RoundType
  <1>3. \A p \in Locals, i \in 1..length :
           step[<<p, i>>] = Round(p, At(i), count, starts, ends, accepts)
    OBVIOUS
  <1> HIDE DEF step
  <1>4. PICK f : IsLoop(f, length, Locals, NoneYet, step)
    BY <1>1, <1>2, LoopExists
  <1>5. f = Body(f)
    <2>1. \A i \in 1..length :
             f[i] = Round(f[i - 1], Newest[i], count, starts, ends, accepts)
      <3> TAKE i \in 1..length
      <3>1. f[i - 1] \in Locals /\ f[i] = step[<<f[i - 1], i>>]
        BY SMT, <1>1, <1>4 DEF IsLoop
      <3>2. step[<<f[i - 1], i>>] =
                Round(f[i - 1], At(i), count, starts, ends, accepts)
        BY <1>3, <3>1, Zenon
      <3> QED
        BY <3>1, <3>2, LogItems, Zenon
    <2> QED
      BY SMT, <1>1, <1>4, <2>1 DEF IsLoop
  <1>6. loop = Body(loop)
    BY <1>5, Zenon
  <1>7. TailBetween(count, starts, ends, accepts) = loop[length].res
    BY DEF TailBetween, NoneYet
  <1> HIDE DEF loop
  <1>8. loop[0] = NoneYet
    BY SMT, <1>1, <1>6
  <1>9. \A i \in 1..length :
           loop[i] = Round(loop[i - 1], At(i), count, starts, ends, accepts)
    BY SMT, <1>1, <1>6, LogItems
  <1>10. \A i \in 0..length : loop[i] \in Locals
    <2> DEFINE S == {i \in 0..length : loop[i] \in Locals}
    <2>1. 0 \in S
      BY SMT, <1>1, <1>8
    <2>2. \A i \in 1..length : i - 1 \in S => i \in S
      BY SMT, <1>1, <1>9, LogItems, RoundType
    <2> HIDE DEF S
    <2>3. \A i \in 0..length : i \in S
      BY <1>1, <2>1, <2>2, Induction
    <2> QED
      BY <2>3 DEF S
  <1>11. loop \in [0..length -> Locals]
    BY <1>6, <1>10
  <1> QED
    BY <1>7, <1>8, <1>9, <1>11 DEF IsRun

\* Each item in the range adds one to the rank.
LEMMA RankStep ==
    ASSUME NEW starts, NEW ends, NEW accepts, NEW i \in Nat \ {0}
    PROVE  Rank(i, starts, ends, accepts) =
               IF InRange(i, starts, ends, accepts)
               THEN Rank(i - 1, starts, ends, accepts) + 1
               ELSE Rank(i - 1, starts, ends, accepts)
  <1> DEFINE H(n) == {j \in 1..n : InRange(j, starts, ends, accepts)}
  <1>0. \A n : Rank(n, starts, ends, accepts) = Cardinality(H(n))
    BY DEF Rank
  <1>1. IsFiniteSet(H(i - 1))
    <2>1. i - 1 \in Int /\ 1 \in Int /\ H(i - 1) \in SUBSET (1..i-1)
      BY SMT
    <2>2. IsFiniteSet(1..i-1)
      BY <2>1, FS_Interval
    <2> HIDE DEF H
    <2> QED
      BY <2>1, <2>2, FS_Subset
  <1>2. CASE InRange(i, starts, ends, accepts)
    <2>1. H(i) = H(i - 1) \cup {i} /\ i \notin H(i - 1)
      BY SMT, <1>2
    <2> HIDE DEF H
    <2>2. Cardinality(H(i)) = Cardinality(H(i - 1)) + 1
      BY <1>1, <2>1, FS_AddElement
    <2> QED
      BY <1>0, <1>2, <2>2
  <1>3. CASE ~InRange(i, starts, ends, accepts)
    <2>1. H(i) = H(i - 1)
      BY SMT, <1>3
    <2> QED
      BY <1>0, <1>3, <2>1
  <1> QED
    BY <1>2, <1>3

LEMMA RankBounds ==
    ASSUME NEW starts, NEW ends, NEW accepts, NEW n \in Nat
    PROVE  /\ Rank(n, starts, ends, accepts) \in Nat
           /\ n = 0 => Rank(n, starts, ends, accepts) = 0
           /\ \A i \in 1..n : Rank(i, starts, ends, accepts)
                                 \in 0..Rank(n, starts, ends, accepts)
           /\ \A i \in 1..n : InRange(i, starts, ends, accepts)
                                 => Rank(i, starts, ends, accepts) >= 1
  <1> DEFINE H(m) == {j \in 1..m : InRange(j, starts, ends, accepts)}
  <1>1. ASSUME NEW m \in Nat PROVE IsFiniteSet(H(m)) /\ Cardinality(H(m)) \in Nat
    <2>1. 1 \in Int /\ m \in Int /\ H(m) \in SUBSET (1..m)
      BY SMT
    <2>2. IsFiniteSet(1..m)
      BY <2>1, FS_Interval
    <2> HIDE DEF H
    <2>3. IsFiniteSet(H(m))
      BY <2>1, <2>2, FS_Subset
    <2> QED
      BY <2>3, FS_CardinalityType
  <1>2. n = 0 => H(n) = {}
    BY SMT
  <1>3. ASSUME NEW i \in 1..n PROVE H(i) \subseteq H(n) /\ i \in Nat \ {0}
    BY SMT
  <1>4. ASSUME NEW i \in 1..n, InRange(i, starts, ends, accepts) PROVE i \in H(i)
    BY SMT, <1>4
  <1>5. \A m : Rank(m, starts, ends, accepts) = Cardinality(H(m))
    BY DEF Rank
  <1> HIDE DEF H
  <1>6. ASSUME NEW i \in 1..n PROVE Cardinality(H(i)) \in 0..Cardinality(H(n))
    <2>1. Cardinality(H(i)) <= Cardinality(H(n))
      BY <1>1, <1>3, FS_Subset
    <2> QED
      BY SMT, <1>1, <1>3, <2>1
  <1>7. ASSUME NEW i \in 1..n, InRange(i, starts, ends, accepts)
        PROVE  Cardinality(H(i)) >= 1
    <2>1. Cardinality(H(i)) # 0
      BY <1>1, <1>3, <1>4, <1>7, FS_EmptySet
    <2> QED
      BY SMT, <1>1, <1>3, <2>1
  <1>8. n = 0 => Cardinality(H(n)) = 0
    BY <1>2, FS_EmptySet
  <1> QED
    BY SMT, <1>1, <1>5, <1>6, <1>7, <1>8

\* An item in the range that is looked at while the loop still goes on is put at
\* its rank; the others change nothing.
LEMMA RangeGrows ==
    ASSUME NEW count \in Nat, NEW starts, NEW ends, NEW accepts, NEW i \in Nat \ {0},
           NEW res \in Seq(Items), NEW res1 \in Seq(Items), At(i) \in Items,
           IsRange(res, i - 1, count, starts, ends, accepts),
           res1 = IF InRange(i, starts, ends, accepts) /\ ~(count > 0 /\ Len(res) = count)
                  THEN Append(res, At(i)) ELSE res
    PROVE  IsRange(res1, i, count, starts, ends, accepts)
  <1> DEFINE In(k) == InRange(k, starts, ends, accepts)
             R(k) == Rank(k, starts, ends, accepts)
  <1>1. R(i) = IF In(i) THEN R(i - 1) + 1 ELSE R(i - 1)
    BY RankStep, Zenon
  <1>2. R(i - 1) \in Nat /\ \A k \in 1..i-1 : R(k) \in 0..R(i - 1) /\ (In(k) => R(k) >= 1)
    <2>1. i - 1 \in Nat
      BY SMT
    <2> QED
      BY <2>1, RankBounds, Zenon
  <1>3. /\ Len(res) = IF count = 0 THEN R(i - 1) ELSE Least(count, R(i - 1))
        /\ \A k \in 1..i-1 : In(k) /\ R(k) <= Len(res) => res[R(k)] = At(k)
    BY DEF IsRange
  <1> SUFFICES /\ Len(res1) = IF count = 0 THEN R(i) ELSE Least(count, R(i))
               /\ \A k \in 1..i : In(k) /\ R(k) <= Len(res1) => res1[R(k)] = At(k)
    BY DEF IsRange
  <1> HIDE DEF In, R
  <1>4. CASE In(i) /\ ~(count > 0 /\ Len(res) = count)
    <2>1. res1 = Append(res, At(i))
      BY <1>4 DEF In
    <2>2. Len(res) = R(i - 1) /\ R(i) = R(i - 1) + 1
      BY SMT, <1>1, <1>2, <1>3, <1>4 DEF Least
    <2>3. Len(res1) = R(i) /\ res1[R(i)] = At(i)
      BY SMT, <1>2, <2>1, <2>2
    <2>4. Len(res1) = IF count = 0 THEN R(i) ELSE Least(count, R(i))
      BY SMT, <1>2, <1>3, <1>4, <2>2, <2>3 DEF Least
    <2>5. ASSUME NEW k \in 1..i-1, In(k) PROVE res1[R(k)] = At(k)
      <3>1. R(k) \in 1..Len(res)
        BY SMT, <1>2, <2>2, <2>5
      <3>2. res[R(k)] = At(k)
        BY SMT, <1>3, <2>5, <3>1
      <3> QED
        BY SMT, <2>1, <3>1, <3>2
    <2>6. ASSUME NEW k \in 1..i PROVE k = i \/ k \in 1..i-1
      BY SMT
    <2> QED
      BY <2>3, <2>4, <2>5, <2>6
  <1>5. CASE ~In(i)
    <2>1. res1 = res /\ R(i) = R(i - 1)
      BY <1>1, <1>5 DEF In
    <2>2. ASSUME NEW k \in 1..i PROVE k = i \/ k \in 1..i-1
      BY SMT
    <2> QED
      BY <1>3, <1>5, <2>1, <2>2
  <1>6. CASE In(i) /\ count > 0 /\ Len(res) = count
    <2>1. res1 = res /\ R(i) = R(i - 1) + 1
      BY <1>1, <1>6 DEF In
    <2>2. count <= R(i - 1)
      BY SMT, <1>2, <1>3, <1>6 DEF Least
    <2>3. Len(res1) = Least(count, R(i)) /\ R(i) > Len(res1)
      BY SMT, <1>2, <1>6, <2>1, <2>2 DEF Least
    <2>4. ASSUME NEW k \in 1..i PROVE k = i \/ k \in 1..i-1
      BY SMT
    <2>5. ASSUME NEW k \in 1..i, In(k), R(k) <= Len(res1) PROVE res1[R(k)] = At(k)
      <3>1. k \in 1..i-1
        BY SMT, <1>2, <2>1, <2>3, <2>4, <2>5
      <3> QED
        BY <1>3, <2>1, <2>5, <3>1
    <2> QED
      BY SMT, <1>6, <2>3, <2>5
  <1> QED
    BY <1>4, <1>5, <1>6

LEMMA RangeEmpty ==
    ASSUME NEW count \in Nat, NEW starts, NEW ends, NEW accepts
    PROVE  IsRange(<< >>, 0, count, starts, ends, accepts)
  <1>1. Rank(0, starts, ends, accepts) = 0
    BY RankBounds
  <1>2. 1..0 = {} /\ Len(<< >>) = 0
    BY SMT
  <1> QED
    BY SMT, <1>1, <1>2 DEF IsRange, Least

\* The locals of TailBetween after i rounds.
BetweenInv(p, i, count, starts, ends, accepts) ==
    /\ IsRange(p.res, i, count, starts, ends, accepts)
    /\ p.break <=> \/ \E j \in 1..i : At(j) \in ends
                   \/ count > 0 /\ Len(p.res) = count
    /\ ~p.break => (p.start <=> \E j \in 1..i : At(j) \in starts)

LEMMA BetweenStep ==
    ASSUME NEW count \in Nat, NEW starts, NEW ends, NEW accepts, NEW i \in Nat \ {0},
           NEW p \in Locals, At(i) \in Items,
           BetweenInv(p, i - 1, count, starts, ends, accepts)
    PROVE  BetweenInv(Round(p, At(i), count, starts, ends, accepts),
                      i, count, starts, ends, accepts)
  <1> DEFINE item == At(i)
             start == p.start \/ item \in starts
             res == IF start /\ item \in accepts THEN Append(p.res, item) ELSE p.res
             new == Round(p, item, count, starts, ends, accepts)
             In == InRange(i, starts, ends, accepts)
             Ended(k) == \E j \in 1..k : At(j) \in ends
             Started(k) == \E j \in 1..k : At(j) \in starts
             Full(r) == count > 0 /\ Len(r) = count
  <1>1. /\ IsRange(p.res, i - 1, count, starts, ends, accepts)
        /\ p.break <=> Ended(i - 1) \/ Full(p.res)
        /\ ~p.break => (p.start <=> Started(i - 1))
    BY DEF BetweenInv
  <1>2. p.res \in Seq(Items) /\ p.start \in BOOLEAN /\ p.break \in BOOLEAN
    BY DEF Locals
  <1>3. /\ Ended(i) <=> Ended(i - 1) \/ item \in ends
        /\ Started(i) <=> Started(i - 1) \/ item \in starts
        /\ In <=> item \in accepts /\ Started(i) /\ ~Ended(i)
    <2>1. \A k : k \in 1..i <=> k \in 1..i-1 \/ k = i
      BY SMT
    <2>2. In <=> item \in accepts /\ Started(i) /\ ~Ended(i)
      BY DEF InRange
    <2> QED
      BY <2>1, <2>2, Zenon
  <1>4. ASSUME NEW r \in Seq(Items),
               r = IF In /\ ~Full(p.res) THEN Append(p.res, item) ELSE p.res
        PROVE  IsRange(r, i, count, starts, ends, accepts)
    BY <1>1, <1>2, <1>4, RangeGrows
  <1> SUFFICES /\ IsRange(new.res, i, count, starts, ends, accepts)
               /\ new.break <=> Ended(i) \/ Full(new.res)
               /\ ~new.break => (new.start <=> Started(i))
    BY DEF BetweenInv
  <1> HIDE DEF In, Ended, Started
  <1>5. CASE p.break
    <2>1. new = p
      BY <1>5, Zenon DEF Round
    <2>2. ~(In /\ ~Full(p.res))
      BY <1>1, <1>3, <1>5
    <2>3. IsRange(p.res, i, count, starts, ends, accepts)
      BY <1>2, <1>4, <2>2
    <2> QED
      BY <1>1, <1>3, <1>5, <2>1, <2>3
  <1>6. CASE ~p.break /\ item \in ends
    <2>1. new = [p EXCEPT !.break = TRUE]
      BY <1>6, Zenon DEF Round, Ends
    <2>2. new.res = p.res /\ new.break = TRUE
      BY <2>1 DEF Locals
    <2>3. IsRange(p.res, i, count, starts, ends, accepts)
      BY <1>2, <1>3, <1>4, <1>6
    <2> QED
      BY <1>3, <1>6, <2>2, <2>3
  <1>7. CASE ~p.break /\ item \notin ends
    <2>1. new = [start |-> start, res |-> res, break |-> Full(res)]
      BY <1>7, Zenon DEF Round, Ends
    <2>2. new.res = res /\ (new.break <=> Full(res)) /\ (new.start <=> start)
      <3> HIDE DEF new, start, res, Full
      <3> QED
        BY <2>1, Zenon
    <2>3. ~Ended(i) /\ ~Full(p.res) /\ (start <=> Started(i))
      BY <1>1, <1>3, <1>7
    <2>4. res = IF In /\ ~Full(p.res) THEN Append(p.res, item) ELSE p.res
      BY <1>3, <2>3
    <2>5. res \in Seq(Items)
      BY SMT, <1>2
    <2>6. IsRange(res, i, count, starts, ends, accepts)
      BY <1>4, <2>4, <2>5
    <2> QED
      BY <2>2, <2>3, <2>6
  <1> QED
    BY <1>2, <1>5, <1>6, <1>7

\* What TailBetween returns, for every count.
LEMMA BetweenReturns ==
    ASSUME BufferInv, NEW count \in Nat, NEW starts, NEW ends, NEW accepts
    PROVE  IsRange(TailBetween(count, starts, ends, accepts),
                   length, count, starts, ends, accepts)
  <1>1. length \in Nat /\ \A i \in 1..length : At(i) \in Items
    BY LogItems
  <1>0. PICK f : IsRun(f, count, starts, ends, accepts)
    BY BetweenLoop
  <1>2. /\ f \in [0..length -> Locals] /\ f[0] = NoneYet
        /\ \A i \in 1..length : f[i] = Round(f[i - 1], At(i), count, starts, ends, accepts)
        /\ TailBetween(count, starts, ends, accepts) = f[length].res
    BY <1>0 DEF IsRun
  <1> DEFINE S == {i \in 0..length : BetweenInv(f[i], i, count, starts, ends, accepts)}
  <1>3. 0 \in S
    <2>1. NoneYet.res = << >> /\ NoneYet.break = FALSE /\ NoneYet.start = FALSE
      BY DEF NoneYet
    <2>2. 1..0 = {} /\ Len(<< >>) = 0
      BY SMT
    <2>3. BetweenInv(NoneYet, 0, count, starts, ends, accepts)
      BY SMT, <2>1, <2>2, RangeEmpty DEF BetweenInv
    <2> QED
      BY SMT, <1>1, <1>2, <2>3
  <1>4. ASSUME NEW i \in 1..length, i - 1 \in S PROVE i \in S
    <2>1. f[i - 1] \in Locals /\ i \in Nat \ {0} /\ i \in 0..length
      BY SMT, <1>1, <1>2
    <2>2. BetweenInv(f[i - 1], i - 1, count, starts, ends, accepts)
      BY <1>4
    <2>3. BetweenInv(f[i], i, count, starts, ends, accepts)
      BY SMT, <1>1, <1>2, <2>1, <2>2, BetweenStep
    <2> QED
      BY <2>1, <2>3
  <1> HIDE DEF S
  <1>5. length \in S
    BY SMT, <1>1, <1>3, <1>4, Induction
  <1> QED
    BY <1>2, <1>5 DEF S, BetweenInv

\* One round of TailFilter's loop.
FilterRound(res, item, count, accepts) ==
    IF (count > 0 /\ Len(res) = count) \/ item \notin accepts THEN res ELSE Append(res, item)

\* TailFilter's loop is defined, and goes on as its body says.
LEMMA FilterLoop ==
    ASSUME BufferInv, NEW count \in Nat, NEW accepts
    PROVE  \E f : /\ f \in [0..length -> Seq(Items)]
                  /\ f[0] = << >>
                  /\ \A i \in 1..length : f[i] = FilterRound(f[i - 1], At(i), count, accepts)
                  /\ TailFilter(count, accepts) = f[length]
  <1> DEFINE none == << >>
             Body(g) ==
               [i \in 0..length |->
                 IF i = 0 THEN none ELSE FilterRound(g[i - 1], Newest[i], count, accepts)]
             step == [x \in Seq(Items) \X (1..length) |->
                       FilterRound(x[1], At(x[2]), count, accepts)]
             loop == CHOOSE g : g = Body(g)
  <1>0. ASSUME NEW r \in Seq(Items), NEW i \in 1..length
        PROVE  FilterRound(r, At(i), count, accepts) \in Seq(Items)
    BY SMT, LogItems DEF FilterRound
  <1>1. none \in Seq(Items) /\ length \in Nat
    BY SMT, LogItems
  <1> HIDE DEF none
  <1>2. step \in [Seq(Items) \X (1..length) -> Seq(Items)]
    BY <1>0
  <1>3. \A r \in Seq(Items), i \in 1..length :
           step[<<r, i>>] = FilterRound(r, At(i), count, accepts)
    OBVIOUS
  <1> HIDE DEF step
  <1>4. PICK f : IsLoop(f, length, Seq(Items), none, step)
    BY <1>1, <1>2, LoopExists
  <1>5. f = Body(f)
    <2>1. \A i \in 1..length : f[i] = FilterRound(f[i - 1], Newest[i], count, accepts)
      <3> TAKE i \in 1..length
      <3>1. f[i - 1] \in Seq(Items) /\ f[i] = step[<<f[i - 1], i>>]
        BY SMT, <1>1, <1>4 DEF IsLoop
      <3>2. step[<<f[i - 1], i>>] = FilterRound(f[i - 1], At(i), count, accepts)
        BY <1>3, <3>1, Zenon
      <3> QED
        BY <3>1, <3>2, LogItems, Zenon
    <2> QED
      BY SMT, <1>1, <1>4, <2>1 DEF IsLoop
  <1>6. loop = Body(loop)
    BY <1>5, Zenon
  <1>7. TailFilter(count, accepts) = loop[length]
    BY DEF TailFilter, FilterRound, none
  <1> HIDE DEF loop
  <1>8. loop[0] = none
    BY SMT, <1>1, <1>6
  <1>9. \A i \in 1..length : loop[i] = FilterRound(loop[i - 1], At(i), count, accepts)
    BY SMT, <1>1, <1>6, LogItems
  <1>10. \A i \in 0..length : loop[i] \in Seq(Items)
    <2> DEFINE S == {i \in 0..length : loop[i] \in Seq(Items)}
    <2>1. 0 \in S
      BY SMT, <1>1, <1>8
    <2>2. \A i \in 1..length : i - 1 \in S => i \in S
      BY SMT, <1>0, <1>1, <1>9
    <2> HIDE DEF S
    <2>3. \A i \in 0..length : i \in S
      BY <1>1, <2>1, <2>2, Induction
    <2> QED
      BY <2>3 DEF S
  <1>11. loop \in [0..length -> Seq(Items)]
    BY <1>6, <1>10
  <1> QED
    BY <1>7, <1>8, <1>9, <1>11 DEF none

\* What TailFilter returns: the same as TailBetween with no ends of the range.
LEMMA FilterReturns ==
    ASSUME BufferInv, NEW count \in Nat, NEW accepts
    PROVE  IsRange(TailFilter(count, accepts), length, count, Items, {}, accepts)
  <1>1. length \in Nat /\ \A i \in 1..length : At(i) \in Items
    BY LogItems
  <1>2. PICK f : /\ f \in [0..length -> Seq(Items)]
                 /\ f[0] = << >>
                 /\ \A i \in 1..length : f[i] = FilterRound(f[i - 1], At(i), count, accepts)
                 /\ TailFilter(count, accepts) = f[length]
    BY FilterLoop
  <1> DEFINE S == {i \in 0..length : IsRange(f[i], i, count, Items, {}, accepts)}
  <1>3. 0 \in S
    BY SMT, <1>1, <1>2, RangeEmpty
  <1>4. ASSUME NEW i \in 1..length, i - 1 \in S PROVE i \in S
    <2>1. /\ f[i - 1] \in Seq(Items) /\ f[i] \in Seq(Items)
          /\ i \in Nat \ {0} /\ i \in 0..length /\ At(i) \in Items
      BY SMT, <1>1, <1>2
    <2>2. IsRange(f[i - 1], i - 1, count, Items, {}, accepts)
      BY <1>4
    <2>3. InRange(i, Items, {}, accepts) <=> At(i) \in accepts
      BY SMT, <2>1 DEF InRange
    <2>4. f[i] = IF InRange(i, Items, {}, accepts)
                    /\ ~(count > 0 /\ Len(f[i - 1]) = count)
                 THEN Append(f[i - 1], At(i)) ELSE f[i - 1]
      BY <1>2, <2>3 DEF FilterRound
    <2>5. IsRange(f[i], i, count, Items, {}, accepts)
      BY <2>1, <2>2, <2>4, RangeGrows
    <2> QED
      BY <2>1, <2>5
  <1> HIDE DEF S
  <1>5. length \in S
    BY SMT, <1>1, <1>3, <1>4, Induction
  <1> QED
    BY <1>2, <1>5 DEF S

\* BetweenIsRange: for every capacity, count and predicates, TailBetween and
\* TailFilter return the first count of the accepted items of the range, from the
\* newest one on.
THEOREM ReadsRange == BufferSpec => []BetweenIsRange
  <1>1. BufferInv => BetweenIsRange
    <2> SUFFICES ASSUME BufferInv PROVE BetweenIsRange
      OBVIOUS
    <2>1. length = Least(Len(log), Capacity)
      BY LogItems
    <2>2. ASSUME NEW count \in 0..Capacity+1 PROVE count \in Nat
      BY SMT, SomeCapacity
    <2> QED
      BY <2>1, <2>2, BetweenReturns, FilterReturns, Zenon DEF BetweenIsRange
  <1> QED
    BY <1>1, BufferInvariance, PTL

-----------------------------------------------------------------------------
(* The stream: types, and what Insert and the hook map keep.  The entries  *)
(* are numbered, and there is room for those that wait for the mutex.      *)

Waiting == {h \in Handlers : pc[h] = "lock"}

LogInv ==
    /\ TypeOK
    /\ IsFiniteSet(Waiting)
    /\ Len(log) + Cardinality(Waiting) <= MaxLog
    /\ \A i \in 1..Len(log) : log[i] = i
    /\ mutex # Nil => Len(log) > 0
    /\ \A a \in Addresses : hooks[a] # Nil => RemoteAddr[hooks[a]] = a

LEMMA LogInit == Init => LogInv
  <1> SUFFICES ASSUME Init PROVE LogInv
    OBVIOUS
  <1>1. BufferTypeOK /\ log \in Seq(1..MaxLog) /\ Len(log) = 0
    BY SMT, SomeCapacity DEF Init, NewCircularBuffer, BufferTypeOK, Slots
  <1>2. Waiting = {}
    BY DEF Init, Waiting
  <1>3. IsFiniteSet(Waiting) /\ Cardinality(Waiting) = 0
    BY <1>2, FS_EmptySet
  <1>4. TypeOK
    <2>1. << >> \in Seq(1..MaxLog) /\ 0 \in 0..MaxLog
      BY SMT, LogStreamAssumption
    <2>2. got \in [Streams -> Seq(1..MaxLog)] /\ since \in [Streams -> 0..MaxLog]
      BY <2>1, Zenon DEF Init
    <2> QED
      BY <1>1, <2>2, Zenon DEF Init, TypeOK
  <1> QED
    BY SMT, <1>1, <1>3, <1>4, LogStreamAssumption DEF Init, LogInv

\* Insert appends the next number to the buffer of the stream.
LEMMA RingInsert ==
    ASSUME BufferTypeOK, log \in Seq(1..MaxLog), Len(log) < MaxLog, InsertItem(Len(log) + 1)
    PROVE  /\ BufferTypeOK' /\ log' \in Seq(1..MaxLog)
           /\ Len(log') = Len(log) + 1
           /\ log'[Len(log) + 1] = Len(log) + 1
           /\ \A i \in 1..Len(log) : log'[i] = log[i]
  <1>0. /\ position \in Slots /\ length \in 0..Capacity /\ log \in Seq(Items)
        /\ buffer \in [Slots -> Items \cup {Zero}]
    BY DEF BufferTypeOK
  <1>1. Len(log) + 1 \in 1..MaxLog /\ Len(log) + 1 \in Items /\ Len(log) \in Nat
    BY SMT, LogStreamAssumption
  <1>2. log' = Append(log, Len(log) + 1)
    BY DEF InsertItem
  <1>3. log' \in Seq(1..MaxLog) /\ log' \in Seq(Items) /\ Len(log') = Len(log) + 1
        /\ log'[Len(log) + 1] = Len(log) + 1 /\ \A i \in 1..Len(log) : log'[i] = log[i]
    BY SMT, <1>0, <1>1, <1>2
  <1>4. position' \in Slots
    <2>1. position' = Wrap(position)
      BY DEF InsertItem
    <2> QED
      BY SMT, <1>0, <2>1, WrapIs, SomeCapacity DEF Slots
  <1>5. buffer' \in [Slots -> Items \cup {Zero}]
    BY <1>0, <1>1 DEF InsertItem
  <1>6. length' \in 0..Capacity
    BY SMT, <1>0, SomeCapacity DEF InsertItem
  <1> QED
    BY <1>3, <1>4, <1>5, <1>6 DEF BufferTypeOK

\* There is room in the log for the entry of a handler that waits.
LEMMA Room ==
    ASSUME LogInv, NEW h \in Handlers, pc[h] = "lock"
    PROVE  /\ Len(log) < MaxLog
           /\ IsFiniteSet(Waiting \ {h})
           /\ Len(log) + 1 + Cardinality(Waiting \ {h}) <= MaxLog
  <1>1. /\ h \in Waiting /\ IsFiniteSet(Waiting) /\ Len(log) + Cardinality(Waiting) <= MaxLog
        /\ Len(log) \in Nat /\ MaxLog \in Nat
    BY SMT, LogStreamAssumption DEF LogInv, TypeOK, BufferTypeOK, Waiting
  <1>2. /\ IsFiniteSet(Waiting \ {h}) /\ Cardinality(Waiting \ {h}) = Cardinality(Waiting) - 1
    BY <1>1, FS_RemoveElement
  <1>3. Cardinality(Waiting \ {h}) \in Nat /\ Cardinality(Waiting) \in Nat
    BY <1>1, <1>2, FS_CardinalityType
  <1> QED
    BY SMT, <1>1, <1>2, <1>3

\* Room is not lost when nobody else begins to wait.
LEMMA Fewer ==
    ASSUME LogInv, NEW W \in SUBSET Waiting
    PROVE  IsFiniteSet(W) /\ Len(log) + Cardinality(W) <= MaxLog
  <1>1. /\ IsFiniteSet(Waiting) /\ Len(log) + Cardinality(Waiting) <= MaxLog
        /\ Len(log) \in Nat /\ MaxLog \in Nat
    BY SMT, LogStreamAssumption DEF LogInv, TypeOK, BufferTypeOK
  <1>2. IsFiniteSet(W) /\ Cardinality(W) <= Cardinality(Waiting)
    BY <1>1, FS_Subset
  <1>3. Cardinality(W) \in Nat /\ Cardinality(Waiting) \in Nat
    BY <1>1, <1>2, FS_CardinalityType
  <1> QED
    BY SMT, <1>1, <1>2, <1>3

LEMMA LogNext ==
    ASSUME LogInv, Next
    PROVE  LogInv'
  <1>0. /\ TypeOK /\ IsFiniteSet(Waiting) /\ Len(log) + Cardinality(Waiting) <= MaxLog
        /\ \A i \in 1..Len(log) : log[i] = i
        /\ mutex # Nil => Len(log) > 0
        /\ \A a \in Addresses : hooks[a] # Nil => RemoteAddr[hooks[a]] = a
        /\ Len(log) \in 0..MaxLog
    <2>1. log \in Seq(1..MaxLog) /\ Cardinality(Waiting) \in Nat
      BY FS_CardinalityType DEF LogInv, TypeOK, BufferTypeOK
    <2>2. Len(log) \in 0..MaxLog
      BY SMT, <2>1, LogStreamAssumption DEF LogInv
    <2> QED
      BY <2>2, Zenon DEF LogInv
  <1>1. ASSUME NEW h \in Handlers, Add(h) PROVE LogInv'
    <2>1. Waiting' = Waiting \cup {h} /\ h \notin Waiting
      BY <1>0, <1>1 DEF Add, Waiting, TypeOK
    <2>2. /\ IsFiniteSet(Waiting \cup {h})
          /\ Cardinality(Waiting \cup {h}) = Cardinality(Waiting) + 1
      BY <1>0, <2>1, FS_AddElement
    <2>3. Cardinality(Waiting) \in Nat /\ Len(log) + Cardinality(Waiting) < MaxLog
      BY <1>0, <1>1, FS_CardinalityType DEF Add, Waiting
    <2>4. Len(log) + Cardinality(Waiting \cup {h}) <= MaxLog
      BY SMT, <1>0, <2>2, <2>3, LogStreamAssumption
    <2>5. pc' \in [Handlers -> {"idle", "lock", "hooks"}]
      BY <1>0, <1>1 DEF Add, TypeOK
    <2>6. TypeOK'
      BY <1>0, <1>1, <2>5 DEF Add, TypeOK, ring, iteration, BufferTypeOK
    <2> QED
      BY <1>0, <1>1, <2>1, <2>2, <2>4, <2>6 DEF Add, LogInv, ring, iteration
  <1>2. ASSUME NEW h \in Handlers, Insert(h) PROVE LogInv'
    <2>1. /\ Len(log) < MaxLog /\ IsFiniteSet(Waiting \ {h})
          /\ Len(log) + 1 + Cardinality(Waiting \ {h}) <= MaxLog
      BY <1>2, Room DEF Insert
    <2>2. Waiting' = Waiting \ {h}
      BY <1>0, <1>2 DEF Insert, Waiting, TypeOK
    <2>3. /\ BufferTypeOK' /\ log' \in Seq(1..MaxLog)
          /\ Len(log') = Len(log) + 1
          /\ log'[Len(log) + 1] = Len(log) + 1
          /\ \A i \in 1..Len(log) : log'[i] = log[i]
      BY <1>0, <1>2, <2>1, RingInsert DEF Insert, TypeOK
    <2>4. pc' \in [Handlers -> {"idle", "lock", "hooks"}] /\ due' \subseteq Addresses
      BY <1>0, <1>2 DEF Insert, TypeOK, Hooked
    <2>5. TypeOK'
      BY <1>0, <1>2, <2>3, <2>4 DEF Insert, TypeOK
    <2>6. \A i \in 1..Len(log') : log'[i] = i
      BY SMT, <1>0, <2>3
    <2>7. Len(log') > 0
      BY SMT, <1>0, <2>3
    <2> QED
      BY <1>0, <1>2, <2>1, <2>2, <2>3, <2>5, <2>6, <2>7 DEF Insert, LogInv
  <1>3. ASSUME TypeOK', log' = log, Waiting' \subseteq Waiting, mutex' \in {mutex, Nil},
               \A a \in Addresses : hooks'[a] # Nil => RemoteAddr[hooks'[a]] = a
        PROVE  LogInv'
    <2>1. IsFiniteSet(Waiting') /\ Len(log) + Cardinality(Waiting') <= MaxLog
      BY <1>3, Fewer
    <2> QED
      BY <1>0, <1>3, <2>1 DEF LogInv
  <1>4. ASSUME NEW h \in Handlers, InInsert(h) PROVE LogInv'
    <2>1. Waiting' \subseteq Waiting /\ pc' \in [Handlers -> {"idle", "lock", "hooks"}]
      BY <1>0, <1>4 DEF InInsert, CallHook, Recover, Send, Unlock, Waiting, TypeOK
    <2>2. log' = log /\ hooks' = hooks /\ mutex' \in {mutex, Nil}
      BY <1>4 DEF InInsert, CallHook, Recover, Send, Unlock, ring
    <2>3. CASE CallHook(h)
      <3>1. visited' \subseteq Addresses /\ sending' \in Streams
        BY <1>0, <2>3 DEF CallHook, Hooked, TypeOK
      <3>2. TypeOK'
        BY <1>0, <2>3, <3>1 DEF CallHook, TypeOK, ring, BufferTypeOK
      <3> QED
        BY <1>0, <1>3, <2>1, <2>2, <3>2
    <2>4. CASE Recover(h)
      <3>1. TypeOK'
        BY <1>0, <2>4 DEF Recover, TypeOK, ring, BufferTypeOK
      <3> QED
        BY <1>0, <1>3, <2>1, <2>2, <3>1
    <2>5. CASE Send(h)
      <3>1. sending \in Streams /\ log[Len(log)] \in 1..MaxLog
        BY SMT, <1>0, <2>5, LogStreamAssumption DEF Send, TypeOK, BufferTypeOK
      <3>2. got' \in [Streams -> Seq(1..MaxLog)]
        BY SMT, <1>0, <2>5, <3>1 DEF Send, TypeOK
      <3>3. stream' \in [Streams -> {"away", "connect", "write", "select", "delete", "done"}]
        BY <1>0, <2>5 DEF Send, TypeOK
      <3>4. TypeOK'
        BY <1>0, <2>5, <3>2, <3>3 DEF Send, TypeOK, ring, BufferTypeOK
      <3> QED
        BY <1>0, <1>3, <2>1, <2>2, <3>4
    <2>6. CASE Unlock(h)
      <3>1. TypeOK'
        BY <1>0, <2>1, <2>6 DEF Unlock, TypeOK, ring, BufferTypeOK
      <3> QED
        BY <1>0, <1>3, <2>1, <2>2, <3>1
    <2> QED
      BY <1>4, <2>3, <2>4, <2>5, <2>6 DEF InInsert
  <1>5. ASSUME NEW s \in Streams, Connect(s) \/ Request(s) \/ HangUp(s) \/ Fatal(s) PROVE LogInv'
    <2>1. Waiting' = Waiting /\ log' = log /\ mutex' = mutex
      BY <1>5 DEF Connect, Request, AddHook, Flush, Done, DeleteHook, HangUp, Fatal,
                  ring, iteration, Waiting
    <2>2. stream' \in [Streams -> {"away", "connect", "write", "select", "delete", "done"}]
      BY <1>0, <1>5 DEF Connect, Request, AddHook, Flush, Done, DeleteHook, HangUp, Fatal, TypeOK
    <2>3. CASE AddHook(s)
      <3>1. RemoteAddr[s] \in Addresses
        BY LogStreamAssumption
      <3>2. hooks' = [hooks EXCEPT ![RemoteAddr[s]] = s] /\ since' = [since EXCEPT ![s] = Len(log)]
            /\ due' \subseteq due /\ visited' \subseteq visited
        BY <2>3 DEF AddHook
      <3>3. hooks' \in [Addresses -> Streams \cup {Nil}] /\ since' \in [Streams -> 0..MaxLog]
        BY <1>0, <3>2 DEF TypeOK
      <3>4. TypeOK'
        BY <1>0, <2>2, <2>3, <3>2, <3>3 DEF AddHook, TypeOK, ring, BufferTypeOK
      <3>5. \A a \in Addresses : hooks'[a] # Nil => RemoteAddr[hooks'[a]] = a
        BY <1>0, <3>1, <3>2 DEF TypeOK
      <3> QED
        BY <1>3, <2>1, <3>4, <3>5
    <2>4. CASE DeleteHook(s)
      <3>1. hooks' = [hooks EXCEPT ![RemoteAddr[s]] = Nil]
        BY <2>4 DEF DeleteHook
      <3>2. hooks' \in [Addresses -> Streams \cup {Nil}]
        BY <1>0, <3>1 DEF TypeOK
      <3>3. TypeOK'
        BY <1>0, <2>2, <2>4, <3>2 DEF DeleteHook, TypeOK, ring, iteration, BufferTypeOK
      <3>4. \A a \in Addresses : hooks'[a] # Nil => RemoteAddr[hooks'[a]] = a
        BY <1>0, <3>1 DEF TypeOK
      <3> QED
        BY <1>3, <2>1, <3>3, <3>4
    <2>5. CASE Connect(s) \/ Flush(s) \/ Done(s) \/ HangUp(s) \/ Fatal(s)
      <3>1. /\ hooks' = hooks /\ gone' \subseteq gone \cup {s} /\ crashed' \in {crashed, TRUE}
            /\ UNCHANGED <<ring, iteration, pc, got, since>>
        BY <2>5 DEF Connect, Flush, Done, HangUp, Fatal
      <3>2. TypeOK'
        BY <1>0, <2>2, <3>1 DEF TypeOK, ring, iteration, BufferTypeOK
      <3> QED
        BY <1>0, <1>3, <2>1, <3>1, <3>2
    <2> QED
      BY <1>5, <2>3, <2>4, <2>5 DEF Request
  <1> QED
    BY <1>1, <1>2, <1>4, <1>5 DEF Next

\* TypeOK and the numbering of the entries are kept.
THEOREM LogInvariance == Spec => []LogInv
  <1>1. LogInv /\ [Next]_vars => LogInv'
    <2>1. ASSUME LogInv, UNCHANGED vars PROVE LogInv'
      BY <2>1 DEF LogInv, vars, ring, iteration, TypeOK, BufferTypeOK, Waiting
    <2> QED
      BY <2>1, LogNext
  <1> QED
    BY <1>1, LogInit, PTL DEF Spec

\* TypeOK of the stream, for any number of handlers and requests.
THEOREM TypeCorrect == Spec => []TypeOK
  <1>1. LogInv => TypeOK
    BY DEF LogInv
  <1> QED
    BY <1>1, LogInvariance, PTL

\* BufferSpec: under its hooks and its mutex, the buffer of the stream takes only
\* the steps of a circular buffer, so that what is shown above of the readers
\* holds while clients come and go.
THEOREM ImplementsBuffer == Spec => BufferSpec
  <1>1. Init => NewCircularBuffer
    BY DEF Init
  <1>2. LogInv /\ [Next]_vars => [BufferNext]_ring
    <2> SUFFICES ASSUME LogInv, [Next]_vars PROVE BufferNext \/ UNCHANGED ring
      OBVIOUS
    <2>1. ASSUME NEW h \in Handlers, Insert(h) PROVE BufferNext
      <3>1. Len(log) + 1 \in Items /\ InsertItem(Len(log) + 1)
        <4>1. Len(log) < MaxLog
          BY <2>1, Room DEF Insert
        <4>2. Len(log) \in Nat
          BY SMT DEF LogInv, TypeOK, BufferTypeOK
        <4> QED
          BY SMT, <2>1, <4>1, <4>2, LogStreamAssumption DEF Insert
      <3> QED
        BY <3>1 DEF BufferNext
    <2>2. ASSUME NEW h \in Handlers, Add(h) \/ InInsert(h) PROVE UNCHANGED ring
      BY <2>2 DEF Add, InInsert, CallHook, Recover, Send, Unlock
    <2>3. ASSUME NEW s \in Streams, Connect(s) \/ Request(s) \/ HangUp(s) \/ Fatal(s)
          PROVE  UNCHANGED ring
      BY <2>3 DEF Connect, Request, AddHook, Flush, Done, DeleteHook, HangUp, Fatal
    <2> QED
      BY <2>1, <2>2, <2>3 DEF Next, vars
  <1> QED
    BY <1>1, <1>2, LogInvariance, PTL DEF Spec, BufferSpec

-----------------------------------------------------------------------------
(* The order in which a client receives the entries, whatever the          *)
(* addresses: clients of a UNIX socket share one, and with it one hook.    *)

\* No client receives an entry twice, or one after a later one.
InOrder ==
    \A s \in Streams : \A i, j \in 1..Len(got[s]) : i < j => got[s][i] < got[s][j]

Linked(s) == hooks[RemoteAddr[s]] = s

\* The iteration may still come to the hook of s.
ToCome(s) == Linked(s) /\ RemoteAddr[s] \notin visited

\* A client to whom the last entry is being sent, or may still be, has none that
\* is as late.
OrderOf(s) ==
    /\ stream[s] \in {"away", "connect"} => got[s] = << >> /\ ~Linked(s) /\ sending # s
    /\ \A i, j \in 1..Len(got[s]) : i < j => got[s][i] < got[s][j]
    /\ \A i \in 1..Len(got[s]) : got[s][i] <= Len(log)
    /\ sending = s => ~ToCome(s)
    /\ (mutex # Nil /\ (sending = s \/ ToCome(s))) =>
           \A i \in 1..Len(got[s]) : got[s][i] < Len(log)

OrderInv ==
    /\ mutex = Nil => sending = Nil
    /\ \A s \in Streams : OrderOf(s)

\* The entries a client has received are numbers.
LEMMA GotNumbers ==
    ASSUME TypeOK, NEW s \in Streams
    PROVE  /\ got[s] \in Seq(1..MaxLog) /\ Len(got[s]) \in Nat
           /\ \A i \in 1..Len(got[s]) : got[s][i] \in Nat
  <1>1. got[s] \in Seq(1..MaxLog)
    BY DEF TypeOK
  <1>2. ASSUME NEW q \in Seq(1..MaxLog) PROVE Len(q) \in Nat /\ \A i \in 1..Len(q) : q[i] \in Nat
    BY SMT, LogStreamAssumption
  <1> QED
    BY <1>1, <1>2

\* A received entry is put behind the others.
LEMMA OneMore ==
    ASSUME NEW q \in Seq(1..MaxLog), NEW e \in 1..MaxLog
    PROVE  /\ Len(Append(q, e)) = Len(q) + 1 /\ Append(q, e)[Len(q) + 1] = e
           /\ \A i \in 1..Len(q) : Append(q, e)[i] = q[i]
           /\ \A i \in 1..Len(q)+1 : i \in 1..Len(q) \/ i = Len(q) + 1
  BY SMT

LEMMA OrderInit == Init => OrderInv
  <1> SUFFICES ASSUME Init, NEW s \in Streams PROVE OrderOf(s)
    BY DEF OrderInv, Init
  <1>1. got[s] = << >> /\ sending # s
    BY LogStreamAssumption DEF Init
  <1>2. hooks[RemoteAddr[s]] = Nil
    BY LogStreamAssumption DEF Init
  <1> QED
    BY SMT, <1>1, <1>2, LogStreamAssumption DEF OrderOf, Linked, ToCome

\* A request that is sent nothing and for which the iteration does not go back.
LEMMA OrderFrame ==
    ASSUME NEW t \in Streams, OrderOf(t), got'[t] = got[t], log' = log,
           mutex' # Nil => mutex # Nil,
           ToCome(t)' => ToCome(t),
           sending' = t => ~ToCome(t)' /\ (sending = t \/ ToCome(t)),
           stream'[t] \in {"away", "connect"} =>
               stream[t] \in {"away", "connect"} /\ ~Linked(t)' /\ sending' # t
    PROVE  OrderOf(t)'
  BY DEF OrderOf

LEMMA OrderNext ==
    ASSUME LogInv, OrderInv, Next
    PROVE  OrderInv'
  <1>0. /\ TypeOK /\ log \in Seq(1..MaxLog) /\ Len(log) \in Nat
        /\ RemoteAddr \in [Streams -> Addresses]
        /\ Nil \notin Handlers \cup Streams
        /\ \A t \in Streams : OrderOf(t)
        /\ mutex = Nil => sending = Nil
    BY SMT, LogStreamAssumption DEF LogInv, TypeOK, BufferTypeOK, OrderInv
  <1>1. ASSUME NEW h \in Handlers, Add(h) PROVE OrderInv'
    <2>1. /\ UNCHANGED <<log, got, stream, hooks, mutex, sending, visited>>
      BY <1>1 DEF Add, ring, iteration
    <2> QED
      BY <1>0, <2>1 DEF OrderInv, OrderOf, Linked, ToCome
  <1>2. ASSUME NEW h \in Handlers, Insert(h) PROVE OrderInv'
    <2>1. /\ UNCHANGED <<got, stream, hooks, sending>> /\ sending = Nil /\ mutex' = h
      BY <1>0, <1>2 DEF Insert
    <2>2. Len(log') = Len(log) + 1
      BY SMT, <1>0, <1>2 DEF Insert, InsertItem
    <2>3. ASSUME NEW t \in Streams PROVE OrderOf(t)'
      <3>0. \A i \in 1..Len(got[t]) : got[t][i] \in Nat
        BY <1>0, GotNumbers
      <3>1. \A i \in 1..Len(got[t]) : got[t][i] <= Len(log)
        BY <1>0 DEF OrderOf
      <3>2. \A i \in 1..Len(got[t]) : got[t][i] < Len(log') /\ got[t][i] <= Len(log')
        <4>1. ASSUME NEW x \in Nat, x <= Len(log) PROVE x < Len(log') /\ x <= Len(log')
          BY SMT, <1>0, <2>2, <4>1
        <4> QED
          BY <3>0, <3>1, <4>1
      <3> QED
        BY <1>0, <2>1, <3>2, Zenon DEF OrderOf, Linked
    <2> QED
      BY <1>0, <2>1, <2>3 DEF OrderInv
  <1>3. ASSUME NEW h \in Handlers, CallHook(h) PROVE OrderInv'
    <2>1. /\ UNCHANGED <<log, got, stream, hooks, mutex>> /\ mutex = h /\ sending = Nil
      BY <1>3 DEF CallHook, ring
    <2>2. PICK a \in Hooked \ visited : visited' = visited \cup {a} /\ sending' = hooks[a]
      BY <1>3 DEF CallHook
    <2>3. a \in Addresses /\ hooks[a] \in Streams /\ RemoteAddr[hooks[a]] = a
      BY <1>0, <2>2 DEF Hooked, TypeOK, LogInv
    <2>4. ASSUME NEW t \in Streams PROVE OrderOf(t)'
      <3>1. ToCome(t)' => ToCome(t)
        BY <2>1, <2>2 DEF ToCome, Linked
      <3>2. sending' = t => ~ToCome(t)' /\ ToCome(t)
        BY <2>1, <2>2, <2>3 DEF ToCome, Linked
      <3>3. stream'[t] \in {"away", "connect"} =>
               stream[t] \in {"away", "connect"} /\ ~Linked(t)' /\ sending' # t
        BY <1>0, <2>1, <3>2 DEF OrderOf, Linked, ToCome
      <3> QED
        BY <1>0, <2>1, <3>1, <3>2, <3>3, OrderFrame
    <2> QED
      BY <1>0, <2>1, <2>4 DEF OrderInv
  <1>4. ASSUME NEW h \in Handlers, Recover(h) \/ Unlock(h) PROVE OrderInv'
    <2>1. /\ UNCHANGED <<log, got, stream, hooks, visited>>
          /\ mutex' \in {mutex, Nil} /\ sending' = Nil
      BY <1>4 DEF Recover, Unlock, ring
    <2>2. ASSUME NEW t \in Streams PROVE OrderOf(t)'
      <3>1. ToCome(t)' = ToCome(t) /\ Linked(t)' = Linked(t) /\ sending' # t
        BY <1>0, <2>1 DEF ToCome, Linked
      <3>2. stream'[t] \in {"away", "connect"} =>
               stream[t] \in {"away", "connect"} /\ ~Linked(t)' /\ sending' # t
        BY <1>0, <2>1, <3>1 DEF OrderOf
      <3> QED
        BY <1>0, <2>1, <3>1, <3>2, OrderFrame
    <2> QED
      BY <2>1, <2>2 DEF OrderInv
  <1>5. ASSUME NEW h \in Handlers, Send(h) PROVE OrderInv'
    <2>1. /\ UNCHANGED <<log, hooks, mutex, visited>> /\ sending' = Nil /\ mutex = h
          /\ sending # Nil /\ sending \in Streams /\ stream[sending] = "select"
          /\ got' = [got EXCEPT ![sending] = Append(got[sending], log[Len(log)])]
          /\ stream' = [stream EXCEPT ![sending] = "write"]
      BY <1>0, <1>5 DEF Send, ring, TypeOK
    <2>2. log[Len(log)] = Len(log) /\ Len(log) \in 1..MaxLog
      BY SMT, <1>0, <2>1, LogStreamAssumption DEF LogInv
    <2>3. ASSUME NEW t \in Streams, t # sending PROVE OrderOf(t)'
      <3>1. ToCome(t)' = ToCome(t) /\ Linked(t)' = Linked(t) /\ sending' # t
            /\ got'[t] = got[t] /\ stream'[t] = stream[t]
        BY <1>0, <2>1, <2>3 DEF ToCome, Linked, TypeOK
      <3>2. stream'[t] \in {"away", "connect"} =>
               stream[t] \in {"away", "connect"} /\ ~Linked(t)' /\ sending' # t
        BY <1>0, <3>1 DEF OrderOf
      <3> QED
        BY <1>0, <2>1, <3>1, <3>2, OrderFrame
    <2>4. ASSUME NEW t \in Streams, t = sending PROVE OrderOf(t)'
      <3> DEFINE g == got[t]
                 g1 == Append(g, Len(log))
      <3>1. got'[t] = g1 /\ g \in Seq(1..MaxLog) /\ stream'[t] = "write" /\ sending' # t
        BY <1>0, <2>1, <2>2, <2>4 DEF TypeOK
      <3>2. ~ToCome(t) /\ ToCome(t)' = ToCome(t)
        BY <1>0, <2>1, <2>4 DEF OrderOf, ToCome, Linked
      <3>3. /\ \A i \in 1..Len(g) : g[i] < Len(log)
            /\ \A i, j \in 1..Len(g) : i < j => g[i] < g[j]
        BY <1>0, <2>1, <2>4 DEF OrderOf
      <3>4. /\ Len(g1) = Len(g) + 1 /\ g1[Len(g) + 1] = Len(log) /\ Len(g) \in Nat
            /\ \A i \in 1..Len(g) : g1[i] = g[i] /\ g[i] \in Nat
            /\ \A i \in 1..Len(g)+1 : i \in 1..Len(g) \/ i = Len(g) + 1
        BY SMTT(30), <1>0, <2>2, <3>1, GotNumbers, OneMore
      <3> HIDE DEF g, g1
      <3>5. \A i, j \in 1..Len(g1) : i < j => g1[i] < g1[j]
        <4> TAKE i, j \in 1..Len(g1)
        <4> HAVE i < j
        <4>1. i \in 1..Len(g) \/ i = Len(g) + 1
          BY <3>4
        <4>2. j \in 1..Len(g) \/ j = Len(g) + 1
          BY <3>4
        <4>3. i \in 1..Len(g)
          BY SMT, <3>4, <4>1, <4>2
        <4> QED
          BY <3>3, <3>4, <4>2, <4>3
      <3>6. \A i \in 1..Len(g1) : g1[i] <= Len(log)
        <4> TAKE i \in 1..Len(g1)
        <4>1. i \in 1..Len(g) \/ i = Len(g) + 1
          BY <3>4
        <4> QED
          BY SMTT(30), <1>0, <3>3, <3>4, <4>1
      <3> QED
        BY <2>1, <3>1, <3>2, <3>5, <3>6, Zenon DEF OrderOf
    <2> QED
      BY <1>0, <2>1, <2>3, <2>4 DEF OrderInv
  <1>6. ASSUME NEW s \in Streams, AddHook(s) PROVE OrderInv'
    <2>1. /\ UNCHANGED <<log, got, mutex, sending>> /\ stream[s] = "connect"
          /\ stream' = [stream EXCEPT ![s] = "write"]
          /\ hooks' = [hooks EXCEPT ![RemoteAddr[s]] = s]
          /\ visited' \in {visited, visited \ {RemoteAddr[s]}}
      BY <1>6 DEF AddHook, ring
    <2>2. ASSUME NEW t \in Streams, t # s PROVE OrderOf(t)'
      <3>1. ToCome(t)' => ToCome(t)
        BY <1>0, <2>1, <2>2 DEF ToCome, Linked, TypeOK
      <3>2. (Linked(t)' => Linked(t)) /\ stream'[t] = stream[t]
        BY <1>0, <2>1, <2>2 DEF Linked, TypeOK
      <3>3. sending' = t => ~ToCome(t)' /\ sending = t
        BY <1>0, <2>1, <3>1 DEF OrderOf
      <3>4. stream'[t] \in {"away", "connect"} =>
               stream[t] \in {"away", "connect"} /\ ~Linked(t)' /\ sending' # t
        BY <1>0, <2>1, <3>2 DEF OrderOf
      <3> QED
        BY <1>0, <2>1, <3>1, <3>3, <3>4, OrderFrame
    <2>3. OrderOf(s)'
      <3>1. got'[s] = << >> /\ sending' # s /\ stream'[s] = "write"
        BY <1>0, <2>1 DEF OrderOf, TypeOK
      <3> QED
        BY SMT, <3>1 DEF OrderOf
    <2> QED
      BY <1>0, <2>1, <2>2, <2>3 DEF OrderInv
  <1>7. ASSUME NEW s \in Streams,
               Connect(s) \/ Flush(s) \/ Done(s) \/ DeleteHook(s) \/ HangUp(s) \/ Fatal(s)
        PROVE  OrderInv'
    <2>1. /\ UNCHANGED <<log, got, mutex, sending, visited>>
          /\ hooks' \in {hooks, [hooks EXCEPT ![RemoteAddr[s]] = Nil]}
      BY <1>7 DEF Connect, Flush, Done, DeleteHook, HangUp, Fatal, ring, iteration
    <2>2. ASSUME NEW t \in Streams PROVE OrderOf(t)'
      <3>1. (Linked(t)' => Linked(t)) /\ (ToCome(t)' => ToCome(t))
        BY SMT, <1>0, <2>1 DEF ToCome, Linked, TypeOK
      <3>2. stream'[t] \in {"away", "connect"} => stream[t] \in {"away", "connect"}
        BY <1>0, <1>7 DEF Connect, Flush, Done, DeleteHook, HangUp, Fatal, TypeOK
      <3>3. sending' = t => ~ToCome(t)' /\ sending = t
        BY <1>0, <2>1, <3>1 DEF OrderOf
      <3>4. stream'[t] \in {"away", "connect"} =>
               stream[t] \in {"away", "connect"} /\ ~Linked(t)' /\ sending' # t
        BY <1>0, <2>1, <3>1, <3>2 DEF OrderOf
      <3> QED
        BY <1>0, <2>1, <3>1, <3>3, <3>4, OrderFrame
    <2> QED
      BY <1>0, <2>1, <2>2 DEF OrderInv
  <1> QED
    BY <1>1, <1>2, <1>3, <1>4, <1>5, <1>6, <1>7 DEF Next, InInsert, Request

\* The invariant of the stream: what a client has received is in the order of the
\* log, and the hooks that Insert has still to call are for later entries.
THEOREM OrderInvariance == Spec => []OrderInv
  <1>1. LogInv /\ OrderInv /\ [Next]_vars => OrderInv'
    <2>1. ASSUME OrderInv, UNCHANGED vars PROVE OrderInv'
      BY <2>1 DEF OrderInv, OrderOf, Linked, ToCome, vars, ring, iteration
    <2> QED
      BY <2>1, OrderNext
  <1> QED
    BY <1>1, OrderInit, LogInvariance, PTL DEF Spec

\* InOrder: whatever the clients' addresses, the hooks send no entry twice to one
\* channel and none after a later one.
THEOREM NoRepeats == Spec => []InOrder
  <1>1. OrderInv => InOrder
    BY DEF OrderInv, OrderOf, InOrder
  <1> QED
    BY <1>1, OrderInvariance, PTL

-----------------------------------------------------------------------------
(* StreamComplete, for clients that have an address each, as those over    *)
(* TCP have.  A connected client has every entry up to the last one, but   *)
(* for the one that Insert has not sent to it yet; an iteration that does  *)
(* not have to come to its hook began before the hook was added.           *)

OwnAddresses == \A s, t \in Streams : RemoteAddr[s] = RemoteAddr[t] => s = t

Connected(s) == stream[s] \in {"write", "select"}

\* The client has received every entry since it came, up to the n-th.
UpTo(s, n) == IF got[s] = << >> THEN n <= since[s] ELSE got[s][Len(got[s])] = n

\* Insert has nothing more to send to s.
Served(s) == mutex = Nil \/ (RemoteAddr[s] \in visited /\ sending # s)

CompleteOf(s) ==
    Connected(s) =>
        /\ Linked(s)
        /\ since[s] <= Len(log)
        /\ \A i \in 1..Len(got[s]) : got[s][i] = got[s][1] + i - 1
        /\ got[s] # << >> => got[s][1] \in {since[s], since[s] + 1}
        /\ UpTo(s, IF Served(s) THEN Len(log) ELSE Len(log) - 1)
        /\ (mutex # Nil /\ RemoteAddr[s] \notin due) => since[s] = Len(log)

StreamInv == \A s \in Streams : CompleteOf(s)

LEMMA StreamInit == Init => StreamInv
  BY DEF Init, StreamInv, CompleteOf, Connected

\* A client that is sent nothing and for which the iteration goes on as before.
LEMMA CompleteFrame ==
    ASSUME NEW t \in Streams, CompleteOf(t), Connected(t)' => Connected(t) /\ Linked(t)',
           got'[t] = got[t], since'[t] = since[t], log' = log,
           Connected(t) => Served(t)' = Served(t),
           (mutex' # Nil /\ RemoteAddr[t] \notin due') => (mutex # Nil /\ RemoteAddr[t] \notin due)
    PROVE  CompleteOf(t)'
  BY DEF CompleteOf, UpTo

LEMMA StreamNext ==
    ASSUME OwnAddresses, LogInv, OrderInv, StreamInv, Next
    PROVE  StreamInv'
  <1>0. /\ TypeOK /\ log \in Seq(1..MaxLog) /\ Len(log) \in Nat
        /\ RemoteAddr \in [Streams -> Addresses]
        /\ Nil \notin Handlers \cup Streams
        /\ \A t \in Streams : OrderOf(t) /\ CompleteOf(t)
    BY SMTT(30), LogStreamAssumption DEF LogInv, TypeOK, BufferTypeOK, OrderInv, StreamInv
  <1>1. ASSUME NEW h \in Handlers, Add(h) PROVE StreamInv'
    <2>1. UNCHANGED <<log, got, since, stream, hooks, mutex, sending, visited, due>>
      BY <1>1 DEF Add, ring, iteration
    <2> QED
      BY SMT, <1>0, <2>1 DEF StreamInv, CompleteOf, Connected, Linked, Served, UpTo
  <1>2. ASSUME NEW h \in Handlers, Insert(h) PROVE StreamInv'
    <2>1. /\ UNCHANGED <<got, since, stream, hooks, sending>> /\ mutex = Nil /\ mutex' = h
          /\ visited' = {} /\ due' = Hooked
      BY <1>2 DEF Insert
    <2>2. Len(log') = Len(log) + 1
      BY SMT, <1>0, <1>2 DEF Insert, InsertItem
    <2>3. ASSUME NEW t \in Streams, Connected(t)' PROVE CompleteOf(t)'
      <3>1. /\ Connected(t) /\ Linked(t)' /\ Served(t) /\ ~Served(t)'
            /\ RemoteAddr[t] \in due'
        BY <1>0, <2>1, <2>3 DEF Connected, CompleteOf, Linked, Served, Hooked
      <3>2. /\ since[t] <= Len(log) /\ since[t] \in Nat
            /\ \A i \in 1..Len(got[t]) : got[t][i] = got[t][1] + i - 1
            /\ got[t] # << >> => got[t][1] \in {since[t], since[t] + 1}
            /\ UpTo(t, Len(log))
        BY SMTT(30), <1>0, <3>1, LogStreamAssumption DEF CompleteOf, TypeOK
      <3>3. since'[t] <= Len(log') /\ Len(log') - 1 = Len(log)
        BY SMTT(30), <1>0, <2>1, <2>2, <3>2
      <3>4. UpTo(t, Len(log) - 1)'
        BY <2>1, <3>2, <3>3 DEF UpTo
      <3> QED
        BY <2>1, <3>1, <3>2, <3>3, <3>4 DEF CompleteOf
    <2> QED
      BY <2>3 DEF StreamInv, CompleteOf
  <1>3. ASSUME NEW h \in Handlers, CallHook(h) PROVE StreamInv'
    <2>1. /\ UNCHANGED <<log, got, since, stream, hooks, mutex, due>> /\ mutex = h /\ sending = Nil
      BY <1>3 DEF CallHook, ring
    <2>2. PICK a \in Hooked \ visited : visited' = visited \cup {a} /\ sending' = hooks[a]
      BY <1>3 DEF CallHook
    <2>3. a \in Addresses /\ hooks[a] \in Streams /\ RemoteAddr[hooks[a]] = a
      BY <1>0, <2>2 DEF Hooked, TypeOK, LogInv
    <2>4. ASSUME NEW t \in Streams PROVE CompleteOf(t)'
      <3>1. Connected(t)' = Connected(t) /\ Linked(t)' = Linked(t)
        BY <2>1 DEF Connected, Linked
      <3>2. Connected(t) => Linked(t)
        BY <1>0 DEF CompleteOf
      <3>3. Linked(t) => Served(t)' = Served(t)
        BY <1>0, <2>1, <2>2, <2>3 DEF Served, Linked
      <3> QED
        BY <1>0, <2>1, <3>1, <3>2, <3>3, CompleteFrame
    <2> QED
      BY <2>4 DEF StreamInv
  <1>4. ASSUME NEW h \in Handlers, Recover(h) PROVE StreamInv'
    <2>1. /\ UNCHANGED <<log, got, since, stream, hooks, mutex, due, visited>>
          /\ sending \in Streams /\ ~Connected(sending) /\ sending' = Nil
      BY <1>0, <1>4 DEF Recover, ring, Closed, Connected, TypeOK
    <2>2. ASSUME NEW t \in Streams PROVE CompleteOf(t)'
      <3>1. Connected(t)' = Connected(t) /\ Linked(t)' = Linked(t)
        BY <2>1 DEF Connected, Linked
      <3>2. Connected(t) => Linked(t) /\ Served(t)' = Served(t)
        BY <1>0, <2>1 DEF CompleteOf, Served
      <3> QED
        BY <1>0, <2>1, <3>1, <3>2, CompleteFrame
    <2> QED
      BY <2>2 DEF StreamInv
  <1>5. ASSUME NEW h \in Handlers, Send(h) PROVE StreamInv'
    <2>1. /\ UNCHANGED <<log, since, hooks, mutex, due, visited>> /\ sending' = Nil /\ mutex = h
          /\ sending \in Streams /\ stream[sending] = "select"
          /\ got' = [got EXCEPT ![sending] = Append(got[sending], log[Len(log)])]
          /\ stream' = [stream EXCEPT ![sending] = "write"]
      BY <1>0, <1>5 DEF Send, ring, TypeOK
    <2>2. log[Len(log)] = Len(log) /\ Len(log) \in 1..MaxLog
      BY SMTT(30), <1>0, <2>1, LogStreamAssumption DEF LogInv
    <2>3. ASSUME NEW t \in Streams, t # sending PROVE CompleteOf(t)'
      <3>1. /\ Connected(t)' = Connected(t) /\ Linked(t)' = Linked(t)
            /\ got'[t] = got[t] /\ Served(t)' = Served(t)
        BY <1>0, <2>1, <2>3 DEF Connected, Linked, Served, TypeOK
      <3>2. Connected(t) => Linked(t)
        BY <1>0 DEF CompleteOf
      <3> QED
        BY <1>0, <2>1, <3>1, <3>2, CompleteFrame
    <2>4. ASSUME NEW t \in Streams, t = sending PROVE CompleteOf(t)'
      <3> DEFINE g == got[t]
                 g1 == Append(g, Len(log))
      <3>1. /\ got'[t] = g1 /\ g \in Seq(1..MaxLog) /\ Connected(t)
            /\ since[t] \in Nat /\ since'[t] = since[t]
        BY SMTT(30), <1>0, <2>1, <2>2, <2>4, LogStreamAssumption DEF TypeOK, Connected
      <3>2. Linked(t) /\ Linked(t)' /\ ~Served(t)
        BY <1>0, <2>1, <2>4, <3>1 DEF CompleteOf, Linked, Served
      <3>3. Served(t)' /\ RemoteAddr[t] \in visited
        BY <1>0, <2>1, <2>4, <3>2 DEF OrderOf, ToCome, Served
      <3>4. /\ since[t] <= Len(log)
            /\ \A i \in 1..Len(g) : g[i] = g[1] + i - 1
            /\ g # << >> => g[1] \in {since[t], since[t] + 1}
            /\ UpTo(t, Len(log) - 1)
            /\ (mutex # Nil /\ RemoteAddr[t] \notin due) => since[t] = Len(log)
        BY <1>0, <3>1, <3>2 DEF CompleteOf
      <3>5. /\ Len(g1) = Len(g) + 1 /\ g1[Len(g) + 1] = Len(log) /\ Len(g) \in Nat
            /\ \A i \in 1..Len(g) : g1[i] = g[i] /\ g[i] \in Nat
            /\ \A i \in 1..Len(g)+1 : i \in 1..Len(g) \/ i = Len(g) + 1
        BY SMTT(30), <1>0, <2>2, <3>1, GotNumbers, OneMore
      <3>6. g = << >> <=> Len(g) = 0
        BY SMT, <3>1
      <3>7. UpTo(t, Len(log) - 1) = IF g = << >> THEN Len(log) - 1 <= since[t]
                                    ELSE g[Len(g)] = Len(log) - 1
        BY DEF UpTo
      <3> HIDE DEF g, g1
      <3>8. g1[1] \in {since[t], since[t] + 1} /\ \A i \in 1..Len(g1) : g1[i] = g1[1] + i - 1
        <4>1. CASE g = << >>
          <5>1. Len(log) - 1 <= since[t] /\ Len(g) = 0
            BY <3>4, <3>6, <3>7, <4>1
          <5>2. g1[1] = Len(log) /\ Len(g1) = 1
            BY SMTT(30), <3>5, <5>1
          <5>3. Len(log) \in {since[t], since[t] + 1}
            BY SMT, <2>2, <3>1, <3>4, <5>1
          <5> QED
            BY SMT, <2>2, <5>2, <5>3
        <4>2. CASE g # << >>
          <5>1. Len(g) \in 1..Len(g) /\ 1 \in 1..Len(g)
            BY SMT, <3>5, <3>6, <4>2
          <5>2. Len(log) - 1 = g[1] + Len(g) - 1
            BY <3>4, <3>7, <4>2, <5>1
          <5>3. g1[1] = g[1] /\ g[1] \in Nat
            BY <3>5, <5>1
          <5>4. g1[Len(g) + 1] = g1[1] + (Len(g) + 1) - 1
            BY SMTT(30), <2>2, <3>5, <5>2, <5>3
          <5>5. \A i \in 1..Len(g) : g1[i] = g1[1] + i - 1
            BY <3>4, <3>5, <5>3
          <5> QED
            BY <3>4, <3>5, <4>2, <5>3, <5>4, <5>5
        <4> QED
          BY <4>1, <4>2
      <3>9. g1 # << >> /\ g1[Len(g1)] = Len(log)
        BY SMT, <3>5
      <3>10. UpTo(t, Len(log))'
        BY <2>1, <3>1, <3>9 DEF UpTo
      <3> QED
        BY <2>1, <3>1, <3>2, <3>3, <3>4, <3>8, <3>10 DEF CompleteOf
    <2> QED
      BY <2>3, <2>4 DEF StreamInv
  <1>6. ASSUME NEW h \in Handlers, Unlock(h) PROVE StreamInv'
    <2>1. /\ UNCHANGED <<log, got, since, stream, hooks, due, visited>>
          /\ sending = Nil /\ sending' = Nil /\ mutex = h /\ mutex' = Nil
          /\ due \cap Hooked \subseteq visited
      BY <1>6 DEF Unlock, ring
    <2>2. ASSUME NEW t \in Streams, Connected(t)' PROVE CompleteOf(t)'
      <3>1. Connected(t) /\ Linked(t) /\ Linked(t)' /\ Served(t)'
        BY <1>0, <2>1, <2>2 DEF Connected, CompleteOf, Linked, Served
      <3>2. /\ since[t] <= Len(log)
            /\ \A i \in 1..Len(got[t]) : got[t][i] = got[t][1] + i - 1
            /\ got[t] # << >> => got[t][1] \in {since[t], since[t] + 1}
            /\ UpTo(t, IF Served(t) THEN Len(log) ELSE Len(log) - 1)
            /\ RemoteAddr[t] \notin due => since[t] = Len(log)
        BY <1>0, <2>1, <3>1 DEF CompleteOf
      <3>3. UpTo(t, Len(log))
        <4>1. CASE Served(t)
          BY <3>2, <4>1
        <4>2. CASE ~Served(t)
          <5>1. RemoteAddr[t] \notin visited /\ RemoteAddr[t] \in Hooked
            BY <1>0, <2>1, <3>1, <4>2 DEF Served, Linked, Hooked
          <5>2. since[t] = Len(log) /\ UpTo(t, Len(log) - 1)
            BY <2>1, <3>2, <4>2, <5>1
          <5>3. got[t] = << >>
            <6> SUFFICES ASSUME got[t] # << >> PROVE FALSE
              OBVIOUS
            <6>1. got[t] \in Seq(1..MaxLog) /\ Len(got[t]) \in Nat
                  /\ \A i \in 1..Len(got[t]) : got[t][i] \in Nat
              BY <1>0, GotNumbers
            <6>2. Len(got[t]) \in 1..Len(got[t]) /\ 1 \in 1..Len(got[t])
              BY SMT, <6>1
            <6>3. got[t][Len(got[t])] = Len(log) - 1
              BY <5>2 DEF UpTo
            <6>4. got[t][Len(got[t])] = got[t][1] + Len(got[t]) - 1
              BY <3>2, <6>2
            <6>5. got[t][1] \in {Len(log), Len(log) + 1}
              BY <3>2, <5>2
            <6> QED
              BY SMTT(30), <1>0, <6>1, <6>2, <6>3, <6>4, <6>5
          <5> QED
            BY SMT, <1>0, <5>2, <5>3 DEF UpTo
        <4> QED
          BY <4>1, <4>2
      <3>4. UpTo(t, Len(log))'
        BY <2>1, <3>3 DEF UpTo
      <3> QED
        BY <2>1, <3>1, <3>2, <3>4 DEF CompleteOf
    <2> QED
      BY <2>2 DEF StreamInv, CompleteOf
  <1>7. ASSUME NEW s \in Streams, AddHook(s) PROVE StreamInv'
    <2>1. /\ UNCHANGED <<log, got, mutex, sending>> /\ stream[s] = "connect"
          /\ stream' = [stream EXCEPT ![s] = "write"]
          /\ hooks' = [hooks EXCEPT ![RemoteAddr[s]] = s]
          /\ since' = [since EXCEPT ![s] = Len(log)]
          /\ visited' \in {visited, visited \ {RemoteAddr[s]}}
          /\ due' \in {due, due \ {RemoteAddr[s]}}
      BY <1>7 DEF AddHook, ring
    <2>2. ASSUME NEW t \in Streams, t # s PROVE CompleteOf(t)'
      <3>1. RemoteAddr[t] # RemoteAddr[s]
        BY <2>2 DEF OwnAddresses
      <3>2. /\ Connected(t)' = Connected(t) /\ Linked(t)' = Linked(t)
            /\ since'[t] = since[t] /\ Served(t)' = Served(t)
            /\ RemoteAddr[t] \notin due' => RemoteAddr[t] \notin due
        BY <1>0, <2>1, <2>2, <3>1 DEF Connected, Linked, Served, TypeOK
      <3>3. Connected(t) => Linked(t)
        BY <1>0 DEF CompleteOf
      <3> QED
        BY <1>0, <2>1, <3>2, <3>3, CompleteFrame
    <2>3. CompleteOf(s)'
      <3>1. /\ got'[s] = << >> /\ since'[s] = Len(log) /\ Linked(s)'
        BY <1>0, <2>1 DEF OrderOf, Linked, TypeOK
      <3>2. \A n \in {Len(log), Len(log) - 1} : UpTo(s, n)'
        BY SMT, <1>0, <3>1 DEF UpTo
      <3>3. UpTo(s, IF Served(s) THEN Len(log) ELSE Len(log) - 1)'
        BY <2>1, <3>2
      <3> QED
        BY SMT, <1>0, <2>1, <3>1, <3>3 DEF CompleteOf
    <2> QED
      BY <2>2, <2>3 DEF StreamInv
  <1>8. ASSUME NEW s \in Streams,
               Connect(s) \/ Flush(s) \/ Done(s) \/ DeleteHook(s) \/ HangUp(s) \/ Fatal(s)
        PROVE  StreamInv'
    <2>1. UNCHANGED <<log, got, since, mutex, sending, visited, due>>
      BY <1>8 DEF Connect, Flush, Done, DeleteHook, HangUp, Fatal, ring, iteration
    <2>2. ASSUME NEW t \in Streams PROVE CompleteOf(t)'
      <3>1. Connected(t)' => Connected(t)
        BY <1>0, <1>8 DEF Connect, Flush, Done, DeleteHook, HangUp, Fatal, Connected, TypeOK
      <3>2. Connected(t)' => Linked(t)'
        <4>1. CASE DeleteHook(s)
          <5>1. /\ hooks' = [hooks EXCEPT ![RemoteAddr[s]] = Nil] /\ stream'[s] = "done"
            BY <1>0, <4>1 DEF DeleteHook, TypeOK
          <5>2. Connected(t)' => RemoteAddr[t] # RemoteAddr[s]
            BY <5>1 DEF Connected, OwnAddresses
          <5> QED
            BY <1>0, <3>1, <5>1, <5>2 DEF CompleteOf, Linked, TypeOK
        <4>2. CASE ~DeleteHook(s)
          <5>1. hooks' = hooks
            BY <1>8, <4>2 DEF Connect, Flush, Done, HangUp, Fatal
          <5> QED
            BY <1>0, <3>1, <5>1 DEF CompleteOf, Linked
        <4> QED
          BY <4>1, <4>2
      <3>3. Served(t)' = Served(t)
        BY <2>1 DEF Served
      <3> QED
        BY <1>0, <2>1, <3>1, <3>2, <3>3, CompleteFrame
    <2> QED
      BY <2>2 DEF StreamInv
  <1> QED
    BY <1>1, <1>2, <1>3, <1>4, <1>5, <1>6, <1>7, <1>8 DEF Next, InInsert, Request

\* StreamComplete: for any number of handlers and clients that have an address
\* each, a connected client receives every entry that is inserted after its hook
\* was added, once and in order, whoever else connects or hangs up meanwhile.
THEOREM StreamsComplete == OwnAddresses => (Spec => []StreamComplete)
  <1> SUFFICES ASSUME OwnAddresses PROVE Spec => []StreamComplete
    OBVIOUS
  <1>1. LogInv /\ OrderInv /\ StreamInv /\ [Next]_vars => StreamInv'
    <2>1. ASSUME StreamInv, UNCHANGED vars PROVE StreamInv'
      BY <2>1 DEF StreamInv, CompleteOf, Connected, Linked, Served, UpTo, vars, ring, iteration
    <2> QED
      BY <2>1, StreamNext
  <1>2. LogInv /\ StreamInv => StreamComplete
    <2> SUFFICES ASSUME LogInv, NEW s \in Streams, Connected(s), CompleteOf(s)
                 PROVE  /\ \A i \in 1..Len(got[s]) : got[s][i] = got[s][1] + i - 1
                        /\ got[s] # << >> => got[s][1] \in {since[s], since[s] + 1}
                        /\ (mutex = Nil /\ Len(log) > since[s]) =>
                               got[s] # << >> /\ got[s][Len(got[s])] = Len(log)
      BY DEF StreamInv, StreamComplete, Connected
    <2>1. Len(log) \in Nat /\ since[s] \in Nat
      BY SMT, LogStreamAssumption DEF LogInv, TypeOK, BufferTypeOK
    <2>2. mutex = Nil => UpTo(s, Len(log))
      BY DEF CompleteOf, Served
    <2> QED
      BY SMTT(30), <2>1, <2>2 DEF CompleteOf, UpTo
  <1> QED
    BY <1>1, <1>2, StreamInit, LogInvariance, OrderInvariance, PTL DEF Spec
=============================================================================
