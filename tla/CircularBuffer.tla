--------------------------- MODULE CircularBuffer ---------------------------
(***************************************************************************)
(* The circular buffer of the query log, src/statshandler/buffer.go, as    *)
(* its methods see it under the mutex.  The methods that read it are       *)
(* operators; a predicate on items is the set of the items it accepts.     *)
(***************************************************************************)
EXTENDS Integers, Sequences, FiniteSets

CONSTANTS
    Items,
    Capacity,
    Zero            \* what a slot holds before it is written

ASSUME BufferAssumption ==
    /\ Capacity \in Nat \ {0}
    /\ Zero \notin Items

VARIABLES
    buffer, position, length,
    log             \* history: everything that was inserted

ring == <<buffer, position, length, log>>

Slots == 0..Capacity-1

NewCircularBuffer ==
    /\ buffer = [s \in Slots |-> Zero]
    /\ position = 0
    /\ length = 0
    /\ log = << >>

\* Mutant: the position runs one slot past the end before it wraps.
WrapLate(p) == IF p = Capacity THEN 0 ELSE p + 1

\* "(b.position + 1) % b.capacity"
Wrap(p) == (p + 1) % Capacity

\* Insert, up to its hooks.
InsertItem(item) ==
    /\ buffer' = [buffer EXCEPT ![position] = item]
    /\ position' = Wrap(position)
    /\ length' = IF length < Capacity THEN length + 1 ELSE length
    /\ log' = Append(log, item)

BufferNext == \E item \in Items : InsertItem(item)

BufferSpec == NewCircularBuffer /\ [][BufferNext]_ring

-----------------------------------------------------------------------------
(* Reading from the oldest item *)

\* Mutant: the oldest item is always taken to be at the position.
AtPosition == position

\* "Tail of buffer is at t.position (unless not full)"
Start == IF length < Capacity THEN 0 ELSE position

GetOffset(offset, count) ==
    IF offset > length \/ count <= 0 THEN << >>
    ELSE LET n == IF count + offset > length THEN length - offset ELSE count IN
         [i \in 1..n |-> buffer[(Start + offset + i - 1) % Capacity]]

(* Reading from the newest item *)

\* The slot i steps back from the position.
Pos(i) == IF position - i < 0 THEN length + (position - i) ELSE position - i

Newest == [i \in 1..length |-> buffer[Pos(i)]]

TailOf(count) == SubSeq(Newest, 1, IF count > length THEN length ELSE count)

\* Mutant: the end of the range is looked for only after its start was found.
EndsAfterStart(p, item, ends) == p.start /\ item \in ends

\* "Check for end of range"
Ends(p, item, ends) == item \in ends

\* One round of the loop of TailBetween.
Round(p, item, count, starts, ends, accepts) ==
    LET start == p.start \/ item \in starts
        res == IF start /\ item \in accepts THEN Append(p.res, item) ELSE p.res
    IN  IF p.break THEN p
        ELSE IF Ends(p, item, ends) THEN [p EXCEPT !.break = TRUE]
        ELSE [start |-> start, res |-> res, break |-> count > 0 /\ Len(res) = count]

\* TailBetween; a nil startf or itemf accepts every item, a nil endf none.
TailBetween(count, starts, ends, accepts) ==
    LET loop[i \in 0..length] ==
            IF i = 0 THEN [start |-> FALSE, res |-> << >>, break |-> FALSE]
            ELSE Round(loop[i - 1], Newest[i], count, starts, ends, accepts)
    IN  loop[length].res

\* TailFilter: the same loop without a range.
TailFilter(count, accepts) ==
    LET loop[i \in 0..length] ==
            IF i = 0 THEN << >>
            ELSE IF (count > 0 /\ Len(loop[i - 1]) = count) \/ Newest[i] \notin accepts
                 THEN loop[i - 1]
            ELSE Append(loop[i - 1], Newest[i])
    IN  loop[length]

-----------------------------------------------------------------------------
(* Properties *)

BufferTypeOK ==
    /\ buffer \in [Slots -> Items \cup {Zero}]
    /\ position \in Slots
    /\ length \in 0..Capacity
    /\ log \in Seq(Items)

Least(a, b) == IF a <= b THEN a ELSE b

\* The buffer holds the last items of the log, up to its capacity: counted from
\* the newest one by Tail, and from the oldest one by GetOffset, whether or not
\* the buffer has been full, and for every offset and count.
HoldsLast ==
    LET n == Len(log)
        kept == Least(n, Capacity)
    IN  /\ \A count \in 0..Capacity+1 :
            TailOf(count) = [i \in 1..Least(count, kept) |-> log[n - i + 1]]
        /\ \A offset \in 0..Capacity+1, count \in -1..Capacity+1 :
            GetOffset(offset, count) = SubSeq(log, n - kept + offset + 1,
                                              Least(n - kept + offset + count, n))

\* The i-th newest item.
At(i) == log[Len(log) - i + 1]

\* It is accepted, the range has started with it or before it, and has not ended.
InRange(i, starts, ends, accepts) ==
    /\ At(i) \in accepts
    /\ \E j \in 1..i : At(j) \in starts
    /\ \A j \in 1..i : At(j) \notin ends

\* How many of the i newest items are in the range.
Rank(i, starts, ends, accepts) ==
    Cardinality({j \in 1..i : InRange(j, starts, ends, accepts)})

\* The first count of the items in the range among the n newest, or all of them
\* if count is 0, each at the place that its rank says.
IsRange(res, n, count, starts, ends, accepts) ==
    LET all == Rank(n, starts, ends, accepts) IN
    /\ Len(res) = IF count = 0 THEN all ELSE Least(count, all)
    /\ \A i \in 1..n :
        LET r == Rank(i, starts, ends, accepts) IN
        InRange(i, starts, ends, accepts) /\ r <= Len(res) => res[r] = At(i)

\* TailBetween and TailFilter return the first count of the items that are
\* accepted, from the newest item on, after the first one that starts the range
\* and before the first one that ends it; all of them if count is 0.
BetweenIsRange ==
    LET kept == Least(Len(log), Capacity) IN
    \A count \in 0..Capacity+1, accepts \in SUBSET Items :
        /\ \A starts, ends \in SUBSET Items :
            IsRange(TailBetween(count, starts, ends, accepts),
                    kept, count, starts, ends, accepts)
        /\ IsRange(TailFilter(count, accepts), kept, count, Items, {}, accepts)
=============================================================================
