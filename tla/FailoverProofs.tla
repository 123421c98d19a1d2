--------------------------- MODULE FailoverProofs ---------------------------
(* Proofs about Failover, for every number of upstreams and of goroutines. *)
EXTENDS Failover, FiniteSets, FiniteSetTheorems, SequenceTheorems, TLAPS

\* Reading the configured cycle from any start visits positions 1..N of it.
LEMMA CyclicType ==
    ASSUME NEW h \in Resolvers, NEW k \in 1..N
    PROVE  Cyclic(h, k) \in Resolvers
BY FailoverAssumption DEF Resolvers, Cyclic

\* A rotation is a sequence of length N.
LEMMA RotationType ==
    ASSUME NEW list, IsRotation(list)
    PROVE  /\ list \in [1..N -> Resolvers]
           /\ list \in Seq(Resolvers)
           /\ Len(list) = N
<1>1. list \in [1..N -> Resolvers]
  <2>1. CASE N = 0
    BY <2>1, FailoverAssumption DEF IsRotation
  <2>2. CASE N # 0
    BY <2>2, CyclicType DEF IsRotation
  <2> QED BY <2>1, <2>2
<1>2. N \in Nat
  BY FailoverAssumption
<1>3. list \in Seq(Resolvers)
  BY <1>1, <1>2, SeqDef
<1> QED BY <1>1, <1>2, <1>3, LenProperties

\* Moving the head to the end of a rotation gives a rotation.
LEMMA DemoteRotation ==
    ASSUME NEW list, IsRotation(list), N > 0
    PROVE  IsRotation(Demote(list))
<1>. DEFINE new == Demote(list)
<1>1. N \in Nat /\ N # 0
  BY FailoverAssumption
<1>2. PICK h \in Resolvers : list = [k \in 1..N |-> Cyclic(h, k)]
  BY <1>1 DEF IsRotation
<1>3. list \in Seq(Resolvers) /\ Len(list) = N /\ list # << >>
  BY <1>1, RotationType
<1>4. /\ Head(list) = list[1] /\ Head(list) \in Resolvers
      /\ Tail(list) \in Seq(Resolvers)
      /\ Len(Tail(list)) = N - 1
      /\ \A k \in 1..N-1 : Tail(list)[k] = list[k+1]
  BY <1>1, <1>3, HeadTailProperties
<1>5. /\ new \in Seq(Resolvers)
      /\ Len(new) = N
      /\ \A k \in 1..N-1 : new[k] = list[k+1]
      /\ new[N] = list[1]
  BY <1>1, <1>4, AppendProperties DEF Demote
<1>. DEFINE g == IF h = N THEN 1 ELSE h + 1
<1>6. g \in Resolvers
  BY <1>1 DEF Resolvers
<1>7. \A k \in 1..N : new[k] = Cyclic(g, k)
  <2>. TAKE k \in 1..N
  <2>1. CASE k = N
    BY <1>1, <1>2, <1>5, <2>1 DEF Cyclic, Resolvers
  <2>2. CASE k # N
    <3>1. k \in 1..N-1 /\ k + 1 \in 1..N
      BY <1>1, <2>2
    <3>2. new[k] = Cyclic(h, k + 1)
      BY <1>2, <1>5, <3>1
    <3> QED BY <1>1, <3>1, <3>2 DEF Cyclic, Resolvers
  <2> QED BY <2>1, <2>2
<1>8. new = [k \in 1..N |-> new[k]]
  BY <1>5, LenProperties, SeqDef
<1>9. new = [k \in 1..N |-> Cyclic(g, k)]
  <2>. HIDE DEF new, g
  <2> QED BY <1>7, <1>8
<1>. HIDE DEF g
<1> QED BY <1>1, <1>6, <1>9 DEF IsRotation

\* A rotation holds every upstream exactly once.
LEMMA RotationIsPermutation ==
    ASSUME NEW list, IsRotation(list)
    PROVE  /\ \A j, k \in 1..N : list[j] = list[k] => j = k
           /\ \A r \in Resolvers : \E k \in 1..N : list[k] = r
<1>1. CASE N = 0
  BY <1>1 DEF Resolvers
<1>2. CASE N # 0
  <2>1. N \in Nat
    BY FailoverAssumption
  <2>2. PICK h \in Resolvers : list = [k \in 1..N |-> Cyclic(h, k)]
    BY <1>2 DEF IsRotation
  <2>3. \A j, k \in 1..N : list[j] = list[k] => j = k
    BY <2>1, <2>2 DEF Cyclic, Resolvers
  <2>4. ASSUME NEW r \in Resolvers
        PROVE  \E k \in 1..N : list[k] = r
    <3>. DEFINE k == IF r >= h THEN r - h + 1 ELSE r - h + 1 + N
    <3>1. k \in 1..N /\ Cyclic(h, k) = r
      BY <2>1 DEF Cyclic, Resolvers
    <3>. HIDE DEF k
    <3> QED BY <2>2, <3>1
  <2> QED BY <2>3, <2>4
<1> QED BY <1>1, <1>2

-----------------------------------------------------------------------------

\* What a call of resolve knows at each of its steps: its copy is a rotation,
\* and it has asked the elements of the copy up to its index, in order.
CallInv(q) ==
    /\ pc[q] \in {"ask", "ok", "err"} =>
        /\ IsRotation(upstreams[q])
        /\ i[q] \in 1..N
        /\ Len(tried[q]) = IF pc[q] = "ask" THEN i[q] - 1 ELSE i[q]
        /\ \A k \in 1..Len(tried[q]) : tried[q][k] = upstreams[q][k]
    /\ pc[q] = "failed" => IsRotation(tried[q])
    /\ pc[q] \in {"idle", "answered", "miss"} => tried[q] = << >>

\* The inductive invariant behind TypeOK, UpstreamIsRotation and
\* FailedMeansAllTried.
IInv ==
    /\ TypeOK
    /\ IsRotation(upstream)
    /\ \A q \in Queries : CallInv(q)

LEMMA InitIInv == Init => IInv
<1>. SUFFICES ASSUME Init PROVE IInv
  OBVIOUS
<1>1. IsRotation(upstream)
  <2>1. CASE N = 0
    BY <2>1 DEF Init, IsRotation
  <2>2. CASE N # 0
    <3>1. N \in Nat /\ 1 \in Resolvers
      BY <2>2, FailoverAssumption DEF Resolvers
    <3>2. upstream = [k \in 1..N |-> Cyclic(1, k)]
      BY <3>1 DEF Init, Cyclic
    <3> QED BY <2>2, <3>1, <3>2 DEF IsRotation
  <2> QED BY <2>1, <2>2
<1>2. TypeOK
  BY <1>1, RotationType, FailoverAssumption DEF Init, TypeOK, Outside
<1>3. \A q \in Queries : CallInv(q)
  BY DEF Init, CallInv
<1> QED BY <1>1, <1>2, <1>3 DEF IInv

\* Going round the loop keeps the types of the locals.
LEMMA LoopType ==
    ASSUME TypeOK, NEW q \in Queries, NEW list \in Seq(Resolvers), NEW k \in Nat,
           Loop(q, list, k)
    PROVE  /\ pc' \in [Queries -> Outside \cup {"miss", "ask", "ok", "err"}]
           /\ upstreams' \in [Queries -> Seq(Resolvers)]
           /\ i' \in [Queries -> Nat]
<1>1. \E s \in {"ask", "failed"} : pc' = [pc EXCEPT ![q] = s]
  BY DEF Loop
<1>2. \E s \in Seq(Resolvers) : upstreams' = [upstreams EXCEPT ![q] = s]
  BY EmptySeq DEF Loop
<1>3. \E s \in Nat : i' = [i EXCEPT ![q] = s]
  BY DEF Loop
<1>4. pc' \in [Queries -> Outside \cup {"miss", "ask", "ok", "err"}]
  BY <1>1 DEF TypeOK, Outside
<1>5. upstreams' \in [Queries -> Seq(Resolvers)]
  BY <1>2 DEF TypeOK
<1>6. i' \in [Queries -> Nat]
  BY <1>3 DEF TypeOK
<1> QED BY <1>4, <1>5, <1>6

\* Every action preserves the inductive invariant.
LEMMA NextIInv == IInv /\ [Next]_vars => IInv'
<1>. SUFFICES ASSUME IInv, [Next]_vars PROVE IInv'
  OBVIOUS
<1>. USE DEF IInv
<1>0. N \in Nat /\ << >> \in Seq(Resolvers)
  BY FailoverAssumption, EmptySeq
<1>1. ASSUME NEW q \in Queries, CacheHit(q) \/ CacheMiss(q) PROVE IInv'
  <2>1. TypeOK'
    BY <1>0, <1>1 DEF CacheHit, CacheMiss, TypeOK, Outside
  <2>2. CallInv(q)'
    BY <1>1 DEF CacheHit, CacheMiss, CallInv, TypeOK
  <2>3. \A p \in Queries \ {q} : CallInv(p)'
    BY <1>1 DEF CacheHit, CacheMiss, CallInv, TypeOK
  <2> QED BY <1>1, <2>1, <2>2, <2>3 DEF CacheHit, CacheMiss
<1>2. ASSUME NEW q \in Queries, Snapshot(q) PROVE IInv'
  <2>1. Len(upstream) = N /\ upstream \in Seq(Resolvers)
    BY RotationType
  <2>2. TypeOK'
    BY <1>2, <2>1, LoopType DEF Snapshot, TypeOK
  <2>3. CallInv(q)'
    <3>1. CASE N = 0
      BY <1>2, <2>1, <3>1 DEF Snapshot, Loop, CallInv, TypeOK, IsRotation
    <3>2. CASE N # 0
      BY <1>0, <1>2, <2>1, <3>2 DEF Snapshot, Loop, CallInv, TypeOK
    <3> QED BY <3>1, <3>2
  <2>4. \A p \in Queries \ {q} : CallInv(p)'
    BY <1>2, SMTT(30) DEF Snapshot, Loop, CallInv, TypeOK
  <2> QED BY <1>2, <2>2, <2>3, <2>4 DEF Snapshot
<1>3. ASSUME NEW q \in Queries, Resolve(q) PROVE IInv'
  <2>. DEFINE r == CurrentResolver(q)
  <2>1. /\ upstreams[q] \in [1..N -> Resolvers]
        /\ i[q] \in 1..N
        /\ r \in Resolvers
    BY <1>3, RotationType DEF Resolve, CallInv, CurrentResolver
  <2>2. /\ tried[q] \in Seq(Resolvers)
        /\ tried' = [tried EXCEPT ![q] = Append(tried[q], r)]
        /\ Len(tried[q]) = i[q] - 1
    BY <1>3 DEF Resolve, TypeOK, CallInv
  <2>3. /\ Append(tried[q], r) \in Seq(Resolvers)
        /\ Len(Append(tried[q], r)) = i[q]
        /\ \A k \in 1..i[q] : Append(tried[q], r)[k] = upstreams[q][k]
    <3>1. /\ Append(tried[q], r) \in Seq(Resolvers)
          /\ Len(Append(tried[q], r)) = i[q]
          /\ \A k \in 1..i[q]-1 : Append(tried[q], r)[k] = tried[q][k]
          /\ Append(tried[q], r)[i[q]] = r
      BY <2>1, <2>2, AppendProperties
    <3>2. \A k \in 1..i[q]-1 : tried[q][k] = upstreams[q][k]
      BY <1>3, <2>2 DEF Resolve, CallInv
    <3> QED BY <1>0, <2>1, <3>1, <3>2 DEF CurrentResolver
  <2>. HIDE DEF r
  <2>4. TypeOK'
    BY <1>3, <2>1, <2>2, <2>3 DEF Resolve, TypeOK, r
  <2>5. CallInv(q)'
    BY <1>3, <2>1, <2>2, <2>3 DEF Resolve, CallInv, TypeOK, r
  <2>6. \A p \in Queries \ {q} : CallInv(p)'
    BY <1>3, <2>2 DEF Resolve, CallInv, TypeOK
  <2> QED BY <1>3, <2>4, <2>5, <2>6 DEF Resolve
<1>4. ASSUME NEW q \in Queries, Success(q) PROVE IInv'
  BY <1>4, FailoverAssumption DEF Success, IsFirst, TypeOK, Outside, CallInv
<1>5. ASSUME NEW q \in Queries, Error(q) PROVE IInv'
  <2>1. /\ IsRotation(upstreams[q])
        /\ i[q] \in 1..N
        /\ Len(tried[q]) = i[q]
        /\ \A k \in 1..i[q] : tried[q][k] = upstreams[q][k]
    BY <1>5 DEF Error, CallInv
  <2>2. Len(upstreams[q]) = N /\ upstreams[q] \in [1..N -> Resolvers]
    BY <2>1, RotationType
  <2>3. IsRotation(upstream')
    BY <1>0, <1>5, <2>1, DemoteRotation DEF Error, CountError
  <2>4. upstreamErr' \in 0..Threshold
    BY <1>5, FailoverAssumption DEF Error, CountError, Exceeded, TypeOK
  <2>5. TypeOK'
    <3>1. upstream' \in [1..N -> Resolvers]
      BY <2>3, RotationType
    <3>2. upstreams[q] \in Seq(Resolvers) /\ i[q] + 1 \in Nat
      BY DEF TypeOK
    <3>3. Loop(q, upstreams[q], i[q] + 1)
      BY <1>5 DEF Error
    <3> QED BY <1>5, <2>4, <3>1, <3>2, <3>3, LoopType DEF Error, TypeOK
  <2>6. CallInv(q)'
    <3>1. CASE i[q] < N
      BY <1>0, <1>5, <2>1, <2>2, <3>1 DEF Error, Loop, CallInv, TypeOK
    <3>2. CASE i[q] = N
      <4>1. tried[q] = upstreams[q]
        <5>1. tried[q] \in Seq(Resolvers)
          BY DEF TypeOK
        <5>2. tried[q] \in [1..N -> Resolvers]
          BY <2>1, <3>2, <5>1, LenProperties
        <5> QED BY <2>1, <2>2, <3>2, <5>2
      <4> QED BY <1>0, <1>5, <2>1, <2>2, <3>2, <4>1
              DEF Error, Loop, CallInv, TypeOK
    <3> QED BY <1>0, <2>1, <3>1, <3>2
  <2>7. \A p \in Queries \ {q} : CallInv(p)'
    BY <1>5 DEF Error, Loop, CallInv, TypeOK
  <2> QED BY <2>3, <2>5, <2>6, <2>7
<1>6. CASE UNCHANGED vars
  BY <1>6 DEF vars, TypeOK, CallInv
<1> QED BY <1>1, <1>2, <1>3, <1>4, <1>5, <1>6 DEF Next, Proceed

\* The invariant is what the properties need.
LEMMA IInvImplies == IInv => TypeOK /\ UpstreamIsRotation /\ FailedMeansAllTried
<1>. SUFFICES ASSUME IInv PROVE FailedMeansAllTried
  BY DEF IInv, UpstreamIsRotation
<1>. SUFFICES ASSUME NEW q \in Queries
              PROVE /\ \A j, k \in DOMAIN tried[q] : tried[q][j] = tried[q][k] => j = k
                    /\ pc[q] = "failed" =>
                         \A r \in Resolvers : \E k \in DOMAIN tried[q] : tried[q][k] = r
  BY DEF FailedMeansAllTried
<1>1. CallInv(q) /\ tried[q] \in Seq(Resolvers) /\ N \in Nat
  BY FailoverAssumption DEF IInv, TypeOK
<1>2. DOMAIN tried[q] = 1..Len(tried[q])
  BY <1>1, LenProperties
<1>3. CASE pc[q] \in {"ask", "ok", "err"}
  <2>1. /\ \A j, k \in 1..N : upstreams[q][j] = upstreams[q][k] => j = k
        /\ 1..Len(tried[q]) \subseteq 1..N
    BY <1>1, <1>3, RotationIsPermutation DEF CallInv
  <2> QED BY <1>1, <1>2, <1>3, <2>1 DEF CallInv
<1>4. CASE pc[q] = "failed"
  <2>1. IsRotation(tried[q]) /\ Len(tried[q]) = N
    BY <1>1, <1>4, RotationType DEF CallInv
  <2> QED BY <1>2, <2>1, RotationIsPermutation
<1>5. CASE pc[q] \in {"idle", "answered", "miss"}
  BY <1>1, <1>5 DEF CallInv
<1> QED BY <1>3, <1>4, <1>5 DEF IInv, TypeOK, Outside

LEMMA SpecIInv == Spec => []IInv
BY InitIInv, NextIInv, PTL DEF Spec

\* Types, with the counter never above the threshold outside the lock.
THEOREM TypeCorrect == Spec => []TypeOK
BY SpecIInv, IInvImplies, PTL

\* Concurrent demotions leave config.Upstream a rotation of the configured
\* list, for any number of upstreams and of goroutines inside resolve.
THEOREM RotationSafe == Spec => []UpstreamIsRotation
BY SpecIInv, IInvImplies, PTL

\* resolve gives up only after asking every configured upstream exactly once.
THEOREM AllTried == Spec => []FailedMeansAllTried
BY SpecIInv, IInvImplies, PTL

-----------------------------------------------------------------------------
(* Errors counted against the wrong upstream.                              *)

\* The calls whose first error is still to be counted, or to happen, and would
\* be counted against an upstream they did not ask.
StaleCalls ==
    {q \in Queries : /\ pc[q] \in {"ask", "err"}
                     /\ i[q] = 1
                     /\ upstreams[q][1] # upstream[1]}

\* While the head has never failed, every error in the counter came from a
\* stale call, and with those still to come they stay within the threshold.
BlameInv ==
    /\ \A q \in Queries : pc[q] = "err" => upstreams[q][i[q]] \in faulty
    /\ N > 0 /\ upstream[1] \notin faulty
         => upstreamErr + Cardinality(StaleCalls) <= Threshold

LEMMA BlameStep ==
    ASSUME IInv, BlameInv, Next,
           IsFiniteSet(Queries), Cardinality(Queries) <= Threshold + 1
    PROVE  BlameInv' /\ (upstream' # upstream => upstream[1] \in faulty)
<1>1. /\ IsFiniteSet(StaleCalls)
      /\ Cardinality(StaleCalls) \in Nat
      /\ StaleCalls \subseteq Queries
      /\ upstreamErr \in Nat
  BY FS_Subset, FS_CardinalityType DEF StaleCalls, IInv, TypeOK
<1>2. PICK q \in Queries : CacheHit(q) \/ CacheMiss(q) \/ Proceed(q)
  BY DEF Next
<1>3. ASSUME UNCHANGED upstream, StaleCalls' \subseteq StaleCalls,
             upstreamErr' \in Nat, upstreamErr' <= upstreamErr, faulty \subseteq faulty',
             \A p \in Queries : pc'[p] = "err" => upstreams'[p][i'[p]] \in faulty'
      PROVE  BlameInv' /\ (upstream' # upstream => upstream[1] \in faulty)
  <2>1. Cardinality(StaleCalls') \in Nat /\ Cardinality(StaleCalls') <= Cardinality(StaleCalls)
    BY <1>1, <1>3, FS_Subset, FS_CardinalityType
  <2> QED BY <1>1, <1>3, <2>1, FailoverAssumption DEF BlameInv
<1>4. CASE CacheHit(q) \/ CacheMiss(q)
  <2>1. StaleCalls' \subseteq StaleCalls
    BY <1>4 DEF CacheHit, CacheMiss, StaleCalls, IInv, TypeOK
  <2>2. \A p \in Queries : pc'[p] = "err" => upstreams'[p][i'[p]] \in faulty'
    BY <1>4 DEF CacheHit, CacheMiss, BlameInv, IInv, TypeOK
  <2> QED BY <1>1, <1>3, <1>4, <2>1, <2>2 DEF CacheHit, CacheMiss
<1>5. CASE Snapshot(q)
  <2>1. StaleCalls' \subseteq StaleCalls
    BY <1>5, ZenonT(30) DEF Snapshot, Loop, StaleCalls, IInv, TypeOK
  <2>2. \A p \in Queries : pc'[p] = "err" => upstreams'[p][i'[p]] \in faulty'
    BY <1>5 DEF Snapshot, Loop, BlameInv, IInv, TypeOK
  <2> QED BY <1>1, <1>3, <1>5, <2>1, <2>2 DEF Snapshot
<1>6. CASE Resolve(q)
  BY <1>1, <1>3, <1>6 DEF Resolve, CurrentResolver, StaleCalls, BlameInv, IInv, TypeOK
<1>7. CASE Success(q)
  BY <1>1, <1>3, <1>7 DEF Success, StaleCalls, BlameInv, IInv, TypeOK
<1>8. CASE Error(q)
  <2>1. \A p \in Queries : pc'[p] = "err" => upstreams'[p][i'[p]] \in faulty'
    BY <1>8, ZenonT(30) DEF Error, Loop, BlameInv, IInv, TypeOK
  <2>2. q \notin StaleCalls' /\ (StaleCalls' \subseteq Queries)
    <3>1. i[q] \in Nat /\ i[q] >= 1
      BY <1>8, FailoverAssumption DEF Error, IInv, CallInv
    <3>2. i'[q] # 1
      BY <1>8, <3>1 DEF Error, Loop, IInv, TypeOK
    <3> QED BY <3>2 DEF StaleCalls
  <2>3. CASE ~IsFirst(q)
    <3>1. UNCHANGED <<upstream, upstreamErr, faulty>>
      BY <1>8, <2>3 DEF Error
    <3>2. StaleCalls' \subseteq StaleCalls
      BY <1>8, <2>2, <3>1 DEF Error, Loop, StaleCalls, IInv, TypeOK
    <3> QED BY <1>1, <1>3, <2>1, <3>1, <3>2
  <2>4. CASE IsFirst(q)
    <3>1. upstreams[q][1] \in faulty /\ N > 0 /\ faulty' = faulty
      BY <1>8, <2>4, FailoverAssumption DEF Error, IsFirst, BlameInv, IInv, CallInv
    <3>2. upstream[1] \notin faulty => q \in StaleCalls
      BY <1>8, <2>4, <3>1 DEF Error, IsFirst, StaleCalls
    <3>3. /\ Cardinality(StaleCalls \ {q}) \in Nat
          /\ upstream[1] \notin faulty
               => Cardinality(StaleCalls \ {q}) = Cardinality(StaleCalls) - 1
      BY <1>1, <3>2, FS_RemoveElement, FS_CardinalityType
    <3>4. CASE Exceeded(upstreamErr + 1)
      <4>1. upstream[1] \in faulty
        BY <1>1, <3>1, <3>3, <3>4, FailoverAssumption DEF BlameInv, Exceeded
      <4>2. upstreamErr' = 0
        BY <1>8, <2>4, <3>4 DEF Error, CountError
      <4>3. /\ IsFiniteSet(Queries \ {q})
            /\ Cardinality(Queries \ {q}) <= Threshold
        <5>1. Cardinality(Queries) \in Nat
          BY FS_CardinalityType
        <5>2. /\ IsFiniteSet(Queries \ {q})
              /\ Cardinality(Queries \ {q}) = Cardinality(Queries) - 1
          BY FS_RemoveElement
        <5> QED BY <5>1, <5>2, FailoverAssumption
      <4>4. Cardinality(StaleCalls') \in Nat /\ Cardinality(StaleCalls') <= Threshold
        BY <2>2, <4>3, FS_Subset, FS_CardinalityType, FailoverAssumption
      <4> QED BY <2>1, <4>1, <4>2, <4>4, FailoverAssumption DEF BlameInv
    <3>5. CASE ~Exceeded(upstreamErr + 1)
      <4>1. upstream' = upstream /\ upstreamErr' = upstreamErr + 1
        BY <1>8, <2>4, <3>5 DEF Error, CountError
      <4>2. StaleCalls' \subseteq StaleCalls \ {q}
        BY <1>8, <2>2, <4>1 DEF Error, Loop, StaleCalls, IInv, TypeOK
      <4>3. /\ Cardinality(StaleCalls') \in Nat
            /\ Cardinality(StaleCalls') <= Cardinality(StaleCalls \ {q})
        BY <1>1, <4>2, FS_Subset, FS_RemoveElement, FS_CardinalityType
      <4> QED BY <1>1, <2>1, <3>1, <3>3, <4>1, <4>3, FailoverAssumption DEF BlameInv
    <3> QED BY <3>4, <3>5
  <2> QED BY <2>3, <2>4
<1> QED BY <1>2, <1>4, <1>5, <1>6, <1>7, <1>8 DEF Proceed

\* With at most Threshold + 1 overlapping calls of resolve, four in the code, an
\* upstream that never failed a query is never demoted, although errors are counted
\* against whichever upstream is first when they arrive.
THEOREM InnocentUpstreamStays ==
    ASSUME IsFiniteSet(Queries), Cardinality(Queries) <= Threshold + 1
    PROVE  Spec => InnocentNotDemoted
<1>1. Init => BlameInv
  <2>1. Init => StaleCalls = {}
    BY DEF Init, StaleCalls
  <2>2. Init => Cardinality(StaleCalls) = 0
    BY <2>1, FS_EmptySet
  <2> QED BY <2>2, FailoverAssumption DEF Init, BlameInv
<1>2. IInv /\ BlameInv /\ [Next]_vars => BlameInv'
  <2>1. CASE UNCHANGED vars
    BY <2>1 DEF vars, BlameInv, StaleCalls
  <2> QED BY <2>1, BlameStep
<1>3. IInv /\ BlameInv /\ [Next]_vars
        => [upstream' # upstream => upstream[1] \in faulty]_vars
  BY BlameStep
<1> QED BY <1>1, <1>2, <1>3, SpecIInv, PTL DEF Spec, InnocentNotDemoted
=============================================================================
