------------------------------ MODULE Failover ------------------------------
(***************************************************************************)
(* Upstream selection and failover: the function resolve of                *)
(* src/proxy/proxy.go, run by one goroutine per query.  Every goroutine    *)
(* takes a private copy of config.Upstream and asks its elements in turn.  *)
(* The first element's outcome moves the shared counter config.UpstreamErr *)
(* and, past the threshold, rotates the shared list.  The call             *)
(* r.Resolve runs without the lock, so its outcome is applied to whatever  *)
(* the list has become in the meantime.                                    *)
(*                                                                         *)
(* The cache is abstracted to its verdict: a lookup hits or misses.        *)
(***************************************************************************)
EXTENDS Naturals, Sequences

CONSTANTS
    Queries,    \* goroutines that may be inside resolve at the same time
    N,          \* number of configured upstreams
    Dead,       \* upstreams that never answer within upstreamTimeout
    Threshold   \* the literal of "config.UpstreamErr > 3"

Resolvers == 1..N

ASSUME FailoverAssumption ==
    /\ N \in Nat
    /\ Dead \subseteq Resolvers
    /\ Threshold \in Nat

VARIABLES
    upstream,       \* config.Upstream, the shared list
    upstreamErr,    \* config.UpstreamErr
    pc,             \* where each goroutine is in resolve
    upstreams,      \* resolve's local copy of the list
    i,              \* resolve's loop index, counted from 1
    tried,          \* history: the resolvers this call (or the last, failed one) asked
    faulty          \* history: the resolvers whose Resolve ever returned an error

vars == <<upstream, upstreamErr, pc, upstreams, i, tried, faulty>>

Outside == {"idle", "answered", "failed"}

TypeOK ==
    /\ upstream \in [1..N -> Resolvers]
    /\ upstreamErr \in 0..Threshold
    /\ pc \in [Queries -> Outside \cup {"miss", "ask", "ok", "err"}]
    /\ upstreams \in [Queries -> Seq(Resolvers)]
    /\ i \in [Queries -> Nat]
    /\ tried \in [Queries -> Seq(Resolvers)]
    /\ faulty \subseteq Resolvers

Init ==
    /\ upstream = [k \in 1..N |-> k]
    /\ upstreamErr = 0
    /\ pc = [q \in Queries |-> "idle"]
    /\ upstreams = [q \in Queries |-> << >>]
    /\ i = [q \in Queries |-> 0]
    /\ tried = [q \in Queries |-> << >>]
    /\ faulty = {}

-----------------------------------------------------------------------------
(* config.Cache.Get at the top of resolve. *)

CacheHit(q) ==
    /\ pc[q] \in Outside
    /\ pc' = [pc EXCEPT ![q] = "answered"]
    /\ tried' = [tried EXCEPT ![q] = << >>]
    /\ UNCHANGED <<upstream, upstreamErr, upstreams, i, faulty>>

CacheMiss(q) ==
    /\ pc[q] \in Outside
    /\ pc' = [pc EXCEPT ![q] = "miss"]
    /\ tried' = [tried EXCEPT ![q] = << >>]
    /\ UNCHANGED <<upstream, upstreamErr, upstreams, i, faulty>>

\* The loop goes on with element k of the list, or ends and resolve returns
\* the error; the locals of a call that has returned are reset.
Loop(q, list, k) ==
    IF k <= Len(list)
    THEN /\ pc' = [pc EXCEPT ![q] = "ask"]
         /\ upstreams' = [upstreams EXCEPT ![q] = list]
         /\ i' = [i EXCEPT ![q] = k]
    ELSE /\ pc' = [pc EXCEPT ![q] = "failed"]
         /\ upstreams' = [upstreams EXCEPT ![q] = << >>]
         /\ i' = [i EXCEPT ![q] = 0]

\* Copy the list under the read lock and enter the loop.
Snapshot(q) ==
    /\ pc[q] = "miss"
    /\ Loop(q, upstream, 1)
    /\ UNCHANGED <<upstream, upstreamErr, tried, faulty>>

\* Mutant: the loop ranges over the shared list instead of a copy of it.
LiveResolver(q) == upstream[i[q]]

\* The loop variable r.
CurrentResolver(q) == upstreams[q][i[q]]

\* r.Resolve(log, q) returns: with an answer, or with an error.
Resolve(q) ==
    LET r == CurrentResolver(q) IN
    /\ pc[q] = "ask"
    /\ tried' = [tried EXCEPT ![q] = Append(@, r)]
    /\ \/ /\ r \notin Dead
          /\ pc' = [pc EXCEPT ![q] = "ok"]
          /\ UNCHANGED faulty
       \/ /\ pc' = [pc EXCEPT ![q] = "err"]
          /\ faulty' = faulty \cup {r}
    /\ UNCHANGED <<upstream, upstreamErr, upstreams, i>>

\* Mutant: the outcome of any upstream of the copy moves the counter.
AnyPosition(q) == TRUE

\* "if i == 0": the upstream asked was the first one of the copy.
IsFirst(q) == i[q] = 1

\* No error: clear the count if this is the first upstream, cache the
\* response, return it.
Success(q) ==
    /\ pc[q] = "ok"
    /\ upstreamErr' = IF IsFirst(q) THEN 0 ELSE upstreamErr
    /\ pc' = [pc EXCEPT ![q] = "answered"]
    /\ upstreams' = [upstreams EXCEPT ![q] = << >>]
    /\ i' = [i EXCEPT ![q] = 0]
    /\ tried' = [tried EXCEPT ![q] = << >>]
    /\ UNCHANGED <<upstream, faulty>>

\* Mutant: the demoted upstream only changes places with the second one.
SwapFirstTwo(list) ==
    [k \in DOMAIN list |-> list[CASE k = 1 -> 2 [] k = 2 -> 1 [] OTHER -> k]]

\* append(config.Upstream[1:], config.Upstream[0]).  The list is a value here: append
\* writes behind the last element of the slice or to a new array, and calls walk
\* copies of their own.
Demote(list) == Append(Tail(list), Head(list))

\* Mutant: one error fewer is enough.
Reached(n) == n >= Threshold

\* "config.UpstreamErr > 3"
Exceeded(n) == n > Threshold

\* Mutant: the demotion forgets to reset the counter.
CountErrorNoReset ==
    /\ upstreamErr' = upstreamErr + 1
    /\ upstream' = IF Exceeded(upstreamErr + 1) THEN Demote(upstream) ELSE upstream

\* The critical section of an error of the first upstream: count it, and
\* demote the head of the shared list when the count passes the threshold.
CountError ==
    IF Exceeded(upstreamErr + 1)
    THEN /\ upstream' = Demote(upstream)
         /\ upstreamErr' = 0
    ELSE /\ upstreamErr' = upstreamErr + 1
         /\ UNCHANGED upstream

\* Mutant: a call that all upstreams have failed starts again.
StartOver(q) ==
    /\ pc[q] = "err"
    /\ IF IsFirst(q) THEN CountError ELSE UNCHANGED <<upstream, upstreamErr>>
    /\ IF i[q] < Len(upstreams[q])
       THEN Loop(q, upstreams[q], i[q] + 1) /\ UNCHANGED tried
       ELSE /\ pc' = [pc EXCEPT ![q] = "miss"]
            /\ upstreams' = [upstreams EXCEPT ![q] = << >>]
            /\ i' = [i EXCEPT ![q] = 0]
            /\ tried' = [tried EXCEPT ![q] = << >>]
    /\ UNCHANGED faulty

\* An error: count it if this is the first upstream, try the next one.
Error(q) ==
    /\ pc[q] = "err"
    /\ IF IsFirst(q) THEN CountError ELSE UNCHANGED <<upstream, upstreamErr>>
    /\ Loop(q, upstreams[q], i[q] + 1)
    /\ UNCHANGED <<tried, faulty>>

-----------------------------------------------------------------------------

\* The steps resolve takes once it has missed the cache.
Proceed(q) == Snapshot(q) \/ Resolve(q) \/ Success(q) \/ Error(q)

Next == \E q \in Queries : CacheHit(q) \/ CacheMiss(q) \/ Proceed(q)

Spec == Init /\ [][Next]_vars

(* A goroutine inside resolve keeps running: the locks are held for a few  *)
(* assignments only and r.Resolve returns within upstreamTimeout.  Nothing *)
(* makes clients ask, so CacheHit and CacheMiss have no fairness.          *)
FairSpec == Spec /\ \A q \in Queries : WF_vars(Proceed(q))
-----------------------------------------------------------------------------
(* Properties *)

\* Position k of the configured list read as a cycle that starts at h.
Cyclic(h, k) == IF h + k - 1 <= N THEN h + k - 1 ELSE h + k - 1 - N

IsRotation(list) ==
    IF N = 0 THEN list = << >>
    ELSE \E h \in Resolvers : list = [k \in 1..N |-> Cyclic(h, k)]

\* However many goroutines count errors and rotate config.Upstream, the list
\* stays a rotation of the configured one: no demotion loses, repeats or
\* reorders an upstream.
UpstreamIsRotation == IsRotation(upstream)

\* A call of resolve never asks an upstream twice, and when it reports "all
\* upstream resolvers failed" it has really asked every configured one,
\* whatever rotations happened while it was waiting for answers.
FailedMeansAllTried ==
    \A q \in Queries :
        /\ \A j, k \in DOMAIN tried[q] : tried[q][j] = tried[q][k] => j = k
        /\ pc[q] = "failed" => \A r \in Resolvers : \E k \in DOMAIN tried[q] : tried[q][k] = r

\* The list is rotated only away from an upstream that has itself failed a
\* query.  The counter is moved by calls that hold an old copy of the list, so
\* errors of the upstream demoted before are counted against its successor;
\* this holds as long as at most Threshold + 1 calls overlap, because the
\* calls left over by one demotion are then too few to cause the next one.
InnocentNotDemoted ==
    [][upstream' # upstream => upstream[1] \in faulty]_vars

\* Every call of resolve returns.
CallsReturn ==
    \A q \in Queries : pc[q] = "miss" ~> pc[q] \in Outside

\* If upstream queries keep coming, a first upstream that never answers does
\* not stay first: successes of the upstreams behind it do not hide its errors.
DeadHeadDemoted ==
    []<>(\E q \in Queries : pc[q] = "miss")
        => (upstream[1] \in Dead ~> upstream[1] \notin Dead)
=============================================================================
