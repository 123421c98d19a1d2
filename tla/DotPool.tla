------------------------------ MODULE DotPool -------------------------------
(***************************************************************************)
(* The DNS-over-TLS resolver, src/resolver/resolver.go: calls of Resolve   *)
(* that share a bounded pool of idle connections to one upstream.          *)
(*                                                                         *)
(* The pool is a buffered channel, so it is first in, first out and each   *)
(* receive or send is one step.  A connection is used by one call at a     *)
(* time: taken from the pool or dialled, written to, read from, and then   *)
(* pooled or closed.  The upstream may answer late or never and may close  *)
(* a connection at any time.                                               *)
(*                                                                         *)
(* The DNS client (ExchangeWithConn, Dial) is an external library: a query *)
(* is written, then one message is read.  It compares the identifiers of   *)
(* the two, but those are chosen by the clients of the proxy and may well  *)
(* coincide; here they always do, so nothing rests on that comparison.     *)
(***************************************************************************)
EXTENDS Naturals, Sequences

CONSTANTS
    Calls,          \* calls of Resolve, each with its query
    Conns,          \* connections that may ever be dialled
    PoolSize,       \* dotPoolSize
    Nil

MaxAttempts == 3

ASSUME DotAssumption ==
    /\ PoolSize \in Nat \ {0}
    /\ Nil \notin Calls \cup Conns

VARIABLES
    pool,           \* r.pool
    pc,             \* where each call is
    attempt,        \* its loop counter
    conn,           \* its connection c
    out,            \* the call whose answer it returns
    link,           \* state of each connection; "fin": closed by the upstream
    unanswered,     \* queries the upstream has received and not answered yet
    inbox           \* answers that have not been read, in order

vars == <<pool, pc, attempt, conn, out, link, unanswered, inbox>>

\* NewDotResolver: the pool starts empty.
Init ==
    /\ pool = << >>
    /\ pc = [q \in Calls |-> "new"]
    /\ attempt = [q \in Calls |-> 0]
    /\ conn = [q \in Calls |-> Nil]
    /\ out = [q \in Calls |-> Nil]
    /\ link = [c \in Conns |-> "unused"]
    /\ unanswered = [c \in Conns |-> {}]
    /\ inbox = [c \in Conns |-> << >>]

\* c.conn.Close(): whatever was on its way is lost.
Close(c) ==
    /\ link' = [link EXCEPT ![c] = "closed"]
    /\ unanswered' = [unanswered EXCEPT ![c] = {}]
    /\ inbox' = [inbox EXCEPT ![c] = << >>]

\* Call q lets go of its connection and goes on at label l.
Drop(q, l) ==
    /\ pc' = [pc EXCEPT ![q] = l]
    /\ conn' = [conn EXCEPT ![q] = Nil]

-----------------------------------------------------------------------------
(* getConn *)

Begin(q) ==
    /\ pc[q] = "new"
    /\ pc' = [pc EXCEPT ![q] = "get"]
    /\ UNCHANGED <<pool, attempt, conn, out, link, unanswered, inbox>>

\* "case c := <-r.pool"
TakeConn(q) ==
    /\ pc[q] = "get"
    /\ pool # << >>
    /\ conn' = [conn EXCEPT ![q] = Head(pool)]
    /\ pool' = Tail(pool)
    /\ pc' = [pc EXCEPT ![q] = "check"]
    /\ UNCHANGED <<attempt, out, link, unanswered, inbox>>

\* isAlive: a read that times out, or that unexpectedly finds data.  (The byte
\* it would then take from a message is left out: CheckNonDestructive shows
\* that there never is one.)
IsAlive(c) == link[c] = "open" \/ inbox[c] # << >>

\* Mutant: a dead connection is put back instead of being closed.
RequeueDead(q) ==
    /\ pool' = Append(pool, conn[q])
    /\ UNCHANGED <<link, unanswered, inbox>>

\* A dead connection is closed and skipped.
DiscardDead(q) == Close(conn[q]) /\ UNCHANGED pool

Check(q) ==
    /\ pc[q] = "check"
    /\ \/ /\ IsAlive(conn[q])
          /\ pc' = [pc EXCEPT ![q] = "write"]
          /\ UNCHANGED <<pool, conn, link, unanswered, inbox>>
       \/ /\ ~IsAlive(conn[q])
          /\ DiscardDead(q)
          /\ Drop(q, "get")
    /\ UNCHANGED <<attempt, out>>

\* newConn, when the pool is found empty.
Dial(q) ==
    /\ pc[q] = "get"
    /\ pool = << >>
    /\ \/ /\ \E c \in Conns :
              /\ link[c] = "unused"
              /\ link' = [link EXCEPT ![c] = "open"]
              /\ conn' = [conn EXCEPT ![q] = c]
          /\ pc' = [pc EXCEPT ![q] = "write"]
       \/ /\ pc' = [pc EXCEPT ![q] = "failed"]
          /\ UNCHANGED <<conn, link>>
    /\ UNCHANGED <<pool, attempt, out, unanswered, inbox>>

-----------------------------------------------------------------------------
(* ExchangeWithConn and what Resolve makes of its result *)

\* The query is written.  If the upstream has closed the connection it is lost.
Write(q) ==
    /\ pc[q] = "write"
    /\ unanswered' = [unanswered EXCEPT ![conn[q]] =
                        @ \cup (IF link[conn[q]] = "open" THEN {q} ELSE {})]
    /\ pc' = [pc EXCEPT ![q] = "read"]
    /\ UNCHANGED <<pool, attempt, conn, out, link, inbox>>

\* One message is read, whatever it answers.
Read(q) ==
    /\ pc[q] = "read"
    /\ inbox[conn[q]] # << >>
    /\ out' = [out EXCEPT ![q] = Head(inbox[conn[q]])]
    /\ inbox' = [inbox EXCEPT ![conn[q]] = Tail(@)]
    /\ pc' = [pc EXCEPT ![q] = "put"]
    /\ UNCHANGED <<pool, attempt, conn, link, unanswered>>

\* Mutant: a connection that does not fit into the pool is forgotten.
ForgetSurplus(c) == UNCHANGED <<link, unanswered, inbox>>

\* "default: c.conn.Close()"
CloseSurplus(c) == Close(c)

\* putConn, then return.
PutConn(q) ==
    /\ pc[q] = "put"
    /\ \/ /\ Len(pool) < PoolSize
          /\ pool' = Append(pool, conn[q])
          /\ UNCHANGED <<link, unanswered, inbox>>
       \/ /\ Len(pool) >= PoolSize
          /\ CloseSurplus(conn[q])
          /\ UNCHANGED pool
    /\ Drop(q, "ok")
    /\ UNCHANGED <<attempt, out>>

\* "attempt < maxAttempts"
TriesLeft(n) == n < MaxAttempts

\* Mutant: an attempt is counted in the loop's body and in its header.
CountedTwice(q) ==
    /\ pc[q] = "read"
    /\ link[conn[q]] = "fin" /\ inbox[conn[q]] = << >>
    /\ Close(conn[q])
    /\ Drop(q, IF TriesLeft(attempt[q] + 2) THEN "get" ELSE "failed")
    /\ attempt' = [attempt EXCEPT ![q] = @ + 2]
    /\ UNCHANGED <<pool, out>>

\* The upstream has closed the connection: io.EOF, a transient error.
TransientError(q) ==
    /\ pc[q] = "read"
    /\ link[conn[q]] = "fin" /\ inbox[conn[q]] = << >>
    /\ Close(conn[q])
    /\ Drop(q, IF TriesLeft(attempt[q] + 1) THEN "get" ELSE "failed")
    /\ attempt' = [attempt EXCEPT ![q] = @ + 1]
    /\ UNCHANGED <<pool, out>>

\* Mutant: a connection whose read timed out goes back to the pool.
PoolAfterError(q) ==
    IF Len(pool) < PoolSize
    THEN pool' = Append(pool, conn[q]) /\ UNCHANGED <<link, unanswered, inbox>>
    ELSE Close(conn[q]) /\ UNCHANGED pool

\* "always close on any exchange error"
CloseAfterError(q) == Close(conn[q]) /\ UNCHANGED pool

\* Any other error: a write that fails, a read that times out, a connection
\* reset, a message that cannot be parsed.
OtherError(q) ==
    /\ pc[q] \in {"write", "read"}
    /\ CloseAfterError(q)
    /\ Drop(q, "failed")
    /\ UNCHANGED <<attempt, out>>

-----------------------------------------------------------------------------
(* The upstream *)

Answer(c) ==
    /\ link[c] = "open"
    /\ \E q \in unanswered[c] :
        /\ unanswered' = [unanswered EXCEPT ![c] = @ \ {q}]
        /\ inbox' = [inbox EXCEPT ![c] = Append(@, q)]
    /\ UNCHANGED <<pool, pc, attempt, conn, out, link>>

Hangup(c) ==
    /\ link[c] = "open"
    /\ link' = [link EXCEPT ![c] = "fin"]
    /\ unanswered' = [unanswered EXCEPT ![c] = {}]
    /\ UNCHANGED <<pool, pc, attempt, conn, out, inbox>>

-----------------------------------------------------------------------------

Resolve(q) ==
    \/ TakeConn(q) \/ Check(q) \/ Dial(q) \/ Write(q) \/ Read(q) \/ PutConn(q)
    \/ TransientError(q) \/ OtherError(q)

Next ==
    \/ \E q \in Calls : Begin(q) \/ Resolve(q)
    \/ \E c \in Conns : Answer(c) \/ Hangup(c)

Spec == Init /\ [][Next]_vars

\* Every goroutine keeps running: dialling, writing and reading end by their
\* deadlines at the latest.  The upstream owes nothing.
FairSpec == Spec /\ \A q \in Calls : WF_vars(Resolve(q))

-----------------------------------------------------------------------------
(* Properties *)

\* The calls that have a connection, and the connections that are open.
Holders == {q \in Calls : pc[q] \in {"check", "write", "read", "put"}}
Pooled == {pool[i] : i \in 1..Len(pool)}
Open == {c \in Conns : link[c] \in {"open", "fin"}}

TypeOK ==
    /\ pool \in Seq(Conns)
    /\ pc \in [Calls -> {"new", "get", "check", "write", "read", "put", "ok", "failed"}]
    /\ attempt \in [Calls -> 0..MaxAttempts]
    /\ conn \in [Calls -> Conns \cup {Nil}]
    /\ out \in [Calls -> Calls \cup {Nil}]
    /\ link \in [Conns -> {"unused", "open", "fin", "closed"}]
    /\ unanswered \in [Conns -> SUBSET Calls]
    /\ inbox \in [Conns -> Seq(Calls)]

\* Every open connection is in exactly one place, once in the pool or with one
\* call, and every connection there is open on this side: none is leaked, shared
\* between two calls or used after Close.  The pool never exceeds its size.
ConnAccounted ==
    /\ Len(pool) <= PoolSize
    /\ \A i, j \in 1..Len(pool) : pool[i] = pool[j] => i = j
    /\ \A p, q \in Holders : conn[p] = conn[q] => p = q
    /\ \A q \in Holders : conn[q] \notin Pooled
    /\ Open = Pooled \cup {conn[q] : q \in Holders}

\* A connection under the health check has no answer to read and none on its
\* way, so isAlive's one-byte read takes nothing from a message, even when it
\* races with a slow upstream.
CheckNonDestructive ==
    \A q \in Calls : pc[q] = "check" =>
        inbox[conn[q]] = << >> /\ unanswered[conn[q]] = {}

\* A call returns the answer to its own query, never a late answer to a query
\* that used the connection before.
AnswerMatches == \A q \in Calls : pc[q] \in {"put", "ok"} => out[q] = q

\* Every call that has begun returns, although the loop in getConn has no bound
\* and the upstream may never answer.
CallsReturn ==
    \A q \in Calls : pc[q] = "get" ~> pc[q] \in {"ok", "failed"}
=============================================================================
