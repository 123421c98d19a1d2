------------------------------ MODULE LogStream ------------------------------
(***************************************************************************)
(* The live query log: the query handlers insert their entries in the      *)
(* circular buffer (src/statshandler/buffer.go), whose hooks hand them to  *)
(* the clients of GET /log (src/api/log.go) over unbuffered channels.      *)
(*                                                                         *)
(* Insert holds the mutex while it calls the hooks, so a send waits for    *)
(* the client with every other query behind it.  AddHook and DeleteHook do *)
(* not take the mutex: a write of the hook map that overlaps the iteration *)
(* of Insert, or another write, may be found out by the Go runtime, which  *)
(* then ends the process.  The n-th entry is the number n, one of Items.   *)
(***************************************************************************)
EXTENDS CircularBuffer

CONSTANTS
    Handlers,       \* query handlers
    Streams,        \* requests for /log
    Addresses,
    RemoteAddr,     \* the address of a request, the id of its hook
    MaxLog,         \* how many entries are logged
    Nil

ASSUME LogStreamAssumption ==
    /\ RemoteAddr \in [Streams -> Addresses]
    /\ MaxLog \in Nat
    /\ 1..MaxLog \subseteq Items
    /\ Nil \notin Handlers \cup Streams \cup Addresses

VARIABLES
    mutex,          \* the handler inside Insert
    hooks,          \* the hook map: the stream that an id leads to
    due, visited,   \* of the iteration in Insert: the ids it began with, and has been to
    sending,        \* the stream whose channel the hook is sending on
    pc,             \* of the handlers
    stream,         \* where the request's handler is
    gone,           \* the clients that have hung up
    got, since,     \* histories: the entries received, the log's length at AddHook
    crashed

iteration == <<mutex, due, visited, sending>>
vars == <<ring, iteration, hooks, pc, stream, gone, got, since, crashed>>

Init ==
    /\ NewCircularBuffer
    /\ mutex = Nil
    /\ hooks = [a \in Addresses |-> Nil]
    /\ due = {} /\ visited = {}
    /\ sending = Nil
    /\ pc = [h \in Handlers |-> "idle"]
    /\ stream = [s \in Streams |-> "away"]
    /\ gone = {}
    /\ got = [s \in Streams |-> << >>]
    /\ since = [s \in Streams |-> 0]
    /\ crashed = FALSE

Hooked == {a \in Addresses : hooks[a] # Nil}

-----------------------------------------------------------------------------
(* The query handlers *)

\* A query is done and its deferred StatsHandler.Add is called.
Add(h) ==
    /\ pc[h] = "idle"
    /\ Len(log) + Cardinality({g \in Handlers : pc[g] = "lock"}) < MaxLog
    /\ pc' = [pc EXCEPT ![h] = "lock"]
    /\ UNCHANGED <<ring, iteration, hooks, stream, gone, got, since, crashed>>

\* Insert takes the mutex and stores the entry.
Insert(h) ==
    /\ pc[h] = "lock"
    /\ mutex = Nil
    /\ InsertItem(Len(log) + 1)
    /\ mutex' = h
    /\ due' = Hooked
    /\ visited' = {}
    /\ pc' = [pc EXCEPT ![h] = "hooks"]
    /\ UNCHANGED <<sending, hooks, stream, gone, got, since, crashed>>

\* The iteration comes to an id, and its hook begins to send.
CallHook(h) ==
    /\ mutex = h /\ sending = Nil
    /\ \E a \in Hooked \ visited :
        /\ visited' = visited \cup {a}
        /\ sending' = hooks[a]
    /\ UNCHANGED <<ring, mutex, due, hooks, pc, stream, gone, got, since, crashed>>

\* Mutant: the hook drops the entry if the request is not ready for it.
ClosedOrBusy(s) == stream[s] # "select"

\* Mutant: the request's handler does not close the channel.
NeverClosed(s) == FALSE

\* close(logChan) was called
Closed(s) == stream[s] \in {"delete", "done"}

\* "Ignore write to closed channel": the send panics, the hook recovers.
Recover(h) ==
    /\ mutex = h /\ sending # Nil
    /\ Closed(sending)
    /\ sending' = Nil
    /\ UNCHANGED <<ring, mutex, due, visited, hooks, pc, stream, gone, got, since, crashed>>

\* "ch <- string(b)" meets "m := <-logChan".
Send(h) ==
    /\ mutex = h /\ sending # Nil
    /\ stream[sending] = "select"
    /\ got' = [got EXCEPT ![sending] = Append(@, log[Len(log)])]
    /\ stream' = [stream EXCEPT ![sending] = "write"]
    /\ sending' = Nil
    /\ UNCHANGED <<ring, mutex, due, visited, hooks, pc, gone, since, crashed>>

\* An id that the iteration began with and that is still there is not left out;
\* one that was added since may be.
Unlock(h) ==
    /\ mutex = h /\ sending = Nil
    /\ due \cap Hooked \subseteq visited
    /\ mutex' = Nil
    /\ pc' = [pc EXCEPT ![h] = "idle"]
    /\ UNCHANGED <<ring, due, visited, sending, hooks, stream, gone, got, since, crashed>>

-----------------------------------------------------------------------------
(* The requests for /log *)

Connect(s) ==
    /\ stream[s] = "away"
    /\ stream' = [stream EXCEPT ![s] = "connect"]
    /\ UNCHANGED <<ring, iteration, hooks, pc, gone, got, since, crashed>>

\* A write of the map by s may overlap the iteration or a write of another one.
Overlap(s) ==
    \/ mutex # Nil /\ sending = Nil
    \/ \E r \in Streams \ {s} : stream[r] \in {"connect", "delete"}

\* "concurrent map iteration and map write", "concurrent map writes"
Fatal(s) ==
    /\ stream[s] \in {"connect", "delete"}
    /\ Overlap(s)
    /\ crashed' = TRUE
    /\ UNCHANGED <<ring, iteration, hooks, pc, stream, gone, got, since>>

\* MakeLogChannel; then the headers are flushed.  An iteration may or may not
\* come to an id that was not there.
AddHook(s) ==
    LET id == RemoteAddr[s] IN
    /\ stream[s] = "connect"
    /\ stream' = [stream EXCEPT ![s] = "write"]
    /\ hooks' = [hooks EXCEPT ![id] = s]
    /\ IF hooks[id] = Nil
       THEN due' = due \ {id} /\ visited' = visited \ {id}
       ELSE UNCHANGED <<due, visited>>
    /\ since' = [since EXCEPT ![s] = Len(log)]
    /\ UNCHANGED <<ring, mutex, sending, pc, gone, got, crashed>>

\* The write and the flush return: the client has read, or is gone.
Flush(s) ==
    /\ stream[s] = "write"
    /\ stream' = [stream EXCEPT ![s] = "select"]
    /\ UNCHANGED <<ring, iteration, hooks, pc, gone, got, since, crashed>>

HangUp(s) ==
    /\ stream[s] \in {"write", "select"}
    /\ s \notin gone
    /\ gone' = gone \cup {s}
    /\ UNCHANGED <<ring, iteration, hooks, pc, stream, got, since, crashed>>

\* "<-r.Context().Done()" and the deferred close(logChan)
Done(s) ==
    /\ stream[s] = "select"
    /\ s \in gone
    /\ stream' = [stream EXCEPT ![s] = "delete"]
    /\ UNCHANGED <<ring, iteration, hooks, pc, gone, got, since, crashed>>

\* CloseLogChannel
DeleteHook(s) ==
    /\ stream[s] = "delete"
    /\ hooks' = [hooks EXCEPT ![RemoteAddr[s]] = Nil]
    /\ stream' = [stream EXCEPT ![s] = "done"]
    /\ UNCHANGED <<ring, iteration, pc, gone, got, since, crashed>>

-----------------------------------------------------------------------------
InInsert(h) == CallHook(h) \/ Recover(h) \/ Send(h) \/ Unlock(h)

Request(s) == AddHook(s) \/ Flush(s) \/ Done(s) \/ DeleteHook(s)

Next ==
    /\ ~crashed
    /\ \/ \E h \in Handlers : Add(h) \/ Insert(h) \/ InInsert(h)
       \/ \E s \in Streams : Connect(s) \/ Request(s) \/ HangUp(s) \/ Fatal(s)

Spec == Init /\ [][Next]_vars

\* Goroutines run, the mutex is handed to every one that waits for it (Go's
\* starvation mode), and a client reads what it is sent or hangs up: the code
\* sets no deadline on its writes.  Nobody has to connect, to hang up or to ask.
FairSpec ==
    /\ Spec
    /\ \A h \in Handlers :
        /\ SF_vars(~crashed /\ Insert(h))
        /\ WF_vars(~crashed /\ InInsert(h))
    /\ \A s \in Streams : WF_vars(~crashed /\ Request(s))

-----------------------------------------------------------------------------
(* Properties *)

TypeOK ==
    /\ BufferTypeOK
    /\ log \in Seq(1..MaxLog)
    /\ mutex \in Handlers \cup {Nil}
    /\ hooks \in [Addresses -> Streams \cup {Nil}]
    /\ due \subseteq Addresses /\ visited \subseteq Addresses
    /\ sending \in Streams \cup {Nil}
    /\ pc \in [Handlers -> {"idle", "lock", "hooks"}]
    /\ stream \in [Streams -> {"away", "connect", "write", "select", "delete", "done"}]
    /\ gone \subseteq Streams
    /\ got \in [Streams -> Seq(1..MaxLog)]
    /\ since \in [Streams -> 0..MaxLog]
    /\ crashed \in BOOLEAN

\* A connected client receives every entry that was inserted after its hook was
\* added, in the order of the log and once each: no entry is lost or overtaken on
\* the way from Insert to the client, whoever else connects or hangs up meanwhile.
\* Once Insert has unlocked, the last entry has been received.
StreamComplete ==
    \A s \in Streams :
        stream[s] \in {"write", "select"} =>
            LET g == got[s] IN
            /\ \A i \in 1..Len(g) : g[i] = g[1] + i - 1
            /\ g # << >> => g[1] \in {since[s], since[s] + 1}
            /\ (mutex = Nil /\ Len(log) > since[s]) =>
                    g # << >> /\ g[Len(g)] = Len(log)

\* A query handler that logs its entry gets out of Insert again (unless the
\* process ended), whichever clients come, hang up, and leave a hook behind that
\* sends on a closed channel.
InsertEnds ==
    \A h \in Handlers : pc[h] = "lock" ~> (pc[h] = "idle" \/ crashed)

\* "Generic thread safe circular buffer": its methods, called from several
\* goroutines at once, do not end the process.
ThreadSafe == ~crashed
=============================================================================
