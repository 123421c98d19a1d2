------------------------------- MODULE Proxy --------------------------------
(***************************************************************************)
(* The query handler, MakeHandler of src/proxy/proxy.go, together with     *)
(* what changes under its feet: the JSON-RPC API (src/api/jsonrpc.go)      *)
(* edits the blocklist and the cache and pauses blocking, and the refresh  *)
(* goroutine (src/server/server.go) replaces the blocklist.  Queries come  *)
(* over UDP and TCP, or over HTTPS through MakeDoHHandler of src/doh/doh.go,*)
(* which calls the same handler.                                           *)
(*                                                                         *)
(* The parts that have modules of their own appear by what those show: a   *)
(* blocklist is the set of its rules (Blocklist implements BlockSet), the  *)
(* cache a map whose items vanish when they expire (DNSCache implements    *)
(* EagerCache), the upstreams answer or fail as a whole (Failover).        *)
(***************************************************************************)
EXTENDS Integers

CONSTANTS
    Handlers,       \* goroutines that serve queries
    Names,
    Clients, Permitted,     \* client addresses, and those the ACL lets in
    Queries,        \* what the clients may ask
    Dns64,          \* config.Dns64
    Rules,          \* rules the API adds and deletes: <<name, type>>
    Configured,     \* what UpdateBlockList may read from the configured sources
    Durations,      \* that the API may ask a pause to last
    DefaultPause,   \* 300 seconds in the code
    MaxList,        \* bound on the number of blocklists ever built
    MaxTime,        \* bound on the clock
    Nil

QTypes == {"A", "AAAA"}
Keys == Names \X QTypes
Lists == 1..MaxList

\* A query; valid if there is one question and the client's address parses.
AllQueries == [client : Clients, name : Names, qtype : QTypes, valid : BOOLEAN,
               via : {"dns", "doh"}]

\* What an HTTP request may fall short of, with the status it gets.
Faults == [path |-> 404, parameter |-> 400, contentType |-> 415, body |-> 400,
           method |-> 405, message |-> 400]

\* A response: "ok" for one from an upstream or the API, the type in its question,
\* and the kind of the records in its answer section.
Messages == [code : {"ok", "blocked", "servfail"}, qtype : QTypes,
             answer : {"none", "A", "AAAA", "synthetic"}]

ASSUME ProxyAssumption ==
    /\ Permitted \subseteq Clients
    /\ Queries \subseteq AllQueries
    /\ Dns64 \in BOOLEAN
    /\ Rules \subseteq Names \X (QTypes \cup {"ANY"})
    /\ Configured # {} /\ Configured \subseteq SUBSET Rules
    /\ Durations \subseteq Int /\ DefaultPause \in Nat \ {0}
    /\ MaxList \in Nat \ {0} /\ MaxTime \in Nat
    /\ Nil \notin Messages

VARIABLES
    now,
    pauseUntil,     \* config.BlockPauseUntil, 0 for the zero time
    blockList,      \* config.BlockList, the list in use
    lists,          \* the rules of each list
    cache,          \* items [msg, permanent], or Nil
    edit,           \* the API's call on a blocklist: its list, rule and kind
    pc, query,      \* of each handler, with its local variables
    bl, until,      \* bl and pauseUntil as read under the lock
    rtype,          \* the type resolve is asked for
    out,            \* the upstream's response
    reply,          \* what the handler has sent, Nil if nothing
    status,         \* the status of the HTTP response, Nil before and without one
    mustBlock,      \* history: blocking was in force for the query all the time
    mayPass         \* history: it arrived in a pause that is still running

shared == <<now, pauseUntil, blockList, lists>>
locals == <<query, bl, until, rtype, out>>
vars == <<shared, cache, edit, pc, locals, reply, status, mustBlock, mayPass>>

\* A response of the upstreams, by the type asked for.
Response(t) == [code : {"ok"}, qtype : {t}, answer : {"none", t}]

\* Mutant: the handler returns without writing the error.
NoResponse(q, code) == Nil

\* dnsErrorResponse: a reply to the query as it was asked.
ErrorResponse(q, code) == [code |-> code, qtype |-> q.qtype, answer |-> "none"]

Init ==
    /\ now = 1
    /\ pauseUntil = 0
    /\ blockList = 1
    /\ \E rules \in Configured : lists = [l \in Lists |-> IF l = 1 THEN rules ELSE {}]
    /\ cache = [k \in Keys |-> Nil]
    /\ edit = Nil
    /\ pc = [h \in Handlers |-> "idle"]
    /\ query = [h \in Handlers |-> Nil]
    /\ bl = [h \in Handlers |-> 1]
    /\ until = [h \in Handlers |-> 0]
    /\ rtype = [h \in Handlers |-> "A"]
    /\ out = [h \in Handlers |-> Nil]
    /\ reply = [h \in Handlers |-> Nil]
    /\ status = [h \in Handlers |-> Nil]
    /\ mustBlock = [h \in Handlers |-> FALSE]
    /\ mayPass = [h \in Handlers |-> FALSE]

\* Mutant: the time the pause ends is not looked at.
PausedForever(u) == u # 0

\* Mutant: the comparison is the wrong way round.
PausedAfter(u) == u # 0 /\ now > u

\* "!pauseUntil.IsZero() && time.Now().Before(pauseUntil)"
Paused(u) == u # 0 /\ now < u

\* BlockList.Match.  Names stand beside each other here; Blocklist has the ones
\* above and below.
Match(list, q) == <<q.name, q.qtype>> \in list \/ <<q.name, "ANY">> \in list

\* Blocking is in force for a query.
InForce(q) == ~(pauseUntil # 0 /\ now < pauseUntil) /\ Match(lists[blockList], q)

-----------------------------------------------------------------------------
(* The handler *)

\* The handler writes its message, by WriteMsg, and goes on to the deferred calls;
\* its locals are not used any more.
Return(h, r) ==
    /\ reply' = [reply EXCEPT ![h] = r]
    /\ pc' = [pc EXCEPT ![h] = "log"]
    /\ bl' = [bl EXCEPT ![h] = 1]
    /\ until' = [until EXCEPT ![h] = 0]
    /\ rtype' = [rtype EXCEPT ![h] = "A"]
    /\ out' = [out EXCEPT ![h] = Nil]
    /\ UNCHANGED <<query, status, mustBlock, mayPass>>

Goto(h, l) == pc' = [pc EXCEPT ![h] = l] /\ UNCHANGED <<reply, status>>

\* The deferred StatsHandler.Add, which inserts an entry in the query log.  Insert
\* hands the entry to the clients of /log, and waits while one of them does not
\* read (LogStream).  Then the handler returns, for a query over HTTPS to
\* MakeDoHHandler, which has the response still to write.
LogQuery(h) ==
    /\ pc[h] = "log"
    /\ pc' = [pc EXCEPT ![h] = IF query[h].via = "doh" THEN "write" ELSE "idle"]
    /\ UNCHANGED <<shared, cache, edit, locals, reply, status, mustBlock, mayPass>>

\* Up to the ACL check: what is not valid or not permitted gets no reply.
Accept(h, q) ==
    /\ pc[h] = "idle"
    /\ query' = [query EXCEPT ![h] = q]
    /\ reply' = [reply EXCEPT ![h] = Nil]
    /\ status' = [status EXCEPT ![h] = Nil]
    /\ IF q.valid /\ q.client \in Permitted
       THEN /\ pc' = [pc EXCEPT ![h] = "config"]
            /\ rtype' = [rtype EXCEPT ![h] = q.qtype]
       ELSE /\ pc' = [pc EXCEPT ![h] = "log"]
            /\ UNCHANGED rtype
    /\ mustBlock' = [mustBlock EXCEPT ![h] = InForce(q)]
    /\ mayPass' = [mayPass EXCEPT ![h] = pauseUntil # 0 /\ now < pauseUntil]
    /\ UNCHANGED <<shared, cache, edit, bl, until, out>>

\* Read the list and the pause under the lock.
ReadConfig(h) ==
    /\ pc[h] = "config"
    /\ bl' = [bl EXCEPT ![h] = blockList]
    /\ until' = [until EXCEPT ![h] = pauseUntil]
    /\ Goto(h, "match")
    /\ UNCHANGED <<shared, cache, edit, query, rtype, out, mustBlock, mayPass>>

CheckBlock(h) ==
    /\ pc[h] = "match"
    /\ \/ /\ ~Paused(until[h]) /\ Match(lists[bl[h]], query[h])
          /\ Return(h, ErrorResponse(query[h], "blocked"))
       \/ /\ Paused(until[h]) \/ ~Match(lists[bl[h]], query[h])
          /\ Goto(h, "get")
          /\ UNCHANGED <<locals, mustBlock, mayPass>>
    /\ UNCHANGED <<shared, cache, edit>>

\* DNS64: the question is rewritten, A records become AAAA records.
Synthesise(msg) ==
    [code |-> msg.code, qtype |-> "AAAA",
     answer |-> IF msg.answer = "A" THEN "synthetic" ELSE msg.answer]

\* resolve has returned a response: ask again for A records if DNS64 wants
\* them, synthesise if it did, or pass the response on.
Resolved(h, msg) ==
    LET first == rtype[h] = query[h].qtype IN
    \/ /\ Dns64 /\ first /\ rtype[h] = "AAAA" /\ msg.answer = "none"
       /\ rtype' = [rtype EXCEPT ![h] = "A"]
       /\ out' = [out EXCEPT ![h] = Nil]
       /\ Goto(h, "get")
       /\ UNCHANGED <<query, bl, until, mustBlock, mayPass>>
    \/ /\ ~(Dns64 /\ first /\ rtype[h] = "AAAA" /\ msg.answer = "none")
       /\ Return(h, IF first THEN msg ELSE Synthesise(msg))

Key(h) == <<query[h].name, rtype[h]>>

\* resolve: Cache.Get, which returns a copy.
CacheGet(h) ==
    /\ pc[h] = "get"
    /\ \/ /\ cache[Key(h)] # Nil
          /\ Resolved(h, cache[Key(h)].msg)
       \/ /\ cache[Key(h)] = Nil
          /\ Goto(h, "ask")
          /\ UNCHANGED <<locals, mustBlock, mayPass>>
    /\ UNCHANGED <<shared, cache, edit>>

\* resolve: an upstream answers, or all of them fail.
Ask(h) ==
    /\ pc[h] = "ask"
    /\ \/ /\ \E msg \in Response(rtype[h]) : out' = [out EXCEPT ![h] = msg]
          /\ Goto(h, "add")
          /\ UNCHANGED <<query, bl, until, rtype, mustBlock, mayPass>>
       \/ Return(h, ErrorResponse(query[h], "servfail"))
    /\ UNCHANGED <<shared, cache, edit>>

\* Mutant: Cache.Add keeps the handler's message, which DNS64 rewrites.
Shared(h) ==
    IF rtype[h] # query[h].qtype THEN Synthesise(out[h]) ELSE out[h]

\* Cache.Add keeps a copy.
Copied(h) == out[h]

\* resolve: Cache.Add, which stores the response unless there is an error code,
\* a TTL of zero or nothing in it.
CacheAdd(h) ==
    /\ pc[h] = "add"
    /\ \/ cache' = [cache EXCEPT ![Key(h)] = [msg |-> Copied(h), permanent |-> FALSE]]
       \/ UNCHANGED cache
    /\ Resolved(h, out[h])
    /\ UNCHANGED <<shared, edit>>

-----------------------------------------------------------------------------
(* DNS over HTTPS *)

\* MakeDoHHandler: the request does not hold a DNS message.
RefuseRequest(h, fault) ==
    /\ pc[h] = "idle"
    /\ query' = [query EXCEPT ![h] = Nil]
    /\ reply' = [reply EXCEPT ![h] = Nil]
    /\ status' = [status EXCEPT ![h] = Faults[fault]]
    /\ mustBlock' = [mustBlock EXCEPT ![h] = FALSE]
    /\ mayPass' = [mayPass EXCEPT ![h] = FALSE]
    /\ UNCHANGED <<shared, cache, edit, pc, bl, until, rtype, out>>

\* Mutant: the handler is taken to have written a message.
AlwaysPacked(r) == {200, 500}

\* No message is "forbidden"; one that cannot be packed is a server error.
Statuses(r) == IF r = Nil THEN {403} ELSE {200, 500}

\* MakeDoHHandler, once the handler has returned.
WriteResponse(h) ==
    /\ pc[h] = "write"
    /\ \E code \in Statuses(reply[h]) : status' = [status EXCEPT ![h] = code]
    /\ pc' = [pc EXCEPT ![h] = "idle"]
    /\ UNCHANGED <<shared, cache, edit, locals, reply, mustBlock, mayPass>>

Serve(h) ==
    \/ ReadConfig(h) \/ CheckBlock(h) \/ CacheGet(h) \/ Ask(h) \/ CacheAdd(h)
    \/ WriteResponse(h)

-----------------------------------------------------------------------------
(* The API, the refresh goroutine and the clock *)

Serving == {h \in Handlers : pc[h] \notin {"idle", "log", "write"}}

\* What the histories become when the clock, the pause or a list changes.
Witness ==
    /\ UNCHANGED <<pc, locals, reply, status>>
    /\ mustBlock' = [h \in Handlers |->
            /\ mustBlock[h]
            /\ h \in Serving =>
                /\ InForce(query[h])'
                /\ \A l \in Lists : Match(lists[l], query[h]) => Match(lists'[l], query[h])]
    /\ mayPass' = [h \in Handlers |->
            mayPass[h] /\ (h \in Serving => pauseUntil' = pauseUntil /\ now' < pauseUntil)]

\* Mutant: a duration is taken as it comes.
AnySeconds(seconds) == seconds

\* "if req.Seconds <= 0 { req.Seconds = 300 }"
Seconds(seconds) == IF seconds <= 0 THEN DefaultPause ELSE seconds

PauseBlocking(seconds) ==
    /\ pauseUntil' = now + Seconds(seconds)
    /\ UNCHANGED <<now, blockList, lists, cache, edit>>
    /\ Witness

ResumeBlocking ==
    /\ pauseUntil' = 0
    /\ UNCHANGED <<now, blockList, lists, cache, edit>>
    /\ Witness

\* BlockListAdd and BlockListDelete read config.BlockList without the lock ...
BeginEdit(rule, add) ==
    /\ edit = Nil
    /\ edit' = [list |-> blockList, rule |-> rule, add |-> add]
    /\ UNCHANGED <<shared, cache, pc, locals, reply, status, mustBlock, mayPass>>

\* ... and change the list they have found.
EndEdit ==
    /\ edit # Nil
    /\ lists' = [lists EXCEPT ![edit.list] =
                    IF edit.add THEN @ \cup {edit.rule} ELSE @ \ {edit.rule}]
    /\ edit' = Nil
    /\ UNCHANGED <<now, pauseUntil, blockList, cache>>
    /\ Witness

\* The refresh goroutine builds a list from the configured sources and, if none
\* of them fails, puts it in place of the one in use.
Refresh ==
    /\ blockList < MaxList
    /\ \E rules \in Configured : lists' = [lists EXCEPT ![blockList + 1] = rules]
    /\ blockList' = blockList + 1
    /\ UNCHANGED <<now, pauseUntil, cache, edit>>
    /\ Witness

\* CacheAdd and CacheDelete of the API, and the expiry of an item.
ApiCacheAdd(k, permanent) ==
    /\ \E msg \in Response(k[2]) :
        /\ msg.answer # "none"
        /\ cache' = [cache EXCEPT ![k] = [msg |-> msg, permanent |-> permanent]]
    /\ UNCHANGED <<shared, edit, pc, locals, reply, status, mustBlock, mayPass>>

ApiCacheDelete(k) ==
    /\ cache' = [cache EXCEPT ![k] = Nil]
    /\ UNCHANGED <<shared, edit, pc, locals, reply, status, mustBlock, mayPass>>

Expire(k) ==
    /\ cache[k] # Nil /\ ~cache[k].permanent
    /\ cache' = [cache EXCEPT ![k] = Nil]
    /\ UNCHANGED <<shared, edit, pc, locals, reply, status, mustBlock, mayPass>>

Tick ==
    /\ now < MaxTime
    /\ now' = now + 1
    /\ UNCHANGED <<pauseUntil, blockList, lists, cache, edit>>
    /\ Witness

-----------------------------------------------------------------------------

Api ==
    \/ \E seconds \in Durations : PauseBlocking(seconds)
    \/ ResumeBlocking
    \/ \E rule \in Rules, add \in BOOLEAN : BeginEdit(rule, add)
    \/ EndEdit
    \/ \E k \in Keys, permanent \in BOOLEAN : ApiCacheAdd(k, permanent)
    \/ \E k \in Keys : ApiCacheDelete(k)

Next ==
    \/ \E h \in Handlers :
        \/ \E q \in Queries : Accept(h, q)
        \/ \E fault \in DOMAIN Faults : RefuseRequest(h, fault)
        \/ Serve(h)
        \/ LogQuery(h)
    \/ Api
    \/ Refresh
    \/ \E k \in Keys : Expire(k)
    \/ Tick

Spec == Init /\ [][Next]_vars

\* A handler keeps running: the locks of the configuration, of the blocklists and
\* of the cache are held only while data in memory is read or written, and the
\* upstreams answer or time out.  Nothing is assumed of the query log: LogQuery may
\* wait for ever for a client of /log that neither reads nor goes away.
FairSpec == Spec /\ \A h \in Handlers : WF_vars(Serve(h))

-----------------------------------------------------------------------------
(* Properties *)

TypeOK ==
    /\ now \in 1..MaxTime+1
    /\ pauseUntil \in Nat
    /\ blockList \in Lists
    /\ lists \in [Lists -> SUBSET Rules]
    /\ cache \in [Keys -> [msg : Messages, permanent : BOOLEAN] \cup {Nil}]
    /\ edit \in [list : Lists, rule : Rules, add : BOOLEAN] \cup {Nil}
    /\ pc \in [Handlers -> {"idle", "config", "match", "get", "ask", "add", "log", "write"}]
    /\ query \in [Handlers -> Queries \cup {Nil}]
    /\ bl \in [Handlers -> Lists]
    /\ until \in [Handlers -> Nat]
    /\ rtype \in [Handlers -> QTypes]
    /\ out \in [Handlers -> Messages \cup {Nil}]
    /\ reply \in [Handlers -> Messages \cup {Nil}]
    /\ status \in [Handlers -> {200, 400, 403, 404, 405, 415, 500, Nil}]
    /\ mustBlock \in [Handlers -> BOOLEAN]
    /\ mayPass \in [Handlers -> BOOLEAN]

\* The handler has written its message: over UDP or TCP the client has the reply,
\* over HTTPS MakeDoHHandler will write it.
Answered(h) == h \notin Serving /\ reply[h] # Nil

\* While a rule matches the query and blocking is not paused, from its arrival
\* on, the client does not get an answer: neither a refresh of the list nor an
\* edit of other rules nor a pause that has run out lets the query slip through.
BlockingHonoured ==
    \A h \in Handlers : Answered(h) /\ mustBlock[h] => reply[h].code = "blocked"

\* A query that arrives in a pause and is served before that pause ends or is
\* changed is not blocked.
PauseHonoured ==
    \A h \in Handlers : Answered(h) /\ mayPass[h] => reply[h].code # "blocked"

\* A reply has the question the client asked and records of that type; AAAA
\* records are made up from A records only for a AAAA query.  As the handler
\* rewrites a response that is also in the cache, or on its way there, this is
\* about what other handlers get, too.
ReplyMatchesQuery ==
    \A h \in Handlers : Answered(h) =>
        /\ reply[h].qtype = query[h].qtype
        /\ reply[h].answer \in {"none", query[h].qtype}
             \cup (IF Dns64 /\ query[h].qtype = "AAAA" THEN {"synthetic"} ELSE {})

\* The ACL applies to DoH "exactly as it does for UDP/TCP clients": a client that
\* is let in gets the message the handler wrote, or an error if it cannot be
\* packed; one that is not gets 403.
DoHLikeDNS ==
    \A h \in Handlers : pc[h] = "idle" /\ query[h] # Nil /\ query[h].via = "doh" =>
        status[h] \in IF query[h].valid /\ query[h].client \in Permitted
                      THEN {200, 500} ELSE {403}

\* For every query that is let in the handler writes a message, after at most two
\* calls of resolve, even if the query log stands still: the entry is added after
\* WriteMsg.  So a client over UDP or TCP always gets a reply; one over HTTPS gets
\* its response only when StatsHandler.Add has returned, which is not claimed.
QueriesEnd ==
    \A h \in Handlers : pc[h] = "config" ~> Answered(h)

\* ARCHITECTURE.md has "permanent entries for local RRs": the response of an
\* upstream does not replace one.
PermanentStays ==
    [][\A h \in Handlers, k \in Keys :
          cache[k] # Nil /\ cache[k].permanent /\ CacheAdd(h) => cache'[k] = cache[k]]_vars
=============================================================================
