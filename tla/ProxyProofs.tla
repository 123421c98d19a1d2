---------------------------- MODULE ProxyProofs -----------------------------
(***************************************************************************)
(* Proofs about Proxy, for any number of handlers that serve queries at    *)
(* the same time.                                                          *)
(*                                                                         *)
(* The inductive invariant follows a query through the handler: what it    *)
(* has read is still what the histories speak of, a query that must be     *)
(* blocked never gets past the check, and the cache holds under each key   *)
(* only responses as an upstream would give them for that key.             *)
(***************************************************************************)
EXTENDS Proxy, TLAPS

\* Leaves are for Zenon unless they cite another prover.
USE Zenon

Working == {"config", "match", "get", "ask", "add"}
Resolving == {"get", "ask", "add"}

LetIn(q) == q.valid /\ q.client \in Permitted

\* The handler has a query, and one that the ACL lets in if it works on it.
QueryInv(h) ==
    /\ pc[h] # "idle" => query[h] \in Queries
    /\ pc[h] \in Working => LetIn(query[h])

\* A query that must be blocked will be, or has been.
BlockInv(h) ==
    mustBlock[h] =>
        /\ pc[h] \in {"config", "match"} => InForce(query[h])
        /\ pc[h] = "match" => ~Paused(until[h]) /\ Match(lists[bl[h]], query[h])
        /\ pc[h] \notin Resolving
        /\ pc[h] \in {"idle", "log", "write"} /\ reply[h] # Nil => reply[h].code = "blocked"

\* A query that may pass will not be blocked.
PassInv(h) ==
    mayPass[h] =>
        /\ pc[h] \in {"config", "match"} => pauseUntil # 0 /\ now < pauseUntil
        /\ pc[h] = "match" => until[h] = pauseUntil
        /\ pc[h] \in {"idle", "log", "write"} /\ reply[h] # Nil => reply[h].code # "blocked"

\* A message that is fit for the query.
Fits(msg, q) ==
    /\ msg.qtype = q.qtype
    /\ msg.answer \in {"none", q.qtype}
         \cup (IF Dns64 /\ q.qtype = "AAAA" THEN {"synthetic"} ELSE {})

\* resolve is asked for the type of the query, or for A records for DNS64.
AnswerInv(h) ==
    /\ pc[h] \in {"config", "match"} => rtype[h] = query[h].qtype
    /\ pc[h] \in Resolving =>
        \/ rtype[h] = query[h].qtype
        \/ Dns64 /\ query[h].qtype = "AAAA" /\ rtype[h] = "A"
    /\ pc[h] = "add" => out[h] \in Response(rtype[h])
    /\ pc[h] \in {"idle", "log", "write"} /\ reply[h] # Nil => Fits(reply[h], query[h])

\* MakeDoHHandler finds a message exactly if the query was let in.
StatusInv(h) ==
    /\ pc[h] \in {"log", "write"} => (reply[h] # Nil <=> LetIn(query[h]))
    /\ pc[h] = "write" => query[h].via = "doh"
    /\ pc[h] = "idle" /\ query[h] # Nil /\ query[h].via = "doh" =>
        status[h] \in IF LetIn(query[h]) THEN {200, 500} ELSE {403}

HandlerInv(h) ==
    QueryInv(h) /\ BlockInv(h) /\ PassInv(h) /\ AnswerInv(h) /\ StatusInv(h)

\* What the cache has for a key answers it.
CacheInv == \A k \in Keys : cache[k] # Nil => cache[k].msg \in Response(k[2])

Inv == TypeOK /\ CacheInv /\ \A h \in Handlers : HandlerInv(h)

-----------------------------------------------------------------------------
(* Messages *)

LEMMA MessageTypes ==
    /\ \A t \in QTypes : \A msg \in Response(t) :
        /\ msg \in Messages /\ msg.code = "ok" /\ msg.qtype = t /\ msg.answer \in {"none", t}
        /\ Synthesise(msg) \in Messages /\ Synthesise(msg).code = "ok"
        /\ Synthesise(msg).qtype = "AAAA"
        /\ t = "A" => Synthesise(msg).answer \in {"none", "synthetic"}
    /\ \A q \in Queries, code \in {"blocked", "servfail"} :
        /\ ErrorResponse(q, code) \in Messages
        /\ ErrorResponse(q, code).code = code /\ Fits(ErrorResponse(q, code), q)
<1>1. ASSUME NEW t \in QTypes, NEW msg \in Response(t)
      PROVE  /\ msg \in Messages /\ msg.code = "ok" /\ msg.qtype = t /\ msg.answer \in {"none", t}
             /\ msg = [code |-> "ok", qtype |-> t, answer |-> msg.answer]
  BY DEF Response, Messages, QTypes
<1>2. ASSUME NEW t \in QTypes, NEW msg \in Response(t)
      PROVE  Synthesise(msg) = [code |-> "ok", qtype |-> "AAAA",
                                answer |-> IF msg.answer = "A" THEN "synthetic" ELSE msg.answer]
  BY <1>1 DEF Synthesise
<1>3. ASSUME NEW t \in QTypes, NEW msg \in Response(t)
      PROVE  /\ Synthesise(msg) \in Messages /\ Synthesise(msg).code = "ok"
             /\ Synthesise(msg).qtype = "AAAA"
             /\ t = "A" => Synthesise(msg).answer \in {"none", "synthetic"}
  BY SMT, <1>1, <1>2 DEF Messages, QTypes
<1>4. ASSUME NEW q \in Queries, NEW code \in {"blocked", "servfail"}
      PROVE  /\ ErrorResponse(q, code) \in Messages
             /\ ErrorResponse(q, code).code = code /\ Fits(ErrorResponse(q, code), q)
  BY ProxyAssumption DEF ErrorResponse, Messages, AllQueries, Fits
<1> QED BY <1>1, <1>3, <1>4

LEMMA QueryTypes ==
    ASSUME NEW q \in Queries
    PROVE  q.name \in Names /\ q.qtype \in QTypes /\ q.via \in {"dns", "doh"}
BY ProxyAssumption DEF AllQueries

-----------------------------------------------------------------------------
(* Initial states *)

LEMMA InitInv == Init => Inv
<1> SUFFICES ASSUME Init PROVE Inv
  OBVIOUS
<1>1. TypeOK
  BY SMT, ProxyAssumption DEF Init, TypeOK, Lists, QTypes
<1>2. CacheInv
  BY DEF Init, CacheInv
<1>3. ASSUME NEW h \in Handlers PROVE HandlerInv(h)
  BY DEF Init, HandlerInv, QueryInv, BlockInv, PassInv, AnswerInv, StatusInv, Working, Resolving
<1> QED BY <1>1, <1>2, <1>3 DEF Inv

-----------------------------------------------------------------------------
(* Steps of a handler *)

\* What another handler does does not concern this one.
Same(g) ==
    /\ pc'[g] = pc[g] /\ query'[g] = query[g] /\ bl'[g] = bl[g] /\ until'[g] = until[g]
    /\ rtype'[g] = rtype[g] /\ out'[g] = out[g] /\ reply'[g] = reply[g]
    /\ status'[g] = status[g] /\ mustBlock'[g] = mustBlock[g] /\ mayPass'[g] = mayPass[g]

LEMMA Frame ==
    ASSUME NEW g \in Handlers, HandlerInv(g), Same(g), UNCHANGED shared
    PROVE  HandlerInv(g)'
<1> USE DEF Same, shared
<1>1. QueryInv(g)'
  BY DEF HandlerInv, QueryInv, LetIn
<1>2. BlockInv(g)'
  BY DEF HandlerInv, BlockInv, InForce, Paused, Match
<1>3. PassInv(g)'
  BY DEF HandlerInv, PassInv
<1>4. AnswerInv(g)'
  BY DEF HandlerInv, AnswerInv, Fits
<1>5. StatusInv(g)'
  BY SMT DEF HandlerInv, StatusInv, LetIn
<1> QED BY <1>1, <1>2, <1>3, <1>4, <1>5 DEF HandlerInv

LEMMA AcceptStep ==
    ASSUME Inv, NEW h \in Handlers, NEW q \in Queries, Accept(h, q)
    PROVE  TypeOK' /\ \A g \in Handlers : HandlerInv(g)'
<1>1. q.name \in Names /\ q.qtype \in QTypes /\ q.via \in {"dns", "doh"}
  BY QueryTypes
<1>2. TypeOK'
  BY SMT, <1>1 DEF Inv, TypeOK, Accept, InForce, shared
<1>3. ASSUME NEW g \in Handlers, g # h PROVE HandlerInv(g)'
  BY SMT, <1>3, Frame DEF Inv, TypeOK, Accept, Same
<1>4. /\ query'[h] = q /\ reply'[h] = Nil /\ status'[h] = Nil
      /\ mustBlock'[h] = InForce(q) /\ mayPass'[h] = (pauseUntil # 0 /\ now < pauseUntil)
      /\ LetIn(q) => pc'[h] = "config" /\ rtype'[h] = q.qtype
      /\ ~LetIn(q) => pc'[h] = "log"
      /\ UNCHANGED shared
  BY SMT DEF Inv, TypeOK, Accept, LetIn
<1>5. QueryInv(h)'
  BY <1>1, <1>4 DEF QueryInv, Working, LetIn
<1>6. BlockInv(h)'
  BY <1>1, <1>4 DEF BlockInv, Resolving, InForce, Match, shared
<1>7. PassInv(h)'
  BY <1>1, <1>4 DEF PassInv, shared
<1>8. AnswerInv(h)'
  BY <1>1, <1>4 DEF AnswerInv, Resolving
<1>9. StatusInv(h)'
  BY <1>1, <1>4 DEF StatusInv, LetIn
<1> QED BY <1>2, <1>3, <1>5, <1>6, <1>7, <1>8, <1>9 DEF HandlerInv

LEMMA RefuseStep ==
    ASSUME Inv, NEW h \in Handlers, NEW fault \in DOMAIN Faults, RefuseRequest(h, fault)
    PROVE  TypeOK' /\ \A g \in Handlers : HandlerInv(g)'
<1>1. Faults[fault] \in {404, 400, 415, 405}
  BY SMT DEF Faults
<1>2. TypeOK'
  BY SMT, <1>1 DEF Inv, TypeOK, RefuseRequest, shared
<1>3. ASSUME NEW g \in Handlers, g # h PROVE HandlerInv(g)'
  <2>1. Same(g)
    BY SMT, <1>3 DEF Inv, TypeOK, RefuseRequest, Same
  <2> QED BY <2>1, Frame DEF Inv, RefuseRequest
<1>4. /\ query'[h] = Nil /\ reply'[h] = Nil /\ mustBlock'[h] = FALSE /\ mayPass'[h] = FALSE
      /\ pc'[h] = "idle"
  BY SMT DEF Inv, TypeOK, RefuseRequest
<1>5. HandlerInv(h)'
  BY <1>4 DEF HandlerInv, QueryInv, BlockInv, PassInv, AnswerInv, StatusInv, Working, Resolving
<1> QED BY <1>2, <1>3, <1>5

\* The handler returns a message that the histories allow and that fits.
LEMMA ReturnStep ==
    ASSUME Inv, NEW h \in Handlers, pc[h] \in Working, NEW r \in Messages, Return(h, r),
           UNCHANGED shared, Fits(r, query[h]),
           mustBlock[h] => r.code = "blocked", mayPass[h] => r.code # "blocked"
    PROVE  \A g \in Handlers : HandlerInv(g)'
<1>1. ASSUME NEW g \in Handlers, g # h PROVE HandlerInv(g)'
  BY SMT, <1>1, Frame DEF Inv, TypeOK, Return, Same
<1>2. query[h] \in Queries /\ LetIn(query[h]) /\ r # Nil
  BY ProxyAssumption DEF Inv, HandlerInv, QueryInv, Working
<1>3. /\ reply'[h] = r /\ pc'[h] = "log"
      /\ query'[h] = query[h] /\ mustBlock'[h] = mustBlock[h] /\ mayPass'[h] = mayPass[h]
  BY SMT DEF Inv, TypeOK, Return
<1>4. QueryInv(h)'
  BY <1>2, <1>3 DEF QueryInv, Working
<1>5. BlockInv(h)'
  BY <1>3 DEF BlockInv, Resolving
<1>6. PassInv(h)'
  BY <1>3 DEF PassInv
<1>7. AnswerInv(h)'
  BY <1>3 DEF AnswerInv, Resolving, Fits
<1>8. StatusInv(h)'
  BY SMT, <1>2, <1>3 DEF StatusInv, LetIn
<1> QED BY <1>1, <1>4, <1>5, <1>6, <1>7, <1>8 DEF HandlerInv

LEMMA ReturnType ==
    ASSUME TypeOK, NEW h \in Handlers, NEW r \in Messages, Return(h, r), UNCHANGED <<shared, edit>>,
           cache' \in [Keys -> [msg : Messages, permanent : BOOLEAN] \cup {Nil}]
    PROVE  TypeOK'
BY SMT, ProxyAssumption DEF TypeOK, Return, shared, Lists, QTypes

LEMMA ReadConfigStep ==
    ASSUME Inv, NEW h \in Handlers, ReadConfig(h)
    PROVE  TypeOK' /\ \A g \in Handlers : HandlerInv(g)'
<1>1. TypeOK'
  BY SMT DEF Inv, TypeOK, ReadConfig, Goto, shared
<1>2. ASSUME NEW g \in Handlers, g # h PROVE HandlerInv(g)'
  <2>1. Same(g)
    BY SMT, <1>2 DEF Inv, TypeOK, ReadConfig, Goto, Same
  <2> QED BY <2>1, Frame DEF Inv, ReadConfig
<1>3. /\ pc[h] = "config" /\ pc'[h] = "match" /\ bl'[h] = blockList /\ until'[h] = pauseUntil
      /\ query'[h] = query[h] /\ rtype'[h] = rtype[h]
      /\ mustBlock'[h] = mustBlock[h] /\ mayPass'[h] = mayPass[h] /\ UNCHANGED shared
  BY SMT DEF Inv, TypeOK, ReadConfig, Goto
<1>4. HandlerInv(h)
  BY DEF Inv
<1>5. QueryInv(h)'
  BY <1>3, <1>4 DEF HandlerInv, QueryInv, Working, LetIn
<1>6. BlockInv(h)'
  BY <1>3, <1>4 DEF HandlerInv, BlockInv, Resolving, InForce, Paused, Match, shared
<1>7. PassInv(h)'
  BY <1>3, <1>4 DEF HandlerInv, PassInv, shared
<1>8. AnswerInv(h)'
  BY <1>3, <1>4 DEF HandlerInv, AnswerInv, Resolving
<1>9. StatusInv(h)'
  BY <1>3 DEF StatusInv
<1> QED BY <1>1, <1>2, <1>5, <1>6, <1>7, <1>8, <1>9 DEF HandlerInv

\* A handler that goes on inside resolve with a query that need not be blocked.
LEMMA ResolveOn ==
    ASSUME Inv, NEW h \in Handlers, pc[h] \in Working, ~mustBlock[h],
           pc'[h] \in Resolving, query'[h] = query[h], mustBlock'[h] = mustBlock[h],
           \/ rtype'[h] = query[h].qtype
           \/ Dns64 /\ query[h].qtype = "AAAA" /\ rtype'[h] = "A",
           pc'[h] = "add" => out'[h] \in Response(rtype'[h])
    PROVE  HandlerInv(h)'
<1>1. HandlerInv(h)
  BY DEF Inv
<1>2. QueryInv(h)'
  BY <1>1 DEF HandlerInv, QueryInv, LetIn, Working
<1>3. BlockInv(h)'
  BY DEF BlockInv
<1>4. PassInv(h)'
  BY DEF PassInv, Resolving
<1>5. AnswerInv(h)'
  BY DEF AnswerInv, Resolving, Response
<1>6. StatusInv(h)'
  BY DEF StatusInv, Resolving
<1> QED BY <1>2, <1>3, <1>4, <1>5, <1>6 DEF HandlerInv

LEMMA CheckBlockStep ==
    ASSUME Inv, NEW h \in Handlers, CheckBlock(h)
    PROVE  TypeOK' /\ \A g \in Handlers : HandlerInv(g)'
<1>1. pc[h] = "match" /\ HandlerInv(h) /\ TypeOK /\ query[h] \in Queries
  BY DEF Inv, CheckBlock, HandlerInv, QueryInv
<1>2. CASE /\ ~Paused(until[h]) /\ Match(lists[bl[h]], query[h])
           /\ Return(h, ErrorResponse(query[h], "blocked"))
  <2> DEFINE r == ErrorResponse(query[h], "blocked")
  <2>1. r \in Messages /\ r.code = "blocked" /\ Fits(r, query[h])
    BY <1>1, MessageTypes
  <2>2. ~mayPass[h]
    BY <1>1, <1>2 DEF HandlerInv, PassInv, Paused
  <2>3. /\ UNCHANGED <<shared, edit>> /\ UNCHANGED shared
        /\ cache' \in [Keys -> [msg : Messages, permanent : BOOLEAN] \cup {Nil}]
    BY SMT DEF CheckBlock, Inv, TypeOK
  <2> HIDE DEF r
  <2>4. TypeOK'
    BY <1>1, <1>2, <2>1, <2>3, ReturnType DEF r
  <2>5. pc[h] \in Working
    BY <1>1 DEF Working
  <2>6. \A g \in Handlers : HandlerInv(g)'
    BY <1>2, <2>1, <2>2, <2>3, <2>5, ReturnStep DEF r
  <2> QED BY <2>4, <2>6
<1>3. CASE /\ Paused(until[h]) \/ ~Match(lists[bl[h]], query[h])
           /\ Goto(h, "get")
           /\ UNCHANGED <<locals, mustBlock, mayPass>>
  <2>1. TypeOK'
    BY SMT, <1>1, <1>3 DEF TypeOK, CheckBlock, Goto, shared, locals
  <2>2. ASSUME NEW g \in Handlers, g # h PROVE HandlerInv(g)'
    <3>1. Same(g)
      BY SMT, <1>1, <1>3, <2>2 DEF TypeOK, Goto, locals, Same
    <3> QED BY <3>1, Frame DEF Inv, CheckBlock
  <2>3. ~mustBlock[h]
    BY <1>1, <1>3 DEF HandlerInv, BlockInv
  <2>4. /\ pc'[h] = "get" /\ query'[h] = query[h] /\ mustBlock'[h] = mustBlock[h]
        /\ rtype'[h] = query[h].qtype
    BY SMT, <1>1, <1>3 DEF TypeOK, Goto, locals, HandlerInv, AnswerInv
  <2>5. HandlerInv(h)'
    BY <1>1, <2>3, <2>4, ResolveOn DEF Working, Resolving
  <2> QED BY <2>1, <2>2, <2>5
<1> QED BY <1>2, <1>3 DEF CheckBlock

\* resolve has returned a response to what it was asked for.
LEMMA ResolvedStep ==
    ASSUME Inv, NEW h \in Handlers, pc[h] \in Resolving,
           NEW msg \in Response(rtype[h]), Resolved(h, msg), UNCHANGED <<shared, edit>>,
           cache' \in [Keys -> [msg : Messages, permanent : BOOLEAN] \cup {Nil}]
    PROVE  TypeOK' /\ \A g \in Handlers : HandlerInv(g)'
<1> DEFINE first == rtype[h] = query[h].qtype
<1>1. /\ HandlerInv(h) /\ TypeOK /\ query[h] \in Queries /\ ~mustBlock[h] /\ UNCHANGED shared
      /\ pc[h] \in Working /\ rtype[h] \in QTypes
  BY SMT DEF Inv, TypeOK, HandlerInv, QueryInv, BlockInv, Resolving, Working
<1>2. first \/ (Dns64 /\ query[h].qtype = "AAAA" /\ rtype[h] = "A")
  BY <1>1 DEF HandlerInv, AnswerInv
<1>3. CASE /\ Dns64 /\ first /\ rtype[h] = "AAAA" /\ msg.answer = "none"
           /\ rtype' = [rtype EXCEPT ![h] = "A"]
           /\ out' = [out EXCEPT ![h] = Nil]
           /\ Goto(h, "get")
           /\ UNCHANGED <<query, bl, until, mustBlock, mayPass>>
  <2>1. TypeOK'
    BY SMT, <1>1, <1>3 DEF TypeOK, Goto, shared, QTypes
  <2>2. ASSUME NEW g \in Handlers, g # h PROVE HandlerInv(g)'
    <3>1. Same(g)
      BY SMT, <1>1, <1>3, <2>2 DEF TypeOK, Goto, Same
    <3> QED BY <1>1, <3>1, Frame DEF Inv
  <2>3. /\ pc'[h] = "get" /\ query'[h] = query[h] /\ mustBlock'[h] = mustBlock[h]
        /\ rtype'[h] = "A" /\ query[h].qtype = "AAAA" /\ Dns64
    BY SMT, <1>1, <1>3 DEF TypeOK, Goto
  <2>4. HandlerInv(h)'
    BY <1>1, <2>3, ResolveOn DEF Resolving
  <2> QED BY <2>1, <2>2, <2>4
<1>4. CASE Return(h, IF first THEN msg ELSE Synthesise(msg))
  <2> DEFINE r == IF first THEN msg ELSE Synthesise(msg)
  <2>1. r \in Messages /\ r.code = "ok" /\ Fits(r, query[h])
    <3>1. CASE first
      BY SMT, <1>1, <3>1, MessageTypes DEF Fits
    <3>2. CASE ~first
      BY SMT, <1>1, <1>2, <3>2, MessageTypes DEF Fits
    <3> QED BY <3>1, <3>2
  <2> HIDE DEF r
  <2>2. TypeOK'
    BY <1>1, <1>4, <2>1, ReturnType DEF r
  <2>3. \A g \in Handlers : HandlerInv(g)'
    BY <1>1, <1>4, <2>1, ReturnStep DEF r
  <2> QED BY <2>2, <2>3
<1> QED BY <1>3, <1>4 DEF Resolved

\* The key that resolve looks up is one of the cache's.
LEMMA KeyType ==
    ASSUME Inv, NEW h \in Handlers, pc[h] \in Working
    PROVE  Key(h) \in Keys /\ Key(h)[2] = rtype[h]
<1>1. query[h] \in Queries /\ rtype[h] \in QTypes
  BY SMT DEF Inv, TypeOK, HandlerInv, QueryInv, Working
<1> QED BY <1>1, QueryTypes DEF Key, Keys

LEMMA CacheGetStep ==
    ASSUME Inv, NEW h \in Handlers, CacheGet(h)
    PROVE  TypeOK' /\ CacheInv' /\ \A g \in Handlers : HandlerInv(g)'
<1>1. /\ pc[h] = "get" /\ pc[h] \in Working /\ pc[h] \in Resolving
      /\ HandlerInv(h) /\ TypeOK /\ CacheInv
  BY DEF Inv, CacheGet, Working, Resolving
<1>2. /\ UNCHANGED <<shared, edit>> /\ UNCHANGED shared /\ UNCHANGED cache
      /\ cache' \in [Keys -> [msg : Messages, permanent : BOOLEAN] \cup {Nil}]
  BY SMT, <1>1 DEF CacheGet, TypeOK
<1>3. CacheInv'
  BY <1>1, <1>2 DEF CacheInv
<1>4. CASE cache[Key(h)] # Nil /\ Resolved(h, cache[Key(h)].msg)
  <2>1. cache[Key(h)].msg \in Response(rtype[h])
    BY <1>1, <1>4, KeyType DEF CacheInv
  <2> QED BY <1>1, <1>2, <1>3, <1>4, <2>1, ResolvedStep
<1>5. CASE Goto(h, "ask") /\ UNCHANGED <<locals, mustBlock, mayPass>>
  <2>1. TypeOK'
    BY SMT, <1>1, <1>2, <1>5 DEF TypeOK, Goto, shared, locals
  <2>2. ASSUME NEW g \in Handlers, g # h PROVE HandlerInv(g)'
    <3>1. Same(g)
      BY SMT, <1>1, <1>5, <2>2 DEF TypeOK, Goto, locals, Same
    <3> QED BY <1>2, <3>1, Frame DEF Inv
  <2>3. /\ pc'[h] = "ask" /\ query'[h] = query[h] /\ mustBlock'[h] = mustBlock[h]
        /\ rtype'[h] = rtype[h] /\ ~mustBlock[h]
        /\ \/ rtype[h] = query[h].qtype
           \/ Dns64 /\ query[h].qtype = "AAAA" /\ rtype[h] = "A"
    BY SMT, <1>1, <1>5 DEF TypeOK, Goto, locals, HandlerInv, AnswerInv, BlockInv
  <2>4. HandlerInv(h)'
    BY <1>1, <2>3, ResolveOn DEF Resolving
  <2> QED BY <1>3, <2>1, <2>2, <2>4
<1> QED BY <1>4, <1>5 DEF CacheGet

LEMMA AskStep ==
    ASSUME Inv, NEW h \in Handlers, Ask(h)
    PROVE  TypeOK' /\ \A g \in Handlers : HandlerInv(g)'
<1>0. pc[h] = "ask" /\ HandlerInv(h) /\ TypeOK /\ rtype[h] \in QTypes
  BY SMT DEF Inv, Ask, TypeOK
<1>1. /\ pc[h] = "ask" /\ pc[h] \in Working /\ HandlerInv(h) /\ TypeOK
      /\ query[h] \in Queries /\ ~mustBlock[h] /\ rtype[h] \in QTypes
  BY SMT, <1>0 DEF Working, Resolving, HandlerInv, QueryInv, BlockInv
<1>2. /\ UNCHANGED <<shared, edit>> /\ UNCHANGED shared
      /\ cache' \in [Keys -> [msg : Messages, permanent : BOOLEAN] \cup {Nil}]
  BY SMT, <1>1 DEF Ask, TypeOK
<1>3. CASE /\ \E msg \in Response(rtype[h]) : out' = [out EXCEPT ![h] = msg]
           /\ Goto(h, "add")
           /\ UNCHANGED <<query, bl, until, rtype, mustBlock, mayPass>>
  <2>1. PICK msg \in Response(rtype[h]) : out' = [out EXCEPT ![h] = msg]
    BY <1>3
  <2>2. msg \in Messages
    BY <1>1, MessageTypes
  <2>3. TypeOK'
    BY SMT, <1>1, <1>2, <1>3, <2>1, <2>2 DEF TypeOK, Goto, shared
  <2>4. ASSUME NEW g \in Handlers, g # h PROVE HandlerInv(g)'
    <3>1. Same(g)
      BY SMT, <1>1, <1>3, <2>1, <2>4 DEF TypeOK, Goto, Same
    <3> QED BY <1>2, <3>1, Frame DEF Inv
  <2>5. /\ pc'[h] = "add" /\ query'[h] = query[h] /\ mustBlock'[h] = mustBlock[h]
        /\ rtype'[h] = rtype[h] /\ out'[h] = msg
        /\ \/ rtype[h] = query[h].qtype
           \/ Dns64 /\ query[h].qtype = "AAAA" /\ rtype[h] = "A"
    BY SMT, <1>1, <1>3, <2>1 DEF TypeOK, Goto, HandlerInv, AnswerInv, Resolving
  <2>6. HandlerInv(h)'
    BY <1>1, <2>5, ResolveOn DEF Resolving
  <2> QED BY <2>3, <2>4, <2>6
<1>4. CASE Return(h, ErrorResponse(query[h], "servfail"))
  <2> DEFINE r == ErrorResponse(query[h], "servfail")
  <2>1. r \in Messages /\ r.code = "servfail" /\ Fits(r, query[h])
    BY <1>1, MessageTypes
  <2> HIDE DEF r
  <2>2. TypeOK'
    BY <1>1, <1>2, <1>4, <2>1, ReturnType DEF r
  <2>3. \A g \in Handlers : HandlerInv(g)'
    BY <1>1, <1>2, <1>4, <2>1, ReturnStep DEF r
  <2> QED BY <2>2, <2>3
<1> QED BY <1>3, <1>4 DEF Ask

LEMMA CacheAddStep ==
    ASSUME Inv, NEW h \in Handlers, CacheAdd(h)
    PROVE  TypeOK' /\ CacheInv' /\ \A g \in Handlers : HandlerInv(g)'
<1>1. /\ pc[h] \in Working /\ pc[h] \in Resolving /\ TypeOK /\ CacheInv
      /\ out[h] \in Response(rtype[h]) /\ rtype[h] \in QTypes
  BY SMT DEF Inv, CacheAdd, Working, Resolving, HandlerInv, AnswerInv, TypeOK
<1>2. Key(h) \in Keys /\ Key(h)[2] = rtype[h] /\ out[h] \in Messages
  BY <1>1, KeyType, MessageTypes
<1>3. /\ cache' \in [Keys -> [msg : Messages, permanent : BOOLEAN] \cup {Nil}]
      /\ CacheInv'
  <2>1. CASE cache' = [cache EXCEPT ![Key(h)] = [msg |-> Copied(h), permanent |-> FALSE]]
    <3>1. cache' \in [Keys -> [msg : Messages, permanent : BOOLEAN] \cup {Nil}]
      BY SMT, <1>1, <1>2, <2>1 DEF Copied, TypeOK
    <3>2. ASSUME NEW k \in Keys, cache'[k] # Nil PROVE cache'[k].msg \in Response(k[2])
      <4>1. CASE k = Key(h)
        BY SMT, <1>1, <1>2, <2>1, <4>1 DEF Copied, TypeOK
      <4>2. CASE k # Key(h)
        BY SMT, <1>1, <1>2, <2>1, <3>2, <4>2 DEF CacheInv, TypeOK
      <4> QED BY <4>1, <4>2
    <3>3. CacheInv'
      BY <3>2 DEF CacheInv, Response
    <3> QED BY <3>1, <3>3
  <2>2. CASE UNCHANGED cache
    BY SMT, <1>1, <2>2 DEF CacheInv, TypeOK
  <2> QED BY <2>1, <2>2 DEF CacheAdd
<1>4. Resolved(h, out[h]) /\ UNCHANGED <<shared, edit>>
  BY DEF CacheAdd
<1> QED BY <1>1, <1>3, <1>4, ResolvedStep

LEMMA LogStep ==
    ASSUME Inv, NEW h \in Handlers, LogQuery(h)
    PROVE  TypeOK' /\ \A g \in Handlers : HandlerInv(g)'
<1>1. TypeOK'
  BY SMT DEF Inv, TypeOK, LogQuery, shared, locals
<1>2. ASSUME NEW g \in Handlers, g # h PROVE HandlerInv(g)'
  <2>1. Same(g)
    BY SMT, <1>2 DEF Inv, TypeOK, LogQuery, locals, Same
  <2> QED BY <2>1, Frame DEF Inv, LogQuery
<1>3. /\ pc[h] = "log" /\ pc'[h] = IF query[h].via = "doh" THEN "write" ELSE "idle"
      /\ query'[h] = query[h] /\ reply'[h] = reply[h]
      /\ mustBlock'[h] = mustBlock[h] /\ mayPass'[h] = mayPass[h] /\ HandlerInv(h)
  BY SMT DEF Inv, TypeOK, LogQuery, locals
<1>4. QueryInv(h)'
  BY <1>3 DEF HandlerInv, QueryInv, Working
<1>5. BlockInv(h)'
  BY <1>3 DEF HandlerInv, BlockInv, Resolving
<1>6. PassInv(h)'
  BY <1>3 DEF HandlerInv, PassInv
<1>7. AnswerInv(h)'
  BY <1>3 DEF HandlerInv, AnswerInv, Resolving, Fits
<1>8. StatusInv(h)'
  BY SMT, <1>3 DEF HandlerInv, StatusInv, LetIn
<1> QED BY <1>1, <1>2, <1>4, <1>5, <1>6, <1>7, <1>8 DEF HandlerInv

LEMMA WriteStep ==
    ASSUME Inv, NEW h \in Handlers, WriteResponse(h)
    PROVE  TypeOK' /\ \A g \in Handlers : HandlerInv(g)'
<1>1. PICK code \in Statuses(reply[h]) : status' = [status EXCEPT ![h] = code]
  BY DEF WriteResponse
<1>2. code \in {200, 403, 500}
  BY SMT DEF Statuses
<1>3. TypeOK'
  BY SMT, <1>1, <1>2 DEF Inv, TypeOK, WriteResponse, shared, locals
<1>4. ASSUME NEW g \in Handlers, g # h PROVE HandlerInv(g)'
  <2>1. Same(g)
    BY SMT, <1>1, <1>4 DEF Inv, TypeOK, WriteResponse, locals, Same
  <2> QED BY <2>1, Frame DEF Inv, WriteResponse
<1>5. /\ pc[h] = "write" /\ pc'[h] = "idle" /\ query'[h] = query[h] /\ reply'[h] = reply[h]
      /\ status'[h] = code /\ mustBlock'[h] = mustBlock[h] /\ mayPass'[h] = mayPass[h]
      /\ HandlerInv(h)
  BY SMT, <1>1 DEF Inv, TypeOK, WriteResponse, locals
<1>6. QueryInv(h)'
  BY <1>5 DEF QueryInv, Working
<1>7. BlockInv(h)'
  BY <1>5 DEF HandlerInv, BlockInv, Resolving
<1>8. PassInv(h)'
  BY <1>5 DEF HandlerInv, PassInv
<1>9. AnswerInv(h)'
  BY <1>5 DEF HandlerInv, AnswerInv, Resolving, Fits
<1>10. StatusInv(h)'
  BY SMT, <1>1, <1>5 DEF HandlerInv, StatusInv, Statuses, LetIn
<1> QED BY <1>3, <1>4, <1>6, <1>7, <1>8, <1>9, <1>10 DEF HandlerInv

-----------------------------------------------------------------------------
(* Steps of the API, the refresh goroutine and the clock *)

\* The histories give up what a change of the clock, the pause or a list breaks.
LEMMA WitnessStep ==
    ASSUME Inv, Witness, now' \in Nat, now' >= now
    PROVE  \A h \in Handlers : HandlerInv(h)'
<1> SUFFICES ASSUME NEW h \in Handlers PROVE HandlerInv(h)'
  OBVIOUS
<1>1. /\ HandlerInv(h) /\ now \in Nat /\ until[h] \in Nat /\ bl[h] \in Lists
  BY SMT DEF Inv, TypeOK
<1>2. UNCHANGED <<pc, locals, reply, status>>
  BY DEF Witness
<1>3. /\ mustBlock'[h] => mustBlock[h]
      /\ mustBlock'[h] /\ h \in Serving =>
            /\ InForce(query[h])'
            /\ \A l \in Lists : Match(lists[l], query[h]) => Match(lists'[l], query[h])
      /\ mayPass'[h] => mayPass[h]
      /\ mayPass'[h] /\ h \in Serving => pauseUntil' = pauseUntil /\ now' < pauseUntil
  BY DEF Witness
<1>4. pc[h] \in Working => h \in Serving
  BY DEF Serving, Working
<1>5. QueryInv(h)'
  BY <1>1, <1>2 DEF HandlerInv, QueryInv, LetIn, locals
<1>6. BlockInv(h)'
  <2>1. ASSUME pc[h] = "match", mustBlock'[h] PROVE (~Paused(until[h]))'
    BY SMTT(30), <1>1, <1>2, <1>3, <2>1 DEF HandlerInv, BlockInv, Paused, locals
  <2>2. ASSUME pc[h] = "match", mustBlock'[h] PROVE Match(lists[bl[h]], query[h])'
    <3>1. Match(lists[bl[h]], query[h])
      BY <1>1, <1>3, <2>2 DEF HandlerInv, BlockInv
    <3>2. Match(lists'[bl[h]], query[h])
      BY <1>1, <1>3, <1>4, <2>2, <3>1 DEF Working
    <3> QED BY <1>2, <3>2 DEF Match, locals
  <2>3. ASSUME pc[h] \in {"config", "match"}, mustBlock'[h] PROVE InForce(query[h])'
    BY <1>3, <1>4, <2>3 DEF Working
  <2>4. ASSUME mustBlock'[h]
        PROVE  /\ pc[h] \notin Resolving
               /\ pc[h] \in {"idle", "log", "write"} /\ reply[h] # Nil => reply[h].code = "blocked"
    BY <1>1, <1>3, <2>4 DEF HandlerInv, BlockInv
  <2> QED BY <1>2, <2>1, <2>2, <2>3, <2>4 DEF BlockInv
<1>7. PassInv(h)'
  BY <1>1, <1>2, <1>3, <1>4 DEF HandlerInv, PassInv, locals, Working
<1>8. AnswerInv(h)'
  BY <1>1, <1>2 DEF HandlerInv, AnswerInv, Fits, locals
<1>9. StatusInv(h)'
  BY SMT, <1>1, <1>2 DEF HandlerInv, StatusInv, LetIn, locals
<1> QED BY <1>5, <1>6, <1>7, <1>8, <1>9 DEF HandlerInv

LEMMA WitnessType ==
    ASSUME Inv, Witness, UNCHANGED cache, now' \in 1..MaxTime+1, now' >= now,
           pauseUntil' \in Nat, blockList' \in Lists, lists' \in [Lists -> SUBSET Rules],
           edit' \in [list : Lists, rule : Rules, add : BOOLEAN] \cup {Nil}
    PROVE  Inv'
<1>1. mustBlock' \in [Handlers -> BOOLEAN] /\ mayPass' \in [Handlers -> BOOLEAN]
  BY SMT DEF Inv, TypeOK, Witness
<1>2. TypeOK'
  BY SMT, <1>1 DEF Inv, TypeOK, Witness, locals
<1>3. CacheInv'
  BY DEF Inv, CacheInv
<1>4. now' \in Nat
  BY SMT, ProxyAssumption
<1> QED BY <1>2, <1>3, <1>4, WitnessStep DEF Inv

LEMMA PauseStep ==
    ASSUME Inv,
           \/ \E seconds \in Durations : PauseBlocking(seconds)
           \/ ResumeBlocking \/ Tick
    PROVE  Inv'
<1>1. now \in 1..MaxTime+1 /\ now \in Nat /\ pauseUntil \in Nat /\ TypeOK
  BY SMT, ProxyAssumption DEF Inv, TypeOK
<1>2. ASSUME NEW seconds \in Durations, PauseBlocking(seconds) PROVE Inv'
  <2>1. Seconds(seconds) \in Nat
    BY SMT, ProxyAssumption DEF Seconds
  <2>2. pauseUntil' \in Nat
    BY SMT, <1>1, <1>2, <2>1 DEF PauseBlocking
  <2> QED BY SMT, <1>1, <1>2, <2>2, WitnessType DEF PauseBlocking, TypeOK
<1>3. CASE ResumeBlocking
  BY SMT, <1>1, <1>3, WitnessType DEF ResumeBlocking, TypeOK
<1>4. CASE Tick
  <2>1. now' \in 1..MaxTime+1 /\ now' >= now
    BY SMT, <1>1, <1>4, ProxyAssumption DEF Tick
  <2> QED BY SMT, <1>1, <1>4, <2>1, WitnessType DEF Tick, TypeOK
<1> QED BY <1>2, <1>3, <1>4

LEMMA ListStep ==
    ASSUME Inv, EndEdit \/ Refresh
    PROVE  Inv'
<1>1. now \in 1..MaxTime+1 /\ now \in Nat /\ TypeOK
  BY SMT, ProxyAssumption DEF Inv, TypeOK
<1>2. CASE EndEdit
  <2>1. edit \in [list : Lists, rule : Rules, add : BOOLEAN]
    BY SMT, <1>1, <1>2 DEF EndEdit, TypeOK
  <2>2. lists' \in [Lists -> SUBSET Rules]
    BY SMT, <1>1, <1>2, <2>1 DEF EndEdit, TypeOK
  <2> QED BY SMT, <1>1, <1>2, <2>2, WitnessType DEF EndEdit, TypeOK
<1>3. CASE Refresh
  <2>1. blockList' \in Lists
    BY SMT, <1>1, <1>3, ProxyAssumption DEF Refresh, TypeOK, Lists
  <2>2. lists' \in [Lists -> SUBSET Rules]
    <3>1. PICK rules \in Configured : lists' = [lists EXCEPT ![blockList + 1] = rules]
      BY <1>3 DEF Refresh
    <3>2. rules \in SUBSET Rules
      BY ProxyAssumption
    <3> QED BY <1>1, <3>1, <3>2 DEF TypeOK
  <2> QED BY SMT, <1>1, <1>3, <2>1, <2>2, WitnessType DEF Refresh, TypeOK
<1> QED BY <1>2, <1>3

\* Nothing that a handler has or has read changes.
LEMMA QuietStep ==
    ASSUME Inv, UNCHANGED <<shared, pc, locals, reply, status, mustBlock, mayPass>>
    PROVE  \A g \in Handlers : HandlerInv(g)'
<1> SUFFICES ASSUME NEW g \in Handlers PROVE HandlerInv(g)'
  OBVIOUS
<1>1. Same(g)
  BY DEF Same, locals
<1> QED BY <1>1, Frame DEF Inv

LEMMA CacheStep ==
    ASSUME Inv, NEW k \in Keys,
           \/ \E permanent \in BOOLEAN : ApiCacheAdd(k, permanent)
           \/ ApiCacheDelete(k) \/ Expire(k)
    PROVE  Inv'
<1>1. UNCHANGED <<shared, edit, pc, locals, reply, status, mustBlock, mayPass>>
  BY DEF ApiCacheAdd, ApiCacheDelete, Expire
<1>2. k[2] \in QTypes
  BY DEF Keys
<1>3. \/ \E msg \in Response(k[2]), permanent \in BOOLEAN :
            cache' = [cache EXCEPT ![k] = [msg |-> msg, permanent |-> permanent]]
      \/ cache' = [cache EXCEPT ![k] = Nil]
  BY DEF ApiCacheAdd, ApiCacheDelete, Expire
<1>4. /\ cache' \in [Keys -> [msg : Messages, permanent : BOOLEAN] \cup {Nil}]
      /\ \A j \in Keys : cache'[j] # Nil => cache'[j].msg \in Response(j[2])
  <2>1. CASE cache' = [cache EXCEPT ![k] = Nil]
    BY SMT, <2>1 DEF Inv, TypeOK, CacheInv
  <2>2. ASSUME NEW msg \in Response(k[2]), NEW permanent \in BOOLEAN,
               cache' = [cache EXCEPT ![k] = [msg |-> msg, permanent |-> permanent]]
        PROVE  /\ cache' \in [Keys -> [msg : Messages, permanent : BOOLEAN] \cup {Nil}]
               /\ \A j \in Keys : cache'[j] # Nil => cache'[j].msg \in Response(j[2])
    <3>1. msg \in Messages
      BY <1>2, MessageTypes
    <3> QED BY SMT, <2>2, <3>1 DEF Inv, TypeOK, CacheInv
  <2> QED BY <1>3, <2>1, <2>2
<1>5. TypeOK'
  BY ZenonT(30), <1>1, <1>4 DEF Inv, TypeOK, shared, locals
<1>6. CacheInv'
  BY <1>4 DEF CacheInv, Response
<1>7. \A g \in Handlers : HandlerInv(g)'
  BY <1>1, QuietStep
<1> QED BY <1>5, <1>6, <1>7 DEF Inv

LEMMA BeginEditStep ==
    ASSUME Inv, NEW rule \in Rules, NEW add \in BOOLEAN, BeginEdit(rule, add)
    PROVE  Inv'
<1>1. TypeOK'
  BY SMT DEF Inv, TypeOK, BeginEdit, shared, locals
<1>2. CacheInv'
  BY DEF Inv, CacheInv, BeginEdit
<1>3. \A g \in Handlers : HandlerInv(g)'
  BY QuietStep DEF BeginEdit
<1> QED BY <1>1, <1>2, <1>3 DEF Inv

-----------------------------------------------------------------------------
(* All steps *)

LEMMA ServeStep ==
    ASSUME Inv, NEW h \in Handlers,
           \/ \E q \in Queries : Accept(h, q)
           \/ \E fault \in DOMAIN Faults : RefuseRequest(h, fault)
           \/ Serve(h) \/ LogQuery(h)
    PROVE  Inv'
<1>1. CASE CacheGet(h) \/ CacheAdd(h)
  BY <1>1, CacheGetStep, CacheAddStep DEF Inv
<1>2. CASE ~(CacheGet(h) \/ CacheAdd(h))
  <2>1. UNCHANGED cache
    BY <1>2 DEF Serve, Accept, RefuseRequest, ReadConfig, CheckBlock, Ask, LogQuery, WriteResponse
  <2>2. CacheInv'
    BY <2>1 DEF Inv, CacheInv
  <2>3. TypeOK' /\ \A g \in Handlers : HandlerInv(g)'
    BY <1>2, AcceptStep, RefuseStep, ReadConfigStep, CheckBlockStep, AskStep, LogStep, WriteStep
       DEF Serve
  <2> QED BY <2>2, <2>3 DEF Inv
<1> QED BY <1>1, <1>2

LEMMA NextInv ==
    ASSUME Inv, [Next]_vars
    PROVE  Inv'
<1>1. ASSUME NEW h \in Handlers,
             \/ \E q \in Queries : Accept(h, q)
             \/ \E fault \in DOMAIN Faults : RefuseRequest(h, fault)
             \/ Serve(h) \/ LogQuery(h)
      PROVE  Inv'
  BY <1>1, ServeStep
<1>2. CASE Api
  BY <1>2, PauseStep, BeginEditStep, ListStep, CacheStep DEF Api
<1>3. CASE Refresh \/ Tick
  BY <1>3, ListStep, PauseStep
<1>4. ASSUME NEW k \in Keys, Expire(k) PROVE Inv'
  BY <1>4, CacheStep
<1>5. CASE UNCHANGED vars
  <2>1. TypeOK' /\ CacheInv'
    BY ZenonT(30), <1>5 DEF Inv, TypeOK, CacheInv, vars, shared, locals
  <2>2. \A g \in Handlers : HandlerInv(g)'
    BY <1>5, QuietStep DEF vars
  <2> QED BY <2>1, <2>2 DEF Inv
<1> QED BY <1>1, <1>2, <1>3, <1>4, <1>5 DEF Next

LEMMA Invariance == Spec => []Inv
BY InitInv, NextInv, PTL DEF Spec

\* Types of the shared configuration, the cache and the handlers' locals.
THEOREM TypeCorrect == Spec => []TypeOK
<1>1. Inv => TypeOK
  BY DEF Inv
<1> QED BY <1>1, Invariance, PTL

\* However many handlers run, and however the blocklist is edited and replaced and
\* blocking paused under them: MakeHandler blocks a query that a rule matches all
\* the time it is served.
THEOREM Blocks == Spec => []BlockingHonoured
<1>1. Inv => BlockingHonoured
  BY DEF Inv, HandlerInv, BlockInv, BlockingHonoured, Answered, Serving
<1> QED BY <1>1, Invariance, PTL

\* MakeHandler does not block a query that it serves within one pause.
THEOREM Pauses == Spec => []PauseHonoured
<1>1. Inv => PauseHonoured
  BY DEF Inv, HandlerInv, PassInv, PauseHonoured, Answered, Serving
<1> QED BY <1>1, Invariance, PTL

\* What DNS64 rewrites never reaches a client that asked for something else, by
\* way of the cache or directly.
THEOREM RepliesMatch == Spec => []ReplyMatchesQuery
<1>1. Inv => ReplyMatchesQuery
  BY DEF Inv, HandlerInv, AnswerInv, Fits, ReplyMatchesQuery, Answered, Serving
<1> QED BY <1>1, Invariance, PTL

\* MakeDoHHandler answers 403 exactly to the clients and queries that the handler
\* drops.
THEOREM DoHMatchesDNS == Spec => []DoHLikeDNS
<1>1. Inv => DoHLikeDNS
  BY SMT DEF Inv, HandlerInv, StatusInv, LetIn, DoHLikeDNS
<1> QED BY <1>1, Invariance, PTL
=============================================================================
