----------------------------- MODULE ServerProofs -----------------------------
(* Proofs about Server, for every number of processes and all options. *)
EXTENDS Server, SequenceTheorems, TLAPS

\* Leaves are for Zenon unless they cite another prover.
USE Zenon

\* The options that GetUserConfig returns are lists of values.
LEMMA ListsType ==
    ASSUME NEW line \in Lines, UserConfig[line] # Nil
    PROVE  UserConfig[line].lists \in [ListOptions -> Seq(Values)]
<1>. DEFINE file == CommandLine[line].file
            flags == CommandLine[line].flags
            f == IF file = Nil THEN NewUserConfig ELSE file
<1>1. UserConfig[line] = GetUserConfig(file, flags)
  BY DEF UserConfig
<1>2. file # Unreadable
  BY <1>1 DEF GetUserConfig
<1>3. file \in UserConfigs \cup {Nil} /\ flags \in UserConfigs
  BY <1>2, ServerAssumption
<1>4. flags.lists \in [ListOptions -> Seq(Values)]
  BY <1>3 DEF UserConfigs
<1>5. f.lists \in [ListOptions -> Seq(Values)]
  BY <1>3, EmptySeq DEF UserConfigs, NewUserConfig
<1>6. \A o \in ListOptions : AppendLists(f.lists[o], flags.lists[o]) \in Seq(Values)
  BY <1>4, <1>5, ConcatProperties DEF AppendLists
<1>7. DefaultListen \in Seq(Values) /\ DefaultUpstream \in Seq(Values)
  BY ServerAssumption
<1>. HIDE DEF file, flags
<1> QED BY SMT, <1>1, <1>2, <1>6, <1>7, EmptySeq DEF GetUserConfig

\* Every value of an option stands for finitely many listeners.
LEMMA ListenersType ==
    ASSUME NEW kind \in {"udp", "tcp", "https"}, NEW values \in Seq(Values)
    PROVE  Listeners(kind, values) \subseteq Goroutines
<1>. SUFFICES ASSUME NEW i \in DOMAIN values, NEW j \in DOMAIN ParseAddr(values[i])
              PROVE  <<kind, i, j>> \in Goroutines
  BY SMT DEF Listeners
<1>1. i \in Nat /\ values[i] \in Values
  BY SMT, LenProperties, ElementOfSeq
<1>2. ParseAddr(values[i]) \in Seq(Addrs)
  BY <1>1, ServerAssumption
<1>3. j \in Nat
  BY SMT, <1>2, LenProperties
<1> QED BY <1>1, <1>3 DEF Goroutines

\* What a process wants depends on its command line alone.
LEMMA SameOptions ==
    ASSUME NEW p, given'[p] = given[p]
    PROVE  /\ Uc(p)' = Uc(p)
           /\ OnPath(p)' = OnPath(p)
           /\ Wanted(p)' = Wanted(p)
           /\ \A g : Socket(p, g)' = Socket(p, g)
           /\ Needs(p)' = Needs(p)
           /\ Misconfigured(p)' = Misconfigured(p)
<1>1. Uc(p)' = Uc(p)
  BY DEF Uc
<1>2. OnPath(p)' = OnPath(p)
  BY <1>1 DEF OnPath
<1>3. Wanted(p)' = Wanted(p)
  BY <1>1 DEF Wanted
<1>4. \A g : Socket(p, g)' = Socket(p, g)
  BY <1>1 DEF Socket
<1>5. ApiNeeds(p)' = ApiNeeds(p)
  BY <1>1, <1>2 DEF ApiNeeds
<1>6. Needs(p)' = Needs(p)
  BY <1>3, <1>4, <1>5 DEF Needs
<1>7. Misconfigured(p)' = Misconfigured(p)
  BY <1>1, <1>3, <1>4, <1>5, <1>6 DEF Misconfigured
<1> QED BY <1>1, <1>2, <1>3, <1>4, <1>6, <1>7

-----------------------------------------------------------------------------
(* The inductive invariant *)

Listening == {"services", "sleep", "ready"}
Dirty == {"crash", "fatal", "default"}

\* How far main, the other goroutines and the signal handler have come.
ProcInv(p) ==
    /\ IF pc[p] = "off" THEN given[p] = Nil ELSE given[p] \in Lines
    /\ pc[p] \in {"register", "listen"} \cup Listening => given[p] \notin Refused
    /\ pc[p] \in {"listen"} \cup Listening => handles[p]
    /\ gos[p] # {} => pc[p] \in Listening
    /\ gos[p] \subseteq Wanted(p)
    /\ \A g \in gos[p] : g[1] = "https" => doh[p] = "started"
    /\ api[p] # "off" => pc[p] \in {"sleep", "ready"} /\ Uc(p).bools["api"]
    /\ api[p] \in {"bound", "failed", "fatal"} => OnPath(p)
    /\ doh[p] # "off" => /\ pc[p] \in {"sleep", "ready"}
                         /\ Listeners("https", Uc(p).lists["doh"]) # {}
    /\ signals[p] # "default" => api[p] \in {"serve", "fatal"} /\ OnPath(p)
    /\ signals[p] \in {"caught", "removed"} => p \in caught
    /\ cause[p] # "none" <=> pc[p] = "ended"

\* A goroutine of p has bound the socket s: it is no longer waiting to.
Bound(p, s) ==
    \/ \E h \in Wanted(p) :
        h \notin gos[p] /\ Socket(p, h) = s /\ (h[1] = "https" => doh[p] = "started")
    \/ api[p] = "serve" /\ ~OnPath(p) /\ s = <<"tcp", ApiBind(Uc(p))>>

SockInv(s) ==
    sock[s] # Nil => pc[sock[s]] \in Listening /\ Bound(sock[s], s)

\* The file of a UNIX socket was made by a process that was told to, and that
\* has not removed it.
FileInv(path) ==
    LET p == socketFile[path] IN
    p # Nil =>
        /\ OnPath(p) /\ path = ApiBind(Uc(p)) /\ path \in Needs(p)
        /\ pc[p] = "ended" \/ api[p] \in {"bound", "serve"}
        /\ signals[p] # "removed" /\ cause[p] # "signal"

\* Two processes that are alive have met, and nobody has met one that is still to
\* be started.
MetInv(p, q) ==
    /\ Alive(p) /\ Alive(q) /\ p # q => q \in met[p]
    /\ q \in met[p] => given[q] # Nil

\* SocketFileStays, from the moment the socket is bound.
StayInv(p) ==
    api[p] \in {"bound", "serve"} /\ OnPath(p) =>
        socketFile[ApiBind(Uc(p))] = p \/ ({p} \cup met[p]) \cap caught # {}

\* Another process is to blame for an error of p.
Blame(p) == \E q \in Servers \ {p} : InTheWay(q, p)

BlameInv(p) == api[p] \in {"failed", "fatal"} => Misconfigured(p) \/ Blame(p)

CauseInv(p) == cause[p] = "fatal" => Misconfigured(p) \/ Blame(p)

Inv ==
    /\ TypeOK
    /\ \A p \in Servers : ProcInv(p) /\ StayInv(p) /\ BlameInv(p) /\ CauseInv(p)
    /\ \A s \in Sockets : SockInv(s)
    /\ \A path \in Paths : FileInv(path)
    /\ \A p, q \in Servers : MetInv(p, q)

\* Who is to blame depends on the command lines and on what has happened.
LEMMA SameBlame ==
    ASSUME NEW p \in Servers, UNCHANGED <<given, cause, met>>
    PROVE  Blame(p)' = Blame(p)
<1>1. \A q \in Servers : Needs(q)' = Needs(q)
  BY SameOptions
<1>2. \A q \in Servers : InTheWay(q, p)' = InTheWay(q, p)
  BY <1>1 DEF InTheWay
<1> QED BY <1>2 DEF Blame

\* Who has a socket, and who has made a file.
LEMMA Owner ==
    ASSUME Inv, NEW s \in Sockets, sock[s] # Nil
    PROVE  sock[s] \in Servers /\ pc[sock[s]] \in Listening /\ Bound(sock[s], s)
<1>1. sock \in [Sockets -> Servers \cup {Nil}] /\ SockInv(s)
  BY DEF Inv, TypeOK
<1> QED BY <1>1 DEF SockInv

LEMMA Maker ==
    ASSUME Inv, NEW path \in Paths, socketFile[path] # Nil
    PROVE  socketFile[path] \in Servers /\ FileInv(path)
<1>1. socketFile \in [Paths -> Servers \cup {Nil}] /\ FileInv(path)
  BY DEF Inv, TypeOK
<1> QED BY <1>1

LEMMA InitInv == Init => Inv
<1>. SUFFICES ASSUME Init PROVE Inv
  OBVIOUS
<1>1. TypeOK
  BY DEF Init, TypeOK, Alive
<1>2. \A p \in Servers : ProcInv(p) /\ StayInv(p) /\ BlameInv(p) /\ CauseInv(p)
  BY DEF Init, ProcInv, StayInv, BlameInv, CauseInv, Listening
<1>3. \A s \in Sockets : SockInv(s)
  BY DEF Init, SockInv
<1>4. \A path \in Paths : FileInv(path)
  BY DEF Init, FileInv
<1>5. \A p, q \in Servers : MetInv(p, q)
  BY DEF Init, MetInv, Alive
<1> QED BY <1>1, <1>2, <1>3, <1>4, <1>5 DEF Inv

\* A new process.
LEMMA StartStep ==
    ASSUME Inv, NEW p \in Servers, NEW line \in Lines, Start(p, line)
    PROVE  Inv'
<1>1. /\ pc[p] = "off"
      /\ gos[p] = {} /\ api[p] = "off" /\ doh[p] = "off" /\ signals[p] = "default"
      /\ cause[p] = "none"
      /\ \A s \in Sockets : sock[s] # p
      /\ \A path \in Paths : socketFile[path] # p
  <2>1. pc[p] = "off" /\ p # Nil
    BY ServerAssumption DEF Start
  <2>2. gos[p] = {} /\ api[p] = "off" /\ doh[p] = "off" /\ signals[p] = "default"
    BY <2>1 DEF Inv, TypeOK, Alive
  <2>3. cause[p] = "none"
    BY <2>1 DEF Inv, ProcInv
  <2>4. \A s \in Sockets : sock[s] # p
    BY <2>1 DEF Inv, SockInv, Listening
  <2>5. \A path \in Paths : socketFile[path] # p
    BY <2>1, <2>2 DEF Inv, FileInv
  <2> QED BY <2>1, <2>2, <2>3, <2>4, <2>5
<1>2. \A q \in Servers \ {p} :
        /\ given'[q] = given[q] /\ pc'[q] = pc[q] /\ met[q] \subseteq met'[q]
        /\ OnPath(q)' = OnPath(q) /\ Uc(q)' = Uc(q) /\ Wanted(q)' = Wanted(q)
        /\ \A g : Socket(q, g)' = Socket(q, g)
        /\ Misconfigured(q)' = Misconfigured(q) /\ Needs(q)' = Needs(q)
  <2>. TAKE q \in Servers \ {p}
  <2>1. given'[q] = given[q] /\ pc'[q] = pc[q] /\ met[q] \subseteq met'[q]
    BY DEF Start, Inv, TypeOK
  <2> QED BY <2>1, SameOptions
<1>3. given'[p] = line /\ pc'[p] = "config"
  BY DEF Start, Inv, TypeOK
<1>4. TypeOK'
  BY SMT, <1>1 DEF Start, Inv, TypeOK, Alive
<1>5. \A q \in Servers : ProcInv(q)'
  <2>. SUFFICES ASSUME NEW q \in Servers PROVE ProcInv(q)'
    OBVIOUS
  <2>1. UNCHANGED <<handles, gos, api, doh, signals, caught, cause>>
    BY DEF Start
  <2>2. CASE q = p
    BY <1>1, <1>3, <2>1, <2>2 DEF ProcInv, Listening
  <2>3. CASE q # p
    BY SMT, <1>2, <2>1, <2>3 DEF Inv, ProcInv
  <2> QED BY <2>2, <2>3
<1>6. \A q \in Servers : StayInv(q)'
  <2>. SUFFICES ASSUME NEW q \in Servers PROVE StayInv(q)'
    OBVIOUS
  <2>1. UNCHANGED <<api, socketFile, caught>>
    BY DEF Start
  <2>2. CASE q = p
    BY <1>1, <2>1, <2>2 DEF StayInv
  <2>3. CASE q # p
    <3>1. StayInv(q) /\ met[q] \subseteq met'[q]
      BY <1>2, <2>3 DEF Inv
    <3> QED BY <1>2, <2>1, <2>3, <3>1 DEF StayInv
  <2> QED BY <2>2, <2>3
<1>7. \A q \in Servers : BlameInv(q)' /\ CauseInv(q)'
  <2>. SUFFICES ASSUME NEW q \in Servers PROVE BlameInv(q)' /\ CauseInv(q)'
    OBVIOUS
  <2>1. UNCHANGED <<api, cause>>
    BY DEF Start
  <2>2. CASE q = p
    BY <1>1, <2>1, <2>2 DEF BlameInv, CauseInv
  <2>3. CASE q # p
    <3>1. given[p] = Nil /\ p \notin met[q]
      BY <1>1 DEF Inv, ProcInv, MetInv
    <3>2. Blame(q) => Blame(q)'
      <4>. SUFFICES ASSUME NEW r \in Servers \ {q}, InTheWay(r, q) PROVE InTheWay(r, q)'
        BY DEF Blame
      <4>1. r # p
        BY <1>1, <3>1 DEF InTheWay
      <4>2. Needs(r)' = Needs(r) /\ Needs(q)' = Needs(q) /\ met[q] \subseteq met'[q]
        BY <1>2, <2>3, <4>1
      <4> QED BY <2>1, <4>2 DEF InTheWay
    <3> QED BY <1>2, <2>1, <2>3, <3>2 DEF Inv, BlameInv, CauseInv
  <2> QED BY <2>2, <2>3
<1>8. \A s \in Sockets : SockInv(s)'
  BY SMT, <1>1, <1>2, <1>3 DEF Start, Inv, TypeOK, SockInv, Bound
<1>9. \A path \in Paths : FileInv(path)'
  BY SMT, <1>1, <1>2, <1>3 DEF Start, Inv, TypeOK, FileInv
<1>10. \A q, r \in Servers : MetInv(q, r)'
  <2>1. \A q, r \in Servers : Alive(q)' /\ Alive(r)' /\ q # r => r \in met'[q]
    BY SMT, <1>2, <1>3 DEF Start, Inv, TypeOK, MetInv, Alive
  <2>2. ASSUME NEW q \in Servers, NEW r \in Servers, r \in met'[q] PROVE given'[r] # Nil
    <3>1. r = p \/ r \in met[q] \/ Alive(r)
      BY <2>2 DEF Start, Inv, TypeOK
    <3>2. r = p \/ given[r] # Nil
      BY <3>1, ServerAssumption DEF Inv, MetInv, ProcInv, Alive
    <3> QED BY <1>2, <1>3, <3>2, ServerAssumption
  <2> QED BY <2>1, <2>2 DEF MetInv, Alive
<1> QED BY <1>4, <1>5, <1>6, <1>7, <1>8, <1>9, <1>10 DEF Inv

\* A process ends: what is held against the others is kept.
LEMMA EndStep ==
    ASSUME Inv, NEW p \in Servers, Alive(p),
           NEW why \in {"fatal", "default", "signal", "crash"}, End(p, why),
           why = "fatal" => Misconfigured(p) \/ Blame(p),
           why = "signal" => signals[p] = "removed"
    PROVE  Inv'
<1>1. \A q \in Servers :
        /\ OnPath(q)' = OnPath(q) /\ Uc(q)' = Uc(q) /\ Wanted(q)' = Wanted(q)
        /\ \A g : Socket(q, g)' = Socket(q, g)
        /\ Misconfigured(q)' = Misconfigured(q) /\ Needs(q)' = Needs(q)
  BY SameOptions DEF End
<1>2. UNCHANGED <<given, handles, socketFile, met, caught>>
  BY DEF End, history
<1>3. /\ pc'[p] = "ended" /\ cause'[p] = why /\ gos'[p] = {} /\ api'[p] = "off"
      /\ doh'[p] = "off" /\ signals'[p] = "default"
  BY SMT DEF End, Inv, TypeOK
<1>4. \A q \in Servers \ {p} :
        /\ pc'[q] = pc[q] /\ cause'[q] = cause[q] /\ gos'[q] = gos[q] /\ api'[q] = api[q]
        /\ doh'[q] = doh[q] /\ signals'[q] = signals[q]
  BY SMT DEF End, Inv, TypeOK
<1>5. \A s \in Sockets : sock'[s] = IF sock[s] = p THEN Nil ELSE sock[s]
  BY DEF End
<1>6. Nil \notin Servers
  BY ServerAssumption
<1>7. TypeOK'
  <2>1. sock' \in [Sockets -> Servers \cup {Nil}]
    BY DEF End, Inv, TypeOK
  <2>2. \A q \in Servers : ~Alive(q)' =>
            gos'[q] = {} /\ api'[q] = "off" /\ doh'[q] = "off" /\ signals'[q] = "default"
    BY SMT, <1>3, <1>4 DEF Inv, TypeOK, Alive
  <2>3. \A s \in Sockets : sock'[s] # Nil => pc'[sock'[s]] \notin {"off", "ended"}
    <3>. SUFFICES ASSUME NEW s \in Sockets, sock'[s] # Nil
                  PROVE  pc'[sock'[s]] \notin {"off", "ended"}
      OBVIOUS
    <3>1. sock[s] # Nil /\ sock[s] # p /\ sock'[s] = sock[s]
      BY <1>5
    <3>2. sock[s] \in Servers \ {p} /\ pc[sock[s]] \in Listening
      BY <3>1, Owner
    <3> QED BY <1>4, <3>1, <3>2 DEF Listening
  <2>4. /\ pc' \in [Servers -> {"off", "config", "register", "listen", "services", "sleep",
                                "ready", "ended"}]
        /\ gos' \in [Servers -> SUBSET Goroutines]
        /\ api' \in [Servers -> {"off", "bind", "bound", "failed", "serve", "fatal"}]
        /\ doh' \in [Servers -> {"off", "start", "started"}]
        /\ signals' \in [Servers -> {"default", "notify", "caught", "removed"}]
        /\ cause' \in [Servers -> {"none", "fatal", "default", "signal", "crash"}]
    BY DEF End, Inv, TypeOK
  <2> QED BY <1>2, <2>1, <2>2, <2>3, <2>4 DEF Inv, TypeOK, Alive
<1>8. \A q \in Servers : ProcInv(q)'
  <2>. SUFFICES ASSUME NEW q \in Servers PROVE ProcInv(q)'
    OBVIOUS
  <2>1. CASE q = p
    BY <1>1, <1>2, <1>3, <2>1 DEF Inv, ProcInv, Listening, Alive
  <2>2. CASE q # p
    <3>1. ProcInv(q)
      BY DEF Inv
    <3> QED BY SMT, <1>1, <1>2, <1>4, <2>2, <3>1 DEF ProcInv
  <2> QED BY <2>1, <2>2
<1>9. \A q \in Servers : StayInv(q)'
  BY <1>1, <1>2, <1>3, <1>4 DEF Inv, StayInv
<1>10. \A q \in Servers : Blame(q) => Blame(q)'
  <2>. SUFFICES ASSUME NEW q \in Servers, NEW r \in Servers \ {q}, InTheWay(r, q)
                PROVE  InTheWay(r, q)'
    BY DEF Blame
  <2>1. cause[r] \in Dirty => pc[r] = "ended"
    BY DEF Inv, ProcInv, Dirty
  <2>2. cause[r] \in Dirty => cause'[r] \in Dirty
    BY <1>4, <2>1 DEF Alive
  <2> QED BY <1>1, <1>2, <2>2 DEF InTheWay, Dirty
<1>11. \A q \in Servers : BlameInv(q)' /\ CauseInv(q)'
  BY <1>1, <1>3, <1>4, <1>10 DEF Inv, BlameInv, CauseInv
<1>12. \A s \in Sockets : SockInv(s)'
  <2>. SUFFICES ASSUME NEW s \in Sockets, sock'[s] # Nil
                PROVE  SockInv(s)'
    BY DEF SockInv
  <2>1. sock[s] # Nil /\ sock[s] # p /\ sock'[s] = sock[s]
    BY <1>5
  <2>2. sock[s] \in Servers \ {p} /\ pc[sock[s]] \in Listening /\ Bound(sock[s], s)
    BY <2>1, Owner
  <2>3. PICK q \in Servers \ {p} : q = sock[s]
    BY <2>2
  <2>4. Bound(q, s)'
    BY SMT, <1>1, <1>4, <2>2, <2>3 DEF Bound
  <2>5. sock'[s] = q /\ pc'[q] \in Listening
    BY <1>4, <2>1, <2>2, <2>3
  <2>6. Bound(sock[s], s)'
    BY <2>1, <2>3, <2>4, <2>5 DEF Bound
  <2> QED BY <2>5, <2>4 DEF SockInv, Bound
<1>13. \A path \in Paths : FileInv(path)'
  <2>. SUFFICES ASSUME NEW path \in Paths, socketFile[path] # Nil PROVE FileInv(path)'
    BY <1>2 DEF FileInv
  <2>1. socketFile[path] \in Servers /\ FileInv(path)
    BY Maker
  <2>2. CASE socketFile[path] = p
    BY <1>1, <1>2, <1>3, <2>1, <2>2 DEF FileInv
  <2>3. CASE socketFile[path] # p
    BY <1>1, <1>2, <1>4, <2>1, <2>3 DEF FileInv
  <2> QED BY <2>2, <2>3
<1>14. \A q, r \in Servers : MetInv(q, r)'
  BY <1>2, <1>3, <1>4 DEF Inv, MetInv, Alive
<1> QED BY <1>7, <1>8, <1>9, <1>11, <1>12, <1>13, <1>14 DEF Inv

\* A process goes on without touching a socket or a file: what the invariant says
\* of the others, and of what it has bound, is kept.
LEMMA QuietStep ==
    ASSUME Inv, NEW p \in Servers, Alive(p),
           UNCHANGED <<given, sock, socketFile, cause, met>>, caught \subseteq caught',
           \A q \in Servers \ {p} :
               /\ pc'[q] = pc[q] /\ handles'[q] = handles[q] /\ gos'[q] = gos[q]
               /\ api'[q] = api[q] /\ doh'[q] = doh[q] /\ signals'[q] = signals[q],
           TypeOK', ProcInv(p)', StayInv(p)', BlameInv(p)',
           pc[p] \in Listening => pc'[p] \in Listening,
           api[p] \in {"bound", "serve"} => api'[p] \in {"bound", "serve"},
           api[p] = "serve" => api'[p] = "serve",
           doh[p] = "started" => doh'[p] = "started",
           \A h \in gos'[p] \ gos[p] :
               pc[p] \notin Listening \/ (h[1] = "https" /\ doh[p] # "started"),
           signals'[p] = "removed" => signals[p] = "removed"
    PROVE  Inv'
<1>1. \A q \in Servers :
        /\ OnPath(q)' = OnPath(q) /\ Uc(q)' = Uc(q) /\ Wanted(q)' = Wanted(q)
        /\ \A g : Socket(q, g)' = Socket(q, g)
        /\ Misconfigured(q)' = Misconfigured(q) /\ Needs(q)' = Needs(q)
  BY SMT, SameOptions
<1>2. \A q \in Servers : ProcInv(q)'
  <2>. SUFFICES ASSUME NEW q \in Servers, q # p PROVE ProcInv(q)'
    BY Zenon
  <2>1. ProcInv(q)
    BY DEF Inv
  <2> QED BY <1>1, <2>1 DEF ProcInv
<1>3. \A q \in Servers : StayInv(q)'
  <2>. SUFFICES ASSUME NEW q \in Servers, q # p PROVE StayInv(q)'
    OBVIOUS
  <2> QED BY <1>1 DEF Inv, StayInv
<1>4. \A q \in Servers : BlameInv(q)' /\ CauseInv(q)'
  <2>1. \A q \in Servers : Blame(q)' = Blame(q)
    BY <1>1, SameBlame
  <2> QED BY <1>1, <2>1 DEF Inv, BlameInv, CauseInv
<1>5. \A s \in Sockets : SockInv(s)'
  <2>. SUFFICES ASSUME NEW s \in Sockets, sock[s] # Nil
                PROVE  pc'[sock[s]] \in Listening /\ Bound(sock[s], s)'
    BY DEF SockInv
  <2>1. sock[s] \in Servers /\ pc[sock[s]] \in Listening /\ Bound(sock[s], s)
    BY SMT DEF Inv, TypeOK, SockInv
  <2>2. CASE sock[s] # p
    BY <1>1, <2>1, <2>2 DEF Bound
  <2>3. CASE sock[s] = p
    <3>1. CASE api[p] = "serve" /\ ~OnPath(p) /\ s = <<"tcp", ApiBind(Uc(p))>>
      BY <1>1, <2>1, <2>3, <3>1 DEF Bound
    <3>2. CASE \E h \in Wanted(p) : /\ h \notin gos[p] /\ Socket(p, h) = s
                                    /\ h[1] = "https" => doh[p] = "started"
      BY SMT, <1>1, <2>1, <2>3, <3>2 DEF Bound
    <3> QED BY <2>1, <2>3, <3>1, <3>2 DEF Bound
  <2> QED BY <2>2, <2>3
<1>6. \A path \in Paths : FileInv(path)'
  BY SMT, <1>1 DEF Inv, TypeOK, FileInv, Alive
<1>7. \A q, r \in Servers : MetInv(q, r)'
  BY DEF Inv, MetInv, Alive
<1> QED BY <1>2, <1>3, <1>4, <1>5, <1>6, <1>7 DEF Inv

\* The steps of main that do not end the process.
LEMMA MainStep ==
    ASSUME Inv, NEW p \in Servers,
           \/ given[p] \notin Refused /\ GetProxyConfig(p)
           \/ Register(p) \/ Listen(p) \/ Services(p) \/ Ready(p)
    PROVE  Inv'
<1>1. /\ OnPath(p)' = OnPath(p) /\ Uc(p)' = Uc(p) /\ Wanted(p)' = Wanted(p)
  BY SameOptions DEF GetProxyConfig, Register, Listen, Services, Ready, Goto
<1>2. UNCHANGED <<given, signals, sock, socketFile, cause, met, caught>>
  BY DEF GetProxyConfig, Register, Listen, Services, Ready, Goto, history
<1>3. Alive(p) /\ given[p] \in Lines
  BY DEF GetProxyConfig, Register, Listen, Services, Ready, Alive, Inv, ProcInv
<1>4. given[p] \notin Refused
  BY DEF GetProxyConfig, Register, Listen, Services, Ready, Inv, ProcInv, Listening
<1>5. CASE GetProxyConfig(p)
  <2>1. /\ pc[p] = "config" /\ pc' = [pc EXCEPT ![p] = "register"]
        /\ UNCHANGED <<handles, gos, api, doh>>
    BY <1>4, <1>5 DEF GetProxyConfig, Goto
  <2>2. gos[p] = {} /\ api[p] = "off" /\ doh[p] = "off" /\ signals[p] = "default"
    BY <2>1 DEF Inv, ProcInv, Listening
  <2>3. TypeOK'
    BY SMT, <1>2, <2>1 DEF Inv, TypeOK, Alive
  <2>4. ProcInv(p)'
    <3>1. ProcInv(p) /\ pc'[p] = "register"
      BY <2>1 DEF Inv, TypeOK
    <3> QED BY <1>1, <1>2, <1>3, <1>4, <2>1, <2>2, <3>1 DEF ProcInv, Listening
  <2> QED BY <1>2, <1>3, <2>1, <2>2, <2>3, <2>4, QuietStep
          DEF Inv, TypeOK, StayInv, BlameInv, Listening
<1>6. CASE Register(p)
  <2>1. /\ pc[p] = "register" /\ pc' = [pc EXCEPT ![p] = "listen"]
        /\ handles' = [handles EXCEPT ![p] = TRUE]
        /\ UNCHANGED <<gos, api, doh>>
    BY <1>6 DEF Register, Goto
  <2>2. gos[p] = {} /\ api[p] = "off" /\ doh[p] = "off" /\ signals[p] = "default"
    BY <2>1 DEF Inv, ProcInv, Listening
  <2>3. TypeOK'
    BY SMT, <1>2, <2>1 DEF Inv, TypeOK, Alive
  <2>4. ProcInv(p)'
    <3>1. ProcInv(p) /\ pc'[p] = "listen" /\ handles'[p]
      BY <2>1 DEF Inv, TypeOK
    <3> QED BY <1>1, <1>2, <1>3, <1>4, <2>1, <2>2, <3>1 DEF ProcInv, Listening
  <2> QED BY <1>2, <1>3, <2>1, <2>2, <2>3, <2>4, QuietStep
          DEF Inv, TypeOK, StayInv, BlameInv, Listening
<1>7. CASE Listen(p)
  <2>. DEFINE new == Listeners("udp", Uc(p).lists["listen"])
                     \cup Listeners("tcp", Uc(p).lists["listen"])
  <2>1. /\ pc[p] = "listen" /\ pc' = [pc EXCEPT ![p] = "services"]
        /\ gos' = [gos EXCEPT ![p] = new]
        /\ UNCHANGED <<handles, api, doh>>
    BY <1>7 DEF Listen, Goto
  <2>2. gos[p] = {} /\ api[p] = "off" /\ doh[p] = "off" /\ signals[p] = "default" /\ handles[p]
    BY <2>1 DEF Inv, ProcInv, Listening
  <2>3. new \subseteq Wanted(p) /\ \A g \in new : g[1] # "https"
    <3>1. new \subseteq Wanted(p)
      BY DEF Wanted
    <3>2. \A kind, values : \A g \in Listeners(kind, values) : g[1] = kind
      BY SMT DEF Listeners
    <3> QED BY <3>1, <3>2
  <2>4. new \subseteq Goroutines
    <3>1. Uc(p).lists \in [ListOptions -> Seq(Values)]
      BY <1>3, <1>4, ListsType DEF Uc, Refused
    <3>2. Uc(p).lists["listen"] \in Seq(Values)
      BY <3>1 DEF ListOptions
    <3> QED BY <3>2, ListenersType
  <2>. HIDE DEF new
  <2>5. TypeOK'
    BY SMT, <1>2, <2>1, <2>4 DEF Inv, TypeOK, Alive
  <2>6. ProcInv(p)'
    <3>1. /\ pc'[p] = "services" /\ gos'[p] = new /\ handles'[p] = handles[p]
          /\ api'[p] = "off" /\ doh'[p] = "off" /\ signals'[p] = "default"
      BY <1>2, <2>1, <2>2 DEF Inv, TypeOK
    <3>2. cause'[p] = "none"
      BY <1>2, <2>1 DEF Inv, ProcInv
    <3> QED BY <1>1, <1>2, <1>3, <1>4, <2>2, <2>3, <3>1, <3>2 DEF ProcInv, Listening
  <2> QED BY <1>2, <1>3, <2>1, <2>2, <2>5, <2>6, QuietStep
          DEF Inv, TypeOK, StayInv, BlameInv, Listening
<1>8. CASE Services(p)
  <2>1. /\ pc[p] = "services" /\ pc' = [pc EXCEPT ![p] = "sleep"]
        /\ api' = [api EXCEPT ![p] = IF Uc(p).bools["api"] THEN "bind" ELSE "off"]
        /\ doh' = [doh EXCEPT ![p] =
                     IF Listeners("https", Uc(p).lists["doh"]) # {} THEN "start" ELSE "off"]
        /\ UNCHANGED <<handles, gos>>
    BY <1>8 DEF Services, Goto
  <2>2. api[p] = "off" /\ doh[p] = "off" /\ signals[p] = "default" /\ handles[p]
    BY <2>1 DEF Inv, ProcInv, Listening
  <2>3. TypeOK'
    <3>1. /\ api' \in [Servers -> {"off", "bind", "bound", "failed", "serve", "fatal"}]
          /\ doh' \in [Servers -> {"off", "start", "started"}]
          /\ \A q \in Servers \ {p} : api'[q] = api[q] /\ doh'[q] = doh[q]
      BY <2>1 DEF Inv, TypeOK
    <3>2. /\ pc' \in [Servers -> {"off", "config", "register", "listen", "services", "sleep",
                                  "ready", "ended"}]
          /\ pc'[p] = "sleep" /\ \A q \in Servers \ {p} : pc'[q] = pc[q]
      BY <2>1 DEF Inv, TypeOK
    <3>3. \A q \in Servers : ~Alive(q)' =>
            gos[q] = {} /\ api'[q] = "off" /\ doh'[q] = "off" /\ signals[q] = "default"
      BY SMT, <3>1, <3>2 DEF Inv, TypeOK, Alive
    <3>4. \A s \in Sockets : sock[s] # Nil => Alive(sock[s])'
      <4>. SUFFICES ASSUME NEW s \in Sockets, sock[s] # Nil
                    PROVE  pc'[sock[s]] \notin {"off", "ended"}
        BY <1>2 DEF Alive
      <4>1. sock[s] \in Servers /\ pc[sock[s]] \in Listening
        BY Owner
      <4> QED BY <3>2, <4>1 DEF Listening
    <3> QED BY <1>2, <2>1, <3>1, <3>2, <3>3, <3>4 DEF Inv, TypeOK
  <2>4. /\ pc'[p] = "sleep" /\ gos'[p] = gos[p] /\ handles'[p] = handles[p]
        /\ api'[p] \in {"bind", "off"} /\ (api'[p] = "bind" => Uc(p).bools["api"])
        /\ doh'[p] # "off" => Listeners("https", Uc(p).lists["doh"]) # {}
        /\ signals'[p] = "default" /\ cause'[p] = "none"
    <3>1. cause[p] = "none"
      BY <2>1 DEF Inv, ProcInv
    <3> QED BY <1>2, <2>1, <2>2, <3>1 DEF Inv, TypeOK
  <2>5. gos[p] \subseteq Wanted(p) /\ \A g \in gos[p] : g[1] # "https"
    BY <2>2 DEF Inv, ProcInv
  <2>6. ProcInv(p)'
    BY <1>1, <1>2, <1>3, <1>4, <2>2, <2>4, <2>5 DEF ProcInv, Listening
  <2>7. \A q \in Servers \ {p} :
          /\ pc'[q] = pc[q] /\ handles'[q] = handles[q] /\ gos'[q] = gos[q]
          /\ api'[q] = api[q] /\ doh'[q] = doh[q] /\ signals'[q] = signals[q]
    BY <1>2, <2>1 DEF Inv, TypeOK
  <2>8. StayInv(p)' /\ BlameInv(p)'
    BY <2>4 DEF StayInv, BlameInv
  <2> QED BY <1>2, <1>3, <2>1, <2>2, <2>3, <2>4, <2>6, <2>7, <2>8, QuietStep DEF Listening
<1>9. CASE Ready(p)
  <2>1. /\ pc[p] = "sleep" /\ pc' = [pc EXCEPT ![p] = "ready"]
        /\ UNCHANGED <<handles, gos, api, doh>>
    BY <1>9 DEF Ready, Goto
  <2>2. TypeOK'
    BY SMT, <1>2, <2>1 DEF Inv, TypeOK, Alive
  <2>3. ProcInv(p)'
    <3>1. pc'[p] = "ready" /\ ProcInv(p)
      BY <2>1 DEF Inv, TypeOK
    <3> QED BY <1>1, <1>2, <1>3, <1>4, <2>1, <3>1 DEF ProcInv, Listening
  <2>4. StayInv(p)' /\ BlameInv(p)'
    <3>1. Blame(p)' = Blame(p) /\ Misconfigured(p)' = Misconfigured(p)
      BY <1>2, SameBlame, SameOptions
    <3> QED BY <1>1, <1>2, <2>1, <3>1 DEF Inv, StayInv, BlameInv
  <2>5. pc'[p] = "ready" /\ \A q \in Servers \ {p} : pc'[q] = pc[q]
    BY <2>1 DEF Inv, TypeOK
  <2> QED BY <1>2, <1>3, <2>1, <2>2, <2>3, <2>4, <2>5, QuietStep DEF Listening
<1> QED BY <1>5, <1>6, <1>7, <1>8, <1>9

\* StartDoH, if it finds its certificate.
LEMMA DohStep ==
    ASSUME Inv, NEW p \in Servers, StartDoH(p), MakeTLSConfig(Uc(p))
    PROVE  Inv'
<1>. DEFINE new == Listeners("https", Uc(p).lists["doh"])
<1>1. /\ doh[p] = "start" /\ doh' = [doh EXCEPT ![p] = "started"]
      /\ gos' = [gos EXCEPT ![p] = gos[p] \cup new]
      /\ UNCHANGED <<given, pc, handles, api, signals, sock, socketFile, cause, met, caught>>
  BY DEF StartDoH, history
<1>2. /\ pc[p] \in {"sleep", "ready"} /\ new # {}
      /\ given[p] \in Lines /\ given[p] \notin Refused
  BY <1>1 DEF Inv, ProcInv, Listening
<1>3. new \subseteq Wanted(p)
  BY DEF Wanted
<1>4. new \subseteq Goroutines
  <2>1. Uc(p).lists \in [ListOptions -> Seq(Values)]
    BY <1>2, ListsType DEF Uc, Refused
  <2>2. Uc(p).lists["doh"] \in Seq(Values)
    BY <2>1 DEF ListOptions
  <2> QED BY <2>2, ListenersType
<1>5. \A h \in new : h[1] = "https"
  BY SMT DEF Listeners
<1>6. OnPath(p)' = OnPath(p) /\ Uc(p)' = Uc(p) /\ Wanted(p)' = Wanted(p)
  BY <1>1, SameOptions
<1>7. ProcInv(p)'
  <2>1. gos'[p] = gos[p] \cup new /\ doh'[p] = "started" /\ ProcInv(p)
    BY <1>1 DEF Inv, TypeOK
  <2> QED BY <1>1, <1>2, <1>3, <1>6, <2>1 DEF ProcInv, Listening
<1>. HIDE DEF new
<1>8. TypeOK'
  BY <1>1, <1>2, <1>4 DEF Inv, TypeOK, Alive
<1>9. StayInv(p)' /\ BlameInv(p)'
  <2>1. Blame(p)' = Blame(p) /\ Misconfigured(p)' = Misconfigured(p)
    BY <1>1, SameBlame, SameOptions
  <2> QED BY <1>1, <1>6, <2>1 DEF Inv, StayInv, BlameInv
<1>10. \A h \in gos'[p] \ gos[p] : h[1] = "https" /\ doh[p] # "started"
  BY SMT, <1>1, <1>5 DEF Inv, TypeOK
<1>11. Alive(p)
  BY <1>2 DEF Alive
<1>12. /\ doh'[p] = "started"
       /\ \A q \in Servers \ {p} : gos'[q] = gos[q] /\ doh'[q] = doh[q]
  BY <1>1 DEF Inv, TypeOK
<1> QED BY <1>1, <1>7, <1>8, <1>9, <1>10, <1>11, <1>12, QuietStep DEF Listening

\* The signal handler is installed, whether or not the socket could be bound.
LEMMA NotifyStep ==
    ASSUME Inv, NEW p \in Servers, Notify(p)
    PROVE  Inv'
<1>1. /\ api[p] \in {"bound", "failed"}
      /\ signals' = [signals EXCEPT ![p] = "notify"]
      /\ api' = [api EXCEPT ![p] = IF api[p] = "bound" THEN "serve" ELSE "fatal"]
      /\ UNCHANGED <<given, pc, handles, gos, doh, sock, socketFile, cause, met, caught>>
  BY DEF Notify, GotoApi, history
<1>2. /\ signals'[p] = "notify" /\ api'[p] = IF api[p] = "bound" THEN "serve" ELSE "fatal"
      /\ \A q \in Servers \ {p} : api'[q] = api[q] /\ signals'[q] = signals[q]
  BY <1>1 DEF Inv, TypeOK
<1>3. OnPath(p)' = OnPath(p) /\ Uc(p)' = Uc(p) /\ Wanted(p)' = Wanted(p)
  BY <1>1, SameOptions
<1>4. ProcInv(p) /\ StayInv(p) /\ BlameInv(p) /\ Misconfigured(p)' = Misconfigured(p)
  BY <1>1, SameOptions DEF Inv
<1>5. Alive(p)
  BY <1>1, <1>4 DEF ProcInv, Alive
<1>6. TypeOK'
  BY <1>1, <1>5 DEF Inv, TypeOK, Alive
<1>7. ProcInv(p)'
  BY <1>1, <1>2, <1>3, <1>4 DEF ProcInv
<1>8. StayInv(p)'
  <2>1. api'[p] = "serve" => api[p] = "bound"
    BY SMT, <1>1, <1>2
  <2>2. api'[p] # "bound"
    BY <1>2
  <2> QED BY <1>1, <1>3, <1>4, <2>1, <2>2 DEF StayInv
<1>9. BlameInv(p)'
  <2>1. Blame(p)' = Blame(p)
    BY <1>1, SameBlame, SameOptions
  <2>2. api'[p] = "fatal" => api[p] = "failed"
    BY SMT, <1>1, <1>2
  <2>3. api'[p] # "failed"
    BY <1>2
  <2> QED BY <1>4, <2>1, <2>2, <2>3 DEF BlameInv
<1> QED BY <1>1, <1>2, <1>5, <1>6, <1>7, <1>8, <1>9, QuietStep

\* A signal that the handler catches.
LEMMA CaughtStep ==
    ASSUME Inv, NEW p \in Servers, Signal(p), signals[p] = "notify"
    PROVE  Inv'
<1>1. /\ Alive(p)
      /\ signals' = [signals EXCEPT ![p] = "caught"]
      /\ caught' = caught \cup {p}
      /\ UNCHANGED <<given, pc, handles, gos, api, doh, sock, socketFile, cause, met>>
  BY DEF Signal
<1>2. signals'[p] = "caught" /\ \A q \in Servers \ {p} : signals'[q] = signals[q]
  BY <1>1 DEF Inv, TypeOK
<1>3. OnPath(p)' = OnPath(p) /\ Uc(p)' = Uc(p) /\ Wanted(p)' = Wanted(p)
  BY <1>1, SameOptions
<1>4. ProcInv(p) /\ BlameInv(p)
  BY DEF Inv
<1>5. TypeOK'
  BY SMT, <1>1 DEF Inv, TypeOK, Alive
<1>6. ProcInv(p)'
  BY <1>1, <1>2, <1>3, <1>4 DEF ProcInv
<1>7. StayInv(p)'
  BY <1>1, <1>3 DEF StayInv
<1>8. BlameInv(p)'
  <2>1. Blame(p)' = Blame(p) /\ Misconfigured(p)' = Misconfigured(p)
    BY <1>1, SameBlame, SameOptions
  <2> QED BY <1>1, <1>4, <2>1 DEF BlameInv
<1> QED BY <1>1, <1>2, <1>5, <1>6, <1>7, <1>8, QuietStep

\* A file that is in the way was made by a process that is alive, and has met p,
\* or by one that has ended without removing it.
LEMMA FileBlame ==
    ASSUME Inv, NEW p \in Servers, OnPath(p), api[p] = "bind",
           socketFile[ApiBind(Uc(p))] # Nil
    PROVE  Blame(p)
<1>. DEFINE path == ApiBind(Uc(p))
            q == socketFile[path]
<1>1. path \in Paths /\ q \in Servers
  BY DEF OnPath, Inv, TypeOK
<1>2. FileInv(path) /\ q # Nil
  BY <1>1 DEF Inv
<1>3. q # p
  BY <1>2 DEF FileInv, Inv, ProcInv
<1>4. Alive(p)
  BY DEF Inv, ProcInv, Alive
<1>shared. path \in Needs(p) \cap Needs(q)
  <2>1. path \in ApiNeeds(p) /\ given[p] \in Lines \ Refused
    <3>1. api[p] # "off" /\ ProcInv(p)
      BY DEF Inv
    <3> QED BY <3>1 DEF ProcInv, Listening, ApiNeeds
  <2> QED BY <1>2, <2>1 DEF FileInv, Needs
<1>5. CASE Alive(q)
  BY <1>1, <1>3, <1>4, <1>5, <1>shared DEF Inv, MetInv, Blame, InTheWay
<1>6. CASE ~Alive(q)
  <2>1. pc[q] = "ended"
    BY <1>1, <1>2, <1>6 DEF FileInv, Inv, TypeOK
  <2>2. cause[q] \in Dirty
    BY <1>1, <1>2, <2>1 DEF FileInv, Inv, TypeOK, ProcInv, Dirty
  <2> QED BY <1>1, <1>3, <1>shared, <2>2 DEF Blame, InTheWay, Dirty
<1> QED BY <1>5, <1>6

\* A UNIX socket that cannot be bound.
LEMMA BindFailsStep ==
    ASSUME Inv, NEW p \in Servers, BindUnix(p),
           socketFile[ApiBind(Uc(p))] # Nil \/ ApiBind(Uc(p)) \in Unavailable
    PROVE  Inv'
<1>1. /\ api[p] = "bind" /\ OnPath(p) /\ api' = [api EXCEPT ![p] = "failed"]
      /\ UNCHANGED <<given, pc, handles, gos, doh, signals, sock, socketFile, cause, met, caught>>
  BY DEF BindUnix, GotoApi, history
<1>2. api'[p] = "failed" /\ \A q \in Servers \ {p} : api'[q] = api[q]
  BY <1>1 DEF Inv, TypeOK
<1>3. OnPath(p)' = OnPath(p) /\ Uc(p)' = Uc(p) /\ Wanted(p)' = Wanted(p)
  BY <1>1, SameOptions
<1>4. ProcInv(p)
  BY DEF Inv
<1>5. Alive(p)
  BY <1>1, <1>4 DEF ProcInv, Alive
<1>6. TypeOK'
  BY <1>1, <1>5 DEF Inv, TypeOK, Alive
<1>7. ProcInv(p)'
  BY <1>1, <1>2, <1>3, <1>4 DEF ProcInv
<1>8. Misconfigured(p)' \/ Blame(p)'
  <2>1. ApiBind(Uc(p)) \in Unavailable => Misconfigured(p)
    <3>1. ApiBind(Uc(p)) \in ApiNeeds(p) /\ given[p] \in Lines \ Refused
      BY <1>1, <1>4 DEF ProcInv, Listening, ApiNeeds
    <3> QED BY <3>1 DEF Needs, Misconfigured
  <2>2. Misconfigured(p) \/ Blame(p)
    BY <1>1, <2>1, FileBlame
  <2>3. Blame(p)' = Blame(p) /\ Misconfigured(p)' = Misconfigured(p)
    BY <1>1, SameBlame, SameOptions
  <2> QED BY <2>2, <2>3
<1>9. StayInv(p)' /\ BlameInv(p)'
  BY <1>2, <1>8 DEF StayInv, BlameInv
<1> QED BY <1>1, <1>2, <1>5, <1>6, <1>7, <1>9, QuietStep

\* A process binds a socket, for DNS, DoH or the API.
LEMMA SocketStep ==
    ASSUME Inv, NEW p \in Servers, NEW s \in Sockets, sock[s] = Nil, pc[p] \in Listening,
           sock' = [sock EXCEPT ![s] = p], Bound(p, s)',
           UNCHANGED <<given, pc, handles, doh, signals, socketFile, cause, met, caught>>,
           gos' \in [Servers -> SUBSET Goroutines], gos'[p] \subseteq gos[p],
           api' \in [Servers -> {"off", "bind", "bound", "failed", "serve", "fatal"}],
           api'[p] = api[p] \/ (api[p] = "bind" /\ api'[p] = "serve" /\ ~OnPath(p)),
           \A q \in Servers \ {p} : api'[q] = api[q] /\ gos'[q] = gos[q]
    PROVE  Inv'
<1>1. \A q \in Servers :
        /\ OnPath(q)' = OnPath(q) /\ Uc(q)' = Uc(q) /\ Wanted(q)' = Wanted(q)
        /\ \A g : Socket(q, g)' = Socket(q, g)
        /\ Misconfigured(q)' = Misconfigured(q) /\ Needs(q)' = Needs(q)
  BY SameOptions
<1>2. sock'[s] = p /\ \A t \in Sockets \ {s} : sock'[t] = sock[t]
  BY SMT DEF Inv, TypeOK
<1>3. Alive(p) /\ ProcInv(p)
  BY DEF Alive, Listening, Inv
<1>4. TypeOK'
  <2>1. sock' \in [Sockets -> Servers \cup {Nil}]
    BY DEF Inv, TypeOK
  <2>2. \A q \in Servers : ~Alive(q)' =>
            gos'[q] = {} /\ api'[q] = "off" /\ doh'[q] = "off" /\ signals'[q] = "default"
    BY SMT, <1>3 DEF Inv, TypeOK, Alive
  <2>3. \A t \in Sockets : sock'[t] # Nil => pc'[sock'[t]] \notin {"off", "ended"}
    BY SMT, <1>2, <1>3 DEF Inv, TypeOK, Alive
  <2> QED BY <2>1, <2>2, <2>3 DEF Inv, TypeOK, Alive
<1>5. \A q \in Servers : ProcInv(q)'
  <2>. SUFFICES ASSUME NEW q \in Servers PROVE ProcInv(q)'
    BY Zenon
  <2>1. CASE q = p
    BY <1>1, <1>3, <2>1 DEF ProcInv
  <2>2. CASE q # p
    <3>1. ProcInv(q) /\ api'[q] = api[q] /\ gos'[q] = gos[q]
      BY <2>2 DEF Inv
    <3> QED BY <1>1, <3>1 DEF ProcInv
  <2> QED BY <2>1, <2>2
<1>6. \A q \in Servers : StayInv(q)'
  BY <1>1 DEF Inv, StayInv
<1>7. \A q \in Servers : BlameInv(q)' /\ CauseInv(q)'
  <2>1. \A q \in Servers : Blame(q)' = Blame(q)
    BY <1>1, SameBlame
  <2> QED BY <1>1, <2>1 DEF Inv, BlameInv, CauseInv
<1>8. \A t \in Sockets : SockInv(t)'
  <2>. SUFFICES ASSUME NEW t \in Sockets, t # s, sock[t] # Nil
                PROVE  pc'[sock[t]] \in Listening /\ Bound(sock[t], t)'
    BY <1>2 DEF SockInv
  <2>1. sock[t] \in Servers /\ pc[sock[t]] \in Listening /\ Bound(sock[t], t)
    BY Owner
  <2>2. gos'[sock[t]] \subseteq gos[sock[t]] /\ (api[sock[t]] = "serve" => api'[sock[t]] = "serve")
    BY <2>1
  <2>. PICK q \in Servers : q = sock[t]
    BY <2>1
  <2>3. Bound(q, t)'
    BY <1>1, <2>1, <2>2 DEF Bound
  <2> QED BY SMT, <2>1, <2>3 DEF Bound
<1>9. \A path \in Paths : FileInv(path)'
  <2>. SUFFICES ASSUME NEW path \in Paths, socketFile[path] # Nil PROVE FileInv(path)'
    BY DEF FileInv
  <2>1. socketFile[path] \in Servers /\ FileInv(path)
    BY Maker
  <2>2. api[socketFile[path]] \in {"bound", "serve"} =>
            api'[socketFile[path]] = api[socketFile[path]]
    BY <2>1
  <2> QED BY <1>1, <2>1, <2>2 DEF FileInv
<1>10. \A q, r \in Servers : MetInv(q, r)'
  BY DEF Inv, MetInv, Alive
<1> QED BY <1>4, <1>5, <1>6, <1>7, <1>8, <1>9, <1>10 DEF Inv

\* The socket of a goroutine, and that of the API, are sockets.
LEMMA SocketType ==
    ASSUME NEW p \in Servers, given[p] \in Lines \ Refused
    PROVE  /\ \A g \in Wanted(p) : Socket(p, g) \in Sockets
           /\ ~OnPath(p) => <<"tcp", ApiBind(Uc(p))>> \in Sockets
<1>1. Uc(p) # Nil
  BY DEF Refused, Uc
<1>2. Uc(p).lists \in [ListOptions -> Seq(Values)]
  BY <1>1, ListsType DEF Uc
<1>3. Uc(p).lists["listen"] \in Seq(Values) /\ Uc(p).lists["doh"] \in Seq(Values)
  BY <1>2 DEF ListOptions
<1>4. \A g \in Wanted(p) : Socket(p, g) \in Sockets
  <2>1. ASSUME NEW kind \in {"udp", "tcp", "https"}, NEW values \in Seq(Values),
               NEW g \in Listeners(kind, values)
        PROVE  g[1] = kind /\ ParseAddr(values[g[2]])[g[3]] \in Addrs
    <3>1. PICK i \in DOMAIN values : \E j \in DOMAIN ParseAddr(values[i]) : g = <<kind, i, j>>
      BY DEF Listeners
    <3>2. PICK j \in DOMAIN ParseAddr(values[i]) : g = <<kind, i, j>>
      BY <3>1
    <3>3. ParseAddr(values[i]) \in Seq(Addrs)
      BY SMT, ElementOfSeq, LenProperties, ServerAssumption
    <3>4. ParseAddr(values[i])[j] \in Addrs
      BY <3>3, ElementOfSeq, LenProperties
    <3> QED BY <3>2, <3>4
  <2> QED BY <1>3, <2>1 DEF Wanted, Socket, Sockets
<1>5. ASSUME ~OnPath(p) PROVE <<"tcp", ApiBind(Uc(p))>> \in Sockets
  <2>. DEFINE file == CommandLine[given[p]].file
              flags == CommandLine[given[p]].flags
  <2>1. Uc(p) = GetUserConfig(file, flags)
    BY DEF Uc, UserConfig
  <2>2. file # Unreadable
    BY <1>1, <2>1 DEF GetUserConfig
  <2>3. file \in UserConfigs \cup {Nil} /\ flags \in UserConfigs
    BY <2>2, ServerAssumption
  <2>4. /\ flags.strings["api-bind"] \in Addrs \cup Paths \cup {Nil}
        /\ file # Nil => file.strings["api-bind"] \in Addrs \cup Paths \cup {Nil}
    BY <2>3 DEF UserConfigs
  <2>. HIDE DEF file, flags
  <2>5. Uc(p).strings["api-bind"] \in Addrs \cup Paths \cup {Nil}
    <3>1. NewUserConfig.strings["api-bind"] = Nil /\ "api-bind" \in StringOptions
      BY DEF NewUserConfig, StringOptions
    <3>2. Uc(p).strings["api-bind"] =
            IF flags.strings["api-bind"] # Nil THEN flags.strings["api-bind"]
            ELSE IF file = Nil THEN NewUserConfig.strings["api-bind"]
            ELSE file.strings["api-bind"]
      <4>1. CASE file = Nil
        BY <2>1, <2>2, <3>1, <4>1, SMTT(30) DEF GetUserConfig
      <4>2. CASE file # Nil
        BY <2>1, <2>2, <3>1, <4>2, SMTT(30) DEF GetUserConfig
      <4> QED BY <4>1, <4>2
    <3> QED BY <2>4, <3>1, <3>2
  <2>6. ApiBind(Uc(p)) \in Addrs
    BY <1>5, <2>5, ServerAssumption DEF ApiBind, OnPath
  <2> QED BY <2>6 DEF Sockets
<1> QED BY <1>4, <1>5

\* A goroutine binds its socket, or the API its TCP socket.
LEMMA ListenStep ==
    ASSUME Inv, NEW p \in Servers,
           \/ \E g \in gos[p] : ListenAndServe(p, g) /\ Free(Socket(p, g))
           \/ BindTcp(p) /\ Free(<<"tcp", ApiBind(Uc(p))>>)
    PROVE  Inv'
<1>1. pc[p] \in Listening /\ given[p] \in Lines \ Refused /\ gos[p] \subseteq Wanted(p)
  <2>1. gos[p] # {} \/ api[p] = "bind"
    BY DEF BindTcp
  <2> QED BY <2>1 DEF Inv, ProcInv, Listening
<1>2. CASE \E g \in gos[p] : ListenAndServe(p, g) /\ Free(Socket(p, g))
  <2>1. PICK g \in gos[p] : ListenAndServe(p, g) /\ Free(Socket(p, g))
    BY <1>2
  <2>2. /\ sock' = [sock EXCEPT ![Socket(p, g)] = p]
        /\ gos' = [gos EXCEPT ![p] = gos[p] \ {g}]
        /\ UNCHANGED <<given, pc, handles, api, doh, signals, socketFile, cause, met, caught>>
        /\ sock[Socket(p, g)] = Nil
    BY <2>1 DEF ListenAndServe, Free, history
  <2>3. PICK s \in Sockets : s = Socket(p, g)
    BY <1>1, SocketType
  <2>4. /\ gos'[p] = gos[p] \ {g} /\ \A q \in Servers \ {p} : gos'[q] = gos[q]
        /\ gos' \in [Servers -> SUBSET Goroutines]
    BY <2>2 DEF Inv, TypeOK
  <2>5. Bound(p, s)'
    <3>1. g \in Wanted(p)' /\ Socket(p, g)' = Socket(p, g)
      BY <1>1, <2>2, SameOptions
    <3>2. g[1] = "https" => doh[p] = "started"
      BY DEF Inv, ProcInv
    <3> QED BY <2>2, <2>3, <2>4, <3>1, <3>2 DEF Bound
  <2>6. api \in [Servers -> {"off", "bind", "bound", "failed", "serve", "fatal"}]
    BY DEF Inv, TypeOK
  <2> QED BY <1>1, <2>2, <2>3, <2>4, <2>5, <2>6, SocketStep
<1>3. CASE BindTcp(p) /\ Free(<<"tcp", ApiBind(Uc(p))>>)
  <2>0. PICK s \in Sockets : s = <<"tcp", ApiBind(Uc(p))>>
    BY <1>1, <1>3, SocketType DEF BindTcp
  <2>1. /\ api[p] = "bind" /\ ~OnPath(p) /\ sock[s] = Nil
        /\ sock' = [sock EXCEPT ![s] = p] /\ api' = [api EXCEPT ![p] = "serve"]
        /\ UNCHANGED <<given, pc, handles, gos, doh, signals, socketFile, cause, met, caught>>
    BY <1>3, <2>0 DEF BindTcp, Free, GotoApi, history
  <2>2. /\ api'[p] = "serve" /\ \A q \in Servers \ {p} : api'[q] = api[q]
        /\ api' \in [Servers -> {"off", "bind", "bound", "failed", "serve", "fatal"}]
        /\ gos \in [Servers -> SUBSET Goroutines]
    BY <2>1 DEF Inv, TypeOK
  <2>3. OnPath(p)' = OnPath(p) /\ Uc(p)' = Uc(p)
    BY <2>1, SameOptions
  <2>4. Bound(p, s)'
    BY <2>0, <2>1, <2>2, <2>3 DEF Bound
  <2> QED BY <1>1, <2>1, <2>2, <2>4, SocketStep
<1> QED BY <1>2, <1>3

\* The file of a UNIX socket is made: it was not there, so it was nobody's.
LEMMA BindStep ==
    ASSUME Inv, NEW p \in Servers, BindUnix(p),
           socketFile[ApiBind(Uc(p))] = Nil, ApiBind(Uc(p)) \notin Unavailable
    PROVE  Inv'
<1>1. PICK path \in Paths : path = ApiBind(Uc(p))
  BY DEF BindUnix, OnPath
<1>2. /\ api[p] = "bind" /\ OnPath(p) /\ socketFile[path] = Nil
      /\ socketFile' = [socketFile EXCEPT ![path] = p] /\ api' = [api EXCEPT ![p] = "bound"]
      /\ UNCHANGED <<given, pc, handles, gos, doh, signals, sock, cause, met, caught>>
  BY <1>1 DEF BindUnix, GotoApi, history
<1>3. \A q \in Servers :
        /\ OnPath(q)' = OnPath(q) /\ Uc(q)' = Uc(q) /\ Wanted(q)' = Wanted(q)
        /\ \A g : Socket(q, g)' = Socket(q, g)
        /\ Misconfigured(q)' = Misconfigured(q) /\ Needs(q)' = Needs(q)
  BY <1>2, SameOptions
<1>4. /\ api'[p] = "bound" /\ \A q \in Servers \ {p} : api'[q] = api[q]
      /\ socketFile'[path] = p /\ \A r \in Paths \ {path} : socketFile'[r] = socketFile[r]
  BY <1>2 DEF Inv, TypeOK
<1>5. ProcInv(p) /\ pc[p] \in {"sleep", "ready"} /\ signals[p] = "default" /\ cause[p] = "none"
  BY <1>2 DEF Inv, TypeOK, ProcInv
<1>6. TypeOK'
  BY <1>2, <1>5 DEF Inv, TypeOK, Alive
<1>7. \A q \in Servers : ProcInv(q)'
  <2>. SUFFICES ASSUME NEW q \in Servers PROVE ProcInv(q)'
    OBVIOUS
  <2>1. CASE q = p
    BY <1>2, <1>3, <1>4, <1>5, <2>1 DEF ProcInv
  <2>2. CASE q # p
    <3>1. ProcInv(q) /\ api'[q] = api[q]
      BY <1>4, <2>2 DEF Inv
    <3> QED BY <1>2, <1>3, <3>1 DEF ProcInv
  <2> QED BY <2>1, <2>2
<1>8. \A q \in Servers : StayInv(q)'
  <2>. SUFFICES ASSUME NEW q \in Servers PROVE StayInv(q)'
    OBVIOUS
  <2>1. CASE q = p
    BY <1>1, <1>3, <1>4, <2>1 DEF StayInv
  <2>2. CASE q # p
    <3>1. StayInv(q) /\ api'[q] = api[q] /\ q # Nil
      BY <1>4, <2>2, ServerAssumption DEF Inv
    <3>2. OnPath(q) => (socketFile[ApiBind(Uc(q))] = q => socketFile'[ApiBind(Uc(q))] = q)
      BY <1>2, <1>4, <3>1 DEF OnPath
    <3> QED BY <1>2, <1>3, <3>1, <3>2 DEF StayInv
  <2> QED BY <2>1, <2>2
<1>9. \A q \in Servers : BlameInv(q)' /\ CauseInv(q)'
  <2>1. \A q \in Servers : Blame(q)' = Blame(q)
    BY <1>2, SameBlame
  <2> QED BY <1>2, <1>3, <1>4, <2>1 DEF Inv, BlameInv, CauseInv
<1>10. \A s \in Sockets : SockInv(s)'
  <2>. SUFFICES ASSUME NEW s \in Sockets, sock[s] # Nil
                PROVE  pc'[sock[s]] \in Listening /\ Bound(sock[s], s)'
    BY <1>2 DEF SockInv
  <2>1. sock[s] \in Servers /\ pc[sock[s]] \in Listening /\ Bound(sock[s], s)
    BY Owner
  <2>2. api[sock[s]] = "serve" => api'[sock[s]] = "serve"
    BY <1>2, <1>4, <2>1
  <2> QED BY <1>2, <1>3, <2>1, <2>2 DEF Bound
<1>11. \A r \in Paths : FileInv(r)'
  <2>. SUFFICES ASSUME NEW r \in Paths PROVE FileInv(r)'
    OBVIOUS
  <2>1. CASE r = path
    <3>1. path \in ApiNeeds(p) /\ given[p] \in Lines \ Refused
      BY <1>1, <1>2, <1>5 DEF ProcInv, Listening, ApiNeeds
    <3>2. path \in Needs(p)
      BY <3>1 DEF Needs
    <3> QED BY <1>1, <1>2, <1>3, <1>4, <1>5, <2>1, <3>2 DEF FileInv
  <2>2. CASE r # path
    <3>. SUFFICES ASSUME socketFile[r] # Nil PROVE FileInv(r)'
      BY <1>4, <2>2 DEF FileInv
    <3>1. FileInv(r) /\ socketFile'[r] = socketFile[r] /\ socketFile[r] \in Servers
      BY <1>4, <2>2, Maker
    <3>2. api[socketFile[r]] \in {"bound", "serve"} => api'[socketFile[r]] = api[socketFile[r]]
      BY <1>2, <1>4, <3>1
    <3> QED BY <1>2, <1>3, <3>1, <3>2 DEF FileInv
  <2> QED BY <2>1, <2>2
<1>12. \A q, r \in Servers : MetInv(q, r)'
  BY <1>2 DEF Inv, MetInv, Alive
<1> QED BY <1>6, <1>7, <1>8, <1>9, <1>10, <1>11, <1>12 DEF Inv

\* The handler removes the file: if another process made it, the two have met.
LEMMA RemoveStep ==
    ASSUME Inv, NEW p \in Servers, Remove(p)
    PROVE  Inv'
<1>1. /\ ProcInv(p) /\ p \in caught /\ OnPath(p)
      /\ pc[p] \in {"sleep", "ready"} /\ api[p] \in {"serve", "fatal"}
  BY DEF Remove, Inv, ProcInv
<1>2. PICK path \in Paths : path = ApiBind(Uc(p))
  BY <1>1 DEF OnPath
<1>3. /\ socketFile' = [socketFile EXCEPT ![path] = Nil]
      /\ signals' = [signals EXCEPT ![p] = "removed"]
      /\ UNCHANGED <<given, pc, handles, gos, api, doh, sock, cause, met, caught>>
  BY <1>2 DEF Remove, history
<1>4. \A q \in Servers :
        /\ OnPath(q)' = OnPath(q) /\ Uc(q)' = Uc(q) /\ Wanted(q)' = Wanted(q)
        /\ \A g : Socket(q, g)' = Socket(q, g)
        /\ Misconfigured(q)' = Misconfigured(q) /\ Needs(q)' = Needs(q)
  BY <1>3, SameOptions
<1>5. /\ signals'[p] = "removed" /\ \A q \in Servers \ {p} : signals'[q] = signals[q]
      /\ socketFile'[path] = Nil /\ \A r \in Paths \ {path} : socketFile'[r] = socketFile[r]
  BY <1>3 DEF Inv, TypeOK
<1>6. TypeOK'
  BY <1>1, <1>3 DEF Inv, TypeOK, Alive
<1>7. \A q \in Servers : ProcInv(q)'
  <2>. SUFFICES ASSUME NEW q \in Servers PROVE ProcInv(q)'
    OBVIOUS
  <2>1. CASE q = p
    BY <1>1, <1>3, <1>4, <1>5, <2>1 DEF ProcInv
  <2>2. CASE q # p
    <3>1. ProcInv(q) /\ signals'[q] = signals[q]
      BY <1>5, <2>2 DEF Inv
    <3> QED BY <1>3, <1>4, <3>1 DEF ProcInv
  <2> QED BY <2>1, <2>2
<1>8. \A q \in Servers : StayInv(q)'
  <2>. SUFFICES ASSUME NEW q \in Servers, api[q] \in {"bound", "serve"}, OnPath(q),
                       ({q} \cup met[q]) \cap caught = {}
                PROVE  socketFile'[ApiBind(Uc(q))] = q
    BY <1>3, <1>4 DEF StayInv
  <2>1. socketFile[ApiBind(Uc(q))] = q /\ ApiBind(Uc(q)) \in Paths
    BY DEF Inv, StayInv, OnPath
  <2>2. p # q /\ p \notin met[q]
    BY <1>1
  <2>3. Alive(p) /\ Alive(q)
    BY <1>1 DEF Inv, ProcInv, Alive
  <2> QED BY <2>2, <2>3 DEF Inv, MetInv
<1>9. \A q \in Servers : BlameInv(q)' /\ CauseInv(q)'
  <2>1. \A q \in Servers : Blame(q)' = Blame(q)
    BY <1>3, SameBlame
  <2> QED BY <1>3, <1>4, <2>1 DEF Inv, BlameInv, CauseInv
<1>10. \A s \in Sockets : SockInv(s)'
  <2>. SUFFICES ASSUME NEW s \in Sockets, sock[s] # Nil
                PROVE  pc'[sock[s]] \in Listening /\ Bound(sock[s], s)'
    BY <1>3 DEF SockInv
  <2>1. sock[s] \in Servers /\ pc[sock[s]] \in Listening /\ Bound(sock[s], s)
    BY Owner
  <2> QED BY <1>3, <1>4, <2>1 DEF Bound
<1>11. \A r \in Paths : FileInv(r)'
  <2>. SUFFICES ASSUME NEW r \in Paths, r # path, socketFile[r] # Nil PROVE FileInv(r)'
    BY <1>5 DEF FileInv
  <2>1. FileInv(r) /\ socketFile'[r] = socketFile[r] /\ socketFile[r] \in Servers
    BY <1>5, Maker
  <2>2. socketFile[r] # p
    BY <1>2, <2>1 DEF FileInv
  <2> QED BY <1>3, <1>4, <1>5, <2>1, <2>2 DEF FileInv
<1>12. \A q, r \in Servers : MetInv(q, r)'
  BY <1>3 DEF Inv, MetInv, Alive
<1> QED BY <1>6, <1>7, <1>8, <1>9, <1>10, <1>11, <1>12 DEF Inv

\* A process needs what it has bound.
LEMMA BoundNeeds ==
    ASSUME Inv, NEW q \in Servers, pc[q] \in Listening, NEW s, Bound(q, s)
    PROVE  s \in Needs(q)
<1>1. ProcInv(q) /\ given[q] \in Lines \ Refused
  BY DEF Inv, ProcInv, Listening
<1>2. CASE \E h \in Wanted(q) : Socket(q, h) = s
  BY <1>1, <1>2 DEF Needs
<1>3. CASE api[q] = "serve" /\ ~OnPath(q) /\ s = <<"tcp", ApiBind(Uc(q))>>
  <2>1. s \in ApiNeeds(q)
    BY <1>1, <1>3 DEF ProcInv, ApiNeeds
  <2> QED BY <1>1, <2>1 DEF Needs
<1> QED BY <1>2, <1>3 DEF Bound

\* A socket that p needs and finds in use is another process's, which p has met and
\* which needs it too, or p has bound it itself.
LEMMA InUse ==
    ASSUME Inv, NEW p \in Servers, Alive(p), NEW s \in Sockets, sock[s] # Nil,
           s \in Needs(p), ~Blame(p)
    PROVE  Bound(p, s)
<1>1. sock[s] \in Servers /\ pc[sock[s]] \in Listening /\ Bound(sock[s], s)
  BY Owner
<1>2. sock[s] # p => sock[s] \in met[p]
  BY <1>1 DEF Inv, MetInv, Alive, Listening
<1>3. s \in Needs(sock[s])
  BY <1>1, BoundNeeds
<1> QED BY <1>1, <1>2, <1>3 DEF Blame, InTheWay

\* A listener that cannot bind its socket: the options or another process are to
\* blame.
LEMMA ListenFailsStep ==
    ASSUME Inv, NEW p \in Servers,
           \/ \E g \in gos[p] : ListenAndServe(p, g) /\ ~Free(Socket(p, g))
           \/ BindTcp(p) /\ ~Free(<<"tcp", ApiBind(Uc(p))>>)
    PROVE  Inv'
<1>1. /\ ProcInv(p) /\ Alive(p) /\ End(p, "fatal")
      /\ given[p] \in Lines \ Refused /\ gos[p] \subseteq Wanted(p)
  <2>1. gos[p] # {} \/ api[p] = "bind"
    BY DEF BindTcp
  <2>2. End(p, "fatal")
    BY DEF BindTcp, ListenAndServe
  <2> QED BY <2>1, <2>2 DEF Inv, ProcInv, Listening, Alive
<1>. SUFFICES ASSUME ~Blame(p) PROVE Misconfigured(p)
  BY <1>1, EndStep
<1>2. CASE \E g \in gos[p] : ListenAndServe(p, g) /\ ~Free(Socket(p, g))
  <2>1. PICK g \in gos[p] : ~Free(Socket(p, g))
    BY <1>2
  <2>2. PICK s \in Sockets : s = Socket(p, g)
    BY <1>1, SocketType
  <2>needs. s \in Needs(p)
    BY <1>1, <2>2 DEF Needs
  <2>3. CASE sock[s] = Nil
    BY <2>1, <2>2, <2>3, <2>needs DEF Free, Misconfigured
  <2>4. CASE sock[s] # Nil
    <3>1. Bound(p, s)
      BY <1>1, <2>4, <2>needs, InUse
    <3>2. CASE \E h \in Wanted(p) : h \notin gos[p] /\ Socket(p, h) = s
      BY <1>1, <2>2, <3>2 DEF Misconfigured
    <3>3. CASE api[p] = "serve" /\ ~OnPath(p) /\ s = <<"tcp", ApiBind(Uc(p))>>
      <4>1. Uc(p).bools["api"]
        BY <1>1, <3>3 DEF ProcInv
      <4>2. s \in ApiNeeds(p)
        BY <3>3, <4>1 DEF ApiNeeds
      <4> QED BY <1>1, <2>2, <4>2 DEF Misconfigured
    <3> QED BY <3>1, <3>2, <3>3 DEF Bound
  <2> QED BY <2>3, <2>4
<1>3. CASE BindTcp(p) /\ ~Free(<<"tcp", ApiBind(Uc(p))>>)
  <2>1. ~OnPath(p) /\ api[p] = "bind" /\ Uc(p).bools["api"]
    BY <1>1, <1>3 DEF BindTcp, ProcInv
  <2>2. PICK s \in Sockets : s = <<"tcp", ApiBind(Uc(p))>>
    BY <1>1, <2>1, SocketType
  <2>api. s \in ApiNeeds(p)
    BY <2>1, <2>2 DEF ApiNeeds
  <2>needs. s \in Needs(p)
    BY <1>1, <2>api DEF Needs
  <2>3. CASE sock[s] = Nil
    BY <1>3, <2>2, <2>3, <2>needs DEF Free, Misconfigured
  <2>4. CASE sock[s] # Nil
    <3>1. Bound(p, s)
      BY <1>1, <2>4, <2>needs, InUse
    <3> QED BY <2>1, <2>2, <2>api, <3>1 DEF Bound, Misconfigured
  <2> QED BY <2>3, <2>4
<1> QED BY <1>2, <1>3

LEMMA StepInv ==
    ASSUME Inv, NEW p \in Servers, Step(p)
    PROVE  Inv'
<1>1. CASE GetProxyConfig(p) /\ given[p] \in Refused
  BY <1>1, EndStep DEF GetProxyConfig, Alive, Misconfigured
<1>2. CASE GetProxyConfig(p) /\ given[p] \notin Refused
  BY <1>2, MainStep
<1>3. CASE Register(p) \/ Listen(p) \/ Services(p) \/ Ready(p)
  BY <1>3, MainStep
<1>4. CASE \E g \in gos[p] : ListenAndServe(p, g)
  BY <1>4, ListenStep, ListenFailsStep
<1>5. CASE StartDoH(p)
  <2>1. CASE ~MakeTLSConfig(Uc(p))
    <3>1. End(p, "fatal") /\ doh[p] = "start"
      BY <1>5, <2>1 DEF StartDoH
    <3>2. Alive(p) /\ Misconfigured(p)
      BY <2>1, <3>1 DEF Inv, ProcInv, Alive, Misconfigured
    <3> QED BY <3>1, <3>2, EndStep
  <2> QED BY <1>5, <2>1, DohStep
<1>6. CASE BindTcp(p)
  BY <1>6, ListenStep, ListenFailsStep
<1>7. CASE BindUnix(p)
  BY <1>7, BindStep, BindFailsStep
<1>8. CASE Notify(p)
  BY <1>8, NotifyStep
<1>9. CASE ApiFatal(p)
  <2>1. Alive(p) /\ (Misconfigured(p) \/ Blame(p))
    BY <1>9 DEF ApiFatal, Inv, ProcInv, Alive, BlameInv
  <2> QED BY <1>9, <2>1, EndStep DEF ApiFatal
<1>10. CASE Remove(p)
  BY <1>10, RemoveStep
<1>11. CASE Reraise(p)
  <2>1. Alive(p)
    BY <1>11 DEF Reraise, Inv, TypeOK
  <2> QED BY <1>11, <2>1, EndStep DEF Reraise
<1> QED BY <1>1, <1>2, <1>3, <1>4, <1>5, <1>6, <1>7, <1>8, <1>9, <1>10, <1>11 DEF Step

LEMMA NextInv ==
    ASSUME Inv, [Next]_vars
    PROVE  Inv'
<1>1. ASSUME NEW p \in Servers, NEW line \in Lines, Start(p, line) PROVE Inv'
  BY <1>1, StartStep
<1>2. ASSUME NEW p \in Servers, Step(p) PROVE Inv'
  BY <1>2, StepInv
<1>3. ASSUME NEW p \in Servers, Signal(p) PROVE Inv'
  <2>1. Alive(p) /\ (End(p, "default") \/ signals[p] = "notify")
    BY <1>3 DEF Signal
  <2> QED BY <1>3, <2>1, EndStep, CaughtStep
<1>4. ASSUME NEW p \in Servers, Crash(p) PROVE Inv'
  BY <1>4, EndStep DEF Crash
<1>5. CASE UNCHANGED vars
  <2>1. UNCHANGED <<given, pc, handles, gos, api, doh, signals, sock, socketFile, cause, met,
                    caught>>
    BY <1>5 DEF vars, history
  <2>2. \A q : /\ OnPath(q)' = OnPath(q) /\ Uc(q)' = Uc(q) /\ Wanted(q)' = Wanted(q)
               /\ \A g : Socket(q, g)' = Socket(q, g)
               /\ Misconfigured(q)' = Misconfigured(q) /\ Needs(q)' = Needs(q)
    BY <2>1, SameOptions
  <2>3. TypeOK' /\ \A q, r \in Servers : MetInv(q, r)'
    BY <2>1 DEF Inv, TypeOK, MetInv, Alive
  <2>4. ASSUME NEW q \in Servers
        PROVE  ProcInv(q)' /\ StayInv(q)' /\ BlameInv(q)' /\ CauseInv(q)'
    <3>1. ProcInv(q) /\ StayInv(q) /\ BlameInv(q) /\ CauseInv(q)
      BY DEF Inv
    <3>2. ProcInv(q)'
      BY <2>1, <2>2, <3>1 DEF ProcInv
    <3>3. StayInv(q)' /\ BlameInv(q)' /\ CauseInv(q)'
      BY <2>1, <2>2, <3>1 DEF StayInv, BlameInv, CauseInv, Blame, InTheWay
    <3> QED BY <3>2, <3>3
  <2>5. (\A s \in Sockets : SockInv(s)') /\ \A path \in Paths : FileInv(path)'
    BY <2>1, <2>2 DEF Inv, SockInv, FileInv, Bound
  <2> QED BY <2>3, <2>4, <2>5 DEF Inv
<1> QED BY <1>1, <1>2, <1>3, <1>4, <1>5 DEF Next

LEMMA Invariance == Spec => []Inv
<1>1. Inv /\ [Next]_vars => Inv'
  BY NextInv
<1> QED BY <1>1, InitInv, PTL DEF Spec

-----------------------------------------------------------------------------
(* Theorems *)

\* Whatever the options, a process that ends takes its goroutines, its signal
\* handler and its sockets with it.
THEOREM TypeCorrect == Spec => []TypeOK
<1>1. Inv => TypeOK
  BY DEF Inv
<1> QED BY <1>1, Invariance, PTL

\* No process listens on a socket before it has registered its query handler.
THEOREM MuxNeverEmpty == Spec => []NoEmptyMux
<1>1. Inv => NoEmptyMux
  <2>. SUFFICES ASSUME Inv, NEW s \in Sockets, sock[s] # Nil PROVE handles[sock[s]]
    BY DEF NoEmptyMux
  <2>1. sock[s] \in Servers /\ pc[sock[s]] \in Listening
    BY Owner
  <2>2. ProcInv(sock[s])
    BY <2>1 DEF Inv
  <2> QED BY <2>1, <2>2 DEF ProcInv
<1> QED BY <1>1, Invariance, PTL

\* A process that ends with an error was given options that cannot be served, or
\* needs an address or a path that another one needs: one that ran at the same
\* time, or, for the path, one that ended without removing the socket file.
THEOREM FatalExplained == Spec => []FatalHasCause
<1>1. Inv => FatalHasCause
  BY DEF Inv, CauseInv, Blame, FatalHasCause
<1> QED BY <1>1, Invariance, PTL

\* The socket file of a process that serves the API is removed only when that
\* process, or one that ran at the same time, catches a signal.
THEOREM SocketFileKept == Spec => []SocketFileStays
<1>1. Inv => SocketFileStays
  BY DEF Inv, StayInv, SocketFileStays
<1> QED BY <1>1, Invariance, PTL
=============================================================================
