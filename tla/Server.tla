------------------------------- MODULE Server -------------------------------
(***************************************************************************)
(* The life of a server process: the options (src/cmd/dinosaur, src/config *)
(* /userconfig.go), the goroutines that StartServer starts (src/server/    *)
(* server.go), the listeners of the API and of DoH (src/api/api.go, src/   *)
(* doh/doh.go), and the process's end, by a fatal error, a signal or a     *)
(* crash.                                                                  *)
(*                                                                         *)
(* Several processes run on one host, one after the other or at the same   *)
(* time, and share its addresses and the file of the API's UNIX socket,    *)
(* which outlives the process that made it.  "go" statements that main     *)
(* runs in a row are one step: a goroutine that is started and has not run *)
(* yet is as good as one that is still to be started.  The goroutines that *)
(* flush the cache and refresh the blocklist are in DNSCache and ChangeLog.*)
(***************************************************************************)
EXTENDS Integers, Sequences

CONSTANTS
    MaxStarts,      \* bound on the number of processes
    Values,         \* of the options
    Lines,          \* command lines that a process may be started with
    CommandLine,    \* the file and the flags of each of them
    Invalid,        \* the <<option, value>> that GetProxyConfig refuses
    ParseAddr(_),   \* the addresses a value of -listen or -doh stands for
    Addrs, Paths,   \* addresses, and paths of UNIX sockets
    Unavailable,    \* addresses and paths that cannot be bound on this host
    DefaultListen, DefaultUpstream, DefaultApiBind,
    SyslogUp,       \* the syslog daemon can be reached
    Nil,            \* an option that is not set, no -config, no process
    Unreadable      \* a -config that cannot be read or parsed

\* Processes, in the order of their start.
Servers == 1..MaxStarts

ListOptions == {"listen", "upstream", "acl", "block", "block-delete", "blocklist",
                "blocklist-aaaa", "blocklist-from-hosts", "localrr", "localrr-ptr",
                "localzone", "doh"}
BoolOptions == {"dns64", "api", "refresh", "debug", "syslog", "discard"}
StringOptions == {"dns64-prefix", "api-bind", "doh-cert", "doh-key", "doh-path",
                  "refresh-interval", "setuid"}

\* UserConfig, and the flags, which have the same shape.
UserConfigs ==
    {u \in [lists : [ListOptions -> Seq(Values)], bools : [BoolOptions -> BOOLEAN],
            strings : [StringOptions -> Values \cup {Nil}]] :
        u.strings["api-bind"] \in Addrs \cup Paths \cup {Nil}}

\* A socket address in use: a listener for DNS over UDP, or any other.
Sockets == {"udp", "tcp"} \X Addrs

\* The goroutines with a listener: for the j-th address of the i-th value.
Goroutines == {"udp", "tcp", "https"} \X Nat \X Nat

ASSUME ServerAssumption ==
    /\ CommandLine \in [Lines -> [file : UserConfigs \cup {Nil, Unreadable},
                                  flags : UserConfigs]]
    /\ Nil \notin Values \cup Servers \cup UserConfigs \cup Lines
    /\ Unreadable \notin {Nil} \cup UserConfigs
    /\ \A o \in StringOptions : <<o, Nil>> \notin Invalid
    /\ \A v \in Values : ParseAddr(v) \in Seq(Addrs)
    /\ Unavailable \subseteq Sockets \cup Paths
    /\ DefaultListen \in Seq(Values) /\ DefaultUpstream \in Seq(Values)
    /\ DefaultApiBind \in Addrs /\ Addrs \cap Paths = {}
    /\ SyslogUp \in BOOLEAN
    /\ MaxStarts \in Nat

VARIABLES
    given,          \* the command line of each process
    pc,             \* where its main goroutine is
    handles,        \* the query handler is registered
    gos,            \* goroutines that are started and have not bound their socket
    api,            \* where the API's goroutine is
    doh,            \* where StartDoH is
    signals,        \* where the signal handler is
    sock,           \* the process that has a socket
    socketFile,     \* the process that made the file of a UNIX socket
    cause,          \* how the process ended
    met,            \* history: the processes that ran at the same time
    caught          \* history: the processes whose handler caught a signal

history == <<met, caught>>
vars == <<given, pc, handles, gos, api, doh, signals, sock, socketFile, cause, history>>

-----------------------------------------------------------------------------
(* The configuration *)

NewUserConfig == [lists |-> [o \in ListOptions |-> << >>],
                  bools |-> [o \in BoolOptions |-> FALSE],
                  strings |-> [o \in StringOptions |-> Nil]]

\* Mutant: lists on the command line take the place of the file's.
OverrideLists(file, flags) == IF flags # << >> THEN flags ELSE file

\* "append"
AppendLists(file, flags) == file \o flags

\* GetUserConfig: the file, then the command line, then the defaults.  Lists are
\* appended and switches are or-ed; strings take the place of the file's if they
\* are set, -setuid does so in any case.
GetUserConfig(file, flags) ==
    LET f == IF file = Nil THEN NewUserConfig ELSE file
        lists == [o \in ListOptions |-> AppendLists(f.lists[o], flags.lists[o])]
    IN  IF file = Unreadable THEN Nil ELSE
        [lists |-> [o \in ListOptions |->
                        IF lists[o] # << >> THEN lists[o]
                        ELSE IF o = "listen" THEN DefaultListen
                        ELSE IF o = "upstream" THEN DefaultUpstream
                        ELSE << >>],
         bools |-> [o \in BoolOptions |-> f.bools[o] \/ flags.bools[o]],
         strings |-> [o \in StringOptions |->
                        IF o = "setuid" \/ flags.strings[o] # Nil THEN flags.strings[o]
                        ELSE f.strings[o]]]

\* GetProxyConfig returns an error, or ends the process itself (setuid, syslog).
\* The prefix of DNS64 is looked at only if DNS64 is on.
ConfigError(u) ==
    \/ \E o \in ListOptions \ {"upstream", "block-delete"} :
          \E i \in DOMAIN u.lists[o] : <<o, u.lists[o][i]>> \in Invalid
    \/ u.bools["dns64"] /\ <<"dns64-prefix", u.strings["dns64-prefix"]>> \in Invalid
    \/ \E o \in {"refresh-interval", "setuid"} : <<o, u.strings[o]>> \in Invalid
    \/ u.bools["syslog"] /\ ~u.bools["discard"] /\ ~SyslogUp

ApiBind(u) == IF u.strings["api-bind"] # Nil THEN u.strings["api-bind"] ELSE DefaultApiBind

\* The files of the certificate are read only if both are given.
MakeTLSConfig(u) ==
    LET cert == u.strings["doh-cert"]
        key == u.strings["doh-key"]
    IN  cert # Nil /\ key # Nil => <<"doh-cert", cert>> \notin Invalid

UserConfig ==
    [line \in Lines |-> GetUserConfig(CommandLine[line].file, CommandLine[line].flags)]

\* main ends the process before StartServer.
Refused == {line \in Lines : UserConfig[line] = Nil \/ ConfigError(UserConfig[line])}

Uc(p) == UserConfig[given[p]]

\* One goroutine for every address of every value of the option.
Listeners(kind, values) ==
    UNION {{<<kind, i, j>> : j \in DOMAIN ParseAddr(values[i])} : i \in DOMAIN values}

Socket(p, g) ==
    LET values == Uc(p).lists[IF g[1] = "https" THEN "doh" ELSE "listen"]
    IN  <<IF g[1] = "udp" THEN "udp" ELSE "tcp", ParseAddr(values[g[2]])[g[3]]>>

-----------------------------------------------------------------------------
(* Start and end of a process *)

Alive(p) == pc[p] \notin {"off", "ended"}

Init ==
    /\ given = [p \in Servers |-> Nil]
    /\ pc = [p \in Servers |-> "off"]
    /\ handles = [p \in Servers |-> FALSE]
    /\ gos = [p \in Servers |-> {}]
    /\ api = [p \in Servers |-> "off"]
    /\ doh = [p \in Servers |-> "off"]
    /\ signals = [p \in Servers |-> "default"]
    /\ sock = [s \in Sockets |-> Nil]
    /\ socketFile = [path \in Paths |-> Nil]
    /\ cause = [p \in Servers |-> "none"]
    /\ met = [p \in Servers |-> {}]
    /\ caught = {}

\* Mutant: an error makes StartServer return to a caller that goes on, and with it
\* the goroutines that are started.
ReturnError(p, why) ==
    /\ pc' = [pc EXCEPT ![p] = "ended"]
    /\ cause' = [cause EXCEPT ![p] = why]
    /\ UNCHANGED <<given, handles, gos, api, doh, signals, sock, socketFile, history>>

\* The kernel closes the sockets and leaves the files.
End(p, why) ==
    /\ pc' = [pc EXCEPT ![p] = "ended"]
    /\ cause' = [cause EXCEPT ![p] = why]
    /\ gos' = [gos EXCEPT ![p] = {}]
    /\ api' = [api EXCEPT ![p] = "off"]
    /\ doh' = [doh EXCEPT ![p] = "off"]
    /\ signals' = [signals EXCEPT ![p] = "default"]
    /\ sock' = [s \in Sockets |-> IF sock[s] = p THEN Nil ELSE sock[s]]
    /\ UNCHANGED <<given, handles, socketFile, history>>

Start(p, line) ==
    LET others == {q \in Servers : Alive(q)} IN
    /\ pc[p] = "off" /\ \A q \in 1..p-1 : pc[q] # "off"
    /\ given' = [given EXCEPT ![p] = line]
    /\ pc' = [pc EXCEPT ![p] = "config"]
    /\ met' = [q \in Servers |-> IF q = p THEN others
                                 ELSE IF q \in others THEN met[q] \cup {p} ELSE met[q]]
    /\ UNCHANGED <<handles, gos, api, doh, signals, sock, socketFile, cause, caught>>

Goto(p, l) ==
    /\ pc' = [pc EXCEPT ![p] = l]
    /\ UNCHANGED <<given, signals, sock, socketFile, cause, history>>

\* main, up to StartServer.
GetProxyConfig(p) ==
    /\ pc[p] = "config"
    /\ \/ given[p] \in Refused /\ End(p, "fatal")
       \/ /\ given[p] \notin Refused
          /\ Goto(p, "register")
          /\ UNCHANGED <<handles, gos, api, doh>>

\* Mutant: the handler is registered with a mux that no listener uses.
RegisterElsewhere(p) ==
    /\ pc[p] = "register"
    /\ Goto(p, "listen")
    /\ UNCHANGED <<handles, gos, api, doh>>

\* StartServer: "Register handler before starting listeners so no query can
\* arrive with an empty mux"
Register(p) ==
    /\ pc[p] = "register"
    /\ handles' = [handles EXCEPT ![p] = TRUE]
    /\ Goto(p, "listen")
    /\ UNCHANGED <<gos, api, doh>>

\* StartServer: the goroutines for DNS ...
Listen(p) ==
    LET listen == Uc(p).lists["listen"] IN
    /\ pc[p] = "listen"
    /\ gos' = [gos EXCEPT ![p] = Listeners("udp", listen) \cup Listeners("tcp", listen)]
    /\ Goto(p, "services")
    /\ UNCHANGED <<handles, api, doh>>

\* ... and those for the API and DoH.
Services(p) ==
    /\ pc[p] = "services"
    /\ api' = [api EXCEPT ![p] = IF Uc(p).bools["api"] THEN "bind" ELSE "off"]
    /\ doh' = [doh EXCEPT ![p] =
                 IF Listeners("https", Uc(p).lists["doh"]) # {} THEN "start" ELSE "off"]
    /\ Goto(p, "sleep")
    /\ UNCHANGED <<handles, gos>>

\* StartServer: a tenth of a second later main waits for someone to receive from
\* ready, which nobody does.
Ready(p) ==
    /\ pc[p] = "sleep"
    /\ Goto(p, "ready")
    /\ UNCHANGED <<handles, gos, api, doh>>

-----------------------------------------------------------------------------
(* The listeners *)

Free(s) == sock[s] = Nil /\ s \notin Unavailable

\* ListenAndServe of a UDP, TCP or HTTPS server: "log.Fatal(listenAddr, ": ", err)",
\* "log.Fatalf("DoH %s: %s", addr, err)".
ListenAndServe(p, g) ==
    /\ g \in gos[p]
    /\ \/ /\ Free(Socket(p, g))
          /\ sock' = [sock EXCEPT ![Socket(p, g)] = p]
          /\ gos' = [gos EXCEPT ![p] = @ \ {g}]
          /\ UNCHANGED <<given, pc, handles, api, doh, signals, socketFile, cause, history>>
       \/ /\ ~Free(Socket(p, g))
          /\ End(p, "fatal")

StartDoH(p) ==
    /\ doh[p] = "start"
    /\ \/ /\ MakeTLSConfig(Uc(p))
          /\ gos' = [gos EXCEPT ![p] = @ \cup Listeners("https", Uc(p).lists["doh"])]
          /\ doh' = [doh EXCEPT ![p] = "started"]
          /\ UNCHANGED <<given, pc, handles, api, signals, sock, socketFile, cause, history>>
       \/ /\ ~MakeTLSConfig(Uc(p))
          /\ End(p, "fatal")

OnPath(p) == ApiBind(Uc(p)) \in Paths

GotoApi(p, l) ==
    /\ api' = [api EXCEPT ![p] = l]
    /\ UNCHANGED <<given, pc, handles, gos, doh, cause, history>>

\* bindListener, TCP: what cannot be bound is fatal in MakeApiHandler.
BindTcp(p) ==
    LET s == <<"tcp", ApiBind(Uc(p))>> IN
    /\ api[p] = "bind" /\ ~OnPath(p)
    /\ \/ /\ Free(s)
          /\ sock' = [sock EXCEPT ![s] = p]
          /\ GotoApi(p, "serve")
          /\ UNCHANGED <<signals, socketFile>>
       \/ /\ ~Free(s)
          /\ End(p, "fatal")

\* Mutant: a file that is in the way is removed first.
BindAnyway(p) ==
    /\ api[p] = "bind" /\ OnPath(p)
    /\ socketFile' = [socketFile EXCEPT ![ApiBind(Uc(p))] = p]
    /\ GotoApi(p, "bound")
    /\ UNCHANGED <<signals, sock>>

\* bindListener, UNIX: a file that is there is in the way, whoever made it, and so
\* is a directory that does not exist or cannot be written to ...
BindUnix(p) ==
    LET path == ApiBind(Uc(p)) IN
    /\ api[p] = "bind" /\ OnPath(p)
    /\ \/ /\ socketFile[path] = Nil /\ path \notin Unavailable
          /\ socketFile' = [socketFile EXCEPT ![path] = p]
          /\ GotoApi(p, "bound")
       \/ /\ socketFile[path] # Nil \/ path \in Unavailable
          /\ GotoApi(p, "failed")
          /\ UNCHANGED socketFile
    /\ UNCHANGED <<signals, sock>>

\* ... and in both cases the signal handler is installed.
Notify(p) ==
    /\ api[p] \in {"bound", "failed"}
    /\ signals' = [signals EXCEPT ![p] = "notify"]
    /\ GotoApi(p, IF api[p] = "bound" THEN "serve" ELSE "fatal")
    /\ UNCHANGED <<sock, socketFile>>

\* MakeApiHandler: "API listener could not bind"
ApiFatal(p) == api[p] = "fatal" /\ End(p, "fatal")

-----------------------------------------------------------------------------
(* Signals and crashes *)

\* SIGINT or SIGTERM.  A second one while the first is handled has no effect.
Signal(p) ==
    /\ Alive(p)
    /\ \/ /\ signals[p] = "default"
          /\ End(p, "default")
       \/ /\ signals[p] = "notify"
          /\ signals' = [signals EXCEPT ![p] = "caught"]
          /\ caught' = caught \cup {p}
          /\ UNCHANGED <<given, pc, handles, gos, api, doh, sock, socketFile, cause, met>>

\* Mutant: the handler only logs.
RemoveNothing(p) ==
    /\ signals[p] = "caught"
    /\ signals' = [signals EXCEPT ![p] = "removed"]
    /\ UNCHANGED <<given, pc, handles, gos, api, doh, sock, socketFile, cause, history>>

\* "Removing API socket", whoever made it.
Remove(p) ==
    /\ signals[p] = "caught"
    /\ socketFile' = [socketFile EXCEPT ![ApiBind(Uc(p))] = Nil]
    /\ signals' = [signals EXCEPT ![p] = "removed"]
    /\ UNCHANGED <<given, pc, handles, gos, api, doh, sock, cause, history>>

\* "Restore default handler and re-raise"
Reraise(p) == signals[p] = "removed" /\ End(p, "signal")

\* SIGKILL, a panic, a loss of power.
Crash(p) == Alive(p) /\ End(p, "crash")

-----------------------------------------------------------------------------

Step(p) ==
    \/ GetProxyConfig(p) \/ Register(p) \/ Listen(p) \/ Services(p) \/ Ready(p)
    \/ \E g \in gos[p] : ListenAndServe(p, g)
    \/ StartDoH(p)
    \/ BindTcp(p) \/ BindUnix(p) \/ Notify(p) \/ ApiFatal(p)
    \/ Remove(p) \/ Reraise(p)

Next == \E p \in Servers :
    \/ \E line \in Lines : Start(p, line)
    \/ Step(p)
    \/ Signal(p) \/ Crash(p)

Spec == Init /\ [][Next]_vars

\* Goroutines run; nobody has to start, signal or crash a process.
FairSpec == Spec /\ \A p \in Servers : WF_vars(Step(p))

-----------------------------------------------------------------------------
(* Properties *)

\* Types; only a process that is alive has goroutines, a signal handler and
\* sockets: Fatal ends the whole process.
TypeOK ==
    /\ given \in [Servers -> Lines \cup {Nil}]
    /\ pc \in [Servers -> {"off", "config", "register", "listen", "services", "sleep",
                           "ready", "ended"}]
    /\ handles \in [Servers -> BOOLEAN]
    /\ gos \in [Servers -> SUBSET Goroutines]
    /\ api \in [Servers -> {"off", "bind", "bound", "failed", "serve", "fatal"}]
    /\ doh \in [Servers -> {"off", "start", "started"}]
    /\ signals \in [Servers -> {"default", "notify", "caught", "removed"}]
    /\ sock \in [Sockets -> Servers \cup {Nil}]
    /\ socketFile \in [Paths -> Servers \cup {Nil}]
    /\ cause \in [Servers -> {"none", "fatal", "default", "signal", "crash"}]
    /\ met \in [Servers -> SUBSET Servers]
    /\ caught \subseteq Servers
    /\ \A p \in Servers : ~Alive(p) =>
        gos[p] = {} /\ api[p] = "off" /\ doh[p] = "off" /\ signals[p] = "default"
    /\ \A s \in Sockets : sock[s] # Nil => Alive(sock[s])

\* No query can arrive with an empty mux: a process that listens for DNS has
\* registered its handler.
NoEmptyMux ==
    \A s \in Sockets : sock[s] # Nil => handles[sock[s]]

\* The values of a list option, wherever they are given.
Named(p, o) ==
    LET line == CommandLine[given[p]]
        all == (IF line.file = Nil THEN << >> ELSE line.file.lists[o]) \o line.flags.lists[o]
    IN  {all[i] : i \in DOMAIN all}

\* Every address that is named in the file or on the command line is listened on,
\* and the API too if one of them asks for it.
Serving(p) ==
    /\ pc[p] = "ready"
    /\ \A v \in Named(p, "listen") : \A j \in DOMAIN ParseAddr(v) :
        sock[<<"udp", ParseAddr(v)[j]>>] = p /\ sock[<<"tcp", ParseAddr(v)[j]>>] = p
    /\ \A v \in Named(p, "doh") : \A j \in DOMAIN ParseAddr(v) :
        sock[<<"tcp", ParseAddr(v)[j]>>] = p
    /\ LET line == CommandLine[given[p]] IN
       \/ api[p] = "serve"
       \/ /\ ~line.flags.bools["api"]
          /\ line.file = Nil \/ ~line.file.bools["api"]

\* A process that is started ends or serves all that it was asked to serve: it
\* does not go on with a listener missing.
ServesOrEnds ==
    \A p \in Servers : pc[p] = "config" ~> (pc[p] = "ended" \/ Serving(p))

\* The listeners for DNS and DoH that a process starts.
Wanted(p) ==
    LET u == Uc(p) IN
    Listeners("udp", u.lists["listen"]) \cup Listeners("tcp", u.lists["listen"])
    \cup Listeners("https", u.lists["doh"])

\* The address or the path of the API.
ApiNeeds(p) ==
    IF ~Uc(p).bools["api"] THEN {}
    ELSE {IF OnPath(p) THEN ApiBind(Uc(p)) ELSE <<"tcp", ApiBind(Uc(p))>>}

\* All that a process binds, if it gets as far as StartServer.
Needs(p) ==
    IF given[p] \notin Lines \ Refused THEN {}
    ELSE {Socket(p, g) : g \in Wanted(p)} \cup ApiNeeds(p)

\* The options alone keep the process from serving: they are invalid, name an
\* address or a path that cannot be had, or name an address twice.
Misconfigured(p) ==
    \/ given[p] \in Refused
    \/ Listeners("https", Uc(p).lists["doh"]) # {} /\ ~MakeTLSConfig(Uc(p))
    \/ Needs(p) \cap Unavailable # {}
    \/ \E g, h \in Wanted(p) : g # h /\ Socket(p, g) = Socket(p, h)
    \/ \E g \in Wanted(p) : Socket(p, g) \in ApiNeeds(p)

\* q can be in the way of p: it ran at the same time and needs an address or the
\* path that p needs, or it was to make the same socket file and ended by a crash,
\* an error or a signal that came before the handler.
InTheWay(q, p) ==
    LET shared == Needs(p) \cap Needs(q) IN
    \/ q \in met[p] /\ shared # {}
    \/ cause[q] \in {"crash", "fatal", "default"} /\ shared \cap Paths # {}

\* A process that was stopped by a signal after its API was up does not stand in
\* the way of the next one: if a process ends with an error, its options are to
\* blame, or another process that needs what it needs and either ran at the same
\* time or ended without the handler that removes the socket file.
FatalHasCause ==
    \A p \in Servers : cause[p] = "fatal" =>
        Misconfigured(p) \/ \E q \in Servers \ {p} : InTheWay(q, p)

\* The socket file of a process stays as long as the process, unless a signal is
\* sent to it, or to another one that ran at the same time.
SocketFileStays ==
    \A p \in Servers :
        api[p] = "serve" /\ OnPath(p) =>
            socketFile[ApiBind(Uc(p))] = p \/ ({p} \cup met[p]) \cap caught # {}
=============================================================================
