# TLA+ models of Dinosaur

Specifications, model-checking runs and proofs for the DNS caching proxy in `src/`. The code is
the reference: `PROJECT.json` maps every definition to the lines it stands for, lists the parts of
the system, the hazards, the runs and the theorems.

## The system

A query comes in over UDP, TCP or DoH and runs in a goroutine of its own through
`proxy.MakeHandler`: ACL, blocklist (unless paused), cache, upstreams, DNS64, reply, log entry.
All goroutines share one `ProxyConfig`.

| Part | State | Operations | Shared with |
|---|---|---|---|
| `proxy` resolve | upstream list, error counter | ask in turn, count, demote | all queries |
| `cache` | map of items with expiry | Add, AddRR, AddRRString, Get, Delete, DeleteName, Flush | queries, API, flush goroutine |
| `resolver` (DoT) | channel of idle connections | Resolve, getConn, isAlive, putConn | queries, the upstream |
| `blocklist` | trie of levels | AddEntry, AddHostsEntry, Match, DeleteEntry, DeleteTree | queries, API, refresh |
| `proxy` handler | none of its own | MakeHandler | everything |
| `api` JSON-RPC | change log | edits of cache and blocklist, pause, merged config | handler, refresh |
| `statshandler` | ring buffer, hook map | Insert, Tail, GetOffset, TailFilter, TailBetween, AddHook, DeleteHook | queries, log clients |
| `api` log stream | one channel per client | GET /log | Insert |
| `server`, `cmd`, `config` | goroutines, listeners | options, start, flush loop, refresh loop | cache, blocklist, the host |
| `doh` | none of its own | HTTP request to query, start | handler |
| dashboard, `util`, `logger` | presentation, I/O | | |

What is hard here: an upstream's outcome is applied to a list that may have been rotated since;
time passes between two clock readings; connections are reused while the other end answers late or
hangs up; lists are replaced and edited while a handler holds the old pointer; a mutex is held
across a send to a client; a map is written without the mutex under which it is iterated; an edit
and its log entry are two steps, and a restart sees only the log; listeners fail one by one in
goroutines of their own; the API's socket file outlives its process.

## Modules

| Module | Models | Abstract specification | Proofs |
|---|---|---|---|
| `Failover` | `resolve` in `proxy/proxy.go` | | `FailoverProofs` |
| `DNSCache` | `cache/cache.go`, `cache/ptr.go` | `EagerCache` | `DNSCacheProofs` |
| `DotPool` | `DotResolver` in `resolver/resolver.go` | | `DotPoolProofs` |
| `Blocklist` | `blocklist/trie.go`, `blocklist/blocklist.go`, `-block-delete` | `BlockSet` | `BlocklistProofs` |
| `Proxy` | `MakeHandler` and `MakeDoHHandler`, composed with the API's edits and pauses and the refresh loop | | `ProxyProofs` |
| `ChangeLog` | `api/changelog.go`, the API's edits and `GetMergedConfig` in `api/jsonrpc.go`, `UpdateBlockList` and the local records of `GetProxyConfig`, refresh and restart | the running state | `ChangeLogProofs` |
| `Server` | `cmd/dinosaur`, `GetProxyConfig`'s errors and defaults, `server/server.go`, `api/api.go`, `StartDoH`, signals and crashes | | `ServerProofs` |
| `CircularBuffer` | `statshandler/buffer.go`, without hooks | the sequence of all inserts | `QueryLogProofs` |
| `LogStream` | `Insert` with its hooks, `statshandler/stats.go`, `api/log.go`, over `CircularBuffer` | `CircularBuffer` | `QueryLogProofs` |

`MC...` modules hold constants for TLC, one `.cfg` file per run. Definitions whose comment begins
with "Mutant" are plausible bugs; each property is known to fail under one of them.

**Failover.** One process per call of `resolve`. `Snapshot`, every `Resolve`, and the critical
sections `Success` and `Error` are separate steps, since no lock is held across them. The cache is
its verdict. `tried` and `faulty` are histories.

**DNSCache.** A critical section is a step; `Get` is two, because it reads the clock twice, and
`Add` reads the clock before it locks. TTLs are integers modulo `TtlRange` (2^32 in the code).
`MaxPause` bounds the time between two adjacent clock readings.

**DotPool.** The pool is a first-in first-out channel. The upstream may answer late, never, and
hang up at any time. Message identifiers always coincide, so nothing rests on comparing them. The
DNS library is external and modelled as a write followed by a read.

**Blocklist.** A level is identified with its domain, and the map entry that leads to it is a link;
a level is reached if every link from the root to it is there. Unlinking removes the one link, as
`delete` does in the code: what hangs below it keeps its rules and is no longer reached, and a name
that is added again gets new, empty levels. Text parsing is reduced to the verdict "no type, a type,
or bad", for hosts files with the address and whether there is a second field. `BlockSet` says what
each operation does and returns on a set of rules; `ImplementsSet` compares operation by operation,
with the same arguments.

**Proxy.** The handler's steps lie between its unlocked reads. Other parts appear by what their own
modules show: a blocklist is a set of rules, an item of the cache may vanish when it expires, the
upstreams answer or fail. `BeginEdit`/`EndEdit` separate the API's unlocked read of
`config.BlockList` from the edit. Names are unrelated to each other here. A query comes in over DNS
or over HTTP; `RefuseRequest` and `WriteResponse` are what `MakeDoHHandler` does before and after it
calls the same handler. The deferred entry in the query log is a step of its own, `LogQuery`, between
the handler's reply and its return, for DoH between the reply and the HTTP response.

**ChangeLog.** The state is the running blocklist (a set of rules, which `Blocklist` implements),
the permanent records, the five collections of the log, and for each API goroutine the entries that
`BlockListAdd` has yet to add and the edit that is done and not yet logged. An entry that is refused
ends the call and leaves what was added before it. `GetMergedConfig` and `UpdateBlockList` are operators; `Restart` starts
again from the old or the merged configuration. An entry is a domain, a type or none, and whether
it is spelled as `normalizeBlockEntry` would spell it. `tangled` is a history: the rules and records
with a sequence of changes that the log, by its design, does not represent. Each action says when it
adds to it, so the exceptions in the properties are exactly the ones listed below.

**Server.** Several processes on one host share its addresses and the file of the API's socket.
A process has its main goroutine, one goroutine per listener, those of the API and of DoH, and the
signal handler; each bind is a step. `log.Fatal` ends the whole process. `GetUserConfig` merges file,
flags and defaults by kind of option; the addresses a value stands for (`ParseAddr`, with its default
ports) and the values that are refused (`Invalid`) are constants. An IPv4 or IPv6 wildcard address is
one address like any other. A listener that was bound does not fail later. `met` and `caught` are
histories.

**CircularBuffer, LogStream.** `LogStream` extends `CircularBuffer`: its `Insert` takes the mutex
and stores the entry with `InsertItem`, its entries are the numbers `1..MaxLog`. The readers are
operators over the buffer, compared with the history `log`: the loop of `TailBetween` is a recursive
function, and `BetweenIsRange` says by rank, without a loop, which items it returns and in which
order. In `LogStream` an iteration over the Go map may or may not visit an id added meanwhile. A
write of the map that overlaps an iteration or another write is undefined behaviour: it takes
effect, or the runtime ends the process (`Fatal`).

## Runs

| Run | Instance | Shows |
|---|---|---|
| `failover` | 3 calls, 3 upstreams, 1 dead, threshold 2 | `UpstreamIsRotation`, `FailedMeansAllTried`, `InnocentNotDemoted`, `CallsReturn`, `DeadHeadDemoted` |
| `failover_five` | 5 calls, threshold 3 | violated: an upstream that never failed is demoted |
| `cache` | 2 goroutines, half seconds | `TtlHonest`, `NoExpiredReply`, `EntryStableInGet`, `ImplementsEager` |
| `dot_pool` | 3 calls, 3 connections, pool of 2 | `ConnAccounted`, `CheckNonDestructive`, `AnswerMatches`, `CallsReturn` |
| `blocklist` | root, domain, subdomain; 2 types | `CountsRules`, `ImplementsSet` |
| `proxy` | 1 handler with DNS64, over DNS and DoH, 2 lists, times 0 to 2 | `BlockingHonoured`, `PauseHonoured`, `ReplyMatchesQuery`, `DoHLikeDNS`, `QueriesEnd` |
| `proxy_permanent` | 1 handler | violated: a late response replaces a permanent record |
| `buffer` | capacity 3, 7 inserts of 2 items | `HoldsLast`, `BetweenIsRange` |
| `log_stream` | 2 handlers, 2 clients, 3 entries | `StreamComplete`, `InsertEnds` |
| `log_stream_crash` | 2 clients | violated: the process may end |
| `changelog` | 2 callers, 4 calls, 1 restart, 2 nested domains, 1 record, requests of up to 3 entries | `BlocksSurvive`, `DeletionsSurvive`, `RecordsSurvive` |
| `server` | 2 processes, 9 command lines, 3 addresses, 2 socket paths | `NoEmptyMux`, `FatalHasCause`, `SocketFileStays`, `ServesOrEnds` |

Passing runs also check `TypeOK` once per module, in `CircularBuffer` named `BufferTypeOK`. The violated ones are explained, with the
sentence of the documentation they contradict, under `findings` in `PROJECT.json`.

*Bounds.* The threshold of `Failover` is a constant, 3 in the code. One more call than the threshold
is the most for which `InnocentNotDemoted` holds, and two more the fewest that break it: `failover`
takes 2 and three calls, so that safety and liveness fit in one run, `failover_five` the code's 3
with five calls, and `InnocentUpstreamStays` is proved for every threshold. Half-second ticks make
ages that are not whole seconds, and three ticks outlive a TTL of one second; in `cache` two calls
overlap only at the last tick (`OverlapAt`), when that TTL has just run out, and elsewhere take
turns. The proofs about the cache have none of these bounds. A pool of two under three calls is
empty, part full and full. Seven
inserts go round three slots twice. Two lists are enough for an edit of a list that has been
replaced. `proxy` has one handler to keep its state space small; handlers meet only in the
cache, whose contents the expiry, the API and the handler's own earlier queries already vary, and
the proofs are for any number of handlers, lists and times.
Four calls of `changelog` are an add, a delete and an add of one entry with a call of the other
goroutine in between; one domain lies below the other, so block-deletes cover more than one rule;
the file blocks a domain with and without a type. Two processes of `server` can follow each other or
run together; the command lines have addresses in file and flags, one address twice, the API on a
path and on TCP, DoH with and without a usable certificate, options that are refused, and an
address and a path that cannot be bound on the host. In `blocklist` calls are about the domain and the
one below it; the root is only ever walked through.
Symmetry is used only for processes that no property names, and in no liveness run.

*Fairness.* Goroutines inside a call keep running: locks are held briefly and network operations
have deadlines, which gives weak fairness for `Failover`, `DotPool`, `Proxy` and the steps of a
process in `Server`. `Proxy` assumes none for `LogQuery`, since `Insert` may wait for a client of
`/log`: `QueriesEnd` shows that the handler's reply does not depend on it, and claims nothing about the
HTTP response of DoH, which does. Nobody is obliged to send queries, connect or hang up, to start, signal or kill
a process, and upstreams owe nothing. `LogStream` needs two more
assumptions: strong fairness for taking the mutex (Go's starvation mode), and that a client reads
what it is sent or hangs up. The second is not guaranteed by the code, which sets no write deadline
in `api/log.go`: without it `InsertEnds` does not hold, and one stalled client stops every query in
`Insert`. `InsertEnds` also allows for the end of the process.

*Deadlock* is not checked for `DotPool`, whose calls are finite, `LogStream`, whose log is bounded
and whose process may end, and `Server`, whose processes are finite and may end.

*Disagreements without a run of their own*, met while modelling:

- README.md:40-41 has the first upstream demoted after three consecutive failures; `> 3` in
  `proxy.go:92` demotes it with the fourth.
- `Get` reads the clock at `cache.go:155` and at `:168`. If a whole second passes in between, the
  unsigned subtraction at `:172` can wrap. `DNSCache` has `MaxPause` for this: `TtlHonest` holds,
  and is proved, for a pause below a second, and fails at a second.
- The comment at `resolver.go:134-135` has a retry use a fresh connection; it takes a pooled one if
  there is one, so a call may give up without having dialled.
- README.md:307-308 documents `-block-delete` for `domain[:qtype]`; the code deletes the domain's
  subtree with all types, and finds nothing if a type is given.
- Hooks are keyed by `r.RemoteAddr` (`log.go:24`). Clients of a UNIX socket share it, so a second
  client takes over the stream of the first, and `StreamComplete` fails for `RemoteAddr` constant.
- ARCHITECTURE.md:88-89 has the merged configuration "suitable for use as a new config file". The
  exceptions of `BlocksSurvive`, `DeletionsSurvive` and `RecordsSurvive` are where it is not. For
  rules: one that was added although it was there and then deleted; "x" and "x:ANY", two keys for one
  rule; two calls at once on one entry; a block-delete, which takes the whole subtree, and nothing if
  the entry has a type; a rule that comes from a file and from `Block`; a block-delete of an earlier
  merge, which undoes a later add; edits that a refresh has dropped and the log keeps. For records:
  an add after a delete is not recorded; a replaced start-up record that is deleted comes back; adds
  with and without PTR; a response, or an add that is not permanent, that takes a record's place;
  a type in lower case deletes nothing and is logged; records of zone files stay.
- The merged configuration holds the flags' lists too. Started with it and the same `-listen` flags,
  the server names an address twice, and its second listener ends it.
- README.md:159 has flags take precedence over the file; `options.go:190` assigns `Setuid` always,
  so a file's setuid is erased when the flag is not given.
- A socket file left by a crash, a fatal error, or a signal between `ListenUnix` and `Notify`
  (`api.go:29-33`) makes every later start fail. A process that could not bind has the handler too,
  and if it is signalled at that moment removes the other's file.
- The comment at `server.go:136` has the sleep make sure that servers are listening; nothing waits
  for them. The one at `api.go:39` speaks of a shutdown by context, which `main` does not have.
- The comment at `doh.go:126` has the self-signed certificate if both paths are empty; it is used as
  soon as one is.

## Proofs

All proofs are checked by TLAPS for every value of the constants, under the assumptions named in
the modules.

- `FailoverProofs`: the shared list is always a rotation of the configured one; a call's snapshot
  is one too, and `tried` is its prefix, so a failed call has asked everybody.
  `InnocentUpstreamStays` (at most Threshold + 1 overlapping calls) counts the calls that may still
  report an error of an upstream that is no longer first: the demoting call itself is not one of
  them, so there are too few for another demotion.
- `DNSCacheProofs`: the invariant says that an item's expiry is covered by the TTL of each of its
  records, and that the holder of the mutex has tested the item that is in the map. With
  `MaxPause < TicksPerSecond` the age is at most the TTL, hence no wrap. `Implements` maps the
  cache to its items that have not expired, and a goroutine on its way to a critical section that
  writes to a request for what it will write there. Each such section is then one step of
  `EagerCache`, and Get and Flush, which drop only what has expired, are none.
- `DotPoolProofs`: a connection is quiet unless a call is reading from it, and then holds at most
  that call's answer. Closing after every error keeps this; it gives `CheckNonDestructive` and
  `AnswerMatches`.
- `BlocklistProofs`: the invariant is that no level lists a type twice. The lemmas are about reach:
  after an addition the path to the name is there and no other level has come into reach, in particular
  none that was left below an unlinked one; unlinking puts a level and all below it out of reach, and
  nothing else. `Implements` gives, for each operation, that it does and returns what `BlockSet`'s does.
  `CountIsRight` pairs what `Count` counts with the rules in effect.
- `ProxyProofs`: the invariant follows a query through the handler, for any number of handlers. What
  a handler has read is still what the histories speak of: a query that must be blocked has a list
  that matches it in hand and never gets past the check, and one that may pass has read the pause it
  is served in. The cache holds under each key only responses that an upstream would give for that
  key, since `Add` and `Get` copy and DNS64 rewrites the handler's own message; this gives
  `ReplyMatchesQuery` across handlers. `MakeDoHHandler` finds a message exactly if the query was let in.
- `QueryLogProofs`, the buffer: before the buffer is full the position is the length; the slot `i`
  steps back from the position holds the `i`-th newest item. `ReadsRange` is about the loops of
  `TailBetween` and `TailFilter`. After each round they have returned the first `count` of the
  accepted items among those they have passed; an item's place is its rank, the number of accepted
  items that are newer. Induction is needed twice, to show that a loop written as a recursive function
  is defined and that the rounds keep this invariant. It is done with sets: a set of numbers has a
  least one, from the well-foundedness of `<`.
- `QueryLogProofs`, the stream: `ImplementsBuffer` is the refinement of `CircularBuffer`. `OrderInv`
  says that a client to whom the last entry is being sent, or may still be, has none that is as late;
  hence `NoRepeats` for any addresses. `StreamsComplete` assumes `OwnAddresses`, an address for each
  client, which clients over TCP have and those of a UNIX socket do not (see above). Its invariant says
  that a connected client's hook is in the map, that it has every entry but the one under way until
  the iteration has come to it, and that an iteration may leave it out only if its hook was added while
  that entry was being sent.
- `ChangeLogProofs`: for a rule that is not tangled, the log holds only differences from the
  configured list, under one key; the rule is blocked exactly if configuration and log say so, but for
  the one call that has edited it and not logged it yet, whose edit has just turned this round. For a
  record the running data equal those of a start from the merged configuration, or those of the one
  call under way. From this the three properties follow by computing `UpdateBlockList(Merged)`. The
  assumptions are only about types and the suffixes of a domain.
- `ServerProofs`: how far main, the listeners, the API and the signal handler of a process have come
  in step with each other; who has a socket has a goroutine that bound it, so that two wanting the
  same are one process naming it twice or two that have met and both need it; a socket file was made
  by a process that was told to, and that is alive or ended without removing it. This gives `NoEmptyMux`, `FatalHasCause` and
  `SocketFileStays` for any number of processes and any options.

Only model-checked: liveness, which with ENABLED is outside the prover's reach (`CallsReturn` of
`Failover` and of `DotPool`, `DeadHeadDemoted`, `QueriesEnd`, `InsertEnds`, `ServesOrEnds`). Every
safety property that a passing run checks is also proved. The counterexamples of the violated runs
are TLC's.

## Not modelled

- The UDP and DoH resolvers: one exchange and no state of their own. To `resolve` they answer or fail.
- The dashboard: it runs in the browser and reaches the server only through the API. `buffer.js` is
  its copy of the log with pages, the rest is presentation.
- Text and wire formats, the making of certificates, reading of files and URLs, user lookup, the
  parsing of flags, log output. Where the outcome matters (an entry is refused, a certificate cannot
  be loaded, a response cannot be packed) it is a constant or a choice.
- Failures of a listener after it was bound, the overlap of a wildcard address with others, and the
  effect of `Setuid`, whose code is commented out.
- PTR records in `ChangeLog`: the log never sees them; `DNSCache` has them.
- An empty name in a block-delete, for which `DeleteTree` indexes an empty slice. `ChangeLog` and
  `Blocklist` take names that have a label.
- The helper commands `json-rpc` and `pool`.
