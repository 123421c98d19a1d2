------------------------------ MODULE DNSCache ------------------------------
(***************************************************************************)
(* The response cache, src/cache/cache.go, used at the same time by the    *)
(* query handlers (Get, Add), the JSON-RPC API (AddRRString, DeleteName)   *)
(* and the flush goroutine (Flush).                                        *)
(*                                                                         *)
(* Every critical section of the cache's mutex is one step, with two       *)
(* exceptions that the code makes observable.  Get reads the clock twice   *)
(* while it holds the mutex, once to test the expiry and once to compute   *)
(* the age, so it is two steps with the mutex held in between.  Add and    *)
(* AddRR read the clock before they lock, so an item is stored later than  *)
(* its own time of insertion.                                              *)
(*                                                                         *)
(* Time is counted in ticks, TicksPerSecond to the second.  TTLs are whole *)
(* seconds in an unsigned integer of TtlRange values.                      *)
(***************************************************************************)
EXTENDS Integers, Sequences

CONSTANTS
    Callers,            \* goroutines using the cache
    Names, Addrs,       \* domain names and IP addresses
    FwdTypes,           \* types of the forward keys, "A" (or AAAA) and "TXT" (any other)
    Responses,          \* upstream responses: [key, ok, truncated, rrs]
    LocalRRs,           \* records the API may add: [name, rr]
    TicksPerSecond,
    TtlRange,           \* 2^32 in the code
    MaxAge,             \* 86400 in the code
    MaxPause,           \* longest time, in ticks, between two adjacent clock readings
    MaxTime,            \* bound on the clock
    Nil                 \* no item, no key, no goroutine

RR == [kind : {"A", "TXT", "PTR", "OPT"}, data : Names \cup Addrs, ttl : 0..TtlRange-1]

\* DNSCacheItem; of the message only the records matter here.  Those of kind "A"
\* are in its answer section.
Item == [rrs : SUBSET RR, inserted : Nat, expires : Nat, permanent : BOOLEAN]

\* DNSCacheKey: forward keys, and PTR keys named after an address.
PtrKey(addr) == <<addr, "PTR">>
Keys == (Names \X FwdTypes) \cup {PtrKey(a) : a \in Addrs}

ASSUME CacheAssumption ==
    /\ FwdTypes \subseteq {"A", "TXT"}
    /\ TicksPerSecond \in Nat \ {0}
    /\ TtlRange \in Nat \ {0}
    /\ MaxAge \in 0..TtlRange-1
    /\ MaxPause \in Nat
    /\ MaxTime \in Nat
    /\ Responses \subseteq [key : Keys, ok : BOOLEAN, truncated : BOOLEAN, rrs : SUBSET RR]
    /\ LocalRRs \subseteq [name : Names, rr : RR]
    /\ \A l \in LocalRRs : /\ l.rr.kind \in FwdTypes
                           /\ l.rr.kind = "A" => l.rr.data \in Addrs
    /\ Nil \notin Item \cup Keys \cup Callers

VARIABLES
    now,        \* the clock behind timeNow
    cache,      \* c.Cache, with Nil for a key that is not in the map
    lock,       \* the goroutine inside Get between its two clock readings
    pc,         \* what each goroutine is doing
    key,        \* its local key
    entry,      \* its local item: the one found, or the one to be stored
    checked,    \* when it tested entry's expiry
    todo,       \* the records AddRRString has still to pass to AddRR
    reply       \* the reply Get has just returned: its source, records and time

vars == <<now, cache, lock, pc, key, entry, checked, todo, reply>>

NoReply == [item |-> Nil, rrs |-> {}, at |-> 0]

Init ==
    /\ now = 0
    /\ cache = [k \in Keys |-> Nil]
    /\ lock = Nil
    /\ pc = [c \in Callers |-> "idle"]
    /\ key = [c \in Callers |-> Nil]
    /\ entry = [c \in Callers |-> Nil]
    /\ checked = [c \in Callers |-> 0]
    /\ todo = [c \in Callers |-> << >>]
    /\ reply = NoReply

\* A call returns: its locals go out of scope.
Return(c) ==
    /\ pc' = [pc EXCEPT ![c] = "idle"]
    /\ key' = [key EXCEPT ![c] = Nil]
    /\ entry' = [entry EXCEPT ![c] = Nil]
    /\ checked' = [checked EXCEPT ![c] = 0]

-----------------------------------------------------------------------------
(* Add: an upstream response. *)

Seconds(n) == n * TicksPerSecond

IsOPT(rr) == rr.kind = "OPT"

\* Mutant: the time to live of the records is not looked at one by one.
TTLsOfAnswer(rrs) == {MaxAge} \cup {rr.ttl : rr \in {r \in rrs : r.kind = "A"}}

\* The values minTTL is the least of.
TTLs(rrs) == {MaxAge} \cup {rr.ttl : rr \in {r \in rrs : ~IsOPT(r)}}

\* Add up to its lock: skip errors, truncated and empty responses and those
\* with a zero TTL; read the clock and build the item.
Add(c, msg) ==
    /\ pc[c] = "idle"
    /\ msg.ok /\ ~msg.truncated /\ msg.rrs # {}
    /\ \E minTTL \in TTLs(msg.rrs) :
        /\ \A t \in TTLs(msg.rrs) : minTTL <= t
        /\ minTTL # 0
        /\ entry' = [entry EXCEPT ![c] =
                        [rrs |-> msg.rrs, inserted |-> now,
                         expires |-> now + Seconds(minTTL), permanent |-> FALSE]]
    /\ key' = [key EXCEPT ![c] = msg.key]
    /\ pc' = [pc EXCEPT ![c] = "store"]
    /\ reply' = NoReply
    /\ UNCHANGED <<now, cache, lock, checked, todo>>

(* AddRRString and AddRR: a record from the API or the configuration. *)

\* createPtrA: the PTR record that names l's owner, under l's address.
CreatePtr(l) == [kind |-> "PTR", data |-> l.name, ttl |-> l.rr.ttl]

\* AddRRString: the PTR record first, if it is wanted and l is an address.
AddRRString(c, l, permanent, ptr) ==
    /\ pc[c] = "idle"
    /\ todo' = [todo EXCEPT ![c] =
          (IF ptr /\ l.rr.kind = "A"
           THEN <<[key |-> PtrKey(l.rr.data), rr |-> CreatePtr(l), permanent |-> permanent]>>
           ELSE << >>)
          \o <<[key |-> <<l.name, l.rr.kind>>, rr |-> l.rr, permanent |-> permanent]>>]
    /\ pc' = [pc EXCEPT ![c] = "addrr"]
    /\ reply' = NoReply
    /\ UNCHANGED <<now, cache, lock, key, entry, checked>>

\* AddRR up to its lock.  It takes the expiry time from one clock reading and
\* the time of insertion from the next, pause ticks later.
AddRR(c) ==
    LET t == Head(todo[c]) IN
    /\ pc[c] = "addrr"
    /\ \E pause \in 0..MaxPause :
        /\ pause <= now
        /\ entry' = [entry EXCEPT ![c] =
                        [rrs |-> {t.rr}, inserted |-> now,
                         expires |-> now - pause + Seconds(t.rr.ttl),
                         permanent |-> t.permanent]]
    /\ key' = [key EXCEPT ![c] = t.key]
    /\ todo' = [todo EXCEPT ![c] = Tail(@)]
    /\ pc' = [pc EXCEPT ![c] = "store"]
    /\ reply' = NoReply
    /\ UNCHANGED <<now, cache, lock, checked>>

\* Mutant: the map is written without taking the mutex.
MutexIgnored == TRUE

\* c.Lock() returns.
MutexFree == lock = Nil

\* The critical section that ends Add and AddRR: whatever the key held is
\* replaced.  AddRRString goes on with its next record.
Store(c) ==
    /\ pc[c] = "store"
    /\ MutexFree
    /\ cache' = [cache EXCEPT ![key[c]] = entry[c]]
    /\ IF todo[c] = << >>
       THEN Return(c)
       ELSE /\ pc' = [pc EXCEPT ![c] = "addrr"]
            /\ UNCHANGED <<key, entry, checked>>
    /\ reply' = NoReply
    /\ UNCHANGED <<now, lock, todo>>

-----------------------------------------------------------------------------
(* Get, also as the first part of DeleteName with ptr set. *)

\* Mutant: an item is served until it is flushed.
NeverExpired(e, t) == FALSE

\* "!entry.Permanent && timeNow().After(entry.Expires)"
Expired(e, t) == ~e.permanent /\ t > e.expires

\* The key is in the map with an item that is still good.
Hit(k) == cache[k] # Nil /\ ~Expired(cache[k], now)

\* The first half of Get: find the item, drop it if it has expired.  A hit
\* keeps the mutex ("get", "getptr"); a miss returns, to DeleteName if ptr.
Lookup(c, k, ptr) ==
    /\ pc[c] = "idle"
    /\ MutexFree
    /\ \/ /\ Hit(k)
          /\ lock' = c
          /\ pc' = [pc EXCEPT ![c] = IF ptr THEN "getptr" ELSE "get"]
          /\ entry' = [entry EXCEPT ![c] = cache[k]]
          /\ checked' = [checked EXCEPT ![c] = now]
          /\ UNCHANGED cache
       \/ /\ ~Hit(k)
          /\ cache' = [cache EXCEPT ![k] = Nil]
          /\ pc' = [pc EXCEPT ![c] = IF ptr THEN "delete" ELSE "idle"]
          /\ UNCHANGED <<lock, entry, checked>>
    /\ key' = [key EXCEPT ![c] = IF pc'[c] = "idle" THEN Nil ELSE k]
    /\ reply' = NoReply
    /\ UNCHANGED <<now, todo>>

\* "v.Header().Ttl -= delta", in unsigned arithmetic; OPT records are skipped.
Aged(rr, delta) ==
    IF IsOPT(rr) THEN rr ELSE [rr EXCEPT !.ttl = (@ - delta) % TtlRange]

\* The age of an item in whole seconds, by the second clock reading.
Delta(e) == (now - e.inserted) \div TicksPerSecond

\* The records of the reply: a permanent item's as they are.
AgedRRs(e) == IF e.permanent THEN e.rrs ELSE {Aged(rr, Delta(e)) : rr \in e.rrs}

\* Mutant: Get ages the stored message itself, not a copy of it.
AgedInPlace(c) == [cache EXCEPT ![key[c]] = [@ EXCEPT !.rrs = AgedRRs(@)]]

\* entry.Message.Copy() leaves the map as it is.
AfterCopy(c) == cache

\* Mutant: Get returns with the mutex locked.
KeepLock == UNCHANGED lock

\* The deferred c.Unlock().
Unlock == lock' = Nil

\* The second half of Get: copy the message, age the copy, unlock.
Reply(c) ==
    /\ pc[c] \in {"get", "getptr"}
    /\ lock = c
    /\ reply' = [item |-> entry[c], rrs |-> AgedRRs(entry[c]), at |-> now]
    /\ cache' = AfterCopy(c)
    /\ Unlock
    /\ IF pc[c] = "get"
       THEN Return(c)
       ELSE /\ pc' = [pc EXCEPT ![c] = "delptr"]
            /\ UNCHANGED <<key, entry, checked>>
    /\ UNCHANGED <<now, todo>>

(* DeleteName *)

\* DeleteName without ptr goes straight to the forward key.
DeleteName(c, k) ==
    /\ pc[c] = "idle"
    /\ key' = [key EXCEPT ![c] = k]
    /\ pc' = [pc EXCEPT ![c] = "delete"]
    /\ reply' = NoReply
    /\ UNCHANGED <<now, cache, lock, entry, checked, todo>>

\* The PTR keys of the addresses Get returned.
PtrKeys(e) == {PtrKey(rr.data) : rr \in {r \in e.rrs : r.kind = "A"}}

\* With ptr: remove them.
DeletePtrs(c) ==
    /\ pc[c] = "delptr"
    /\ MutexFree
    /\ cache' = [k \in Keys |-> IF k \in PtrKeys(entry[c]) THEN Nil ELSE cache[k]]
    /\ pc' = [pc EXCEPT ![c] = "delete"]
    /\ reply' = NoReply
    /\ UNCHANGED <<now, lock, key, entry, checked, todo>>

\* Delete the forward key.
Delete(c) ==
    /\ pc[c] = "delete"
    /\ MutexFree
    /\ cache' = [cache EXCEPT ![key[c]] = Nil]
    /\ Return(c)
    /\ reply' = NoReply
    /\ UNCHANGED <<now, lock, todo>>

-----------------------------------------------------------------------------

\* Mutant: Flush drops an item at its very expiry time, when Get still serves it.
FlushesEarly(e, t) == ~e.permanent /\ t >= e.expires

\* The condition of Flush, the same as the one of Get.
Flushes(e, t) == ~e.permanent /\ t > e.expires

\* The flush goroutine's tick.
Flush ==
    /\ MutexFree
    /\ cache' = [k \in Keys |->
                    IF cache[k] # Nil /\ Flushes(cache[k], now) THEN Nil ELSE cache[k]]
    /\ reply' = NoReply
    /\ UNCHANGED <<now, lock, pc, key, entry, checked, todo>>

\* Time passes, but no more than MaxPause inside Get.
Tick ==
    /\ now < MaxTime
    /\ \A c \in Callers : pc[c] \in {"get", "getptr"} => now + 1 <= checked[c] + MaxPause
    /\ now' = now + 1
    /\ reply' = NoReply
    /\ UNCHANGED <<cache, lock, pc, key, entry, checked, todo>>

Call(c) ==
    \/ \E msg \in Responses : Add(c, msg)
    \/ \E l \in LocalRRs, permanent, ptr \in BOOLEAN : AddRRString(c, l, permanent, ptr)
    \/ \E k \in Keys, ptr \in BOOLEAN : Lookup(c, k, ptr)
    \/ \E k \in Keys : DeleteName(c, k)

Step(c) == AddRR(c) \/ Store(c) \/ Reply(c) \/ DeletePtrs(c) \/ Delete(c)

Next == (\E c \in Callers : Call(c) \/ Step(c)) \/ Flush \/ Tick

Spec == Init /\ [][Next]_vars

-----------------------------------------------------------------------------
(* Properties *)

Task == [key : Keys, rr : RR, permanent : BOOLEAN]

TypeOK ==
    /\ now \in Nat
    /\ cache \in [Keys -> Item \cup {Nil}]
    /\ lock \in Callers \cup {Nil}
    /\ pc \in [Callers -> {"idle", "addrr", "store", "get", "getptr", "delptr", "delete"}]
    /\ key \in [Callers -> Keys \cup {Nil}]
    /\ entry \in [Callers -> Item \cup {Nil}]
    /\ checked \in [Callers -> Nat]
    /\ todo \in [Callers -> Seq(Task)]
    /\ reply \in [item : Item \cup {Nil}, rrs : SUBSET RR, at : Nat]
    /\ \A c \in Callers : pc[c] \in {"get", "getptr"} <=> lock = c

\* A TTL handed to a client tells the truth about the answer's validity.
\* Counted from the moment of the reply, no record is to be forgotten before
\* the cache itself would expire the answer, and none is to be kept a second
\* or more beyond the time its own TTL gave it when it was stored.  In
\* particular the unsigned subtraction of the age never wraps around.
TtlHonest ==
    LET e == reply.item IN
    e # Nil /\ ~e.permanent =>
        \A rr \in reply.rrs : ~IsOPT(rr) =>
            /\ e.expires <= reply.at + Seconds(rr.ttl)
            /\ \E s \in e.rrs :
                /\ s.kind = rr.kind /\ s.data = rr.data
                /\ reply.at + Seconds(rr.ttl) < e.inserted + Seconds(s.ttl + 1)

\* Get never returns an item after its expiry time, up to the time that may
\* pass between its two clock readings.
NoExpiredReply ==
    reply.item # Nil /\ ~reply.item.permanent => reply.at <= reply.item.expires + MaxPause

\* The item Get has tested stays in the map until Get has copied it, whatever
\* the other goroutines do.
EntryStableInGet ==
    \A c \in Callers : pc[c] \in {"get", "getptr"} => cache[key[c]] = entry[c]

\* What a client of the cache can see: the item Get would find now.
Visible(k) == IF Hit(k) THEN cache[k] ELSE Nil

\* What a goroutine's next critical section is to write: the item of Add or
\* AddRR, nothing for the keys DeleteName deletes.
Targets(c) ==
    {k \in Keys : \/ pc[c] \in {"store", "delete"} /\ k = key[c]
                  \/ pc[c] = "delptr" /\ k \in PtrKeys(entry[c])}
Pending(c) == [k \in Targets(c) |-> IF pc[c] = "store" THEN entry[c] ELSE Nil]

Eager == INSTANCE EagerCache WITH
            Clients <- Callers,
            live <- [k \in Keys |-> Visible(k)],
            request <- [c \in Callers |-> Pending(c)]

\* Dropping expired items late, in Get or in Flush, cannot be told from dropping
\* each one the moment it expires, and loses no item that has not: the cache
\* implements EagerCache, in which only Add, AddRR and DeleteName, each with the
\* keys and the item of its call, change what a client finds.
ImplementsEager == Eager!Spec
=============================================================================
