--------------------------- MODULE DNSCacheProofs ---------------------------
(* Proofs about DNSCache, for every set of goroutines, names, responses    *)
(* and records, every clock resolution and every width of the TTL field.   *)
EXTENDS DNSCache, SequenceTheorems, TLAPS

\* Leaves are for Zenon unless they cite another prover.
USE Zenon

-----------------------------------------------------------------------------
(* Whole seconds *)

LEMMA DivMod ==
    ASSUME NEW a \in Nat, NEW t \in Nat \ {0}
    PROVE  /\ a \div t \in Nat
           /\ a = t * (a \div t) + (a % t)
           /\ a % t \in 0..t-1
BY SMTT(20)

\* Less than b + 1 units of t ticks is at most b whole units.
LEMMA DivBound ==
    ASSUME NEW a \in Nat, NEW t \in Nat \ {0}, NEW b \in Nat, a < b * t + t
    PROVE  a \div t <= b
<1>. DEFINE d == a \div t
<1>1. d \in Nat /\ a = t * d + (a % t) /\ a % t \in 0..t-1
  BY DivMod
<1>. SUFFICES ASSUME d >= b + 1 PROVE FALSE
  BY SMT, <1>1
<1>. HIDE DEF d
<1>2. \A m, n \in Nat : m >= n => t * m >= t * n
  BY SMT
<1>3. t * d >= t * (b + 1)
  BY SMT, <1>1, <1>2
<1>4. t * (b + 1) = b * t + t /\ b * t \in Nat /\ t * d \in Nat
  BY SMT, <1>1
<1> QED BY SMT, <1>1, <1>3, <1>4

\* Multiplying by the clock resolution.
LEMMA SecondsType ==
    ASSUME NEW n \in Nat
    PROVE  Seconds(n) \in Nat /\ Seconds(n + 1) = Seconds(n) + TicksPerSecond
BY SMT, CacheAssumption DEF Seconds

\* The heart of Get's TTL arithmetic.  If a record of ttl seconds is looked at
\* less than ttl + 1 seconds after its insertion, subtracting its age leaves a
\* TTL that ends no earlier than the record and less than a second later.
LEMMA AgeArithmetic ==
    ASSUME NEW ttl \in 0..TtlRange-1, NEW inserted \in Nat, NEW t \in Nat,
           inserted <= t, t < inserted + Seconds(ttl + 1)
    PROVE  LET left == (ttl - ((t - inserted) \div TicksPerSecond)) % TtlRange IN
           /\ left \in 0..TtlRange-1
           /\ inserted + Seconds(ttl) <= t + Seconds(left)
           /\ t + Seconds(left) < inserted + Seconds(ttl + 1)
<1>. DEFINE age == t - inserted
            d == age \div TicksPerSecond
            left == (ttl - d) % TtlRange
<1>1. /\ TicksPerSecond \in Nat \ {0} /\ TtlRange \in Nat \ {0}
      /\ ttl \in Nat /\ age \in Nat
  BY SMT, CacheAssumption
<1>2. age < ttl * TicksPerSecond + TicksPerSecond
  BY SMT, <1>1, SecondsType DEF Seconds
<1>3. d \in Nat /\ d <= ttl
  BY <1>1, <1>2, DivBound, DivMod
<1>4. /\ age = TicksPerSecond * d + (age % TicksPerSecond)
      /\ age % TicksPerSecond \in 0..TicksPerSecond-1
  BY <1>1, DivMod
<1>. HIDE DEF d
<1>5. left = ttl - d
  <2>1. ttl - d \in 0..TtlRange-1
    BY SMT, <1>1, <1>3
  <2> QED BY SMT, <1>1, <2>1
<1>6. Seconds(left) = Seconds(ttl) - TicksPerSecond * d
  <2>1. (ttl - d) * TicksPerSecond = ttl * TicksPerSecond - TicksPerSecond * d
    BY SMT, <1>1, <1>3
  <2> QED BY <1>5, <2>1 DEF Seconds
<1>7. TicksPerSecond * d \in Nat /\ Seconds(ttl) \in Nat
  BY SMT, <1>1, <1>3, SecondsType
<1>8. Seconds(ttl + 1) = Seconds(ttl) + TicksPerSecond
  BY <1>1, SecondsType
<1>. HIDE DEF left
<1>9. /\ inserted + Seconds(ttl) <= t + Seconds(left)
      /\ t + Seconds(left) < inserted + Seconds(ttl + 1)
  BY SMT, <1>1, <1>4, <1>6, <1>7, <1>8
<1>10. left \in 0..TtlRange-1
  BY SMT, <1>1, <1>3, <1>5
<1> QED BY <1>9, <1>10 DEF left, d

-----------------------------------------------------------------------------
(* The inductive invariant *)

\* An item's expiry time is covered by the TTL of each of its records.
GoodItem(e) ==
    /\ e \in Item
    /\ e.inserted <= now
    /\ ~e.permanent => \A rr \in e.rrs : ~IsOPT(rr) => e.expires <= e.inserted + Seconds(rr.ttl)

\* What a goroutine's locals hold at each of its steps.
LocalInv(c) ==
    /\ entry[c] # Nil => GoodItem(entry[c])
    /\ pc[c] \in {"store", "get", "getptr", "delptr"} => entry[c] # Nil
    /\ pc[c] \in {"store", "get", "getptr", "delptr", "delete"} => key[c] \in Keys
    /\ pc[c] = "addrr" => todo[c] # << >>
    /\ pc[c] \in {"get", "getptr"} =>
        /\ cache[key[c]] = entry[c]
        /\ now <= checked[c] + MaxPause
        /\ ~entry[c].permanent => checked[c] <= entry[c].expires

IInv ==
    /\ TypeOK
    /\ \A k \in Keys : cache[k] # Nil => GoodItem(cache[k])
    /\ \A c \in Callers : LocalInv(c)

USE DEF Item, MutexFree

LEMMA InitIInv == Init => IInv
<1>. SUFFICES ASSUME Init PROVE IInv
  OBVIOUS
<1>1. TypeOK
  BY EmptySeq, CacheAssumption DEF Init, TypeOK, NoReply
<1>2. \A c \in Callers : LocalInv(c)
  BY DEF Init, LocalInv
<1> QED BY <1>1, <1>2 DEF IInv, Init

\* Types of the items that Add and AddRR build.
LEMMA AddItem ==
    ASSUME IInv, NEW c \in Callers, NEW msg \in Responses, Add(c, msg)
    PROVE  /\ entry'[c] \in Item
           /\ GoodItem(entry'[c])
           /\ entry' = [entry EXCEPT ![c] = entry'[c]]
<1>1. PICK m \in TTLs(msg.rrs) :
        /\ \A t \in TTLs(msg.rrs) : m <= t
        /\ entry' = [entry EXCEPT ![c] =
                        [rrs |-> msg.rrs, inserted |-> now,
                         expires |-> now + Seconds(m), permanent |-> FALSE]]
  BY DEF Add
<1>2. entry'[c] = [rrs |-> msg.rrs, inserted |-> now,
                   expires |-> now + Seconds(m), permanent |-> FALSE]
  BY <1>1 DEF IInv, TypeOK
<1>3. msg.rrs \in SUBSET RR /\ now \in Nat
  BY CacheAssumption DEF IInv, TypeOK
<1>4. \A t \in TTLs(msg.rrs) : t \in Nat
  BY SMT, <1>3, CacheAssumption DEF TTLs, RR
<1>5. \A rr \in msg.rrs : ~IsOPT(rr) => rr.ttl \in TTLs(msg.rrs)
  BY DEF TTLs
<1>6. \A rr \in msg.rrs : ~IsOPT(rr) => Seconds(m) <= Seconds(rr.ttl)
  <2>1. \A a, b \in Nat : a <= b => Seconds(a) <= Seconds(b)
    BY SMT, CacheAssumption DEF Seconds
  <2> QED BY <1>1, <1>4, <1>5, <2>1
<1>7. Seconds(m) \in Nat /\ (\A rr \in msg.rrs : ~IsOPT(rr) => Seconds(rr.ttl) \in Nat)
  BY <1>4, <1>5, SecondsType
<1>8. entry'[c] \in Item
  BY SMT, <1>2, <1>3, <1>7
<1>9. GoodItem(entry'[c])
  BY SMT, <1>2, <1>3, <1>6, <1>7, <1>8 DEF GoodItem
<1> QED BY <1>1, <1>2, <1>8, <1>9

LEMMA AddRRItem ==
    ASSUME IInv, NEW c \in Callers, AddRR(c)
    PROVE  /\ entry'[c] \in Item
           /\ GoodItem(entry'[c])
           /\ entry' = [entry EXCEPT ![c] = entry'[c]]
           /\ Head(todo[c]) \in Task
           /\ Tail(todo[c]) \in Seq(Task)
<1>. DEFINE t == Head(todo[c])
<1>1. todo[c] \in Seq(Task) /\ todo[c] # << >> /\ now \in Nat
  BY DEF IInv, LocalInv, AddRR, TypeOK
<1>2. t \in Task /\ Tail(todo[c]) \in Seq(Task)
  BY <1>1, HeadTailProperties
<1>3. PICK pause \in 0..MaxPause :
        /\ pause <= now
        /\ entry' = [entry EXCEPT ![c] =
                        [rrs |-> {t.rr}, inserted |-> now,
                         expires |-> now - pause + Seconds(t.rr.ttl),
                         permanent |-> t.permanent]]
  BY DEF AddRR
<1>. HIDE DEF t
<1>4. t.rr \in RR /\ t.rr.ttl \in Nat /\ t.permanent \in BOOLEAN
  BY SMT, <1>2, CacheAssumption DEF Task, RR
<1>5. Seconds(t.rr.ttl) \in Nat
  BY <1>4, SecondsType
<1>6. now - pause \in Nat /\ now - pause <= now
  BY SMT, <1>1, <1>3, CacheAssumption
<1>7. entry'[c] = [rrs |-> {t.rr}, inserted |-> now,
                   expires |-> now - pause + Seconds(t.rr.ttl),
                   permanent |-> t.permanent]
  BY <1>3 DEF IInv, TypeOK
<1>8. entry'[c] \in Item
  BY SMT, <1>1, <1>4, <1>5, <1>6, <1>7
<1>9. GoodItem(entry'[c])
  BY SMT, <1>1, <1>5, <1>6, <1>7, <1>8 DEF GoodItem
<1> QED BY <1>2, <1>3, <1>7, <1>8, <1>9 DEF t

\* The two records AddRRString passes on.
LEMMA TaskType ==
    ASSUME NEW l \in LocalRRs, NEW permanent \in BOOLEAN
    PROVE  /\ [key |-> <<l.name, l.rr.kind>>, rr |-> l.rr, permanent |-> permanent] \in Task
           /\ l.rr.kind = "A" =>
                [key |-> PtrKey(l.rr.data), rr |-> CreatePtr(l), permanent |-> permanent] \in Task
BY CacheAssumption DEF Task, Keys, RR, CreatePtr

\* Aged records are records.
LEMMA AgedType ==
    ASSUME NEW e \in Item, now \in Nat
    PROVE  AgedRRs(e) \subseteq RR
<1>1. e.inserted \in Nat /\ TicksPerSecond \in Nat \ {0} /\ TtlRange \in Nat \ {0}
  BY CacheAssumption
<1>2. \A n \in Int : n \div TicksPerSecond \in Int
  BY SMT, <1>1
<1>3. Delta(e) \in Int
  BY SMT, <1>1, <1>2 DEF Delta
<1>4. ASSUME NEW rr \in RR PROVE Aged(rr, Delta(e)) \in RR
  <2>1. rr.ttl - Delta(e) \in Int
    BY SMT, <1>3, CacheAssumption DEF RR
  <2>2. (rr.ttl - Delta(e)) % TtlRange \in 0..TtlRange-1
    BY SMT, <1>1, <2>1
  <2> QED BY <2>2 DEF Aged, RR
<1> QED BY <1>4 DEF AgedRRs

\* A step of goroutine c that does not move the clock keeps the invariant if
\* it leaves good items in the map and c's own locals in order, changes no
\* other goroutine's locals and takes no item from under the mutex.
LEMMA FrameStep ==
    ASSUME IInv, NEW c \in Callers, TypeOK', now' = now,
           \A k \in Keys : cache'[k] # Nil => GoodItem(cache'[k]),
           \A d \in Callers \ {c} :
               /\ pc'[d] = pc[d] /\ key'[d] = key[d] /\ entry'[d] = entry[d]
               /\ checked'[d] = checked[d] /\ todo'[d] = todo[d]
               /\ lock = d => cache'[key[d]] = cache[key[d]],
           LocalInv(c)'
    PROVE  IInv'
<1>1. \A k \in Keys : cache'[k] # Nil => GoodItem(cache[k])'
  BY DEF GoodItem
<1>2. ASSUME NEW d \in Callers \ {c} PROVE LocalInv(d)'
  <2>1. LocalInv(d) /\ (pc[d] \in {"get", "getptr"} => lock = d)
    BY DEF IInv, TypeOK
  <2>2. entry'[d] # Nil => GoodItem(entry[d])'
    BY <2>1 DEF LocalInv, GoodItem
  <2>3. pc[d] \in {"get", "getptr"} => cache'[key[d]] = entry[d]
    BY <2>1 DEF LocalInv
  <2> QED BY <2>1, <2>2, <2>3 DEF LocalInv
<1> QED BY <1>1, <1>2 DEF IInv

\* Leaving a call, with the mutex given back, keeps the locals well typed.
LEMMA ReturnType ==
    ASSUME TypeOK, NEW c \in Callers, Return(c), lock' = Nil, lock \in {Nil, c}
    PROVE  /\ pc' \in [Callers -> {"idle", "addrr", "store", "get", "getptr", "delptr", "delete"}]
           /\ key' \in [Callers -> Keys \cup {Nil}]
           /\ entry' \in [Callers -> Item \cup {Nil}]
           /\ checked' \in [Callers -> Nat]
           /\ \A d \in Callers : pc'[d] \in {"get", "getptr"} <=> lock' = d
<1>1. pc' \in [Callers -> {"idle", "addrr", "store", "get", "getptr", "delptr", "delete"}]
  BY DEF Return, TypeOK
<1>2. key' \in [Callers -> Keys \cup {Nil}]
  BY DEF Return, TypeOK
<1>3. entry' \in [Callers -> Item \cup {Nil}]
  BY DEF Return, TypeOK
<1>4. checked' \in [Callers -> Nat]
  BY DEF Return, TypeOK
<1>5. \A d \in Callers : pc'[d] \in {"get", "getptr"} <=> lock' = d
  BY SMT, CacheAssumption DEF Return, TypeOK
<1> QED BY <1>1, <1>2, <1>3, <1>4, <1>5

LEMMA NextIInv == IInv /\ [Next]_vars => IInv'
<1>. SUFFICES ASSUME IInv, [Next]_vars PROVE IInv'
  OBVIOUS
<1>0. /\ << >> \in Seq(Task) /\ now \in Nat
      /\ Nil \notin Item \cup Keys \cup Callers /\ MaxPause \in Nat
      /\ NoReply \in [item : Item \cup {Nil}, rrs : SUBSET RR, at : Nat]
  BY EmptySeq, CacheAssumption DEF IInv, TypeOK, NoReply
<1>1. ASSUME NEW c \in Callers, NEW msg \in Responses, Add(c, msg) PROVE IInv'
  <2>1. /\ entry'[c] \in Item
        /\ GoodItem(entry'[c])
        /\ entry' = [entry EXCEPT ![c] = entry'[c]]
    BY <1>1, AddItem
  <2>2. msg.key \in Keys
    BY CacheAssumption
  <2>3. TypeOK'
    BY SMT, <1>0, <1>1, <2>1, <2>2 DEF Add, IInv, TypeOK
  <2>4. LocalInv(c)'
    <3>1. pc'[c] = "store" /\ key'[c] = msg.key /\ entry'[c] # Nil /\ now' = now
      BY <1>0, <1>1, <2>1, ZenonT(30) DEF Add, IInv, TypeOK
    <3>2. GoodItem(entry[c])'
      BY <2>1, <3>1 DEF GoodItem
    <3> QED BY <2>2, <3>1, <3>2 DEF LocalInv
  <2>5. \A k \in Keys : cache'[k] # Nil => GoodItem(cache'[k])
    BY <1>1 DEF Add, IInv
  <2> QED BY <1>1, <2>1, <2>3, <2>4, <2>5, FrameStep DEF Add, IInv, TypeOK
<1>2. ASSUME NEW c \in Callers, NEW l \in LocalRRs, NEW p \in BOOLEAN, NEW ptr \in BOOLEAN,
             AddRRString(c, l, p, ptr)
      PROVE  IInv'
  <2>1. PICK s \in Seq(Task) : s # << >> /\ todo' = [todo EXCEPT ![c] = s]
    <3>. DEFINE fwd == [key |-> <<l.name, l.rr.kind>>, rr |-> l.rr, permanent |-> p]
                rev == [key |-> PtrKey(l.rr.data), rr |-> CreatePtr(l), permanent |-> p]
    <3>1. fwd \in Task /\ (l.rr.kind = "A" => rev \in Task)
      BY TaskType
    <3>2. todo' = [todo EXCEPT ![c] = (IF ptr /\ l.rr.kind = "A" THEN <<rev>> ELSE << >>) \o <<fwd>>]
      BY <1>2 DEF AddRRString
    <3>. HIDE DEF fwd, rev
    <3>3. CASE ptr /\ l.rr.kind = "A"
      <4>1. <<rev>> \o <<fwd>> \in Seq(Task) /\ <<rev>> \o <<fwd>> # << >>
        BY SMT, <3>1, <3>3
      <4> QED BY <3>2, <3>3, <4>1
    <3>4. CASE ~(ptr /\ l.rr.kind = "A")
      <4>1. << >> \o <<fwd>> \in Seq(Task) /\ << >> \o <<fwd>> # << >>
        BY SMT, <3>1
      <4> QED BY <3>2, <3>4, <4>1
    <3> QED BY <3>3, <3>4
  <2>2. TypeOK'
    <3>1. todo' \in [Callers -> Seq(Task)]
      BY <2>1 DEF IInv, TypeOK
    <3> QED BY SMT, <1>0, <1>2, <3>1 DEF AddRRString, IInv, TypeOK
  <2>3. LocalInv(c)'
    <3>1. pc'[c] = "addrr" /\ todo'[c] # << >> /\ entry' = entry /\ now' = now
      BY <1>2, <2>1 DEF AddRRString, IInv, TypeOK
    <3>2. entry'[c] # Nil => GoodItem(entry[c])'
      BY <3>1 DEF IInv, LocalInv, GoodItem
    <3> QED BY <3>1, <3>2 DEF LocalInv
  <2> QED BY <1>2, <2>1, <2>2, <2>3, FrameStep DEF AddRRString, IInv, TypeOK
<1>3. ASSUME NEW c \in Callers, AddRR(c) PROVE IInv'
  <2>1. /\ entry'[c] \in Item
        /\ GoodItem(entry'[c])
        /\ entry' = [entry EXCEPT ![c] = entry'[c]]
        /\ Head(todo[c]).key \in Keys
        /\ Tail(todo[c]) \in Seq(Task)
    BY <1>3, AddRRItem DEF Task
  <2>2. TypeOK'
    <3>1. /\ pc' = [pc EXCEPT ![c] = "store"] /\ pc[c] = "addrr"
          /\ key' = [key EXCEPT ![c] = Head(todo[c]).key]
          /\ todo' = [todo EXCEPT ![c] = Tail(todo[c])]
          /\ reply' = NoReply /\ UNCHANGED <<now, cache, lock, checked>>
      BY <1>3 DEF AddRR, IInv, TypeOK
    <3>2. pc' \in [Callers -> {"idle", "addrr", "store", "get", "getptr", "delptr", "delete"}]
      BY <3>1 DEF IInv, TypeOK
    <3>3. key' \in [Callers -> Keys \cup {Nil}] /\ todo' \in [Callers -> Seq(Task)]
      BY <2>1, <3>1 DEF IInv, TypeOK
    <3>4. entry' \in [Callers -> Item \cup {Nil}]
      BY <2>1 DEF IInv, TypeOK
    <3>5. \A d \in Callers : pc'[d] \in {"get", "getptr"} <=> lock' = d
      BY <3>1 DEF IInv, TypeOK
    <3> QED BY <1>0, <3>1, <3>2, <3>3, <3>4, <3>5 DEF IInv, TypeOK
  <2>3. LocalInv(c)'
    <3>1. pc'[c] = "store" /\ key'[c] \in Keys /\ now' = now
      BY SMT, <1>3, <2>1 DEF AddRR, IInv, TypeOK
    <3>2. GoodItem(entry[c])'
      BY <2>1, <3>1 DEF GoodItem
    <3>3. entry'[c] # Nil
      BY <2>1, CacheAssumption
    <3> QED BY <3>1, <3>2, <3>3 DEF LocalInv
  <2>4. \A k \in Keys : cache'[k] # Nil => GoodItem(cache'[k])
    BY <1>3 DEF AddRR, IInv
  <2> QED BY <1>3, <2>1, <2>2, <2>3, <2>4, FrameStep DEF AddRR, IInv, TypeOK
<1>4. ASSUME NEW c \in Callers, Store(c) PROVE IInv'
  <2>1. GoodItem(entry[c]) /\ entry[c] # Nil /\ key[c] \in Keys
    BY <1>4 DEF Store, IInv, LocalInv
  <2>2. TypeOK'
    <3>1. cache' \in [Keys -> Item \cup {Nil}]
      BY <1>4, <2>1 DEF Store, IInv, TypeOK
    <3>2. CASE todo[c] = << >>
      <4>1. Return(c) /\ lock = Nil /\ UNCHANGED <<now, lock, todo>> /\ reply' = NoReply
        BY <1>4, <3>2 DEF Store
      <4> QED BY <1>0, <3>1, <4>1, ReturnType DEF IInv, TypeOK
    <3>3. CASE todo[c] # << >>
      <4>1. /\ pc' = [pc EXCEPT ![c] = "addrr"] /\ lock = Nil
            /\ UNCHANGED <<now, lock, todo, key, entry, checked>> /\ reply' = NoReply
        BY <1>4, <3>3 DEF Store
      <4>2. pc' \in [Callers -> {"idle", "addrr", "store", "get", "getptr", "delptr", "delete"}]
        BY <4>1 DEF IInv, TypeOK
      <4>3. \A d \in Callers : pc'[d] \in {"get", "getptr"} <=> lock' = d
        BY SMT, <1>0, <4>1 DEF IInv, TypeOK
      <4> QED BY <1>0, <3>1, <4>1, <4>2, <4>3 DEF IInv, TypeOK
    <3> QED BY <3>2, <3>3
  <2>3. LocalInv(c)'
    <3>1. CASE todo[c] = << >>
      <4>1. pc'[c] = "idle" /\ entry'[c] = Nil
        BY SMT, <1>4, <3>1 DEF Store, Return, IInv, TypeOK
      <4> QED BY <4>1 DEF LocalInv
    <3>2. CASE todo[c] # << >>
      <4>1. pc'[c] = "addrr" /\ todo' = todo /\ entry' = entry /\ now' = now
        BY <1>4, <3>2 DEF Store, IInv, TypeOK
      <4>2. GoodItem(entry[c])'
        BY <2>1, <4>1 DEF GoodItem
      <4> QED BY <3>2, <4>1, <4>2 DEF LocalInv
    <3> QED BY <3>1, <3>2
  <2>4. \A k \in Keys : cache'[k] # Nil => GoodItem(cache'[k])
    BY <1>4, <2>1 DEF Store, IInv, TypeOK
  <2>5. \A d \in Callers \ {c} :
          /\ pc'[d] = pc[d] /\ key'[d] = key[d] /\ entry'[d] = entry[d]
          /\ checked'[d] = checked[d] /\ todo'[d] = todo[d] /\ lock # d
    BY SMT, <1>0, <1>4 DEF Store, Return, IInv, TypeOK
  <2> QED BY <1>4, <2>2, <2>3, <2>4, <2>5, FrameStep DEF Store
<1>5. ASSUME NEW c \in Callers, NEW k \in Keys, NEW ptr \in BOOLEAN, Lookup(c, k, ptr)
      PROVE  IInv'
  <2>1. CASE Hit(k)
    <3>1. GoodItem(cache[k]) /\ cache[k] # Nil
      BY <2>1 DEF Hit, IInv
    <3>2. TypeOK'
      <4>1. \E p \in {"get", "getptr"} : pc' = [pc EXCEPT ![c] = p]
        BY <1>5, <2>1 DEF Lookup
      <4>2. key' = [key EXCEPT ![c] = k] /\ key' \in [Callers -> Keys \cup {Nil}]
        BY <1>5, <4>1 DEF Lookup, IInv, TypeOK
      <4>3. entry' \in [Callers -> Item \cup {Nil}] /\ lock = Nil /\ lock' = c
        BY <1>5, <2>1, <3>1 DEF Lookup, IInv, TypeOK, GoodItem
      <4>4. pc' \in [Callers -> {"idle", "addrr", "store", "get", "getptr", "delptr", "delete"}]
        BY <4>1 DEF IInv, TypeOK
      <4>5. \A d \in Callers : pc'[d] \in {"get", "getptr"} <=> lock' = d
        BY SMT, <1>0, <4>1, <4>3 DEF IInv, TypeOK
      <4>6. checked' \in [Callers -> Nat]
        <5>1. checked' = [checked EXCEPT ![c] = now]
          BY <1>5, <2>1 DEF Lookup
        <5> QED BY <1>0, <5>1 DEF IInv, TypeOK
      <4> QED BY SMT, <1>0, <1>5, <2>1, <4>2, <4>3, <4>4, <4>5, <4>6 DEF Lookup, IInv, TypeOK
    <3>3. LocalInv(c)'
      <4>1. /\ pc'[c] \in {"get", "getptr"} /\ key'[c] = k /\ entry'[c] = cache[k]
            /\ checked'[c] = now /\ cache' = cache /\ now' = now
        BY SMT, <1>5, <2>1 DEF Lookup, IInv, TypeOK
      <4>2. GoodItem(entry[c])'
        BY <3>1, <4>1 DEF GoodItem
      <4>3. cache[k].expires \in Nat /\ (~cache[k].permanent => now <= cache[k].expires)
        BY SMT, <1>0, <2>1, <3>1 DEF Hit, Expired, GoodItem
      <4> QED BY SMT, <1>0, <3>1, <4>1, <4>2, <4>3 DEF LocalInv
    <3>4. \A j \in Keys : cache'[j] # Nil => GoodItem(cache'[j])
      BY <1>5, <2>1 DEF Lookup, IInv
    <3> QED BY <1>5, <2>1, <3>2, <3>3, <3>4, FrameStep DEF Lookup, IInv, TypeOK
  <2>2. CASE ~Hit(k)
    <3>1. TypeOK'
      <4>1. \E p \in {"delete", "idle"} : pc' = [pc EXCEPT ![c] = p]
        BY <1>5, <2>2 DEF Lookup
      <4>2. pc' \in [Callers -> {"idle", "addrr", "store", "get", "getptr", "delptr", "delete"}]
        BY <4>1 DEF IInv, TypeOK
      <4>3. lock = Nil /\ UNCHANGED <<lock, entry, checked, now, todo>> /\ reply' = NoReply
        BY <1>5, <2>2 DEF Lookup
      <4>4. \A d \in Callers : pc'[d] \in {"get", "getptr"} <=> lock' = d
        BY SMT, <1>0, <4>1, <4>3 DEF IInv, TypeOK
      <4>5. cache' \in [Keys -> Item \cup {Nil}]
        BY <1>5, <2>2 DEF Lookup, IInv, TypeOK
      <4>6. key' \in [Callers -> Keys \cup {Nil}]
        <5>1. \E j \in Keys \cup {Nil} : key' = [key EXCEPT ![c] = j]
          BY <1>5 DEF Lookup
        <5> QED BY <5>1 DEF IInv, TypeOK
      <4> QED BY <1>0, <4>2, <4>3, <4>4, <4>5, <4>6 DEF IInv, TypeOK
    <3>2. LocalInv(c)'
      <4>1. /\ pc'[c] \in {"idle", "delete"}
            /\ pc'[c] = "delete" => key'[c] = k
            /\ entry' = entry /\ now' = now
        BY <1>5, <2>2 DEF Lookup, IInv, TypeOK
      <4>2. entry'[c] # Nil => GoodItem(entry[c])'
        BY <4>1 DEF IInv, LocalInv, GoodItem
      <4> QED BY <1>5, <4>1, <4>2 DEF LocalInv
    <3>3. \A j \in Keys : cache'[j] # Nil => GoodItem(cache'[j])
      BY <1>5, <2>2 DEF Lookup, IInv, TypeOK
    <3>4. \A d \in Callers \ {c} :
            /\ pc'[d] = pc[d] /\ key'[d] = key[d] /\ entry'[d] = entry[d]
            /\ checked'[d] = checked[d] /\ todo'[d] = todo[d] /\ lock # d
      BY SMT, <1>0, <1>5, <2>2 DEF Lookup, IInv, TypeOK
    <3>5. now' = now
      BY <1>5 DEF Lookup
    <3> QED BY <3>1, <3>2, <3>3, <3>4, <3>5, FrameStep
  <2> QED BY <2>1, <2>2
<1>6. ASSUME NEW c \in Callers, Reply(c) PROVE IInv'
  <2>1. GoodItem(entry[c]) /\ entry[c] # Nil /\ key[c] \in Keys
    BY <1>6 DEF Reply, IInv, LocalInv
  <2>2. AgedRRs(entry[c]) \subseteq RR
    BY <1>0, <2>1, AgedType DEF GoodItem
  <2>3. TypeOK'
    <3>1. reply' \in [item : Item \cup {Nil}, rrs : SUBSET RR, at : Nat]
      BY <1>0, <1>6, <2>1, <2>2 DEF Reply, GoodItem
    <3>2. CASE pc[c] = "get"
      <4>1. Return(c) /\ lock = c /\ lock' = Nil /\ UNCHANGED <<now, todo, cache>>
        BY <1>6, <3>2 DEF Reply, AfterCopy, Unlock
      <4> QED BY <1>0, <3>1, <4>1, ReturnType DEF IInv, TypeOK
    <3>3. CASE pc[c] # "get"
      BY <1>0, <1>6, <3>1, <3>3, ZenonT(30) DEF Reply, AfterCopy, Unlock, IInv, TypeOK
    <3> QED BY <3>2, <3>3
  <2>4. LocalInv(c)'
    <3>1. CASE pc[c] = "get"
      <4>1. pc'[c] = "idle" /\ entry'[c] = Nil
        BY <1>6, <3>1 DEF Reply, Return, IInv, TypeOK
      <4> QED BY <4>1 DEF LocalInv
    <3>2. CASE pc[c] # "get"
      <4>1. pc'[c] = "delptr" /\ key' = key /\ entry' = entry /\ now' = now
        BY <1>6, <3>2 DEF Reply, IInv, TypeOK
      <4>2. GoodItem(entry[c])'
        BY <2>1, <4>1 DEF GoodItem
      <4> QED BY <2>1, <4>1, <4>2 DEF LocalInv
    <3> QED BY <3>1, <3>2
  <2>5. \A k \in Keys : cache'[k] # Nil => GoodItem(cache'[k])
    BY <1>6 DEF Reply, AfterCopy, Unlock, IInv
  <2> QED BY <1>6, <2>3, <2>4, <2>5, FrameStep, ZenonT(30) DEF Reply, Return, AfterCopy, Unlock, IInv, TypeOK
<1>7. ASSUME NEW c \in Callers, NEW k \in Keys, DeleteName(c, k) PROVE IInv'
  <2>1. TypeOK'
    BY <1>0, <1>7 DEF DeleteName, IInv, TypeOK
  <2>2. LocalInv(c)'
    BY <1>7 DEF DeleteName, IInv, TypeOK, LocalInv, GoodItem
  <2>3. \A j \in Keys : cache'[j] # Nil => GoodItem(cache'[j])
    BY <1>7 DEF DeleteName, IInv
  <2> QED BY <1>7, <2>1, <2>2, <2>3, FrameStep DEF DeleteName, IInv, TypeOK
<1>8. ASSUME NEW c \in Callers, DeletePtrs(c) PROVE IInv'
  <2>1. PICK ptrs : cache' = [k \in Keys |-> IF k \in ptrs THEN Nil ELSE cache[k]]
    BY <1>8 DEF DeletePtrs
  <2>2. TypeOK'
    BY SMT, <1>0, <1>8, <2>1 DEF DeletePtrs, IInv, TypeOK
  <2>3. LocalInv(c)'
    BY <1>8 DEF DeletePtrs, IInv, TypeOK, LocalInv, GoodItem
  <2>4. \A k \in Keys : cache'[k] # Nil => GoodItem(cache'[k])
    BY <2>1 DEF IInv
  <2>5. now' = now /\ UNCHANGED <<key, entry, checked, todo>> /\ lock = Nil
    BY <1>8 DEF DeletePtrs
  <2>6. \A d \in Callers \ {c} : pc'[d] = pc[d] /\ lock # d
    BY SMT, <1>0, <1>8, <2>5 DEF DeletePtrs, IInv, TypeOK
  <2> QED BY <2>2, <2>3, <2>4, <2>5, <2>6, FrameStep
<1>9. ASSUME NEW c \in Callers, Delete(c) PROVE IInv'
  <2>1. TypeOK'
    BY ZenonT(30), <1>0, <1>9 DEF Delete, Return, IInv, TypeOK
  <2>2. LocalInv(c)'
    <3>1. pc'[c] = "idle" /\ entry'[c] = Nil
      BY <1>9 DEF Delete, Return, IInv, TypeOK
    <3> QED BY <3>1 DEF LocalInv
  <2>3. \A k \in Keys : cache'[k] # Nil => GoodItem(cache'[k])
    BY <1>9 DEF Delete, IInv, TypeOK
  <2>4. \A d \in Callers \ {c} :
          /\ pc'[d] = pc[d] /\ key'[d] = key[d] /\ entry'[d] = entry[d]
          /\ checked'[d] = checked[d] /\ todo'[d] = todo[d] /\ lock # d
    BY SMT, <1>0, <1>9 DEF Delete, Return, IInv, TypeOK
  <2> QED BY <1>9, <2>1, <2>2, <2>3, <2>4, FrameStep DEF Delete
<1>10. ASSUME Flush PROVE IInv'
  <2>1. TypeOK'
    BY <1>0, <1>10 DEF Flush, IInv, TypeOK
  <2>2. \A k \in Keys : cache'[k] # Nil => GoodItem(cache'[k])
    BY <1>10 DEF Flush, IInv
  <2>3. \A c \in Callers : lock # c
    BY <1>0, <1>10 DEF Flush
  <2>4. \A c \in Callers : LocalInv(c)'
    BY <1>10, <2>3 DEF Flush, IInv, TypeOK, LocalInv, GoodItem
  <2> QED BY <1>10, <2>1, <2>2, <2>4 DEF Flush, IInv, GoodItem
<1>11. ASSUME Tick PROVE IInv'
  <2>1. now' = now + 1 /\ now' \in Nat
    <3>1. now' = now + 1
      BY <1>11, Zenon DEF Tick
    <3> QED BY SMT, <1>0, <3>1
  <2>2. TypeOK'
    BY <1>0, <1>11, <2>1 DEF Tick, IInv, TypeOK
  <2>3. ASSUME NEW e, GoodItem(e)
        PROVE  /\ e.inserted <= now'
               /\ e \in Item
               /\ ~e.permanent => \A rr \in e.rrs : ~IsOPT(rr) => e.expires <= e.inserted + Seconds(rr.ttl)
    <3>1. e \in Item /\ e.inserted \in Nat /\ e.inserted <= now
      BY <2>3 DEF GoodItem
    <3>2. e.inserted <= now'
      BY SMT, <1>0, <2>1, <3>1
    <3> QED BY <2>3, <3>1, <3>2 DEF GoodItem
  <2>4. \A k \in Keys : cache'[k] # Nil => GoodItem(cache[k])'
    BY <1>11, <2>3 DEF Tick, IInv, GoodItem
  <2>5. ASSUME NEW c \in Callers PROVE LocalInv(c)'
    <3>1. entry'[c] # Nil => GoodItem(entry[c])'
      BY <1>11, <2>3 DEF Tick, IInv, LocalInv, GoodItem
    <3>2. pc'[c] \in {"get", "getptr"} => now' <= checked'[c] + MaxPause
      BY <1>11, <2>1 DEF Tick
    <3> QED BY <1>11, <3>1, <3>2 DEF Tick, IInv, LocalInv
  <2> QED BY <2>2, <2>4, <2>5 DEF IInv
<1>12. ASSUME UNCHANGED vars PROVE IInv'
  BY <1>12 DEF vars, IInv, TypeOK, LocalInv, GoodItem
<1> QED
  BY <1>1, <1>2, <1>3, <1>4, <1>5, <1>6, <1>7, <1>8, <1>9, <1>10, <1>11, <1>12
     DEF Next, Call, Step

\* The inductive invariant of the cache: expiries are covered by the TTLs, and Get
\* holds the item it has tested.
THEOREM SpecIInv == Spec => []IInv
BY InitIInv, NextIInv, PTL DEF Spec

-----------------------------------------------------------------------------
(* Safety *)

\* Every step but Reply clears the reply.
LEMMA ReplyOnly ==
    ASSUME [Next]_vars
    PROVE  reply' = NoReply \/ reply' = reply \/ \E c \in Callers : Reply(c)
BY ZenonT(30) DEF Next, Call, Step, vars, Add, AddRRString, AddRR, Store, Lookup, DeleteName,
       DeletePtrs, Delete, Flush, Tick

\* What holds of the item and of the clock when Get computes its reply.
LEMMA AtReply ==
    ASSUME IInv, NEW c \in Callers, Reply(c)
    PROVE  /\ entry[c] \in Item
           /\ GoodItem(entry[c])
           /\ now \in Nat /\ MaxPause \in Nat
           /\ ~entry[c].permanent => now <= entry[c].expires + MaxPause
<1>1. LocalInv(c) /\ now \in Nat /\ checked[c] \in Nat /\ MaxPause \in Nat
  BY CacheAssumption DEF IInv, TypeOK
<1>2. entry[c] \in Item /\ GoodItem(entry[c])
  BY <1>1 DEF Reply, LocalInv, GoodItem
<1>3. ASSUME ~entry[c].permanent PROVE now <= entry[c].expires + MaxPause
  <2>1. now <= checked[c] + MaxPause /\ checked[c] <= entry[c].expires
    BY <1>1, <1>3 DEF Reply, LocalInv
  <2>2. entry[c].expires \in Nat
    BY <1>2
  <2>3. \A t, u, v, m \in Nat : t <= u + m /\ u <= v => t <= v + m
    BY SMT
  <2> QED BY <1>1, <2>1, <2>2, <2>3, Zenon
<1> QED BY <1>1, <1>2, <1>3

\* If less than a second passes between Get's two clock readings, the TTLs of
\* its reply are the truth.
LEMMA ReplyHonest ==
    ASSUME MaxPause < TicksPerSecond, IInv, NEW c \in Callers, Reply(c)
    PROVE  TtlHonest'
<1>. DEFINE e == entry[c]
<1>1. reply' = [item |-> e, rrs |-> AgedRRs(e), at |-> now]
  BY DEF Reply
<1>2. /\ e \in Item /\ GoodItem(e) /\ now \in Nat /\ MaxPause \in Nat
      /\ ~e.permanent => now <= e.expires + MaxPause
  BY AtReply
<1>. HIDE DEF e
<1>. SUFFICES ASSUME ~e.permanent, NEW rr \in AgedRRs(e), ~IsOPT(rr)
              PROVE  /\ e.expires <= now + Seconds(rr.ttl)
                     /\ \E s \in e.rrs :
                          /\ s.kind = rr.kind /\ s.data = rr.data
                          /\ now + Seconds(rr.ttl) < e.inserted + Seconds(s.ttl + 1)
  BY <1>1 DEF TtlHonest
<1>3. PICK s \in e.rrs : rr = Aged(s, Delta(e))
  BY DEF AgedRRs
<1>4. s \in RR /\ s.ttl \in 0..TtlRange-1 /\ e.inserted \in Nat /\ e.expires \in Nat
  BY <1>2 DEF RR
<1>5. ~IsOPT(s)
  BY <1>3 DEF Aged
<1>6. rr.kind = s.kind /\ rr.data = s.data /\ rr.ttl = (s.ttl - Delta(e)) % TtlRange
  BY <1>3, <1>4, <1>5 DEF Aged, RR
<1>7. e.inserted <= now /\ e.expires <= e.inserted + Seconds(s.ttl)
  BY <1>2, <1>5 DEF GoodItem
<1>8. /\ Seconds(s.ttl) \in Nat /\ Seconds(s.ttl + 1) = Seconds(s.ttl) + TicksPerSecond
      /\ TicksPerSecond \in Nat
  BY SMT, <1>4, SecondsType, CacheAssumption
<1>9. now < e.inserted + Seconds(s.ttl + 1)
  BY SMT, <1>2, <1>4, <1>7, <1>8
<1>10. /\ rr.ttl \in 0..TtlRange-1
       /\ e.inserted + Seconds(s.ttl) <= now + Seconds(rr.ttl)
       /\ now + Seconds(rr.ttl) < e.inserted + Seconds(s.ttl + 1)
  BY SMT, <1>2, <1>4, <1>6, <1>7, <1>9, AgeArithmetic DEF Delta
<1>11. Seconds(rr.ttl) \in Nat
  BY SMT, <1>10, SecondsType, CacheAssumption
<1>12. e.expires <= now + Seconds(rr.ttl)
  BY SMT, <1>2, <1>4, <1>7, <1>8, <1>10, <1>11
<1> QED BY <1>6, <1>10, <1>12

\* The cache's variables keep their types, and the mutex is held by exactly the
\* goroutine that is between the two clock readings of Get.
THEOREM TypeCorrect == Spec => []TypeOK
<1>1. IInv => TypeOK
  BY DEF IInv
<1> QED BY <1>1, SpecIInv, PTL

\* Provided that less than a second passes between the two clock readings of one
\* Get, the TTLs handed to clients are the truth for every upstream response and
\* every interleaving: the unsigned subtraction never wraps around, no record
\* outlives its own TTL by a second and none is given less than the cache gives it.
THEOREM TtlsHonest ==
    ASSUME MaxPause < TicksPerSecond
    PROVE  Spec => []TtlHonest
<1>1. Init => TtlHonest
  <2>1. Init => reply.item = Nil
    BY SMT DEF Init, NoReply
  <2>2. reply.item = Nil => TtlHonest
    BY DEF TtlHonest
  <2> QED BY <2>1, <2>2
<1>2. IInv /\ TtlHonest /\ [Next]_vars => TtlHonest'
  <2>. SUFFICES ASSUME IInv, TtlHonest, [Next]_vars PROVE TtlHonest'
    OBVIOUS
  <2>1. CASE reply' = NoReply
    BY <2>1 DEF TtlHonest, NoReply
  <2>2. CASE reply' = reply
    BY <2>2 DEF TtlHonest
  <2>3. CASE \E c \in Callers : Reply(c)
    BY <2>3, ReplyHonest
  <2> QED BY <2>1, <2>2, <2>3, ReplyOnly
<1> QED BY <1>1, <1>2, SpecIInv, PTL DEF Spec

\* Get returns no item more than MaxPause after its expiry.
THEOREM NoExpired == Spec => []NoExpiredReply
<1>1. Init => NoExpiredReply
  BY SMT DEF Init, NoExpiredReply, NoReply
<1>2. IInv /\ NoExpiredReply /\ [Next]_vars => NoExpiredReply'
  <2>. SUFFICES ASSUME IInv, NoExpiredReply, [Next]_vars PROVE NoExpiredReply'
    OBVIOUS
  <2>1. CASE reply' = NoReply
    BY <2>1 DEF NoExpiredReply, NoReply
  <2>2. CASE reply' = reply
    BY <2>2 DEF NoExpiredReply
  <2>3. CASE \E c \in Callers : Reply(c)
    <3>1. PICK c \in Callers : Reply(c)
      BY <2>3
    <3>2. ~entry[c].permanent => now <= entry[c].expires + MaxPause
      BY <3>1, AtReply
    <3>3. reply'.item = entry[c] /\ reply'.at = now
      BY <3>1 DEF Reply
    <3> QED BY <3>2, <3>3 DEF NoExpiredReply
  <2> QED BY <2>1, <2>2, <2>3, ReplyOnly
<1> QED BY <1>1, <1>2, SpecIInv, PTL DEF Spec

\* The item Get has found stays in the map until Get has copied it.
THEOREM EntryStable == Spec => []EntryStableInGet
<1>1. IInv => EntryStableInGet
  BY DEF IInv, LocalInv, EntryStableInGet
<1> QED BY <1>1, SpecIInv, PTL

-----------------------------------------------------------------------------
(* Refinement of EagerCache *)

\* A step after which Get would find the same items, and in which no goroutine
\* comes to or leaves a critical section that writes, is a stutter.
LEMMA StutterStep ==
    ASSUME now' = now,
           \A k \in Keys : Visible(k)' = Visible(k),
           UNCHANGED <<pc, key, entry>>
    PROVE  UNCHANGED Eager!vars
<1>1. \A c \in Callers : Pending(c)' = Pending(c)
  BY DEF Pending, Targets
<1> QED BY <1>1 DEF Eager!vars

\* Dropping items that have expired does not change what Get would find.
LEMMA DropExpired ==
    ASSUME now' = now,
           \A k \in Keys : cache'[k] = cache[k] \/ (cache'[k] = Nil /\ ~Hit(k))
    PROVE  \A k \in Keys : Visible(k)' = Visible(k)
BY DEF Visible, Hit

\* A goroutine that changes its own locals only has a new request, with keys
\* and items of the right type.
LEMMA RenewStep ==
    ASSUME IInv', NEW c \in Callers,
           \A d \in Callers \ {c} : pc'[d] = pc[d] /\ key'[d] = key[d] /\ entry'[d] = entry[d]
    PROVE  Eager!Renew(c)
<1>1. \A d \in Callers \ {c} : Pending(d)' = Pending(d)
  BY DEF Pending, Targets
<1>2. Targets(c)' \subseteq Keys /\ DOMAIN Pending(c)' = Targets(c)'
  BY DEF Targets, Pending
<1>3. \A k \in Targets(c)' : Pending(c)'[k] \in Item \cup {Nil}
  BY DEF Pending, IInv, TypeOK
<1> QED BY <1>1, <1>2, <1>3 DEF Eager!Renew

\* A goroutine that was not about to write, and leaves what Get would find.
LEMMA AskStep ==
    ASSUME IInv', NEW c \in Callers, now' = now,
           pc[c] \notin {"store", "delete", "delptr"},
           \A k \in Keys : Visible(k)' = Visible(k),
           \A d \in Callers \ {c} : pc'[d] = pc[d] /\ key'[d] = key[d] /\ entry'[d] = entry[d]
    PROVE  Eager!Next
<1>1. Targets(c) = {}
  BY DEF Targets
<1>2. Pending(c) = Eager!NoRequest
  BY <1>1 DEF Pending, Eager!NoRequest
<1>3. Eager!Renew(c)
  BY RenewStep
<1>4. Eager!Ask(c)
  BY <1>2, <1>3 DEF Eager!Ask
<1> QED BY <1>4 DEF Eager!Next

\* An item in the map is found unless it has expired.
LEMMA VisibleIfValid ==
    ASSUME IInv, NEW e \in Item \cup {Nil}
    PROVE  (IF e # Nil /\ ~Expired(e, now) THEN e ELSE Nil) = Eager!IfValid(e, now)
<1>1. CASE e = Nil
  BY <1>1 DEF Eager!IfValid, Eager!Valid
<1>2. CASE e # Nil
  <2>1. e.expires \in Nat /\ now \in Nat
    BY <1>2 DEF IInv, TypeOK
  <2>2. Eager!Valid(e, now) <=> ~Expired(e, now)
    BY SMT, <1>2, <2>1 DEF Expired, Eager!Valid
  <2> QED BY <1>2, <2>2 DEF Eager!IfValid
<1> QED BY <1>1, <1>2

\* A critical section that writes what was pending.
LEMMA ApplyStep ==
    ASSUME IInv, IInv', NEW c \in Callers, now' = now,
           \A k \in Keys : cache'[k] = IF k \in Targets(c) THEN Pending(c)[k] ELSE cache[k],
           \A d \in Callers \ {c} : pc'[d] = pc[d] /\ key'[d] = key[d] /\ entry'[d] = entry[d]
    PROVE  Eager!Next
<1>1. DOMAIN Pending(c) = Targets(c)
  BY DEF Pending
<1>2. ASSUME NEW k \in Keys
      PROVE  Visible(k)' = IF k \in Targets(c) THEN Eager!IfValid(Pending(c)[k], now)
                                               ELSE Visible(k)
  <2>1. CASE k \in Targets(c)
    <3>1. Pending(c)[k] \in Item \cup {Nil}
      BY <2>1 DEF Pending, IInv, TypeOK
    <3>2. cache'[k] = Pending(c)[k]
      BY <2>1
    <3>3. Visible(k)' = IF cache'[k] # Nil /\ ~Expired(cache'[k], now) THEN cache'[k] ELSE Nil
      BY DEF Visible, Hit, Expired
    <3> QED BY <2>1, <3>1, <3>2, <3>3, VisibleIfValid
  <2>2. CASE k \notin Targets(c)
    BY <2>2 DEF Visible, Hit
  <2> QED BY <2>1, <2>2
<1>3. Eager!Renew(c)
  BY RenewStep
<1>4. Eager!Apply(c)
  BY <1>1, <1>2, <1>3 DEF Eager!Apply, Eager!Applied
<1> QED BY <1>4 DEF Eager!Next

\* When the clock moves on, the items that expire drop out of sight.
LEMMA TickStep ==
    ASSUME IInv, Tick
    PROVE  Eager!Next
<1>1. now' = now + 1 /\ cache' = cache /\ now \in Nat
  BY DEF Tick, IInv, TypeOK
<1>2. ASSUME NEW k \in Keys PROVE Visible(k)' = Eager!IfValid(Visible(k), now')
  <2>1. CASE cache[k] = Nil
    BY <1>1, <2>1 DEF Visible, Hit, Eager!IfValid, Eager!Valid
  <2>2. CASE cache[k] # Nil
    <3>1. cache[k].expires \in Nat
      BY <2>2 DEF IInv, GoodItem
    <3>2. Expired(cache[k], now) => Expired(cache[k], now')
      BY SMT, <1>1, <3>1 DEF Expired
    <3>3. Eager!Valid(cache[k], now') <=> ~Expired(cache[k], now')
      BY SMT, <1>1, <2>2, <3>1 DEF Expired, Eager!Valid
    <3>4. ~Eager!Valid(Nil, now')
      BY DEF Eager!Valid
    <3> QED BY <1>1, <2>2, <3>2, <3>3, <3>4 DEF Visible, Hit, Eager!IfValid
  <2> QED BY <2>1, <2>2
<1>3. \A c \in Callers : Pending(c)' = Pending(c)
  BY DEF Tick, Pending, Targets
<1>4. Eager!Tick
  BY <1>1, <1>2, <1>3 DEF Eager!Tick
<1> QED BY <1>4 DEF Eager!Next

\* Expired items are dropped late, when Get or Flush comes across them, and
\* several goroutines add and delete items in several steps; yet a user of the
\* cache sees a map that only their requests change, each in one step, and in
\* which each item stays until it expires and vanishes that very moment.
THEOREM Implements == Spec => ImplementsEager
<1>1. Init => Eager!Init
  <2>. SUFFICES ASSUME Init PROVE Eager!Init
    OBVIOUS
  <2>1. \A k \in Keys : Visible(k) = Nil
    BY DEF Init, Visible, Hit
  <2>2. \A c \in Callers : Pending(c) = Eager!NoRequest
    <3>1. \A c \in Callers : Targets(c) = {}
      BY DEF Init, Targets
    <3> QED BY <3>1 DEF Pending, Eager!NoRequest
  <2> QED BY <2>1, <2>2 DEF Init, Eager!Init
<1>2. IInv /\ IInv' /\ [Next]_vars => [Eager!Next]_Eager!vars
  <2>. SUFFICES ASSUME IInv, IInv', [Next]_vars PROVE [Eager!Next]_Eager!vars
    OBVIOUS
  <2>0. /\ cache \in [Keys -> Item \cup {Nil}] /\ cache' \in [Keys -> Item \cup {Nil}]
        /\ pc \in [Callers -> {"idle", "addrr", "store", "get", "getptr", "delptr", "delete"}]
        /\ key \in [Callers -> Keys \cup {Nil}] /\ entry \in [Callers -> Item \cup {Nil}]
    BY DEF IInv, TypeOK
  <2>1. ASSUME NEW c \in Callers, Call(c) \/ Step(c)
        PROVE  /\ now' = now
               /\ \A d \in Callers \ {c} :
                    pc'[d] = pc[d] /\ key'[d] = key[d] /\ entry'[d] = entry[d]
    <3>1. CASE Call(c)
      BY <2>0, <3>1, ZenonT(30) DEF Call, Add, AddRRString, Lookup, DeleteName
    <3>2. CASE Step(c)
      BY SMT, <2>0, <3>2 DEF Step, AddRR, Store, Reply, DeletePtrs, Delete, Return
    <3> QED BY <2>1, <3>1, <3>2
  <2>2. ASSUME NEW c \in Callers, Call(c) PROVE Eager!Next
    <3>1. pc[c] = "idle"
      BY <2>2 DEF Call, Add, AddRRString, Lookup, DeleteName
    <3>2. \A k \in Keys : cache'[k] = cache[k] \/ (cache'[k] = Nil /\ ~Hit(k))
      BY <2>0, <2>2 DEF Call, Add, AddRRString, Lookup, DeleteName
    <3>3. \A k \in Keys : Visible(k)' = Visible(k)
      BY <2>1, <2>2, <3>2, DropExpired
    <3> QED BY <2>1, <2>2, <3>1, <3>3, AskStep
  <2>3. ASSUME NEW c \in Callers, Step(c) PROVE Eager!Next
    <3>1. CASE AddRR(c) \/ Reply(c)
      <4>1. pc[c] \in {"addrr", "get", "getptr"} /\ cache' = cache
        BY <3>1 DEF AddRR, Reply, AfterCopy
      <4>2. \A k \in Keys : Visible(k)' = Visible(k)
        BY <2>1, <2>3, <4>1, DropExpired
      <4> QED BY <2>1, <2>3, <4>1, <4>2, AskStep
    <3>2. CASE Store(c) \/ DeletePtrs(c) \/ Delete(c)
      <4>1. \A k \in Keys : cache'[k] = IF k \in Targets(c) THEN Pending(c)[k] ELSE cache[k]
        <5>1. CASE Store(c)
          BY <2>0, <5>1 DEF Store, Targets, Pending
        <5>2. CASE DeletePtrs(c)
          BY <2>0, <5>2 DEF DeletePtrs, Targets, Pending
        <5>3. CASE Delete(c)
          BY <2>0, <5>3 DEF Delete, Targets, Pending
        <5> QED BY <3>2, <5>1, <5>2, <5>3
      <4> QED BY <2>1, <2>3, <4>1, ApplyStep
    <3> QED BY <2>3, <3>1, <3>2 DEF Step
  <2>4. CASE Flush
    <3>1. \A k \in Keys : cache'[k] = cache[k] \/ (cache'[k] = Nil /\ ~Hit(k))
      BY <2>4 DEF Flush, Flushes, Hit, Expired
    <3>2. now' = now /\ UNCHANGED <<pc, key, entry>>
      BY <2>4 DEF Flush
    <3> QED BY <3>1, <3>2, DropExpired, StutterStep
  <2>5. CASE Tick
    BY <2>5, TickStep
  <2>6. CASE UNCHANGED vars
    <3>1. now' = now /\ cache' = cache /\ UNCHANGED <<pc, key, entry>>
      BY <2>6 DEF vars
    <3> QED BY <3>1, DropExpired, StutterStep
  <2> QED BY <2>2, <2>3, <2>4, <2>5, <2>6 DEF Next
<1> QED BY <1>1, <1>2, SpecIInv, PTL DEF Spec, ImplementsEager, Eager!Spec
=============================================================================
