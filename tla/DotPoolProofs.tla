--------------------------- MODULE DotPoolProofs ----------------------------
(* Proofs about DotPool, for any number of calls and connections and every  *)
(* size of the pool.                                                        *)
EXTENDS DotPool, SequenceTheorems, TLAPS

-----------------------------------------------------------------------------
(* The pool as a channel of distinct connections *)

Elements(s) == {s[i] : i \in 1..Len(s)}
Distinct(s) == \A i, j \in 1..Len(s) : s[i] = s[j] => i = j

LEMMA ReceiveDistinct ==
    ASSUME NEW S, NEW s \in Seq(S), s # << >>, Distinct(s)
    PROVE  /\ Head(s) \in S /\ Head(s) \in Elements(s)
           /\ Tail(s) \in Seq(S) /\ Distinct(Tail(s))
           /\ Elements(Tail(s)) = Elements(s) \ {Head(s)}
           /\ Len(Tail(s)) <= Len(s)
<1>1. /\ Head(s) = s[1] /\ Head(s) \in S /\ Tail(s) \in Seq(S)
      /\ Len(s) \in Nat \ {0} /\ Len(Tail(s)) = Len(s) - 1
      /\ \A i \in 1..Len(Tail(s)) : Tail(s)[i] = s[i+1]
  BY HeadTailProperties, EmptySeq, LenProperties
<1>2. Head(s) \in Elements(s)
  BY <1>1 DEF Elements
<1>3. Distinct(Tail(s))
  BY <1>1 DEF Distinct
<1>4. Elements(Tail(s)) \subseteq Elements(s) \ {Head(s)}
  BY <1>1 DEF Elements, Distinct
<1>5. ASSUME NEW x \in Elements(s) \ {Head(s)} PROVE x \in Elements(Tail(s))
  <2>1. PICK i \in 1..Len(s) : s[i] = x
    BY DEF Elements
  <2>2. i # 1 /\ i - 1 \in 1..Len(Tail(s))
    BY <1>1, <2>1
  <2>3. Tail(s)[i-1] = x
    BY <1>1, <2>1, <2>2
  <2> QED BY <2>2, <2>3 DEF Elements
<1> QED BY <1>1, <1>2, <1>3, <1>4, <1>5

LEMMA SendDistinct ==
    ASSUME NEW S, NEW s \in Seq(S), NEW c \in S, Distinct(s), c \notin Elements(s)
    PROVE  /\ Append(s, c) \in Seq(S) /\ Distinct(Append(s, c))
           /\ Elements(Append(s, c)) = Elements(s) \cup {c}
           /\ Len(Append(s, c)) = Len(s) + 1
<1>. DEFINE t == Append(s, c)
<1>1. /\ t \in Seq(S) /\ Len(s) \in Nat /\ Len(t) = Len(s) + 1
      /\ \A i \in 1..Len(s) : t[i] = s[i]
      /\ t[Len(s) + 1] = c
  BY AppendProperties, LenProperties
<1>. HIDE DEF t
<1>2. Distinct(t)
  BY <1>1 DEF Distinct, Elements
<1>3. Elements(t) = Elements(s) \cup {c}
  <2>1. Elements(t) \subseteq Elements(s) \cup {c}
    BY <1>1 DEF Elements
  <2>2. c \in Elements(t)
    BY <1>1 DEF Elements
  <2>3. \A x \in Elements(s) : x \in Elements(t)
    BY <1>1 DEF Elements
  <2> QED BY <2>1, <2>2, <2>3
<1> QED BY <1>1, <1>2, <1>3 DEF t

-----------------------------------------------------------------------------
(* The inductive invariant *)

PCs == {"new", "get", "check", "write", "read", "put", "ok", "failed"}
Holding == {"check", "write", "read", "put"}

\* Nothing to be read on connection c, now or later.
Quiet(c) == unanswered[c] = {} /\ inbox[c] = << >>

\* On the connection a call is reading from there is at most its own answer.
OwnAnswerOnly(q) ==
    \/ unanswered[conn[q]] \subseteq {q} /\ inbox[conn[q]] = << >>
    \/ unanswered[conn[q]] = {} /\ inbox[conn[q]] = <<q>>

Reading(c) == \E q \in Calls : pc[q] = "read" /\ conn[q] = c

CallInv(q) ==
    /\ pc[q] \in Holding => conn[q] \in Conns
    /\ pc[q] = "read" => OwnAnswerOnly(q)
    /\ pc[q] \in {"put", "ok"} => out[q] = q
    /\ pc[q] \in Holding \cup {"new", "get"} => attempt[q] < MaxAttempts

IInv ==
    /\ TypeOK
    /\ ConnAccounted
    /\ \A q \in Calls : CallInv(q)
    /\ \A c \in Conns : Quiet(c) \/ Reading(c)

LEMMA InitIInv == Init => IInv
<1>. SUFFICES ASSUME Init PROVE IInv
  OBVIOUS
<1>1. TypeOK
  BY EmptySeq, DotAssumption DEF Init, TypeOK, MaxAttempts
<1>2. Len(pool) = 0 /\ Holders = {} /\ Pooled = {} /\ Open = {}
  BY EmptySeq DEF Init, Holders, Pooled, Open
<1>3. ConnAccounted
  BY <1>2, DotAssumption DEF ConnAccounted
<1> QED BY <1>1, <1>3 DEF Init, IInv, CallInv, Quiet, Holding, MaxAttempts

\* The three ways in which a step may change who has which connection: it
\* changes nothing of it, a call comes to hold a connection that was pooled or
\* unused, or a call lets its connection go to the pool or closes it.
LEMMA SameOwners ==
    ASSUME IInv, TypeOK', UNCHANGED <<pool, conn>>, Holders' = Holders, Open' = Open
    PROVE  ConnAccounted'
BY DEF IInv, ConnAccounted, Pooled

LEMMA GainConn ==
    ASSUME IInv, TypeOK', NEW q \in Calls, NEW c \in Conns,
           q \notin Holders, c \notin {conn[p] : p \in Holders},
           conn' = [conn EXCEPT ![q] = c], Holders' = Holders \cup {q},
           Distinct(pool'), Len(pool') <= PoolSize,
           Elements(pool') = Elements(pool) \ {c}, Open' = Open \cup {c}
    PROVE  ConnAccounted'
<1>1. conn'[q] = c /\ \A p \in Holders : conn'[p] = conn[p]
  BY DEF IInv, TypeOK, Holders
<1>2. \A p1, p2 \in Holders' : conn'[p1] = conn'[p2] => p1 = p2
  BY <1>1 DEF IInv, ConnAccounted
<1>3. Pooled = Elements(pool) /\ Pooled' = Elements(pool')
  BY DEF Pooled, Elements
<1>4. \A p \in Holders' : conn'[p] \notin Pooled'
  BY <1>1, <1>3 DEF IInv, ConnAccounted
<1>5. Open' = Pooled' \cup {conn'[p] : p \in Holders'}
  BY <1>1, <1>3 DEF IInv, ConnAccounted
<1> QED BY <1>2, <1>4, <1>5 DEF ConnAccounted, Distinct

LEMMA LoseConn ==
    ASSUME IInv, TypeOK', NEW q \in Calls, q \in Holders,
           conn' = [conn EXCEPT ![q] = Nil], Holders' = Holders \ {q},
           Distinct(pool'), Len(pool') <= PoolSize,
           \/ Elements(pool') = Elements(pool) \cup {conn[q]} /\ Open' = Open
           \/ Elements(pool') = Elements(pool) /\ Open' = Open \ {conn[q]}
    PROVE  ConnAccounted'
<1>1. \A p \in Holders' : conn'[p] = conn[p] /\ conn[p] # conn[q]
  BY DEF IInv, TypeOK, Holders, ConnAccounted
<1>2. \A p1, p2 \in Holders' : conn'[p1] = conn'[p2] => p1 = p2
  BY <1>1 DEF IInv, ConnAccounted
<1>3. Pooled = Elements(pool) /\ Pooled' = Elements(pool')
  BY DEF Pooled, Elements
<1>4. \A p \in Holders' : conn'[p] \notin Pooled'
  BY <1>1, <1>3 DEF IInv, ConnAccounted
<1>5. conn[q] \notin Pooled
  BY DEF IInv, ConnAccounted
<1>6. Open' = Pooled' \cup {conn'[p] : p \in Holders'}
  BY <1>1, <1>3, <1>5 DEF IInv, ConnAccounted
<1> QED BY <1>2, <1>4, <1>6 DEF ConnAccounted, Distinct

\* A step of call q leaves the others alone if it touches no connection but its own.
LEMMA OthersKeep ==
    ASSUME IInv, NEW q \in Calls,
           \A p \in Calls \ {q} :
               /\ pc'[p] = pc[p] /\ conn'[p] = conn[p]
               /\ out'[p] = out[p] /\ attempt'[p] = attempt[p]
               /\ pc[p] = "read" => /\ unanswered'[conn[p]] = unanswered[conn[p]]
                                    /\ inbox'[conn[p]] = inbox[conn[p]]
    PROVE  \A p \in Calls \ {q} : CallInv(p)'
<1>. TAKE p \in Calls \ {q}
<1>1. CallInv(p)
  BY DEF IInv
<1>2. pc[p] = "read" => OwnAnswerOnly(p)'
  BY <1>1 DEF CallInv, OwnAnswerOnly
<1> QED BY <1>1, <1>2 DEF CallInv

\* Facts every step of Resolve(q) starts from.
LEMMA Before ==
    ASSUME IInv
    PROVE  /\ pool \in Seq(Conns) /\ Distinct(pool) /\ Len(pool) \in Nat
           /\ PoolSize \in Nat /\ Len(pool) <= PoolSize
           /\ Nil \notin Conns \cup Calls
           /\ \A q \in Holders : conn[q] \in Open /\ conn[q] \notin Elements(pool)
           /\ \A q \in Holders : \A p \in Calls \ {q} : pc[p] = "read" => conn[p] # conn[q]
<1>1. pool \in Seq(Conns) /\ Len(pool) \in Nat
  BY LenProperties DEF IInv, TypeOK
<1>2. Pooled = Elements(pool)
  BY DEF Pooled, Elements
<1>3. \A q \in Holders : \A p \in Calls \ {q} : pc[p] = "read" => conn[p] # conn[q]
  BY DEF IInv, ConnAccounted, Holders
<1> QED BY <1>1, <1>2, <1>3, DotAssumption DEF IInv, ConnAccounted, Distinct

LEMMA BeginStep ==
    ASSUME IInv, NEW q \in Calls, Begin(q)
    PROVE  IInv'
<1>1. TypeOK'
  BY DEF Begin, IInv, TypeOK
<1>2. Holders' = Holders /\ Open' = Open
  BY DEF Begin, Holders, Open, IInv, TypeOK
<1>3. ConnAccounted'
  BY <1>1, <1>2, SameOwners DEF Begin
<1>4. CallInv(q)'
  BY DEF Begin, IInv, TypeOK, CallInv, Holding
<1>5. \A p \in Calls \ {q} : CallInv(p)'
  BY OthersKeep DEF Begin, IInv, TypeOK
<1>6. \A c \in Conns : Quiet(c)' \/ Reading(c)'
  BY DEF Begin, IInv, TypeOK, Quiet, Reading
<1> QED BY <1>1, <1>3, <1>4, <1>5, <1>6 DEF IInv

LEMMA TakeConnStep ==
    ASSUME IInv, NEW q \in Calls, TakeConn(q)
    PROVE  IInv'
<1>. DEFINE c == Head(pool)
<1>1. /\ c \in Conns /\ c \in Elements(pool) /\ pool' \in Seq(Conns) /\ Distinct(pool')
      /\ Elements(pool') = Elements(pool) \ {c} /\ Len(pool') <= Len(pool)
  BY Before, ReceiveDistinct DEF TakeConn
<1>2. /\ conn' = [conn EXCEPT ![q] = c] /\ pc' = [pc EXCEPT ![q] = "check"] /\ pc[q] = "get"
      /\ UNCHANGED <<attempt, out, link, unanswered, inbox>>
  BY DEF TakeConn
<1>. HIDE DEF c
<1>3. TypeOK'
  BY <1>1, <1>2 DEF IInv, TypeOK
<1>4. q \notin Holders /\ Holders' = Holders \cup {q} /\ Open' = Open
  BY <1>2 DEF Holders, Open, IInv, TypeOK
<1>5. c \in Open /\ c \notin {conn[p] : p \in Holders}
  BY <1>1 DEF IInv, ConnAccounted, Pooled, Elements
<1>6. Len(pool') \in Nat /\ Len(pool') <= PoolSize
  BY <1>1, Before, LenProperties
<1>7. ConnAccounted'
  BY <1>1, <1>2, <1>3, <1>4, <1>5, <1>6, GainConn
<1>8. CallInv(q)'
  BY <1>1, <1>2 DEF IInv, TypeOK, CallInv, Holding
<1>9. \A p \in Calls \ {q} : CallInv(p)'
  BY <1>2, OthersKeep DEF IInv, TypeOK
<1>10. \A d \in Conns : Quiet(d)' \/ Reading(d)'
  BY <1>2 DEF IInv, TypeOK, Quiet, Reading
<1> QED BY <1>3, <1>7, <1>8, <1>9, <1>10 DEF IInv

\* Closing the connection a call holds, whatever it goes on with.
LEMMA CloseStep ==
    ASSUME IInv, NEW q \in Calls, q \in Holders, NEW l \in {"get", "ok", "failed"},
           Close(conn[q]), Drop(q, l), UNCHANGED <<pool, out>>,
           NEW n \in 0..MaxAttempts, attempt' = [attempt EXCEPT ![q] = n],
           l = "get" => n < MaxAttempts, l = "ok" => out[q] = q
    PROVE  IInv'
<1>1. conn[q] \in Conns /\ pc[q] \in Holding
  BY DEF IInv, CallInv, Holders, Holding
<1>2. TypeOK'
  <2>1. << >> \in Seq(Calls) /\ {} \in SUBSET Calls
    BY EmptySeq
  <2>2. /\ link' \in [Conns -> {"unused", "open", "fin", "closed"}]
        /\ unanswered' \in [Conns -> SUBSET Calls]
    BY <2>1 DEF Close, IInv, TypeOK
  <2>3. inbox' \in [Conns -> Seq(Calls)]
    BY <2>1 DEF Close, IInv, TypeOK
  <2>4. pc' \in [Calls -> {"new", "get", "check", "write", "read", "put", "ok", "failed"}]
    BY DEF Drop, IInv, TypeOK
  <2>5. conn' \in [Calls -> Conns \cup {Nil}] /\ attempt' \in [Calls -> 0..MaxAttempts]
    BY DEF Drop, IInv, TypeOK
  <2> QED BY <2>2, <2>3, <2>4, <2>5 DEF IInv, TypeOK
<1>3. Holders' = Holders \ {q}
  BY DEF Drop, Holders, IInv, TypeOK
<1>4. Open' = Open \ {conn[q]}
  BY <1>1 DEF Close, Open, IInv, TypeOK
<1>5. ConnAccounted'
  BY <1>2, <1>3, <1>4, Before, LoseConn DEF Drop
<1>6. CallInv(q)'
  BY DEF Drop, IInv, TypeOK, CallInv, Holding
<1>7. \A p \in Calls \ {q} : CallInv(p)'
  <2>1. \A p \in Calls \ {q} :
          /\ pc'[p] = pc[p] /\ conn'[p] = conn[p] /\ out'[p] = out[p] /\ attempt'[p] = attempt[p]
    BY DEF Drop, IInv, TypeOK
  <2>2. \A d \in Conns \ {conn[q]} : unanswered'[d] = unanswered[d] /\ inbox'[d] = inbox[d]
    BY DEF Close, IInv, TypeOK
  <2>3. \A p \in Calls \ {q} : pc[p] = "read" => conn[p] \in Conns \ {conn[q]}
    BY Before DEF IInv, CallInv, Holding
  <2> QED BY <2>1, <2>2, <2>3, OthersKeep
<1>8. ASSUME NEW d \in Conns PROVE Quiet(d)' \/ Reading(d)'
  <2>1. CASE d = conn[q]
    BY <1>1, <2>1 DEF Close, Quiet, IInv, TypeOK
  <2>2. CASE d # conn[q]
    <3>1. unanswered'[d] = unanswered[d] /\ inbox'[d] = inbox[d]
      BY <2>2 DEF Close, IInv, TypeOK
    <3>2. Reading(d) => Reading(d)'
      BY <2>2 DEF Reading, Drop, IInv, TypeOK
    <3> QED BY <3>1, <3>2 DEF Quiet, IInv
  <2> QED BY <2>1, <2>2
<1> QED BY <1>2, <1>5, <1>6, <1>7, <1>8 DEF IInv

LEMMA CheckStep ==
    ASSUME IInv, NEW q \in Calls, Check(q)
    PROVE  IInv'
<1>1. q \in Holders /\ pc[q] = "check" /\ attempt[q] \in 0..MaxAttempts /\ attempt[q] < MaxAttempts
  BY DEF Check, Holders, IInv, TypeOK, CallInv, Holding
<1>2. CASE IsAlive(conn[q])
  <2>1. pc' = [pc EXCEPT ![q] = "write"]
        /\ UNCHANGED <<pool, conn, link, unanswered, inbox, attempt, out>>
    BY <1>2 DEF Check
  <2>2. TypeOK'
    BY <2>1 DEF IInv, TypeOK
  <2>3. Holders' = Holders /\ Open' = Open
    BY <1>1, <2>1 DEF Holders, Open, IInv, TypeOK
  <2>4. ConnAccounted'
    BY <2>1, <2>2, <2>3, SameOwners
  <2>5. CallInv(q)'
    BY <1>1, <2>1 DEF IInv, TypeOK, CallInv, Holding
  <2>6. \A p \in Calls \ {q} : CallInv(p)'
    BY <2>1, OthersKeep DEF IInv, TypeOK
  <2>7. \A c \in Conns : Quiet(c)' \/ Reading(c)'
    BY <1>1, <2>1 DEF IInv, TypeOK, Quiet, Reading
  <2> QED BY <2>2, <2>4, <2>5, <2>6, <2>7 DEF IInv
<1>3. CASE ~IsAlive(conn[q])
  <2>1. /\ Close(conn[q]) /\ Drop(q, "get") /\ UNCHANGED <<pool, out>>
        /\ attempt' = [attempt EXCEPT ![q] = attempt[q]]
    BY <1>3 DEF Check, DiscardDead, IInv, TypeOK
  <2> QED BY <1>1, <2>1, CloseStep
<1> QED BY <1>2, <1>3

LEMMA DialStep ==
    ASSUME IInv, NEW q \in Calls, Dial(q)
    PROVE  IInv'
<1>1. pc[q] = "get" /\ q \notin Holders /\ attempt[q] < MaxAttempts
  BY DEF Dial, Holders, IInv, CallInv
<1>2. CASE pc' = [pc EXCEPT ![q] = "failed"] /\ UNCHANGED <<conn, link>>
  <2>1. UNCHANGED <<pool, attempt, out, unanswered, inbox>>
    BY DEF Dial
  <2>2. TypeOK'
    BY <1>2, <2>1 DEF IInv, TypeOK
  <2>3. Holders' = Holders /\ Open' = Open
    BY <1>1, <1>2 DEF Holders, Open, IInv, TypeOK
  <2>4. ConnAccounted'
    BY <1>2, <2>1, <2>2, <2>3, SameOwners
  <2>5. CallInv(q)'
    BY <1>2 DEF IInv, TypeOK, CallInv, Holding
  <2>6. \A p \in Calls \ {q} : CallInv(p)'
    BY <1>2, <2>1, OthersKeep DEF IInv, TypeOK
  <2>7. \A c \in Conns : Quiet(c)' \/ Reading(c)'
    BY <1>1, <1>2, <2>1 DEF IInv, TypeOK, Quiet, Reading
  <2> QED BY <2>2, <2>4, <2>5, <2>6, <2>7 DEF IInv
<1>3. CASE ~(pc' = [pc EXCEPT ![q] = "failed"] /\ UNCHANGED <<conn, link>>)
  <2>1. PICK c \in Conns :
          /\ link[c] = "unused" /\ link' = [link EXCEPT ![c] = "open"]
          /\ conn' = [conn EXCEPT ![q] = c]
    BY <1>3 DEF Dial
  <2>2. /\ pc' = [pc EXCEPT ![q] = "write"]
        /\ UNCHANGED <<pool, attempt, out, unanswered, inbox>>
    BY <1>3 DEF Dial
  <2>3. TypeOK'
    BY <2>1, <2>2 DEF IInv, TypeOK
  <2>4. Holders' = Holders \cup {q} /\ Open' = Open \cup {c} /\ c \notin Open
    BY <2>1, <2>2 DEF Holders, Open, IInv, TypeOK
  <2>5. c \notin {conn[p] : p \in Holders} /\ c \notin Elements(pool)
    BY <2>4 DEF IInv, ConnAccounted, Pooled, Elements
  <2>6. Elements(pool') = Elements(pool) \ {c}
    BY <2>2, <2>5
  <2>7. ConnAccounted'
    BY <1>1, <2>1, <2>2, <2>3, <2>4, <2>5, <2>6, Before, GainConn
  <2>8. CallInv(q)'
    BY <1>1, <2>1, <2>2 DEF IInv, TypeOK, CallInv, Holding
  <2>9. \A p \in Calls \ {q} : CallInv(p)'
    BY <2>1, <2>2, OthersKeep DEF IInv, TypeOK
  <2>10. \A d \in Conns : Quiet(d)' \/ Reading(d)'
    BY <1>1, <2>1, <2>2 DEF IInv, TypeOK, Quiet, Reading
  <2> QED BY <2>3, <2>7, <2>8, <2>9, <2>10 DEF IInv
<1> QED BY <1>2, <1>3

\* A connection a call holds without reading from it is quiet.
LEMMA HeldQuiet ==
    ASSUME IInv, NEW q \in Calls, pc[q] \in {"check", "write", "put"}
    PROVE  conn[q] \in Conns /\ Quiet(conn[q])
<1>1. conn[q] \in Conns /\ q \in Holders
  BY DEF IInv, CallInv, Holding, Holders
<1>2. ~Reading(conn[q])
  BY <1>1, Before DEF Reading
<1> QED BY <1>1, <1>2 DEF IInv

LEMMA WriteStep ==
    ASSUME IInv, NEW q \in Calls, Write(q)
    PROVE  IInv'
<1>1. conn[q] \in Conns /\ Quiet(conn[q]) /\ q \in Holders /\ attempt[q] < MaxAttempts
  BY HeldQuiet DEF Write, Holders, IInv, CallInv, Holding
<1>2. PICK s \in SUBSET {q} : unanswered' = [unanswered EXCEPT ![conn[q]] = s]
  BY <1>1 DEF Write, Quiet, IInv, TypeOK
<1>3. /\ pc[q] = "write" /\ pc' = [pc EXCEPT ![q] = "read"]
      /\ UNCHANGED <<pool, attempt, conn, out, link, inbox>>
  BY DEF Write
<1>4. TypeOK'
  <2>1. unanswered' \in [Conns -> SUBSET Calls]
    BY <1>2 DEF IInv, TypeOK
  <2> QED BY <1>3, <2>1 DEF IInv, TypeOK
<1>5. Holders' = Holders /\ Open' = Open
  BY <1>3 DEF Holders, Open, IInv, TypeOK
<1>6. ConnAccounted'
  BY <1>3, <1>4, <1>5, SameOwners
<1>7. CallInv(q)'
  <2>1. OwnAnswerOnly(q)'
    BY <1>1, <1>2, <1>3 DEF OwnAnswerOnly, Quiet, IInv, TypeOK
  <2> QED BY <1>1, <1>3, <2>1 DEF IInv, TypeOK, CallInv, Holding
<1>8. \A p \in Calls \ {q} : CallInv(p)'
  <2>1. \A p \in Calls \ {q} : pc[p] = "read" => conn[p] # conn[q] /\ conn[p] \in Conns
    BY <1>1, Before DEF IInv, CallInv, Holding
  <2> QED BY <1>2, <1>3, <2>1, OthersKeep DEF IInv, TypeOK
<1>9. ASSUME NEW d \in Conns PROVE Quiet(d)' \/ Reading(d)'
  <2>1. CASE d = conn[q]
    BY <1>3, <2>1 DEF Reading, IInv, TypeOK
  <2>2. CASE d # conn[q]
    BY <1>2, <1>3, <2>2 DEF Reading, Quiet, IInv, TypeOK
  <2> QED BY <2>1, <2>2
<1> QED BY <1>4, <1>6, <1>7, <1>8, <1>9 DEF IInv

LEMMA ReadStep ==
    ASSUME IInv, NEW q \in Calls, Read(q)
    PROVE  IInv'
<1>1. conn[q] \in Conns /\ q \in Holders /\ pc[q] = "read" /\ attempt[q] < MaxAttempts
  BY DEF Read, Holders, IInv, CallInv, Holding
<1>2. unanswered[conn[q]] = {} /\ inbox[conn[q]] = <<q>>
  BY DEF Read, IInv, CallInv, OwnAnswerOnly
<1>3. Head(<<q>>) = q /\ Tail(<<q>>) = << >>
  OBVIOUS
<1>4. /\ out' = [out EXCEPT ![q] = q] /\ inbox' = [inbox EXCEPT ![conn[q]] = << >>]
      /\ pc' = [pc EXCEPT ![q] = "put"]
      /\ UNCHANGED <<pool, attempt, conn, link, unanswered>>
  BY <1>1, <1>2, <1>3 DEF Read, IInv, TypeOK
<1>5. TypeOK'
  <2>1. inbox' \in [Conns -> Seq(Calls)]
    BY <1>4, EmptySeq DEF IInv, TypeOK
  <2> QED BY <1>4, <2>1 DEF IInv, TypeOK
<1>6. Holders' = Holders /\ Open' = Open
  BY <1>1, <1>4 DEF Holders, Open, IInv, TypeOK
<1>7. ConnAccounted'
  BY <1>4, <1>5, <1>6, SameOwners
<1>8. CallInv(q)'
  BY <1>1, <1>4 DEF IInv, TypeOK, CallInv, Holding
<1>9. \A p \in Calls \ {q} : CallInv(p)'
  <2>1. \A p \in Calls \ {q} : pc[p] = "read" => conn[p] # conn[q] /\ conn[p] \in Conns
    BY <1>1, Before DEF IInv, CallInv, Holding
  <2> QED BY <1>4, <2>1, OthersKeep DEF IInv, TypeOK
<1>10. ASSUME NEW d \in Conns PROVE Quiet(d)' \/ Reading(d)'
  <2>1. CASE d = conn[q]
    BY <1>1, <1>2, <1>4, <2>1 DEF Quiet, IInv, TypeOK
  <2>2. CASE d # conn[q]
    BY <1>4, <2>2 DEF Reading, Quiet, IInv, TypeOK
  <2> QED BY <2>1, <2>2
<1> QED BY <1>5, <1>7, <1>8, <1>9, <1>10 DEF IInv

LEMMA PutConnStep ==
    ASSUME IInv, NEW q \in Calls, PutConn(q)
    PROVE  IInv'
<1>1. /\ conn[q] \in Conns /\ Quiet(conn[q]) /\ q \in Holders /\ pc[q] = "put" /\ out[q] = q
      /\ attempt[q] \in 0..MaxAttempts
  BY HeldQuiet DEF PutConn, Holders, IInv, TypeOK, CallInv
<1>2. CASE Len(pool) >= PoolSize
  <2>1. /\ Close(conn[q]) /\ Drop(q, "ok") /\ UNCHANGED <<pool, out>>
        /\ attempt' = [attempt EXCEPT ![q] = attempt[q]]
    BY <1>2, Before DEF PutConn, CloseSurplus, IInv, TypeOK
  <2> QED BY <1>1, <2>1, CloseStep
<1>3. CASE Len(pool) < PoolSize
  <2>1. /\ pool' = Append(pool, conn[q]) /\ Drop(q, "ok")
        /\ UNCHANGED <<link, unanswered, inbox, attempt, out>>
    BY <1>3, Before DEF PutConn
  <2>2. /\ pool' \in Seq(Conns) /\ Distinct(pool') /\ Len(pool') = Len(pool) + 1
        /\ Elements(pool') = Elements(pool) \cup {conn[q]}
    BY <1>1, <2>1, Before, SendDistinct
  <2>3. TypeOK'
    BY <2>1, <2>2 DEF Drop, IInv, TypeOK
  <2>4. Holders' = Holders \ {q} /\ Open' = Open
    BY <2>1 DEF Drop, Holders, Open, IInv, TypeOK
  <2>5. Len(pool') <= PoolSize
    BY <1>3, <2>2, Before
  <2>6. ConnAccounted'
    BY <1>1, <2>1, <2>2, <2>3, <2>4, <2>5, LoseConn DEF Drop
  <2>7. CallInv(q)'
    BY <1>1, <2>1 DEF Drop, IInv, TypeOK, CallInv, Holding
  <2>8. \A p \in Calls \ {q} : CallInv(p)'
    BY <2>1, OthersKeep DEF Drop, IInv, TypeOK
  <2>9. \A d \in Conns : Quiet(d)' \/ Reading(d)'
    BY <1>1, <2>1 DEF Drop, IInv, TypeOK, Quiet, Reading
  <2> QED BY <2>3, <2>6, <2>7, <2>8, <2>9 DEF IInv
<1> QED BY <1>2, <1>3, Before

LEMMA TransientErrorStep ==
    ASSUME IInv, NEW q \in Calls, TransientError(q)
    PROVE  IInv'
<1>. DEFINE n == attempt[q] + 1
            l == IF TriesLeft(n) THEN "get" ELSE "failed"
<1>1. q \in Holders /\ attempt[q] \in Nat /\ attempt[q] < MaxAttempts
  BY DEF TransientError, Holders, IInv, TypeOK, CallInv, Holding, MaxAttempts
<1>2. n \in 0..MaxAttempts
  BY <1>1 DEF MaxAttempts
<1>3. l \in {"get", "ok", "failed"} /\ (l = "get" => n < MaxAttempts) /\ l # "ok"
  BY <1>2 DEF TriesLeft
<1>4. /\ Close(conn[q]) /\ Drop(q, l) /\ UNCHANGED <<pool, out>>
      /\ attempt' = [attempt EXCEPT ![q] = n]
  BY DEF TransientError
<1>. HIDE DEF n, l
<1> QED BY <1>1, <1>2, <1>3, <1>4, CloseStep

LEMMA OtherErrorStep ==
    ASSUME IInv, NEW q \in Calls, OtherError(q)
    PROVE  IInv'
<1>1. q \in Holders /\ attempt[q] \in 0..MaxAttempts
  BY DEF OtherError, Holders, IInv, TypeOK
<1>2. /\ Close(conn[q]) /\ Drop(q, "failed") /\ UNCHANGED <<pool, out>>
      /\ attempt' = [attempt EXCEPT ![q] = attempt[q]]
  BY DEF OtherError, CloseAfterError, IInv, TypeOK
<1> QED BY <1>1, <1>2, CloseStep

LEMMA AnswerStep ==
    ASSUME IInv, NEW c \in Conns, Answer(c)
    PROVE  IInv'
<1>1. PICK r \in unanswered[c] :
        /\ unanswered' = [unanswered EXCEPT ![c] = @ \ {r}]
        /\ inbox' = [inbox EXCEPT ![c] = Append(@, r)]
  BY DEF Answer
<1>2. UNCHANGED <<pool, pc, attempt, conn, out, link>>
  BY DEF Answer
<1>3. Reading(c)
  BY <1>1 DEF IInv, Quiet
<1>4. PICK q \in Calls : pc[q] = "read" /\ conn[q] = c
  BY <1>3 DEF Reading
<1>5. OwnAnswerOnly(q) /\ q \in Holders
  BY <1>4 DEF IInv, CallInv, Holders
<1>6. r = q /\ unanswered[c] = {q} /\ inbox[c] = << >> /\ Append(<< >>, q) = <<q>>
  BY <1>1, <1>4, <1>5 DEF OwnAnswerOnly
<1>7. unanswered' = [unanswered EXCEPT ![c] = {}] /\ inbox' = [inbox EXCEPT ![c] = <<q>>]
  BY <1>1, <1>6 DEF IInv, TypeOK
<1>8. TypeOK'
  <2>1. <<q>> \in Seq(Calls)
    OBVIOUS
  <2>2. inbox' \in [Conns -> Seq(Calls)]
    BY <1>7, <2>1 DEF IInv, TypeOK
  <2>3. unanswered' \in [Conns -> SUBSET Calls]
    BY <1>7 DEF IInv, TypeOK
  <2> QED BY <1>2, <2>2, <2>3 DEF IInv, TypeOK
<1>9. Holders' = Holders /\ Open' = Open
  BY <1>2 DEF Holders, Open
<1>10. ConnAccounted'
  BY <1>2, <1>8, <1>9, SameOwners
<1>11. CallInv(q)'
  <2>1. OwnAnswerOnly(q)'
    BY <1>2, <1>4, <1>7 DEF OwnAnswerOnly, IInv, TypeOK
  <2> QED BY <1>2, <2>1 DEF CallInv, IInv
<1>12. \A p \in Calls \ {q} : CallInv(p)'
  <2>1. \A p \in Calls \ {q} : pc[p] = "read" => conn[p] # c /\ conn[p] \in Conns
    BY <1>4, <1>5, Before DEF IInv, CallInv, Holding
  <2> QED BY <1>2, <1>7, <2>1, OthersKeep DEF IInv, TypeOK
<1>13. \A d \in Conns : Quiet(d)' \/ Reading(d)'
  BY <1>2, <1>3, <1>7 DEF IInv, TypeOK, Quiet, Reading
<1> QED BY <1>8, <1>10, <1>11, <1>12, <1>13 DEF IInv

LEMMA HangupStep ==
    ASSUME IInv, NEW c \in Conns, Hangup(c)
    PROVE  IInv'
<1>1. /\ link[c] = "open" /\ link' = [link EXCEPT ![c] = "fin"]
      /\ unanswered' = [unanswered EXCEPT ![c] = {}]
      /\ UNCHANGED <<pool, pc, attempt, conn, out, inbox>>
  BY DEF Hangup
<1>2. TypeOK'
  BY <1>1 DEF IInv, TypeOK
<1>3. Holders' = Holders /\ Open' = Open
  BY <1>1 DEF Holders, Open, IInv, TypeOK
<1>4. ConnAccounted'
  BY <1>1, <1>2, <1>3, SameOwners
<1>5. ASSUME NEW q \in Calls PROVE CallInv(q)'
  <2>1. CallInv(q)
    BY DEF IInv
  <2>2. \A d \in Conns : unanswered'[d] = unanswered[d] \/ unanswered'[d] = {}
    BY <1>1 DEF IInv, TypeOK
  <2>3. pc[q] = "read" => OwnAnswerOnly(q)'
    BY <1>1, <2>1, <2>2 DEF CallInv, OwnAnswerOnly, Holding
  <2> QED BY <1>1, <2>1, <2>3 DEF CallInv
<1>6. \A d \in Conns : Quiet(d)' \/ Reading(d)'
  BY <1>1 DEF IInv, TypeOK, Quiet, Reading
<1> QED BY <1>2, <1>4, <1>5, <1>6 DEF IInv

LEMMA NextIInv == IInv /\ [Next]_vars => IInv'
<1>. SUFFICES ASSUME IInv, [Next]_vars PROVE IInv'
  OBVIOUS
<1>1. ASSUME NEW q \in Calls, Resolve(q) PROVE IInv'
  BY <1>1, TakeConnStep, CheckStep, DialStep, WriteStep, ReadStep, PutConnStep,
     TransientErrorStep, OtherErrorStep DEF Resolve
<1>2. CASE UNCHANGED vars
  <2>1. TypeOK' /\ Holders' = Holders /\ Open' = Open
    BY <1>2 DEF vars, IInv, TypeOK, Holders, Open
  <2>2. ConnAccounted'
    BY <1>2, <2>1, SameOwners DEF vars
  <2>3. \A q \in Calls : CallInv(q)'
    BY <1>2 DEF vars, IInv, CallInv, OwnAnswerOnly
  <2>4. \A c \in Conns : Quiet(c)' \/ Reading(c)'
    BY <1>2 DEF vars, IInv, Quiet, Reading
  <2> QED BY <2>1, <2>2, <2>3, <2>4 DEF IInv
<1> QED BY <1>1, <1>2, BeginStep, AnswerStep, HangupStep DEF Next

\* The inductive invariant of the pool: a connection is quiet unless the call that
\* has it reads from it.
THEOREM SpecIInv == Spec => []IInv
BY InitIInv, NextIInv, PTL DEF Spec

-----------------------------------------------------------------------------

\* The variables of the DoT resolver keep their types; no call makes more than
\* MaxAttempts attempts.
THEOREM TypeCorrect == Spec => []TypeOK
<1>1. IInv => TypeOK
  BY DEF IInv
<1> QED BY <1>1, SpecIInv, PTL

\* No interleaving of calls of Resolve leaks a connection, lets two calls share
\* one, uses one after Close or overfills the pool.
THEOREM NoLeakNoSharing == Spec => []ConnAccounted
<1>1. IInv => ConnAccounted
  BY DEF IInv
<1> QED BY <1>1, SpecIInv, PTL

\* The one-byte read of the health check never eats into a message.
THEOREM HealthCheckHarmless == Spec => []CheckNonDestructive
<1>1. IInv => CheckNonDestructive
  BY HeldQuiet DEF CheckNonDestructive, Quiet
<1> QED BY <1>1, SpecIInv, PTL

\* A query is answered with its own answer even if all queries have the same
\* identifier: reuse of connections never mixes answers up.
THEOREM OwnAnswer == Spec => []AnswerMatches
<1>1. IInv => AnswerMatches
  BY DEF IInv, CallInv, AnswerMatches
<1> QED BY <1>1, SpecIInv, PTL
=============================================================================
