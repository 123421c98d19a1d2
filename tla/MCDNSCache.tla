----------------------------- MODULE MCDNSCache -----------------------------
(* TLC instances of DNSCache. *)
EXTENDS DNSCache, FiniteSets, TLC

CONSTANTS
    x, a1,
    OverlapAt       \* when more than one goroutine may be inside a call

MCNames == {x}
MCAddrs == {a1}

A(addr, ttl) == [kind |-> "A", data |-> addr, ttl |-> ttl]
Txt(ttl) == [kind |-> "TXT", data |-> x, ttl |-> ttl]
\* The TTL field of an OPT record holds flags.
Opt == [kind |-> "OPT", data |-> x, ttl |-> 0]

Msg(rrs) == [key |-> <<x, "A">>, ok |-> TRUE, truncated |-> FALSE, rrs |-> rrs]

\* Records whose TTLs differ, a TTL above MaxAge, and the responses Add refuses.
MCResponses ==
    {Msg({A(a1, 5), Txt(1), Opt}), Msg({A(a1, 5)}), Msg({A(a1, 0)}), Msg({}),
     [Msg({A(a1, 1)}) EXCEPT !.ok = FALSE], [Msg({A(a1, 1)}) EXCEPT !.truncated = TRUE]}

OneLocalRR == {[name |-> x, rr |-> A(a1, 0)]}

\* Calls overlap at the time when a TTL of one second has just run out.
Overlap ==
    now \in OverlapAt \/ Cardinality({c \in Callers : pc[c] # "idle"}) <= 1

Symmetry == Permutations(Callers)
=============================================================================
