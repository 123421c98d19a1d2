----------------------------- MODULE EagerCache -----------------------------
(***************************************************************************)
(* What the response cache promises its users: a map from keys to items in *)
(* which an item stays until a client's request replaces or deletes it or  *)
(* it expires, and vanishes the moment it expires.  There is no flushing.  *)
(* A client's requests take effect one after the other, each in one step.  *)
(***************************************************************************)
EXTENDS Integers

CONSTANTS Clients, Keys, Item, Nil

VARIABLES
    now,
    live,       \* the items, with Nil for a key that has none
    request     \* for each client, what the keys of its request are to hold

vars == <<now, live, request>>

Valid(item, t) == item # Nil /\ (item.permanent \/ t <= item.expires)

IfValid(item, t) == IF Valid(item, t) THEN item ELSE Nil

NoRequest == [k \in {} |-> Nil]

Init ==
    /\ now = 0
    /\ live = [k \in Keys |-> Nil]
    /\ request = [c \in Clients |-> NoRequest]

\* The request r with the keys it names set as it says.
Applied(r) == [k \in Keys |-> IF k \in DOMAIN r THEN IfValid(r[k], now) ELSE live[k]]

\* Client c has a new request, or none.
Renew(c) ==
    /\ DOMAIN request'[c] \subseteq Keys
    /\ \A k \in DOMAIN request'[c] : request'[c][k] \in Item \cup {Nil}
    /\ request' = [request EXCEPT ![c] = request'[c]]

Ask(c) ==
    /\ request[c] = NoRequest
    /\ Renew(c)
    /\ UNCHANGED <<now, live>>

Apply(c) ==
    /\ live' = Applied(request[c])
    /\ Renew(c)
    /\ UNCHANGED now

Tick ==
    /\ now' = now + 1
    /\ live' = [k \in Keys |-> IfValid(live[k], now')]
    /\ UNCHANGED request

Next == (\E c \in Clients : Ask(c) \/ Apply(c)) \/ Tick

Spec == Init /\ [][Next]_vars
=============================================================================
