------------------------------ MODULE BlockSet ------------------------------
(***************************************************************************)
(* What the blocklist promises: a set of rules.  A rule names a domain and *)
(* a query type, or ANY for all of them, and blocks the domain and every   *)
(* domain below it.  Each operation is given by what it returns and leaves *)
(* in the set, for the arguments of the call.                              *)
(***************************************************************************)
CONSTANT
    Suffixes(_)     \* a domain and the domains above it

VARIABLES rules, result

Blocked(name, qtype) ==
    \E rule \in rules : rule[1] \in Suffixes(name) /\ rule[2] \in {"ANY", qtype}

Below(name) == {rule \in rules : name \in Suffixes(rule[1])}

Answer(b) == IF b THEN "true" ELSE "false"

Init == rules = {} /\ result = "none"

Add(name, qtype) ==
    /\ rules' = rules \cup {<<name, qtype>>}
    /\ result' = "none"

Match(name, qtype) ==
    /\ result' = Answer(Blocked(name, qtype))
    /\ UNCHANGED rules

Delete(name, qtype) ==
    /\ result' = Answer(<<name, qtype>> \in rules)
    /\ rules' = rules \ {<<name, qtype>>}

\* The result may be true although there was no rule left to delete.
DeleteTree(name) ==
    /\ \/ result' = "true"
       \/ result' = "false" /\ Below(name) = {}
    /\ rules' = rules \ Below(name)

-----------------------------------------------------------------------------
(* The same with entries: an entry without a type is for the default one, one *)
(* with a bad type is refused.                                                *)

Ignore(r) == result' = r /\ UNCHANGED rules

AddEntry(e, default) ==
    CASE e.qtype = "bad"  -> Ignore("error")
      [] e.qtype = "none" -> Add(e.name, default)
      [] OTHER            -> Add(e.name, e.qtype)

\* Lines of a hosts file, of which those for 0.0.0.0 are entries.
AddHostsEntry(e, ip) ==
    CASE ip = "missing" -> Ignore("error")
      [] ip = "other"   -> Ignore("none")
      [] OTHER          -> AddEntry(e, "ANY")

DeleteEntry(e, default) ==
    CASE e.qtype = "bad"  -> Ignore("error")
      [] e.qtype = "none" -> Delete(e.name, default)
      [] OTHER            -> Delete(e.name, e.qtype)

\* Takes away a domain with all below it; an entry with a type names no domain.
BlockDelete(e) ==
    /\ result' = "none"
    /\ rules' = IF e.qtype = "none" THEN rules \ Below(e.name) ELSE rules
=============================================================================
