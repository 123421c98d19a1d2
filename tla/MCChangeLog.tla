---------------------------- MODULE MCChangeLog -----------------------------
(* TLC instances of ChangeLog. *)
EXTENDS ChangeLog, TLC

CONSTANTS up, low, v1, v2

\* One domain lies below the other.
UpAndLow(d) == IF d = low THEN {low, up} ELSE {d}

\* A file that blocks the upper domain, with and without a type.
OneFile == {<<up, "ANY">>, <<up, "A">>}

NoZone == [key \in Keys |-> Nil]

Config(block, localRR, localRRPtr) ==
    [block |-> block, blockDelete |-> {},
     localRR |-> [key \in Keys |-> localRR], localRRPtr |-> [key \in Keys |-> localRRPtr]]

Entry(d, t, canonical) == [name |-> d, qtype |-> t, canonical |-> canonical]

\* Entries for both domains, one in two spellings, with a type and with ANY.
Sends == {Entry(up, "none", TRUE), Entry(up, "A", TRUE), Entry(low, "none", TRUE),
          Entry(low, "none", FALSE), Entry(low, "ANY", TRUE)}

Deletes == Sends \cup {Nil}

\* One of these entries, two of them, one and then one that is refused.
Adds == {<<e>> : e \in Sends}
        \cup {<<Entry(up, "A", TRUE), Entry(low, "none", FALSE)>>,
              <<Entry(low, "none", TRUE), Nil, Entry(up, "none", TRUE)>>}

\* The lower domain is blocked by an entry that is spelled differently; a record
\* without and one with PTR.
Configs == {Config({Entry(low, "none", FALSE)}, v1, Nil), Config({}, Nil, v1)}

Symmetric == Permutations(Callers)
=============================================================================
