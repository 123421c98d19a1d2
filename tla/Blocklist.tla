----------------------------- MODULE Blocklist ------------------------------
(***************************************************************************)
(* The blocklist, src/blocklist: a trie over the labels of domain names,   *)
(* the top-level domain nearest to the root.                               *)
(*                                                                         *)
(* A name is the sequence of its labels, as splitName returns it.  A level *)
(* of the trie is identified with the domain it stands for, so its parent  *)
(* is the Tail of it and the root is the empty sequence; the path that the *)
(* recursive methods follow from the root to a name consists of the        *)
(* suffixes of the name.  A level that is taken out of its parent's map of *)
(* children keeps what it holds, and so do the levels below it: they are   *)
(* out of reach, until Add puts a new level in that place.                 *)
(* Every operation runs under the list's mutex.                            *)
(***************************************************************************)
EXTENDS Naturals, Sequences, FiniteSets

CONSTANTS
    Labels,
    Domains,        \* domain names, as sequences of labels
    Names,          \* the ones that the calls are about
    QTypes          \* query types other than ANY

\* The path from a name up to the root.
Suffixes(name) == {SubSeq(name, i, Len(name)) : i \in 1..Len(name)} \cup {<< >>}

Types == QTypes \cup {"ANY"}

\* Entries "domain[:qtype]": qtype is "none" if it is missing, "bad" if it is
\* not the name of a type or there is more than one.
Entries == [name : Names, qtype : Types \cup {"none", "bad"}]

ASSUME BlocklistAssumption ==
    /\ \A d \in Domains : d \in Seq(Labels)
    /\ \A d \in Domains : Suffixes(d) \subseteq Domains
    /\ << >> \in Domains
    /\ Names \subseteq Domains
    /\ QTypes \cap {"ANY", "none", "bad"} = {}
    /\ IsFiniteSet(Domains) /\ IsFiniteSet(QTypes)

VARIABLES
    links,          \* the levels that are in the Children of their parent
    blockAny,       \* BlockAny of the levels
    blockQtype,     \* BlockQtype of the levels
    result          \* what the last operation returned

vars == <<links, blockAny, blockQtype, result>>

\* New: a root level.
Init ==
    /\ links = {}
    /\ blockAny = {}
    /\ blockQtype = [d \in Domains |-> << >>]
    /\ result = "none"

\* A Boolean result.
Answer(b) == IF b THEN "true" ELSE "false"

\* The path from the root to name exists.
Reached(name) == Suffixes(name) \subseteq links \cup {<< >>}

-----------------------------------------------------------------------------

Contains(s, value) == \E i \in 1..Len(s) : s[i] = value

\* Mutant: without the check that the type is not already there.
Appended(s, qtype) == Append(s, qtype)

\* "Check qtype not already blocked"
Added(s, qtype) == IF Contains(s, qtype) THEN s ELSE Append(s, qtype)

\* The trie with a new level wherever the path to name has none.  A new level has
\* no rules and no children.
Missing(name) == {d \in Suffixes(name) : ~Reached(d)}

Linked(name) == {d \in links : Tail(d) \notin Missing(name)} \cup Missing(name)

Listed(name, d) == IF d \in Missing(name) THEN << >> ELSE blockQtype[d]

\* Mutant: ANY is stored like any other type.
AddAnyAsType(name, qtype) ==
    /\ result' = "none"
    /\ links' = Linked(name)
    /\ blockAny' = blockAny \ Missing(name)
    /\ blockQtype' = [d \in Domains |->
        IF d = name THEN Added(Listed(name, d), qtype) ELSE Listed(name, d)]

\* Add: create the missing levels, then set the rule on the last one.
Add(name, qtype) ==
    /\ result' = "none"
    /\ links' = Linked(name)
    /\ blockAny' = (blockAny \ Missing(name)) \cup IF qtype = "ANY" THEN {name} ELSE {}
    /\ blockQtype' = [d \in Domains |->
        IF d = name /\ qtype # "ANY" THEN Added(Listed(name, d), qtype) ELSE Listed(name, d)]

\* A level blocks a query type.
Blocks(d, qtype) == d \in blockAny \/ Contains(blockQtype[d], qtype)

\* Match: look for a level that blocks, from the root down as far as the path goes.
Match(name, qtype) ==
    /\ result' = Answer(\E d \in Suffixes(name) : Reached(d) /\ Blocks(d, qtype))
    /\ UNCHANGED <<links, blockAny, blockQtype>>

\* Mutant: the types after the deleted one are lost.
Truncated(s, i) == SubSeq(s, 1, i - 1)

\* "append((l.BlockQtype)[:i], (l.BlockQtype)[i+1:]...)"
Removed(s, i) == SubSeq(s, 1, i - 1) \o SubSeq(s, i + 1, Len(s))

\* Delete: take one rule off the level of name, if there is such a level and
\* such a rule.  The level itself stays.
Delete(name, qtype) ==
    /\ \/ /\ Reached(name) /\ qtype = "ANY" /\ name \in blockAny
          /\ result' = "true"
          /\ blockAny' = blockAny \ {name}
          /\ UNCHANGED blockQtype
       \/ /\ Reached(name) /\ ~(qtype = "ANY" /\ name \in blockAny)
          /\ result' = "true"
          /\ \E i \in 1..Len(blockQtype[name]) :
              /\ blockQtype[name][i] = qtype
              /\ \A j \in 1..i-1 : blockQtype[name][j] # qtype
              /\ blockQtype' = [blockQtype EXCEPT ![name] = Removed(@, i)]
          /\ UNCHANGED blockAny
       \/ /\ ~(Reached(name) /\ qtype = "ANY" /\ name \in blockAny)
          /\ ~(Reached(name) /\ Contains(blockQtype[name], qtype))
          /\ result' = "false"
          /\ UNCHANGED <<blockAny, blockQtype>>
    /\ UNCHANGED links

\* DeleteTree: follow the path to the parent and take the level out of its
\* Children; the levels below are not touched.  It indexes parts[-1] for the
\* root, so a name has labels here.
Unlink(name) ==
    /\ links' = IF Reached(Tail(name)) THEN links \ {name} ELSE links
    /\ UNCHANGED <<blockAny, blockQtype>>

DeleteTree(name) == result' = Answer(Reached(name)) /\ Unlink(name)

-----------------------------------------------------------------------------
(* Entries *)

\* Nothing is done, and r returned.
Ignore(r) ==
    /\ result' = r
    /\ UNCHANGED <<links, blockAny, blockQtype>>

Qtype(e, default) == IF e.qtype = "none" THEN default ELSE e.qtype

\* AddEntry, which the configuration, the list files and the API call.
AddEntry(e, default) ==
    \/ e.qtype = "bad" /\ Ignore("error")
    \/ e.qtype # "bad" /\ Add(e.name, Qtype(e, default))

\* AddHostsEntry: a line without a second field is refused; lines for other
\* addresses than 0.0.0.0, and the line that names 0.0.0.0 itself, are skipped.
AddHostsEntry(e, ip) ==
    \/ ip = "missing" /\ Ignore("error")
    \/ ip = "other" /\ Ignore("none")
    \/ ip = "0.0.0.0" /\ AddEntry(e, "ANY")

DeleteEntry(e, default) ==
    \/ e.qtype = "bad" /\ Ignore("error")
    \/ e.qtype # "bad" /\ Delete(e.name, Qtype(e, default))

\* The -block-delete option passes the entry to DeleteTree as it is written: with
\* a type it ends in a label that no level has.  The result is ignored.
BlockDelete(e) ==
    /\ e.name # << >>
    /\ \/ e.qtype = "none" /\ result' = "none" /\ Unlink(e.name)
       \/ e.qtype # "none" /\ Ignore("none")

Addresses == {"0.0.0.0", "other", "missing"}

Next ==
    \/ \E e \in Entries, default \in Types : AddEntry(e, default)
    \/ \E e \in Entries, ip \in Addresses : AddHostsEntry(e, ip)
    \/ \E e \in Entries : DeleteEntry(e, "ANY")
    \/ \E e \in Entries : BlockDelete(e)
    \/ \E name \in Names \ {<< >>} : DeleteTree(name)
    \/ \E name \in Names, qtype \in Types : Match(name, qtype)

Spec == Init /\ [][Next]_vars

-----------------------------------------------------------------------------
(* Properties *)

TypeOK ==
    /\ links \subseteq Domains \ {<< >>}
    /\ blockAny \subseteq Domains
    /\ blockQtype \in [Domains -> Seq(QTypes)]
    /\ result \in {"none", "true", "false", "error"}

\* What Count adds up over the levels that it reaches: one for BlockAny and one for
\* each element of BlockQtype.
Counted ==
    {<<d, 0>> : d \in {c \in blockAny : Reached(c)}} \cup
    UNION {{<<d, i>> : i \in 1..Len(blockQtype[d])} : d \in {c \in Domains : Reached(c)}}

Count == Cardinality(Counted)

\* The rules that are in effect.
Rules ==
    {rule \in Domains \X Types :
        /\ Reached(rule[1])
        /\ IF rule[2] = "ANY" THEN rule[1] \in blockAny ELSE Contains(blockQtype[rule[1]], rule[2])}

\* The number of entries that the server logs and the API reports is the number of
\* rules in effect: a rule that is added again counts once (one Delete then takes
\* it away), and the rules under a level that DeleteTree took out do not count,
\* nor come back when a name in its place is added.
CountsRules == Count = Cardinality(Rules)

Set == INSTANCE BlockSet WITH rules <- Rules

\* Every operation, with the arguments it was called with, returns and does what
\* the same operation says of the set of rules, whatever was added and deleted
\* before and in whatever order.
ImplementsSet ==
    /\ Set!Init
    /\ [][/\ \A e \in Entries, default \in Types :
                AddEntry(e, default) => Set!AddEntry(e, default)
          /\ \A e \in Entries, ip \in Addresses : AddHostsEntry(e, ip) => Set!AddHostsEntry(e, ip)
          /\ \A e \in Entries : DeleteEntry(e, "ANY") => Set!DeleteEntry(e, "ANY")
          /\ \A e \in Entries : BlockDelete(e) => Set!BlockDelete(e)
          /\ \A name \in Names \ {<< >>} : DeleteTree(name) => Set!DeleteTree(name)
          /\ \A name \in Names, qtype \in Types : Match(name, qtype) => Set!Match(name, qtype)
         ]_vars
=============================================================================
