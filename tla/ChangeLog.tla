----------------------------- MODULE ChangeLog ------------------------------
(***************************************************************************)
(* Changes made through the API and what becomes of them: the change log   *)
(* (src/api/changelog.go), the calls that edit the blocklist and the local *)
(* records and then log the edit (src/api/jsonrpc.go), the configuration   *)
(* that GetMergedConfig makes of it, and the start from such a             *)
(* configuration or the refresh of the blocklist (src/config/              *)
(* userconfig.go, src/server/server.go).                                   *)
(*                                                                         *)
(* The edit and its entry in the log are two steps, each atomic under a    *)
(* mutex of its own.  BlockListAdd takes the two steps for one entry of    *)
(* its request after the other.  The list in use is the set of its rules   *)
(* (Blocklist implements BlockSet); of the cache only the permanent        *)
(* records are here, and not the PTR records made for them, which the log  *)
(* never sees (DNSCache has both).                                         *)
(***************************************************************************)
EXTENDS Naturals, Sequences

CONSTANTS
    Callers,        \* goroutines that serve API calls
    Domains,        \* domain names; they have labels
    Suffixes(_),    \* a domain and the domains above it
    QTypes,         \* query types other than ANY
    Requests,       \* the lists of entries that are sent to BlockListAdd
    Deletions,      \* the entries that are sent to BlockListDelete
    FileRules,      \* rules from the -blocklist... files
    Keys, Values,   \* of local records: name and type, and the data
    ZoneRRs,        \* records from the zone files
    Startup,        \* the configurations of the first start
    MaxCalls,       \* bound on the number of calls that change something
    MaxRestarts,    \* bound on the number of restarts
    Nil             \* nothing; as an entry, one that is refused

Types == QTypes \cup {"ANY"}
Rules == Domains \X Types

\* Entries "domain[:qtype]": qtype is "none" if it is missing.  An entry is
\* canonical if it is spelled as the log's keys are.
Entries == [name : Domains, qtype : Types \cup {"none"}, canonical : BOOLEAN]

Records == [Keys -> Values \cup {Nil}]

\* The part of a UserConfig that the changes are about.  Of several local
\* records with one key the last one counts.
UserConfigs == [block : SUBSET Entries, blockDelete : SUBSET Entries,
                localRR : Records, localRRPtr : Records]

\* An edit, and the operation of the log that is to follow it.
Edits ==
    [op : {"addBlock", "removeBlock"}, on : Rules, arg : Entries]
    \cup [op : {"addRR", "addRRPtr"}, on : Keys, arg : Values]
    \cup [op : {"removeRR"}, on : Keys, arg : {Nil}]

ASSUME ChangeLogAssumption ==
    /\ "none" \notin Types
    /\ Nil \notin Values \cup Edits \cup Entries /\ Keys \cap Rules = {}
    /\ \A d \in Domains : d \in Suffixes(d)
    /\ Requests \subseteq Seq(Entries \cup {Nil})
    /\ Deletions \subseteq Entries \cup {Nil}
    /\ FileRules \subseteq Rules
    /\ ZoneRRs \in Records
    /\ Startup \subseteq UserConfigs
    /\ MaxCalls \in Nat /\ MaxRestarts \in Nat

VARIABLES
    uc,             \* config.UserConfig
    rules,          \* the blocklist in use
    local,          \* the permanent records of the cache
    blocks, blockDeletes, localRRs, localRRPtrs, localRRDeletes,
    todo,           \* of each caller: the entries that BlockListAdd has yet to add
    pending,        \* of each caller: the edit that is done and not yet logged
    tangled,        \* history: rules and keys whose changes do not cancel out
    calls, restarts

log == <<blocks, blockDeletes>>
logRR == <<localRRs, localRRPtrs, localRRDeletes>>
vars == <<uc, rules, local, log, logRR, todo, pending, tangled, calls, restarts>>

NoRecords == [k \in Keys |-> Nil]

-----------------------------------------------------------------------------
(* Building the state from a configuration *)

\* Mutant: no default.
RuleAsSent(e) == <<e.name, e.qtype>>

\* AddEntry with ANY as the default.
Rule(e) == <<e.name, IF e.qtype = "none" THEN "ANY" ELSE e.qtype>>

\* DeleteTree takes the entry as it is written: with a type it names no level.
DeleteTree(e) ==
    IF e.qtype = "none" THEN {rule \in Rules : e.name \in Suffixes(rule[1])} ELSE {}

\* The entries and the files, then the deletions.
UpdateBlockList(u) ==
    ({Rule(e) : e \in u.block} \cup FileRules) \ UNION {DeleteTree(e) : e \in u.blockDelete}

\* GetProxyConfig: LocalRR, LocalRRPtr, then the zone files; the last one counts.
LocalRecords(u) ==
    [k \in Keys |-> IF ZoneRRs[k] # Nil THEN ZoneRRs[k]
                    ELSE IF u.localRRPtr[k] # Nil THEN u.localRRPtr[k]
                    ELSE u.localRR[k]]

\* Mutant: the key is the entry as it was sent.
AsSent(e) == e

normalizeBlockEntry(e) == [name |-> e.name, qtype |-> e.qtype, canonical |-> TRUE]

\* filterRRs: the startup records without the deleted ones, then the additions.
filterRRs(startup, additions) ==
    [k \in Keys |-> IF additions[k] # Nil THEN additions[k]
                    ELSE IF k \in localRRDeletes THEN Nil
                    ELSE startup[k]]

\* GetMergedConfig: deletions take an entry out of the block list if it is there
\* and become a block-delete if it is not.
GetMergedConfig(u) ==
    LET removedFromBlock == {normalizeBlockEntry(e) : e \in u.block} \cap blockDeletes IN
    [block |-> {e \in u.block : normalizeBlockEntry(e) \notin blockDeletes} \cup blocks,
     blockDelete |-> u.blockDelete \cup (blockDeletes \ removedFromBlock),
     localRR |-> filterRRs(u.localRR, localRRs),
     localRRPtr |-> filterRRs(u.localRRPtr, localRRPtrs)]

\* The state after a start from u.
StartFrom(u) ==
    /\ uc' = u
    /\ rules' = UpdateBlockList(u)
    /\ local' = LocalRecords(u)
    /\ blocks' = {} /\ blockDeletes' = {}
    /\ localRRs' = NoRecords /\ localRRPtrs' = NoRecords /\ localRRDeletes' = {}
    /\ todo' = [c \in Callers |-> << >>]
    /\ pending' = [c \in Callers |-> Nil]
    /\ tangled' = {}

Init ==
    /\ uc \in Startup
    /\ rules = UpdateBlockList(uc)
    /\ local = LocalRecords(uc)
    /\ blocks = {} /\ blockDeletes = {}
    /\ localRRs = NoRecords /\ localRRPtrs = NoRecords /\ localRRDeletes = {}
    /\ todo = [c \in Callers |-> << >>]
    /\ pending = [c \in Callers |-> Nil]
    /\ tangled = {}
    /\ calls = 0 /\ restarts = 0

-----------------------------------------------------------------------------
(* The blocklist's calls *)

\* A call has edited x, a rule or a key, and not logged it yet.
InFlight(x) == \E c \in Callers : pending[c] # Nil /\ pending[c].on = x

\* A caller takes the next call.
Call(c) ==
    /\ todo[c] = << >> /\ pending[c] = Nil
    /\ calls < MaxCalls /\ calls' = calls + 1

\* What the caller is to log once it has edited x.
Edit(c, op, x, value) ==
    /\ pending[c] = Nil
    /\ pending' = [pending EXCEPT ![c] = [op |-> op, on |-> x, arg |-> value]]

Tangle(x, when) == tangled' = IF when THEN tangled \cup {x} ELSE tangled

\* A rule has one canonical entry; that "domain:ANY" means the same as "domain"
\* escapes the log.
Aliased(e) == e.qtype = "ANY"

AddEntry(c, e) ==
    /\ Edit(c, "addBlock", Rule(e), e)
    /\ rules' = rules \cup {Rule(e)}
    /\ Tangle(Rule(e), Rule(e) \in rules \/ Aliased(e) \/ InFlight(Rule(e)))
    /\ UNCHANGED <<uc, local, log, logRR, restarts>>

DeleteEntry(c, e) ==
    /\ Rule(e) \in rules
    /\ Edit(c, "removeBlock", Rule(e), e)
    /\ rules' = rules \ {Rule(e)}
    /\ Tangle(Rule(e), Aliased(e) \/ InFlight(Rule(e)))
    /\ UNCHANGED <<uc, local, log, logRR, restarts>>

\* The loop of BlockListAdd: an entry that is refused ends it, what was added
\* before it stays.
AddFirst(c, es) ==
    \/ /\ Head(es) # Nil
       /\ AddEntry(c, Head(es))
       /\ todo' = [todo EXCEPT ![c] = Tail(es)]
    \/ /\ Head(es) = Nil
       /\ todo' = [todo EXCEPT ![c] = << >>]
       /\ UNCHANGED <<uc, rules, local, log, logRR, pending, tangled, restarts>>

BlockListAdd(c, es) == es # << >> /\ Call(c) /\ AddFirst(c, es)

\* The first entry is logged, and the loop goes on.
AddNext(c) ==
    /\ pending[c] = Nil /\ todo[c] # << >>
    /\ AddFirst(c, todo[c])
    /\ UNCHANGED calls

\* What is refused or not found is not logged.
BlockListDelete(c, e) ==
    \/ /\ e # Nil /\ Call(c)
       /\ DeleteEntry(c, e)
       /\ UNCHANGED todo
    \/ /\ e # Nil => Rule(e) \notin rules
       /\ UNCHANGED vars

\* The caller's edit is to be logged by op; the call returns, or BlockListAdd goes on.
Logging(c, op) ==
    /\ pending[c] # Nil /\ pending[c].op = op
    /\ pending' = [pending EXCEPT ![c] = Nil]
    /\ UNCHANGED <<uc, rules, local, todo, calls, restarts>>

\* Mutant: adding does not cancel a deletion.
addBlockOnly(c) ==
    LET key == normalizeBlockEntry(pending[c].arg) IN
    /\ Logging(c, "addBlock")
    /\ blocks' = blocks \cup {key}
    /\ UNCHANGED <<blockDeletes, logRR, tangled>>

addBlock(c) ==
    LET key == normalizeBlockEntry(pending[c].arg) IN
    /\ Logging(c, "addBlock")
    /\ \/ /\ key \in blockDeletes
          /\ blockDeletes' = blockDeletes \ {key}
          /\ UNCHANGED blocks
       \/ /\ key \notin blockDeletes
          /\ blocks' = blocks \cup {key}
          /\ UNCHANGED blockDeletes
    /\ UNCHANGED <<logRR, tangled>>

removeBlock(c) ==
    LET key == normalizeBlockEntry(pending[c].arg) IN
    /\ Logging(c, "removeBlock")
    /\ \/ /\ key \in blocks
          /\ blocks' = blocks \ {key}
          /\ UNCHANGED blockDeletes
       \/ /\ key \notin blocks
          /\ blockDeletes' = blockDeletes \cup {key}
          /\ UNCHANGED blocks
    /\ UNCHANGED <<logRR, tangled>>

-----------------------------------------------------------------------------
(* The local records' calls *)

Configured(k) == uc.localRR[k] # Nil \/ uc.localRRPtr[k] # Nil

\* CacheAdd of a permanent record.
CacheAdd(c, k, v, ptr) ==
    /\ Call(c) /\ Edit(c, IF ptr THEN "addRRPtr" ELSE "addRR", k, v)
    /\ local' = [local EXCEPT ![k] = v]
    /\ Tangle(k, InFlight(k))
    /\ UNCHANGED <<uc, rules, log, logRR, todo, restarts>>

\* A response of an upstream, or CacheAdd of a record that is not permanent,
\* takes the place of a permanent one.  Neither is logged.
Overwrite(k) ==
    /\ local[k] # Nil
    /\ local' = [local EXCEPT ![k] = Nil]
    /\ Tangle(k, TRUE)
    /\ UNCHANGED <<uc, rules, log, logRR, todo, pending, calls, restarts>>

\* DeleteName finds nothing unless the type is in capitals; the log folds it.
CacheDelete(c, k, capitals) ==
    /\ Call(c) /\ Edit(c, "removeRR", k, Nil)
    /\ local' = IF capitals THEN [local EXCEPT ![k] = Nil] ELSE local
    /\ Tangle(k, ~capitals \/ InFlight(k))
    /\ UNCHANGED <<uc, rules, log, logRR, todo, restarts>>

\* An addition that cancels a deletion is not recorded, nor is which of two
\* additions, with and without PTR, was the last one.
addRR(c) ==
    LET k == pending[c].on IN
    /\ Logging(c, "addRR")
    /\ \/ /\ k \in localRRDeletes
          /\ localRRDeletes' = localRRDeletes \ {k}
          /\ UNCHANGED localRRs
       \/ /\ k \notin localRRDeletes
          /\ localRRs' = [localRRs EXCEPT ![k] = pending[c].arg]
          /\ UNCHANGED localRRDeletes
    /\ Tangle(k, k \in localRRDeletes \/ localRRPtrs[k] # Nil \/ uc.localRRPtr[k] # Nil)
    /\ UNCHANGED <<log, localRRPtrs>>

addRRPtr(c) ==
    LET k == pending[c].on IN
    /\ Logging(c, "addRRPtr")
    /\ \/ /\ k \in localRRDeletes
          /\ localRRDeletes' = localRRDeletes \ {k}
          /\ UNCHANGED localRRPtrs
       \/ /\ k \notin localRRDeletes
          /\ localRRPtrs' = [localRRPtrs EXCEPT ![k] = pending[c].arg]
          /\ UNCHANGED localRRDeletes
    /\ Tangle(k, k \in localRRDeletes)
    /\ UNCHANGED <<log, localRRs>>

\* Mutant: the deletion of an added record is logged as one of a startup record.
removeRRStartup(c) ==
    LET k == pending[c].on IN
    /\ Logging(c, "removeRR")
    /\ localRRDeletes' = localRRDeletes \cup {k}
    /\ UNCHANGED <<log, localRRs, localRRPtrs, tangled>>

\* A deletion that cancels an addition leaves the record of the configuration,
\* and the other addition if there are two.
removeRR(c) ==
    LET k == pending[c].on IN
    /\ Logging(c, "removeRR")
    /\ \/ /\ localRRs[k] # Nil
          /\ localRRs' = [localRRs EXCEPT ![k] = Nil]
          /\ Tangle(k, localRRPtrs[k] # Nil \/ Configured(k))
          /\ UNCHANGED <<localRRPtrs, localRRDeletes>>
       \/ /\ localRRs[k] = Nil /\ localRRPtrs[k] # Nil
          /\ localRRPtrs' = [localRRPtrs EXCEPT ![k] = Nil]
          /\ Tangle(k, Configured(k))
          /\ UNCHANGED <<localRRs, localRRDeletes>>
       \/ /\ localRRs[k] = Nil /\ localRRPtrs[k] = Nil
          /\ localRRDeletes' = localRRDeletes \cup {k}
          /\ UNCHANGED <<localRRs, localRRPtrs, tangled>>
    /\ UNCHANGED log

-----------------------------------------------------------------------------
(* Refresh and restart *)

\* The refresh goroutine puts a new list in place, unless a source cannot be
\* read.  Changes that are logged, or about to be, are not in it.
Refresh ==
    /\ rules' = UpdateBlockList(uc)
    /\ tangled' = tangled \cup {Rule(e) : e \in blocks \cup blockDeletes}
                          \cup {rule \in Rules : InFlight(rule)}
    /\ UNCHANGED <<uc, local, log, logRR, todo, pending, calls, restarts>>

\* The server stops or is killed, and is started with the configuration it had
\* or with the one that GetMergedConfig has returned.
Restart ==
    /\ restarts < MaxRestarts
    /\ restarts' = restarts + 1
    /\ StartFrom(uc) \/ StartFrom(GetMergedConfig(uc))
    /\ UNCHANGED calls

Log(c) == addBlock(c) \/ removeBlock(c) \/ addRR(c) \/ addRRPtr(c) \/ removeRR(c)

Next ==
    \/ \E c \in Callers :
        \/ \E es \in Requests : BlockListAdd(c, es)
        \/ AddNext(c)
        \/ \E e \in Deletions : BlockListDelete(c, e)
        \/ \E k \in Keys, v \in Values, ptr \in BOOLEAN : CacheAdd(c, k, v, ptr)
        \/ \E k \in Keys, capitals \in BOOLEAN : CacheDelete(c, k, capitals)
        \/ Log(c)
    \/ \E k \in Keys : Overwrite(k)
    \/ Refresh
    \/ Restart

Spec == Init /\ [][Next]_vars

-----------------------------------------------------------------------------
(* Properties *)

TypeOK ==
    /\ uc \in UserConfigs
    /\ rules \subseteq Rules
    /\ local \in Records
    /\ blocks \subseteq Entries /\ blockDeletes \subseteq Entries
    /\ localRRs \in Records /\ localRRPtrs \in Records /\ localRRDeletes \subseteq Keys
    /\ todo \in [Callers -> Seq(Entries \cup {Nil})]
    /\ pending \in [Callers -> Edits \cup {Nil}]
    /\ tangled \subseteq Rules \cup Keys
    /\ calls \in 0..MaxCalls /\ restarts \in 0..MaxRestarts

Merged == GetMergedConfig(uc)

\* A block-delete of the merged configuration takes in more than the entry that
\* was deleted: what lies below it, and what was added again after a restart.
Covered(rule) ==
    \E e \in Merged.blockDelete :
        rule \in DeleteTree(e) /\ (Rule(e) # rule \/ e \in uc.blockDelete)

\* The merged configuration can do without the rule: it does not come from two
\* places, from a file with a type, or from an entry with an explicit ANY.
Removable(rule) ==
    LET from == {e \in uc.block : Rule(e) = rule} IN
    /\ rule \in FileRules => rule[2] = "ANY" /\ from = {}
    /\ \A e \in from : ~Aliased(e)

\* A start from the merged configuration blocks what the server blocks now,
\* whatever was added, deleted and added again since the start, by calls that
\* succeeded or that were refused half-way.  The exceptions
\* are rules that two calls were about at the same time, that were added although
\* they were there or under another spelling, that a refresh has undone, and that
\* a block-delete covers.
BlocksSurvive ==
    \A rule \in rules :
        rule \notin tangled /\ ~InFlight(rule) /\ ~Covered(rule) =>
            rule \in UpdateBlockList(Merged)

\* A start from the merged configuration does not block again what was deleted.  The
\* exceptions are rules that two calls were about at the same time, that were added
\* although they were there or under another spelling, that a refresh has put back,
\* and, as GetMergedConfig has no way to take them out, rules of a file that have a
\* type or that an entry of the configuration repeats, and rules of an entry with an
\* explicit ANY.
DeletionsSurvive ==
    \A rule \in Rules \ rules :
        rule \notin tangled /\ ~InFlight(rule) /\ Removable(rule) =>
            rule \notin UpdateBlockList(Merged)

\* A start from the merged configuration has the local records that the server has
\* now, with the data they have now.  The exceptions are records of a zone file, records that two calls were about at
\* the same time, that were overwritten, that were added after a deletion, or with
\* and without PTR, and records of the configuration that were replaced and then
\* deleted.
RecordsSurvive ==
    \A k \in Keys :
        k \notin tangled /\ ~InFlight(k) /\ ZoneRRs[k] = Nil =>
            LocalRecords(Merged)[k] = local[k]
=============================================================================
