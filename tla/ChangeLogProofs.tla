-------------------------- MODULE ChangeLogProofs ---------------------------
(***************************************************************************)
(* Proofs about ChangeLog.                                                 *)
(*                                                                         *)
(* The inductive invariant says of a rule that is not tangled what the log *)
(* makes of it: that it was blocked when the last logged edit was done.    *)
(* An edit that is not logged yet has just turned that round.              *)
(***************************************************************************)
EXTENDS ChangeLog, SequenceTheorems, TLAPS

\* Leaves are for Zenon unless they cite another prover.
USE Zenon

\* A step of one of the blocklist's calls, up to its entry in the log.
BlockListStep(c) ==
    \/ \E es \in Requests : BlockListAdd(c, es)
    \/ AddNext(c)
    \/ \E e \in Deletions : BlockListDelete(c, e)

\* Everything but the bookkeeping of the calls.
state == <<uc, rules, local, log, logRR, pending, tangled, restarts>>

\* The log's key for a rule, and the one it does not see to be the same.
Key(rule) ==
    [name |-> rule[1], qtype |-> IF rule[2] = "ANY" THEN "none" ELSE rule[2],
     canonical |-> TRUE]

Alias(rule) == [name |-> rule[1], qtype |-> "ANY", canonical |-> TRUE]

\* An edit of the rule is to be logged by op.
EditOf(c, op, rule) ==
    pending[c] # Nil /\ pending[c].op = op /\ pending[c].on = rule

Base == UpdateBlockList(uc)

\* According to the log the rule is blocked.
Logged(rule) == Key(rule) \in blocks \/ (rule \in Base /\ Key(rule) \notin blockDeletes)

\* Only changes of the configured state are logged, under one key.
NetLog(rule) ==
    /\ Key(rule) \in blocks => rule \notin Base
    /\ Key(rule) \in blockDeletes => rule \in Base
    /\ rule[2] = "ANY" => Alias(rule) \notin blocks \cup blockDeletes

RuleInv(rule) ==
    /\ NetLog(rule)
    /\ ~InFlight(rule) => (rule \in rules <=> Logged(rule))
    /\ \A c \in Callers :
        /\ EditOf(c, "addBlock", rule) => rule \in rules /\ ~Logged(rule)
        /\ EditOf(c, "removeBlock", rule) => rule \notin rules /\ Logged(rule)
        /\ pending[c] # Nil /\ pending[c].on = rule =>
            \A d \in Callers : pending[d] # Nil /\ pending[d].on = rule => c = d

\* The key of the record after a start from the merged configuration.
Restarted(k) == LocalRecords(Merged)[k]

RecordInv(k) ==
    /\ ~InFlight(k) /\ ZoneRRs[k] = Nil => local[k] = Restarted(k)
    /\ \A c \in Callers :
        /\ pending[c] # Nil /\ pending[c].on = k /\ pending[c].op \in {"addRR", "addRRPtr"} =>
            local[k] = pending[c].arg
        /\ pending[c] # Nil /\ pending[c].on = k /\ pending[c].op = "removeRR" =>
            local[k] = Nil
        /\ pending[c] # Nil /\ pending[c].on = k =>
            \A d \in Callers : pending[d] # Nil /\ pending[d].on = k => c = d

\* An edit of the blocklist is about the rule of its entry.
ArgOK == \A c \in Callers :
    pending[c] # Nil /\ pending[c].op \in {"addBlock", "removeBlock"} =>
        pending[c].on = Rule(pending[c].arg)

\* The edit of an aliased entry tangles its rule.
AliasOK == \A c \in Callers :
    /\ pending[c] # Nil /\ pending[c].op \in {"addBlock", "removeBlock"}
    /\ Aliased(pending[c].arg)
    => pending[c].on \in tangled

\* The log's keys are normalised.
LogOK == \A e \in blocks \cup blockDeletes : e.canonical

Inv ==
    /\ TypeOK
    /\ ArgOK /\ AliasOK /\ LogOK
    /\ \A rule \in Rules \ tangled : RuleInv(rule)
    /\ \A k \in Keys \ tangled : RecordInv(k)

-----------------------------------------------------------------------------
(* Entries, keys and configurations *)

LEMMA RuleOfEntry ==
    ASSUME NEW e \in Entries
    PROVE  /\ Rule(e) \in Rules /\ normalizeBlockEntry(e) \in Entries
           /\ normalizeBlockEntry(e).canonical
           /\ ~Aliased(e) => normalizeBlockEntry(e) = Key(Rule(e))
           /\ Aliased(e) => normalizeBlockEntry(e) = Alias(Rule(e)) /\ Rule(e)[2] = "ANY"
<1>1. /\ e.name \in Domains /\ e.qtype \in Types \cup {"none"} /\ e.canonical \in BOOLEAN
      /\ e = [name |-> e.name, qtype |-> e.qtype, canonical |-> e.canonical]
  BY DEF Entries
<1>2. normalizeBlockEntry(e) = [name |-> e.name, qtype |-> e.qtype, canonical |-> TRUE]
  BY DEF normalizeBlockEntry
<1>3. normalizeBlockEntry(e) \in Entries /\ normalizeBlockEntry(e).canonical
  BY SMT, <1>1, <1>2 DEF Entries
<1>4. /\ Rule(e) \in Rules /\ Rule(e)[1] = e.name
      /\ Rule(e)[2] = IF e.qtype = "none" THEN "ANY" ELSE e.qtype
  BY <1>1 DEF Rule, Rules, Types
<1>5. ~Aliased(e) => normalizeBlockEntry(e) = Key(Rule(e))
  BY <1>1, <1>2, <1>4 DEF Aliased, Key
<1>6. Aliased(e) => normalizeBlockEntry(e) = Alias(Rule(e)) /\ Rule(e)[2] = "ANY"
  BY <1>1, <1>2, <1>4 DEF Aliased, Alias
<1> QED BY <1>3, <1>4, <1>5, <1>6

LEMMA KeyOfRule ==
    ASSUME NEW rule \in Rules
    PROVE  Key(rule) \in Entries /\ Rule(Key(rule)) = rule /\ ~Aliased(Key(rule))
<1>1. /\ rule = <<rule[1], rule[2]>> /\ rule[1] \in Domains /\ rule[2] \in Types
  BY SMT DEF Rules
<1>2. Key(rule) \in Entries /\ ~Aliased(Key(rule))
  BY <1>1, ChangeLogAssumption DEF Key, Entries, Types, Aliased
<1>3. Rule(Key(rule)) = <<rule[1], rule[2]>>
  BY <1>1, ChangeLogAssumption DEF Key, Rule
<1> QED BY <1>1, <1>2, <1>3

LEMMA KeysDiffer ==
    ASSUME NEW rule \in Rules, NEW other \in Rules, rule # other
    PROVE  /\ Key(rule) # Key(other) /\ Key(rule) # Alias(other) /\ Key(other) # Alias(rule)
           /\ rule[2] = "ANY" /\ other[2] = "ANY" => Alias(rule) # Alias(other)
<1>1. Key(rule) # Key(other)
  BY KeyOfRule
<1>2. Key(rule) # Alias(other) /\ Key(other) # Alias(rule)
  BY DEF Key, Alias
<1>3. ASSUME rule[2] = "ANY", other[2] = "ANY", Alias(rule) = Alias(other)
      PROVE  FALSE
  <2>1. rule = <<rule[1], rule[2]>> /\ other = <<other[1], other[2]>>
    BY SMT DEF Rules
  <2>2. rule[1] = other[1]
    BY <1>3 DEF Alias
  <2> QED BY <1>3, <2>1, <2>2
<1> QED BY <1>1, <1>2, <1>3

LEMMA ListType ==
    ASSUME NEW u \in UserConfigs
    PROVE  UpdateBlockList(u) \subseteq Rules /\ LocalRecords(u) \in Records
<1>1. \A e \in u.block : Rule(e) \in Rules
  BY RuleOfEntry DEF UserConfigs
<1>2. UpdateBlockList(u) \subseteq Rules
  BY <1>1, ChangeLogAssumption DEF UpdateBlockList
<1>3. LocalRecords(u) \in Records
  BY ChangeLogAssumption DEF LocalRecords, Records, UserConfigs
<1> QED BY <1>2, <1>3

LEMMA MergedType ==
    ASSUME TypeOK
    PROVE  GetMergedConfig(uc) \in UserConfigs
<1>1. \A startup, additions \in Records : filterRRs(startup, additions) \in Records
  BY DEF filterRRs, Records
<1>2. /\ filterRRs(uc.localRR, localRRs) \in Records
      /\ filterRRs(uc.localRRPtr, localRRPtrs) \in Records
  BY <1>1 DEF TypeOK, UserConfigs
<1>3. /\ uc.block \subseteq Entries /\ uc.blockDelete \subseteq Entries
      /\ blocks \subseteq Entries /\ blockDeletes \subseteq Entries
  BY DEF TypeOK, UserConfigs
<1> QED BY <1>2, <1>3 DEF GetMergedConfig, UserConfigs

LEMMA NoRecordsType == NoRecords \in Records
BY DEF NoRecords, Records

\* What a start leaves behind.
LEMMA StartType ==
    ASSUME NEW u \in UserConfigs, StartFrom(u), calls' \in 0..MaxCalls,
           restarts' \in 0..MaxRestarts
    PROVE  TypeOK'
BY ListType, NoRecordsType, EmptySeq DEF StartFrom, TypeOK

LEMMA EditTypes ==
    /\ \A op \in {"addBlock", "removeBlock"}, rule \in Rules, e \in Entries :
        [op |-> op, on |-> rule, arg |-> e] \in Edits
    /\ \A op \in {"addRR", "addRRPtr"}, k \in Keys, v \in Values :
        [op |-> op, on |-> k, arg |-> v] \in Edits
    /\ \A k \in Keys : [op |-> "removeRR", on |-> k, arg |-> Nil] \in Edits
    /\ \A p \in Edits :
        /\ p.op \in {"addBlock", "removeBlock"} => p.on \in Rules /\ p.arg \in Entries
        /\ p.op \in {"addRR", "addRRPtr"} => p.on \in Keys /\ p.arg \in Values
        /\ p.op = "removeRR" => p.on \in Keys
        /\ p.op \in {"addBlock", "removeBlock", "addRR", "addRRPtr", "removeRR"}
BY DEF Edits

\* A step of a call edits the list for one entry, or changes nothing.
LEMMA OneEntry ==
    ASSUME TypeOK, NEW c \in Callers, BlockListStep(c)
    PROVE  (\E e \in Entries : AddEntry(c, e) \/ DeleteEntry(c, e)) \/ UNCHANGED state
<1>1. ASSUME NEW es \in Seq(Entries \cup {Nil}), es # << >>, AddFirst(c, es)
      PROVE  (\E e \in Entries : AddEntry(c, e)) \/ UNCHANGED state
  <2>1. Head(es) \in Entries \cup {Nil}
    BY <1>1, HeadTailProperties
  <2> QED BY <1>1, <2>1 DEF AddFirst, state
<1>2. ASSUME NEW es \in Requests, BlockListAdd(c, es)
      PROVE  (\E e \in Entries : AddEntry(c, e)) \/ UNCHANGED state
  BY <1>1, <1>2, ChangeLogAssumption DEF BlockListAdd
<1>3. ASSUME AddNext(c)
      PROVE  (\E e \in Entries : AddEntry(c, e)) \/ UNCHANGED state
  BY <1>1, <1>3 DEF AddNext, TypeOK
<1>4. ASSUME NEW e \in Deletions, BlockListDelete(c, e)
      PROVE  (\E d \in Entries : DeleteEntry(c, d)) \/ UNCHANGED state
  BY <1>4, ChangeLogAssumption DEF BlockListDelete, vars, state
<1> QED BY <1>2, <1>3, <1>4 DEF BlockListStep

-----------------------------------------------------------------------------
(* Types *)

LEMMA TodoType ==
    ASSUME TypeOK, NEW c \in Callers, BlockListStep(c)
    PROVE  todo' \in [Callers -> Seq(Entries \cup {Nil})] /\ calls' \in 0..MaxCalls
<1>1. ASSUME NEW es \in Seq(Entries \cup {Nil}), es # << >>, AddFirst(c, es)
      PROVE  todo' \in [Callers -> Seq(Entries \cup {Nil})]
  <2>1. Tail(es) \in Seq(Entries \cup {Nil}) /\ << >> \in Seq(Entries \cup {Nil})
    BY <1>1, HeadTailProperties, EmptySeq
  <2> QED BY <1>1, <2>1 DEF AddFirst, TypeOK
<1>2. ASSUME NEW es \in Requests, BlockListAdd(c, es)
      PROVE  todo' \in [Callers -> Seq(Entries \cup {Nil})] /\ calls' \in 0..MaxCalls
  <2>1. calls' \in 0..MaxCalls
    BY SMT, <1>2, ChangeLogAssumption DEF BlockListAdd, Call, TypeOK
  <2> QED BY <1>1, <1>2, <2>1, ChangeLogAssumption DEF BlockListAdd
<1>3. ASSUME AddNext(c)
      PROVE  todo' \in [Callers -> Seq(Entries \cup {Nil})] /\ calls' \in 0..MaxCalls
  BY <1>1, <1>3 DEF AddNext, TypeOK
<1>4. ASSUME NEW e \in Deletions, BlockListDelete(c, e)
      PROVE  todo' \in [Callers -> Seq(Entries \cup {Nil})] /\ calls' \in 0..MaxCalls
  <2>1. calls' \in 0..MaxCalls
    BY SMT, <1>4, ChangeLogAssumption DEF BlockListDelete, Call, vars, TypeOK
  <2> QED BY <1>4, <2>1 DEF BlockListDelete, vars, TypeOK
<1> QED BY <1>2, <1>3, <1>4 DEF BlockListStep

LEMMA TypeInit == Init => TypeOK
BY SMT, ListType, NoRecordsType, ChangeLogAssumption DEF Init, TypeOK

LEMMA TypeStep ==
    ASSUME TypeOK, [Next]_vars
    PROVE  TypeOK'
<1> USE ChangeLogAssumption
<1>1. ASSUME NEW c \in Callers, BlockListStep(c)
      PROVE  TypeOK'
  <2>1. todo' \in [Callers -> Seq(Entries \cup {Nil})] /\ calls' \in 0..MaxCalls
    BY <1>1, TodoType
  <2>2. ASSUME NEW e \in Entries, AddEntry(c, e) \/ DeleteEntry(c, e)
        PROVE  TypeOK'
    <3>1. Rule(e) \in Rules
      BY RuleOfEntry
    <3>2. pending' \in [Callers -> Edits \cup {Nil}]
      <4>1. PICK op \in {"addBlock", "removeBlock"} :
                pending' = [pending EXCEPT ![c] = [op |-> op, on |-> Rule(e), arg |-> e]]
        BY <2>2 DEF AddEntry, DeleteEntry, Edit
      <4>2. [op |-> op, on |-> Rule(e), arg |-> e] \in Edits
        BY <3>1, EditTypes
      <4> QED BY <4>1, <4>2 DEF TypeOK
    <3>3. rules' \subseteq Rules /\ tangled' \subseteq Rules \cup Keys
      BY <2>2, <3>1 DEF AddEntry, DeleteEntry, Tangle, TypeOK
    <3> QED BY <2>1, <2>2, <3>2, <3>3 DEF AddEntry, DeleteEntry, TypeOK, log, logRR
  <2>3. UNCHANGED state => TypeOK'
    BY <2>1 DEF state, log, logRR, TypeOK
  <2> QED BY <1>1, <2>2, <2>3, OneEntry
<1>2. ASSUME NEW c \in Callers, NEW k \in Keys, NEW v \in Values, NEW ptr \in BOOLEAN,
             CacheAdd(c, k, v, ptr)
      PROVE  TypeOK'
  <2>1. /\ pending' \in [Callers -> Edits \cup {Nil}]
        /\ calls' \in 0..MaxCalls
    BY SMT, <1>2, EditTypes DEF CacheAdd, Call, Edit, TypeOK
  <2>2. local' \in Records /\ tangled' \subseteq Rules \cup Keys
    BY <1>2 DEF CacheAdd, Tangle, TypeOK, Records
  <2> QED BY <1>2, <2>1, <2>2 DEF CacheAdd, TypeOK, log, logRR
<1>3. ASSUME NEW c \in Callers, NEW k \in Keys, NEW capitals \in BOOLEAN,
             CacheDelete(c, k, capitals)
      PROVE  TypeOK'
  <2>1. /\ pending' \in [Callers -> Edits \cup {Nil}]
        /\ calls' \in 0..MaxCalls
    BY SMT, <1>3, EditTypes DEF CacheDelete, Call, Edit, TypeOK
  <2>2. local' \in Records /\ tangled' \subseteq Rules \cup Keys
    BY <1>3 DEF CacheDelete, Tangle, TypeOK, Records
  <2> QED BY <1>3, <2>1, <2>2 DEF CacheDelete, TypeOK, log, logRR
<1>4. ASSUME NEW c \in Callers, addBlock(c) \/ removeBlock(c)
      PROVE  TypeOK'
  <2>1. pending[c].arg \in Entries /\ pending' \in [Callers -> Edits \cup {Nil}]
    BY <1>4, EditTypes DEF addBlock, removeBlock, Logging, TypeOK
  <2>2. normalizeBlockEntry(pending[c].arg) \in Entries
    BY <2>1, RuleOfEntry
  <2>3. blocks' \subseteq Entries /\ blockDeletes' \subseteq Entries
    BY <1>4, <2>2 DEF addBlock, removeBlock, TypeOK
  <2> QED BY <1>4, <2>1, <2>3 DEF addBlock, removeBlock, Logging, TypeOK, logRR
<1>5. ASSUME NEW c \in Callers, addRR(c) \/ addRRPtr(c) \/ removeRR(c)
      PROVE  TypeOK'
  <2>1. pending[c].on \in Keys /\ pending' \in [Callers -> Edits \cup {Nil}]
    BY <1>5, EditTypes DEF addRR, addRRPtr, removeRR, Logging, TypeOK
  <2>2. addRR(c) \/ addRRPtr(c) => pending[c].arg \in Values
    BY EditTypes DEF addRR, addRRPtr, Logging, TypeOK
  <2>3. tangled' \subseteq Rules \cup Keys
    BY SMT, <1>5, <2>1 DEF addRR, addRRPtr, removeRR, Tangle, TypeOK
  <2>4. localRRs' \in Records /\ localRRPtrs' \in Records /\ localRRDeletes' \subseteq Keys
    <3>1. localRRs \in Records /\ localRRPtrs \in Records /\ localRRDeletes \subseteq Keys
      BY DEF TypeOK
    <3> QED BY SMT, <1>5, <2>1, <2>2, <3>1 DEF addRR, addRRPtr, removeRR, Records
  <2> QED BY <1>5, <2>1, <2>3, <2>4 DEF addRR, addRRPtr, removeRR, Logging, TypeOK, log
<1>6. ASSUME NEW k \in Keys, Overwrite(k)
      PROVE  TypeOK'
  <2>1. local' \in Records /\ tangled' \subseteq Rules \cup Keys
    BY <1>6 DEF Overwrite, Tangle, TypeOK, Records
  <2> QED BY <1>6, <2>1 DEF Overwrite, TypeOK, log, logRR
<1>7. ASSUME Refresh
      PROVE  TypeOK'
  <2>1. rules' \subseteq Rules
    BY <1>7, ListType DEF Refresh, TypeOK
  <2>2. tangled' \subseteq Rules \cup Keys
    BY <1>7, RuleOfEntry DEF Refresh, TypeOK
  <2> QED BY <1>7, <2>1, <2>2 DEF Refresh, TypeOK, log, logRR
<1>8. ASSUME Restart
      PROVE  TypeOK'
  <2>1. calls' \in 0..MaxCalls /\ restarts' \in 0..MaxRestarts
    BY SMT, <1>8 DEF Restart, TypeOK
  <2>2. uc \in UserConfigs /\ GetMergedConfig(uc) \in UserConfigs
    BY MergedType DEF TypeOK
  <2> QED BY <1>8, <2>1, <2>2, StartType DEF Restart
<1>9. ASSUME UNCHANGED vars
      PROVE  TypeOK'
  BY <1>9 DEF vars, log, logRR, TypeOK
<1> QED
  BY <1>1, <1>2, <1>3, <1>4, <1>5, <1>6, <1>7, <1>8, <1>9 DEF Next, Log, BlockListStep

-----------------------------------------------------------------------------
(* Rules *)

\* A step that leaves the configuration and the log alone.
LEMMA SameLog ==
    ASSUME NEW rule \in Rules, UNCHANGED <<uc, log>>
    PROVE  /\ NetLog(rule)' <=> NetLog(rule)
           /\ Logged(rule)' <=> Logged(rule)
BY DEF NetLog, Logged, Base, UpdateBlockList, log

LEMMA RuleCall ==
    ASSUME Inv, NEW c \in Callers, NEW e \in Entries,
           AddEntry(c, e) \/ DeleteEntry(c, e),
           NEW rule \in Rules, rule \notin tangled'
    PROVE  RuleInv(rule)'
<1>1. Rule(e) \in Rules
  BY RuleOfEntry
<1>2. rule \notin tangled /\ RuleInv(rule) /\ TypeOK
  BY DEF Inv, AddEntry, DeleteEntry, Tangle
<1>3. NetLog(rule)' /\ (Logged(rule)' <=> Logged(rule))
  BY <1>2, SameLog DEF RuleInv, AddEntry, DeleteEntry
<1>4. PICK op \in {"addBlock", "removeBlock"} :
        /\ pending[c] = Nil
        /\ pending' = [pending EXCEPT ![c] = [op |-> op, on |-> Rule(e), arg |-> e]]
        /\ op = "addBlock" => AddEntry(c, e)
        /\ op = "removeBlock" => DeleteEntry(c, e)
  BY DEF AddEntry, DeleteEntry, Edit
<1>5. /\ pending'[c] = [op |-> op, on |-> Rule(e), arg |-> e]
      /\ \A d \in Callers : d # c => pending'[d] = pending[d]
  BY <1>2, <1>4 DEF TypeOK
<1>6. pending'[c] # Nil /\ pending'[c].op = op /\ pending'[c].on = Rule(e)
  BY SMT, <1>1, <1>5, EditTypes, ChangeLogAssumption
<1>7. CASE rule = Rule(e)
  <2>1. ~InFlight(rule) /\ (op = "addBlock" => rule \notin rules)
    BY <1>4, <1>7 DEF AddEntry, DeleteEntry, Tangle
  <2>2. InFlight(rule)'
    BY <1>6, <1>7 DEF InFlight
  <2>3. \A d \in Callers : pending'[d] # Nil /\ pending'[d].on = rule => d = c
    BY <1>5, <2>1 DEF InFlight
  <2>4. rule \in rules <=> Logged(rule)
    BY <1>2, <2>1 DEF RuleInv
  <2>5. /\ op = "addBlock" => rule \in rules' /\ ~Logged(rule)
        /\ op = "removeBlock" => rule \notin rules' /\ Logged(rule)
    BY <1>4, <1>7, <2>1, <2>4 DEF AddEntry, DeleteEntry
  <2> QED BY <1>3, <1>6, <2>2, <2>3, <2>5 DEF RuleInv, EditOf
<1>8. CASE rule # Rule(e)
  <2>1. rule \in rules' <=> rule \in rules
    BY <1>8 DEF AddEntry, DeleteEntry
  <2>2. \A d \in Callers :
            pending'[d] # Nil /\ pending'[d].on = rule =>
                d # c /\ pending[d] # Nil /\ pending[d].on = rule
    BY <1>5, <1>6, <1>8
  <2>3. InFlight(rule) => InFlight(rule)'
    BY <1>4, <1>5 DEF InFlight
  <2> QED BY <1>2, <1>3, <1>5, <2>1, <2>2, <2>3 DEF RuleInv, EditOf
<1> QED BY <1>7, <1>8

LEMMA RuleLog ==
    ASSUME Inv, NEW c \in Callers, addBlock(c) \/ removeBlock(c),
           NEW rule \in Rules, rule \notin tangled'
    PROVE  RuleInv(rule)'
<1> DEFINE e == pending[c].arg
           key == normalizeBlockEntry(e)
<1>1. /\ rule \notin tangled /\ RuleInv(rule) /\ TypeOK
      /\ uc' = uc /\ rules' = rules /\ Base' = Base
  BY DEF Inv, addBlock, removeBlock, Logging, Base, UpdateBlockList
<1>2. /\ pending[c] # Nil /\ pending[c].op \in {"addBlock", "removeBlock"}
      /\ pending' = [pending EXCEPT ![c] = Nil]
  BY DEF addBlock, removeBlock, Logging
<1>3. pending'[c] = Nil /\ \A d \in Callers : d # c => pending'[d] = pending[d]
  BY <1>1, <1>2 DEF TypeOK
<1>4. e \in Entries /\ pending[c].on = Rule(e) /\ Rule(e) \in Rules
  <2>1. e \in Entries
    BY <1>1, <1>2, EditTypes DEF TypeOK
  <2> QED BY <1>2, <2>1, RuleOfEntry DEF Inv, ArgOK
<1>5. CASE rule = Rule(e)
  <2>1. key = Key(rule)
    BY <1>1, <1>2, <1>4, <1>5, RuleOfEntry DEF Inv, AliasOK
  <2>2. ~InFlight(rule)'
    BY <1>1, <1>2, <1>3, <1>4, <1>5 DEF RuleInv, InFlight
  <2>3. Key(rule) # Alias(rule)
    BY DEF Key, Alias
  <2>4. CASE addBlock(c)
    <3>1. rule \in rules /\ ~Logged(rule)
      BY <1>1, <1>2, <1>4, <1>5, <2>4 DEF RuleInv, EditOf, addBlock, Logging
    <3>2. NetLog(rule)
      BY <1>1 DEF RuleInv
    <3>3. NetLog(rule)' /\ Logged(rule)'
      BY <1>1, <2>1, <2>3, <2>4, <3>1, <3>2 DEF NetLog, Logged, addBlock
    <3> QED BY <1>1, <2>2, <3>1, <3>3 DEF RuleInv, InFlight, EditOf
  <2>5. CASE removeBlock(c)
    <3>1. rule \notin rules /\ Logged(rule)
      BY <1>1, <1>2, <1>4, <1>5, <2>5 DEF RuleInv, EditOf, removeBlock, Logging
    <3>2. NetLog(rule)
      BY <1>1 DEF RuleInv
    <3>3. NetLog(rule)' /\ ~Logged(rule)'
      BY <1>1, <2>1, <2>3, <2>5, <3>1, <3>2 DEF NetLog, Logged, removeBlock
    <3> QED BY <1>1, <2>2, <3>1, <3>3 DEF RuleInv, InFlight, EditOf
  <2> QED BY <2>4, <2>5
<1>6. CASE rule # Rule(e)
  <2>1. key # Key(rule) /\ (rule[2] = "ANY" => key # Alias(rule))
    BY <1>4, <1>6, RuleOfEntry, KeysDiffer
  <2>2. /\ Key(rule) \in blocks' <=> Key(rule) \in blocks
        /\ Key(rule) \in blockDeletes' <=> Key(rule) \in blockDeletes
        /\ rule[2] = "ANY" => (Alias(rule) \in (blocks \cup blockDeletes)' <=>
                               Alias(rule) \in blocks \cup blockDeletes)
    BY <2>1 DEF addBlock, removeBlock
  <2>3. NetLog(rule)' /\ (Logged(rule)' <=> Logged(rule))
    BY <1>1, <2>2 DEF RuleInv, NetLog, Logged
  <2>4. \A d \in Callers :
            pending'[d] # Nil /\ pending'[d].on = rule =>
                d # c /\ pending[d] # Nil /\ pending[d].on = rule
    BY <1>3
  <2>5. InFlight(rule) => InFlight(rule)'
    BY <1>3, <1>4, <1>6 DEF InFlight
  <2> QED BY <1>1, <1>3, <2>3, <2>4, <2>5 DEF RuleInv, EditOf
<1> QED BY <1>5, <1>6

\* The calls and the log of the local records do not touch a rule.
LEMMA RuleRecords ==
    ASSUME Inv, UNCHANGED <<uc, rules, log>>, tangled \subseteq tangled',
           \A c \in Callers :
              \/ pending'[c] = pending[c]
              \/ /\ pending[c] = Nil \/ pending[c].on \in Keys
                 /\ pending'[c] = Nil \/ pending'[c].on \in Keys,
           NEW rule \in Rules, rule \notin tangled'
    PROVE  RuleInv(rule)'
<1>1. RuleInv(rule)
  BY DEF Inv
<1>2. NetLog(rule)' /\ (Logged(rule)' <=> Logged(rule))
  BY <1>1, SameLog DEF RuleInv
<1>3. \A c \in Callers :
        /\ pending'[c] # Nil /\ pending'[c].on = rule => pending'[c] = pending[c]
        /\ pending[c] # Nil /\ pending[c].on = rule => pending'[c] = pending[c]
  BY ChangeLogAssumption
<1>4. InFlight(rule)' <=> InFlight(rule)
  BY <1>3 DEF InFlight
<1> QED BY <1>1, <1>2, <1>3, <1>4 DEF RuleInv, EditOf

LEMMA RuleRefresh ==
    ASSUME Inv, Refresh, NEW rule \in Rules, rule \notin tangled'
    PROVE  RuleInv(rule)'
<1>1. rule \notin tangled /\ RuleInv(rule) /\ ~InFlight(rule)
  BY DEF Inv, Refresh
<1>2. Key(rule) \notin blocks \cup blockDeletes
  BY KeyOfRule DEF Refresh
<1>3. NetLog(rule)' /\ (Logged(rule)' <=> Logged(rule))
  BY <1>1, SameLog DEF RuleInv, Refresh
<1>4. Logged(rule) <=> rule \in rules'
  BY <1>2 DEF Logged, Base, Refresh
<1>5. \A c \in Callers : ~(pending'[c] # Nil /\ pending'[c].on = rule)
  BY <1>1 DEF InFlight, Refresh
<1> QED BY <1>3, <1>4, <1>5 DEF RuleInv, EditOf

LEMMA RuleStart ==
    ASSUME NEW u, StartFrom(u), NEW rule \in Rules
    PROVE  RuleInv(rule)'
<1>1. /\ blocks' = {} /\ blockDeletes' = {} /\ rules' = UpdateBlockList(u) /\ uc' = u
      /\ \A c \in Callers : pending'[c] = Nil
  BY DEF StartFrom
<1>2. Base' = rules'
  BY <1>1 DEF Base, UpdateBlockList
<1> QED BY <1>1, <1>2 DEF RuleInv, NetLog, Logged, EditOf, InFlight

-----------------------------------------------------------------------------
(* Records *)

LEMMA SameRecord ==
    ASSUME UNCHANGED <<uc, logRR>>, NEW k \in Keys
    PROVE  Restarted(k)' = Restarted(k)
BY DEF Restarted, Merged, LocalRecords, GetMergedConfig, filterRRs, logRR

LEMMA RecordCall ==
    ASSUME Inv, NEW c \in Callers, NEW q \in Keys,
           \/ \E v \in Values, ptr \in BOOLEAN : CacheAdd(c, q, v, ptr)
           \/ \E capitals \in BOOLEAN : CacheDelete(c, q, capitals),
           NEW k \in Keys, k \notin tangled'
    PROVE  RecordInv(k)'
<1>1. k \notin tangled /\ RecordInv(k) /\ TypeOK
  BY DEF Inv, CacheAdd, CacheDelete, Tangle
<1>2. Restarted(k)' = Restarted(k)
  BY SameRecord DEF CacheAdd, CacheDelete
<1>3. PICK edit \in Edits :
        /\ pending[c] = Nil /\ pending' = [pending EXCEPT ![c] = edit]
        /\ edit.on = q
        /\ edit.op \in {"addRR", "addRRPtr"} => local' = [local EXCEPT ![q] = edit.arg]
        /\ edit.op = "removeRR" /\ q \notin tangled' => local' = [local EXCEPT ![q] = Nil]
        /\ \A x \in Keys : x # q => local'[x] = local[x]
        /\ edit.op \in {"addRR", "addRRPtr", "removeRR"}
  <2>1. CASE \E v \in Values, ptr \in BOOLEAN : CacheAdd(c, q, v, ptr)
    <3>1. PICK v \in Values, ptr \in BOOLEAN : CacheAdd(c, q, v, ptr)
      BY <2>1
    <3> DEFINE edit == [op |-> IF ptr THEN "addRRPtr" ELSE "addRR", on |-> q, arg |-> v]
    <3>2. edit \in Edits
      BY EditTypes
    <3> QED BY <1>1, <3>1, <3>2 DEF CacheAdd, Call, Edit, TypeOK, Records
  <2>2. CASE \E capitals \in BOOLEAN : CacheDelete(c, q, capitals)
    <3>1. PICK capitals \in BOOLEAN : CacheDelete(c, q, capitals)
      BY <2>2
    <3> DEFINE edit == [op |-> "removeRR", on |-> q, arg |-> Nil]
    <3>2. edit \in Edits
      BY EditTypes
    <3>3. q \notin tangled' => capitals
      BY <3>1 DEF CacheDelete, Tangle
    <3> QED BY <1>1, <3>1, <3>2, <3>3 DEF CacheDelete, Call, Edit, TypeOK, Records
  <2> QED BY <2>1, <2>2
<1>4. /\ pending'[c] = edit /\ edit # Nil
      /\ \A d \in Callers : d # c => pending'[d] = pending[d]
  BY <1>1, <1>3, ChangeLogAssumption DEF TypeOK
<1>5. CASE k = q
  <2>1. ~InFlight(k)
    BY <1>5 DEF CacheAdd, CacheDelete, Tangle
  <2>2. InFlight(k)'
    BY <1>3, <1>4, <1>5 DEF InFlight
  <2>3. \A d \in Callers : pending'[d] # Nil /\ pending'[d].on = k => d = c
    BY <1>4, <2>1 DEF InFlight
  <2>4. /\ edit.op \in {"addRR", "addRRPtr"} => local'[k] = edit.arg
        /\ edit.op = "removeRR" => local'[k] = Nil
    BY <1>1, <1>3, <1>5 DEF TypeOK, Records
  <2> QED BY <1>4, <2>2, <2>3, <2>4 DEF RecordInv
<1>6. CASE k # q
  <2>1. \A d \in Callers :
            pending'[d] # Nil /\ pending'[d].on = k =>
                d # c /\ pending'[d] = pending[d]
    BY <1>3, <1>4, <1>6
  <2>2. InFlight(k) => InFlight(k)'
    BY <1>3, <1>4 DEF InFlight
  <2>3. local'[k] = local[k]
    BY <1>3, <1>6
  <2> QED BY <1>1, <1>2, <2>1, <2>2, <2>3 DEF RecordInv
<1> QED BY <1>5, <1>6

LEMMA RecordLog ==
    ASSUME Inv, NEW c \in Callers, addRR(c) \/ addRRPtr(c) \/ removeRR(c),
           NEW k \in Keys, k \notin tangled'
    PROVE  RecordInv(k)'
<1> DEFINE q == pending[c].on
<1>1. /\ k \notin tangled /\ RecordInv(k) /\ TypeOK
      /\ uc' = uc /\ local' = local /\ tangled \subseteq tangled'
  BY DEF Inv, addRR, addRRPtr, removeRR, Tangle, Logging
<1>2. pending[c] # Nil /\ pending' = [pending EXCEPT ![c] = Nil]
  BY DEF addRR, addRRPtr, removeRR, Logging
<1>3. pending'[c] = Nil /\ \A d \in Callers : d # c => pending'[d] = pending[d]
  BY <1>1, <1>2 DEF TypeOK
<1>4. /\ q \in Keys
      /\ addRR(c) \/ addRRPtr(c) => pending[c].arg \in Values
  BY <1>1, <1>2, EditTypes DEF TypeOK, addRR, addRRPtr, removeRR, Logging
<1>5. CASE k = q
  <2>1. ~InFlight(k)'
    BY <1>1, <1>2, <1>3, <1>5 DEF RecordInv, InFlight
  <2>2. Restarted(k)' =
            IF ZoneRRs[k] # Nil THEN ZoneRRs[k]
            ELSE IF localRRPtrs'[k] # Nil THEN localRRPtrs'[k]
            ELSE IF k \notin localRRDeletes' /\ uc.localRRPtr[k] # Nil THEN uc.localRRPtr[k]
            ELSE IF localRRs'[k] # Nil THEN localRRs'[k]
            ELSE IF k \in localRRDeletes' THEN Nil ELSE uc.localRR[k]
    BY <1>1 DEF Restarted, Merged, LocalRecords, GetMergedConfig, filterRRs
  <2>3. CASE addRR(c)
    <3>1. k \notin localRRDeletes /\ localRRPtrs[k] = Nil /\ uc.localRRPtr[k] = Nil
      BY <1>5, <2>3 DEF addRR, Tangle
    <3>2. localRRs'[k] = pending[c].arg /\ localRRPtrs' = localRRPtrs
      BY <1>1, <1>5, <2>3, <3>1 DEF addRR, TypeOK, Records
    <3>3. local[k] = pending[c].arg /\ pending[c].arg # Nil
      BY <1>1, <1>2, <1>4, <1>5, <2>3, ChangeLogAssumption DEF RecordInv, addRR, Logging
    <3> QED BY <1>1, <2>1, <2>2, <3>1, <3>2, <3>3 DEF RecordInv, InFlight
  <2>4. CASE addRRPtr(c)
    <3>1. k \notin localRRDeletes
      BY <1>5, <2>4 DEF addRRPtr, Tangle
    <3>2. localRRPtrs'[k] = pending[c].arg
      BY <1>1, <1>5, <2>4, <3>1 DEF addRRPtr, TypeOK, Records
    <3>3. local[k] = pending[c].arg /\ pending[c].arg # Nil
      BY <1>1, <1>2, <1>4, <1>5, <2>4, ChangeLogAssumption DEF RecordInv, addRRPtr, Logging
    <3> QED BY <1>1, <2>1, <2>2, <3>2, <3>3 DEF RecordInv, InFlight
  <2>5. CASE removeRR(c)
    <3>1. local[k] = Nil
      BY <1>1, <1>2, <1>5, <2>5 DEF RecordInv, removeRR, Logging
    <3>2. /\ localRRs'[k] = Nil /\ localRRPtrs'[k] = Nil
          /\ k \in localRRDeletes' \/ ~Configured(k)
      BY <1>1, <1>5, <2>5 DEF removeRR, TypeOK, Records, Tangle
    <3> QED BY <1>1, <2>1, <2>2, <3>1, <3>2 DEF RecordInv, InFlight, Configured
  <2> QED BY <2>3, <2>4, <2>5
<1>6. CASE k # q
  <2>1. /\ localRRs'[k] = localRRs[k] /\ localRRPtrs'[k] = localRRPtrs[k]
        /\ k \in localRRDeletes' <=> k \in localRRDeletes
    BY <1>1, <1>6 DEF addRR, addRRPtr, removeRR, TypeOK, Records
  <2>2. Restarted(k)' = Restarted(k)
    BY <1>1, <2>1 DEF Restarted, Merged, LocalRecords, GetMergedConfig, filterRRs
  <2>3. \A d \in Callers :
        /\ pending'[d] # Nil /\ pending'[d].on = k => pending'[d] = pending[d]
        /\ pending[d] # Nil /\ pending[d].on = k => pending'[d] = pending[d]
    BY <1>3, <1>6
  <2>4. InFlight(k)' <=> InFlight(k)
    BY <2>3 DEF InFlight
  <2> QED BY <1>1, <2>2, <2>3, <2>4 DEF RecordInv
<1> QED BY <1>5, <1>6

\* The blocklist's calls, their log and a refresh do not touch a record.
LEMMA RecordRules ==
    ASSUME Inv, UNCHANGED <<uc, local, logRR>>, tangled \subseteq tangled',
           \A c \in Callers :
              \/ pending'[c] = pending[c]
              \/ /\ pending[c] = Nil \/ pending[c].on \in Rules
                 /\ pending'[c] = Nil \/ pending'[c].on \in Rules,
           NEW k \in Keys, k \notin tangled'
    PROVE  RecordInv(k)'
<1>1. RecordInv(k)
  BY DEF Inv
<1>2. Restarted(k)' = Restarted(k)
  BY SameRecord
<1>3. \A c \in Callers :
        /\ pending'[c] # Nil /\ pending'[c].on = k => pending'[c] = pending[c]
        /\ pending[c] # Nil /\ pending[c].on = k => pending'[c] = pending[c]
  BY ChangeLogAssumption
<1>4. InFlight(k)' <=> InFlight(k)
  BY <1>3 DEF InFlight
<1> QED BY <1>1, <1>2, <1>3, <1>4 DEF RecordInv

LEMMA RecordOverwrite ==
    ASSUME Inv, NEW q \in Keys, Overwrite(q), NEW k \in Keys, k \notin tangled'
    PROVE  RecordInv(k)'
<1>1. k \notin tangled /\ RecordInv(k) /\ k # q /\ TypeOK
  BY DEF Inv, Overwrite, Tangle
<1>2. local'[k] = local[k] /\ pending' = pending
  BY <1>1 DEF Overwrite, TypeOK, Records
<1>3. Restarted(k)' = Restarted(k)
  BY SameRecord DEF Overwrite
<1> QED BY <1>1, <1>2, <1>3 DEF RecordInv, InFlight

LEMMA RecordStart ==
    ASSUME NEW u, StartFrom(u), NEW k \in Keys
    PROVE  RecordInv(k)'
<1>1. /\ localRRs' = NoRecords /\ localRRPtrs' = NoRecords /\ localRRDeletes' = {}
      /\ local' = LocalRecords(u) /\ uc' = u
      /\ \A c \in Callers : pending'[c] = Nil
  BY DEF StartFrom
<1>2. Restarted(k)' = LocalRecords(u)[k]
  BY <1>1 DEF Restarted, Merged, LocalRecords, GetMergedConfig, filterRRs, NoRecords
<1> QED BY <1>1, <1>2 DEF RecordInv

-----------------------------------------------------------------------------
(* The invariant *)

LEMMA ArgStep ==
    ASSUME Inv, [Next]_vars
    PROVE  (ArgOK /\ AliasOK /\ LogOK)'
<1>0. TypeOK /\ ArgOK /\ AliasOK /\ LogOK
  BY DEF Inv
<1>1. ASSUME NEW c \in Callers, NEW e \in Entries, AddEntry(c, e) \/ DeleteEntry(c, e)
      PROVE  (ArgOK /\ AliasOK /\ LogOK)'
  <2>1. PICK op \in {"addBlock", "removeBlock"} :
            /\ pending' = [pending EXCEPT ![c] = [op |-> op, on |-> Rule(e), arg |-> e]]
            /\ tangled \subseteq tangled'
            /\ Aliased(e) => Rule(e) \in tangled'
            /\ blocks' = blocks /\ blockDeletes' = blockDeletes
    BY <1>1 DEF AddEntry, DeleteEntry, Edit, Tangle, log
  <2>2. /\ pending'[c] = [op |-> op, on |-> Rule(e), arg |-> e]
        /\ \A d \in Callers : d # c => pending'[d] = pending[d]
    BY <1>0, <2>1 DEF TypeOK
  <2>3. ArgOK'
    BY SMT, <1>0, <2>2 DEF ArgOK
  <2>4. AliasOK'
    BY SMT, <1>0, <2>1, <2>2 DEF AliasOK
  <2> QED BY <1>0, <2>1, <2>3, <2>4 DEF LogOK
<1>2. ASSUME NEW c \in Callers, NEW k \in Keys,
             \/ \E v \in Values, ptr \in BOOLEAN : CacheAdd(c, k, v, ptr)
             \/ \E capitals \in BOOLEAN : CacheDelete(c, k, capitals)
      PROVE  (ArgOK /\ AliasOK /\ LogOK)'
  <2>1. PICK op \in {"addRR", "addRRPtr", "removeRR"}, value \in Values \cup {Nil} :
            /\ pending' = [pending EXCEPT ![c] = [op |-> op, on |-> k, arg |-> value]]
            /\ tangled \subseteq tangled'
            /\ blocks' = blocks /\ blockDeletes' = blockDeletes
    BY <1>2 DEF CacheAdd, CacheDelete, Edit, Tangle, log
  <2>2. /\ pending'[c].op \notin {"addBlock", "removeBlock"}
        /\ \A d \in Callers : d # c => pending'[d] = pending[d]
    BY <1>0, <2>1 DEF TypeOK
  <2> QED BY <1>0, <2>1, <2>2 DEF ArgOK, AliasOK, LogOK
<1>3. ASSUME NEW c \in Callers, Log(c)
      PROVE  (ArgOK /\ AliasOK /\ LogOK)'
  <2>1. /\ pending' = [pending EXCEPT ![c] = Nil]
        /\ tangled \subseteq tangled'
    BY <1>3 DEF Log, addBlock, removeBlock, addRR, addRRPtr, removeRR, Logging, Tangle
  <2>2. /\ pending'[c] = Nil
        /\ \A d \in Callers : d # c => pending'[d] = pending[d]
    BY <1>0, <2>1 DEF TypeOK
  <2>3. ASSUME addBlock(c) \/ removeBlock(c)
        PROVE  normalizeBlockEntry(pending[c].arg).canonical
    BY <1>0, <2>3, EditTypes, RuleOfEntry DEF TypeOK, addBlock, removeBlock, Logging
  <2>4. LogOK'
    BY <1>0, <1>3, <2>3 DEF LogOK, Log, addBlock, removeBlock, addRR, addRRPtr, removeRR, log
  <2> QED BY <1>0, <2>1, <2>2, <2>4 DEF ArgOK, AliasOK
<1>4. CASE (\E k \in Keys : Overwrite(k)) \/ Refresh \/ UNCHANGED state
  <2>1. pending' = pending /\ log' = log /\ tangled \subseteq tangled'
    BY <1>4 DEF Overwrite, Refresh, Tangle, state
  <2> QED BY <1>0, <2>1 DEF ArgOK, AliasOK, LogOK, log
<1>5. CASE Restart
  <2>1. blocks' = {} /\ blockDeletes' = {} /\ \A c \in Callers : pending'[c] = Nil
    BY <1>5 DEF Restart, StartFrom
  <2> QED BY <2>1 DEF ArgOK, AliasOK, LogOK
<1>6. UNCHANGED vars => UNCHANGED state
  BY DEF vars, state
<1> QED BY <1>0, <1>1, <1>2, <1>3, <1>4, <1>5, <1>6, OneEntry DEF Next, BlockListStep

LEMMA RuleStep ==
    ASSUME Inv, [Next]_vars, NEW rule \in Rules, rule \notin tangled'
    PROVE  RuleInv(rule)'
<1>0. TypeOK
  BY DEF Inv
<1>1. ASSUME NEW c \in Callers, NEW k \in Keys,
             \/ \E v \in Values, ptr \in BOOLEAN : CacheAdd(c, k, v, ptr)
             \/ \E capitals \in BOOLEAN : CacheDelete(c, k, capitals)
      PROVE  RuleInv(rule)'
  <2>1. PICK op \in {"addRR", "addRRPtr", "removeRR"}, value \in Values \cup {Nil} :
            /\ pending[c] = Nil
            /\ pending' = [pending EXCEPT ![c] = [op |-> op, on |-> k, arg |-> value]]
    BY <1>1 DEF CacheAdd, CacheDelete, Edit
  <2>2. /\ pending'[c].on \in Keys
        /\ \A d \in Callers : d # c => pending'[d] = pending[d]
    BY <1>0, <2>1 DEF TypeOK
  <2>3. UNCHANGED <<uc, rules, log>> /\ tangled \subseteq tangled'
    BY <1>1 DEF CacheAdd, CacheDelete, Tangle
  <2> QED BY <2>1, <2>2, <2>3, RuleRecords
<1>2. ASSUME NEW c \in Callers, addRR(c) \/ addRRPtr(c) \/ removeRR(c)
      PROVE  RuleInv(rule)'
  <2>1. /\ pending[c].on \in Keys
        /\ pending' = [pending EXCEPT ![c] = Nil]
    BY <1>0, <1>2, EditTypes DEF TypeOK, addRR, addRRPtr, removeRR, Logging
  <2>2. /\ pending'[c] = Nil
        /\ \A d \in Callers : d # c => pending'[d] = pending[d]
    BY <1>0, <2>1 DEF TypeOK
  <2>3. UNCHANGED <<uc, rules, log>> /\ tangled \subseteq tangled'
    BY <1>2 DEF addRR, addRRPtr, removeRR, Logging, Tangle
  <2> QED BY <2>1, <2>2, <2>3, RuleRecords
<1>3. CASE (\E k \in Keys : Overwrite(k)) \/ UNCHANGED state
  BY <1>3, RuleRecords DEF Overwrite, Tangle, state
<1>4. CASE Restart
  BY <1>4, RuleStart DEF Restart
<1>5. UNCHANGED vars => UNCHANGED state
  BY DEF vars, state
<1>6. ASSUME NEW c \in Callers, BlockListStep(c) PROVE RuleInv(rule)'
  BY <1>0, <1>3, <1>6, OneEntry, RuleCall
<1> QED
  BY <1>1, <1>2, <1>3, <1>4, <1>5, <1>6, RuleLog, RuleRefresh DEF Next, Log, BlockListStep

LEMMA RecordStep ==
    ASSUME Inv, [Next]_vars, NEW k \in Keys, k \notin tangled'
    PROVE  RecordInv(k)'
<1>0. TypeOK
  BY DEF Inv
<1>1. ASSUME NEW c \in Callers, NEW e \in Entries, AddEntry(c, e) \/ DeleteEntry(c, e)
      PROVE  RecordInv(k)'
  <2>1. PICK op \in {"addBlock", "removeBlock"} :
            /\ pending[c] = Nil
            /\ pending' = [pending EXCEPT ![c] = [op |-> op, on |-> Rule(e), arg |-> e]]
    BY <1>1 DEF AddEntry, DeleteEntry, Edit
  <2>2. Rule(e) \in Rules
    BY RuleOfEntry
  <2>3. /\ pending'[c].on \in Rules
        /\ \A d \in Callers : d # c => pending'[d] = pending[d]
    BY <1>0, <2>1, <2>2 DEF TypeOK
  <2>4. UNCHANGED <<uc, local, logRR>> /\ tangled \subseteq tangled'
    BY <1>1 DEF AddEntry, DeleteEntry, Tangle
  <2> QED BY <2>1, <2>3, <2>4, RecordRules
<1>2. ASSUME NEW c \in Callers, addBlock(c) \/ removeBlock(c)
      PROVE  RecordInv(k)'
  <2>1. /\ pending[c].on \in Rules
        /\ pending' = [pending EXCEPT ![c] = Nil]
    BY <1>0, <1>2, EditTypes DEF TypeOK, addBlock, removeBlock, Logging
  <2>2. /\ pending'[c] = Nil
        /\ \A d \in Callers : d # c => pending'[d] = pending[d]
    BY <1>0, <2>1 DEF TypeOK
  <2>3. UNCHANGED <<uc, local, logRR>> /\ tangled \subseteq tangled'
    BY <1>2 DEF addBlock, removeBlock, Logging
  <2> QED BY <2>1, <2>2, <2>3, RecordRules
<1>3. CASE Refresh \/ UNCHANGED state
  BY <1>3, RecordRules DEF Refresh, state
<1>4. CASE Restart
  BY <1>4, RecordStart DEF Restart
<1>5. UNCHANGED vars => UNCHANGED state
  BY DEF vars, state
<1>6. ASSUME NEW c \in Callers, BlockListStep(c) PROVE RecordInv(k)'
  BY <1>0, <1>1, <1>3, <1>6, OneEntry
<1> QED
  BY <1>2, <1>3, <1>4, <1>5, <1>6, RecordCall, RecordLog, RecordOverwrite
     DEF Next, Log, BlockListStep

LEMMA InvInit == Init => Inv
<1> SUFFICES ASSUME Init
             PROVE  Inv
  OBVIOUS
<1>1. \A c \in Callers : pending[c] = Nil
  BY DEF Init
<1>2. ASSUME NEW rule \in Rules
      PROVE  RuleInv(rule)
  BY <1>1 DEF Init, RuleInv, NetLog, Logged, EditOf, InFlight, Base
<1>3. ASSUME NEW k \in Keys
      PROVE  RecordInv(k)
  <2>1. Restarted(k) = LocalRecords(uc)[k]
    BY DEF Init, Restarted, Merged, LocalRecords, GetMergedConfig, filterRRs, NoRecords
  <2> QED BY <1>1, <2>1 DEF Init, RecordInv
<1>4. ArgOK /\ AliasOK /\ LogOK
  BY <1>1 DEF Init, ArgOK, AliasOK, LogOK
<1> QED BY <1>2, <1>3, <1>4, TypeInit DEF Inv

LEMMA InvStep == Inv /\ [Next]_vars => Inv'
<1> SUFFICES ASSUME Inv, [Next]_vars
             PROVE  Inv'
  OBVIOUS
<1>1. TypeOK'
  BY TypeStep DEF Inv
<1> QED BY <1>1, ArgStep, RuleStep, RecordStep DEF Inv

LEMMA InvAlways == Spec => []Inv
BY InvInit, InvStep, PTL DEF Spec

-----------------------------------------------------------------------------
(* Theorems *)

\* The calls, the log, refreshes and restarts keep every part of the state in its
\* type: a rule or a record in use has a domain and a type of the configuration or
\* of a call.
THEOREM TypeCorrect == Spec => []TypeOK
<1>1. Inv => TypeOK
  BY DEF Inv
<1> QED BY <1>1, InvAlways, PTL

LEMMA KeepsBlocks == Inv => BlocksSurvive
<1> SUFFICES ASSUME Inv, NEW rule \in rules, rule \notin tangled,
                    ~InFlight(rule), ~Covered(rule)
             PROVE  rule \in UpdateBlockList(Merged)
  BY DEF BlocksSurvive
<1>1. rule \in Rules /\ RuleInv(rule) /\ Logged(rule) /\ TypeOK /\ LogOK
  BY DEF Inv, TypeOK, RuleInv
<1>2. ASSUME NEW e \in Merged.blockDelete, rule \in DeleteTree(e)
      PROVE  FALSE
  <2>1. Rule(e) = rule /\ e \notin uc.blockDelete
    BY <1>2 DEF Covered
  <2>2. e \in blockDeletes /\ e \in Entries /\ e.canonical = TRUE
    BY <1>1, <2>1 DEF Merged, GetMergedConfig, TypeOK, LogOK, Entries
  <2>3. e = normalizeBlockEntry(e)
    BY <2>2 DEF normalizeBlockEntry, Entries
  <2> QED BY <1>1, <2>1, <2>2, <2>3, RuleOfEntry DEF RuleInv, NetLog, Logged
<1>3. /\ Merged.block =
            {e \in uc.block : normalizeBlockEntry(e) \notin blockDeletes} \cup blocks
      /\ uc.block \subseteq Entries
  BY <1>1 DEF Merged, GetMergedConfig, TypeOK, UserConfigs
<1>4. CASE Key(rule) \in blocks
  <2>1. Key(rule) \in Merged.block /\ Rule(Key(rule)) = rule
    BY <1>1, <1>3, <1>4, KeyOfRule
  <2> QED BY <1>2, <2>1 DEF UpdateBlockList
<1>5. CASE rule \in Base /\ Key(rule) \notin blockDeletes
  <2>1. rule \in FileRules \/ \E e \in uc.block : Rule(e) = rule
    BY <1>5 DEF Base, UpdateBlockList
  <2>2. ASSUME NEW e \in uc.block, Rule(e) = rule
        PROVE  normalizeBlockEntry(e) \notin blockDeletes
    BY <1>1, <1>3, <1>5, <2>2, RuleOfEntry DEF RuleInv, NetLog
  <2>3. rule \in FileRules \/ \E e \in Merged.block : Rule(e) = rule
    BY <1>3, <2>1, <2>2
  <2> QED BY <1>2, <2>3 DEF UpdateBlockList
<1> QED BY <1>1, <1>4, <1>5 DEF Logged

\* A start from the merged configuration blocks what the server blocks now.
THEOREM BlocksKept == Spec => []BlocksSurvive
BY KeepsBlocks, InvAlways, PTL

LEMMA KeepsDeletions == Inv => DeletionsSurvive
<1> SUFFICES ASSUME Inv, NEW rule \in Rules \ rules, rule \notin tangled,
                    ~InFlight(rule), Removable(rule), rule \in UpdateBlockList(Merged)
             PROVE  FALSE
  BY DEF DeletionsSurvive
<1>1. RuleInv(rule) /\ ~Logged(rule) /\ TypeOK /\ LogOK
  BY DEF Inv, RuleInv
<1>2. /\ Merged.block =
            {e \in uc.block : normalizeBlockEntry(e) \notin blockDeletes} \cup blocks
      /\ Merged.blockDelete = uc.blockDelete \cup
            (blockDeletes \ ({normalizeBlockEntry(e) : e \in uc.block} \cap blockDeletes))
      /\ uc.block \subseteq Entries /\ blocks \subseteq Entries
  BY <1>1 DEF Merged, GetMergedConfig, TypeOK, UserConfigs
<1>3. \A e \in Merged.blockDelete : rule \notin DeleteTree(e)
  BY DEF UpdateBlockList
<1>4. rule \in FileRules \/ (\E e \in uc.block : Rule(e) = rule) => rule \in Base
  BY <1>2, <1>3 DEF Base, UpdateBlockList
<1>5. ASSUME NEW e \in blocks, Rule(e) = rule
      PROVE  FALSE
  <2>1. e \in Entries /\ e.canonical = TRUE
    BY <1>1, <1>2 DEF LogOK, Entries
  <2>2. e = normalizeBlockEntry(e)
    BY <2>1 DEF normalizeBlockEntry, Entries
  <2> QED BY <1>1, <1>5, <2>1, <2>2, RuleOfEntry DEF RuleInv, NetLog, Logged
<1>6. ASSUME NEW e \in uc.block, Rule(e) = rule, normalizeBlockEntry(e) \notin blockDeletes
      PROVE  FALSE
  <2>1. ~Aliased(e)
    BY <1>6 DEF Removable
  <2>2. normalizeBlockEntry(e) = Key(rule)
    BY <1>2, <1>6, <2>1, RuleOfEntry
  <2> QED BY <1>1, <1>4, <1>6, <2>2 DEF Logged
<1>7. ASSUME rule \in FileRules
      PROVE  FALSE
  <2>1. rule[2] = "ANY" /\ \A e \in uc.block : Rule(e) # rule
    BY <1>7 DEF Removable
  <2>2. Key(rule) \in blockDeletes
    BY <1>1, <1>4, <1>7 DEF Logged
  <2>3. ASSUME NEW e \in uc.block, normalizeBlockEntry(e) = Key(rule)
        PROVE  FALSE
    <3>1. e.name = rule[1] /\ e.qtype = "none"
      BY <2>1, <2>3 DEF normalizeBlockEntry, Key
    <3>2. rule = <<rule[1], rule[2]>>
      BY SMT DEF Rules
    <3> QED BY <2>1, <3>1, <3>2 DEF Rule
  <2>4. Key(rule) \in Merged.blockDelete
    BY <1>2, <2>2, <2>3
  <2>5. rule[1] \in Suffixes(rule[1])
    BY ChangeLogAssumption DEF Rules
  <2>6. rule \in DeleteTree(Key(rule))
    BY <2>1, <2>5 DEF DeleteTree, Key
  <2> QED BY <1>3, <2>4, <2>6
<1>8. rule \in FileRules \/ \E e \in Merged.block : Rule(e) = rule
  BY DEF UpdateBlockList
<1> QED BY <1>2, <1>5, <1>6, <1>7, <1>8

\* A start from the merged configuration does not block again what was deleted.
THEOREM DeletionsKept == Spec => []DeletionsSurvive
BY KeepsDeletions, InvAlways, PTL

LEMMA KeepsRecords == Inv => RecordsSurvive
BY DEF Inv, RecordsSurvive, RecordInv, Restarted

\* A start from the merged configuration has the local records of now.
THEOREM RecordsKept == Spec => []RecordsSurvive
BY KeepsRecords, InvAlways, PTL
=============================================================================
