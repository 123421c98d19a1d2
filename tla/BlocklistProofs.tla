-------------------------- MODULE BlocklistProofs ---------------------------
(* Proofs about Blocklist, for every set of domain names and query types.  *)
EXTENDS Blocklist, SequenceTheorems, FunctionTheorems, FiniteSetTheorems,
        WellFoundedInduction, TLAPS

-----------------------------------------------------------------------------
(* Suffixes *)

LEMMA SuffixSelf ==
    ASSUME NEW S, NEW d \in Seq(S)
    PROVE  d \in Suffixes(d) /\ << >> \in Suffixes(d)
<1>1. Len(d) \in Nat /\ (Len(d) = 0 => d = << >>)
  BY EmptySeq, LenProperties
<1>2. CASE Len(d) = 0
  BY <1>1, <1>2 DEF Suffixes
<1>3. CASE Len(d) # 0
  <2>1. 1 \in 1..Len(d)
    BY <1>1, <1>3
  <2>2. SubSeq(d, 1, Len(d)) = d
    BY <1>1, <1>3
  <2> QED BY <2>1, <2>2 DEF Suffixes
<1> QED BY <1>2, <1>3

LEMMA SuffixTrans ==
    ASSUME NEW S, NEW n \in Seq(S), NEW d \in Suffixes(n), NEW e \in Suffixes(d)
    PROVE  e \in Suffixes(n)
<1>1. Len(n) \in Nat
  BY LenProperties
<1>2. CASE e = << >>
  BY <1>2 DEF Suffixes
<1>3. CASE e # << >>
  <2>1. PICK l \in 1..Len(d) : e = SubSeq(d, l, Len(d))
    BY <1>3 DEF Suffixes
  <2>2. d # << >>
    BY <2>1
  <2>3. PICK k \in 1..Len(n) : d = SubSeq(n, k, Len(n))
    BY <2>2 DEF Suffixes
  <2>4. Len(d) = Len(n) - k + 1 /\ \A i \in 1..Len(d) : d[i] = n[k + i - 1]
    BY <1>1, <2>3
  <2>5. k + l - 1 \in 1..Len(n)
    BY <1>1, <2>1, <2>4
  <2>6. SubSeq(n, k + l - 1, Len(n)) = SubSeq(d, l, Len(d))
    <3>. DEFINE a == SubSeq(n, k + l - 1, Len(n))
                b == SubSeq(d, l, Len(d))
    <3>0. d \in Seq(S)
      BY <1>1, <2>3
    <3>1. a \in Seq(S) /\ Len(a) = Len(n) - (k + l - 1) + 1
          /\ \A i \in 1..Len(a) : a[i] = n[(k + l - 1) + i - 1]
      BY <1>1, <2>5
    <3>2. b \in Seq(S) /\ Len(b) = Len(d) - l + 1
          /\ \A i \in 1..Len(b) : b[i] = d[l + i - 1]
      BY <1>1, <2>1, <2>4, <3>0, SMTT(30)
    <3>. HIDE DEF a, b
    <3>3. Len(a) = Len(b) /\ Len(a) \in Nat
      BY <1>1, <2>1, <2>4, <3>1, <3>2
    <3>4. \A i \in 1..Len(a) : a[i] = b[i]
      BY <1>1, <2>1, <2>4, <3>1, <3>2, <3>3, SMTT(30)
    <3>5. a = b
      BY <3>1, <3>2, <3>3, <3>4, SeqEqual
    <3> QED BY <3>5 DEF a, b
  <2> QED BY <2>1, <2>5, <2>6 DEF Suffixes
<1> QED BY <1>2, <1>3

\* What the two give for the names of the list.
LEMMA DomainSuffixes ==
    ASSUME NEW n \in Domains
    PROVE  /\ n \in Suffixes(n) /\ << >> \in Suffixes(n) /\ Suffixes(n) \subseteq Domains
           /\ \A d \in Suffixes(n) : Suffixes(d) \subseteq Suffixes(n)
<1>1. n \in Seq(Labels) /\ Suffixes(n) \subseteq Domains
  BY BlocklistAssumption
<1> QED BY <1>1, SuffixSelf, SuffixTrans

-----------------------------------------------------------------------------
(* The list of types of a level *)

Distinct(s) == \A i, j \in 1..Len(s) : s[i] = s[j] => i = j

LEMMA AddedList ==
    ASSUME NEW s \in Seq(QTypes), Distinct(s), NEW t \in QTypes
    PROVE  /\ Added(s, t) \in Seq(QTypes) /\ Added(s, t) # << >> /\ Distinct(Added(s, t))
           /\ \A u \in QTypes : Contains(Added(s, t), u) <=> Contains(s, u) \/ u = t
<1>1. Len(s) \in Nat /\ DOMAIN s = 1..Len(s)
  BY LenProperties
<1>2. CASE Contains(s, t)
  <2>1. Added(s, t) = s /\ s # << >>
    BY <1>2 DEF Added, Contains
  <2> QED BY <1>2, <2>1
<1>3. CASE ~Contains(s, t)
  <2>. DEFINE r == Append(s, t)
  <2>1. /\ r \in Seq(QTypes) /\ Len(r) = Len(s) + 1 /\ DOMAIN r = 1..Len(r)
        /\ \A i \in 1..Len(s) : r[i] = s[i]
        /\ r[Len(s) + 1] = t
    BY AppendProperties, LenProperties
  <2>2. Added(s, t) = r
    BY <1>3 DEF Added
  <2>. HIDE DEF r
  <2>3. Distinct(r)
    BY <1>1, <1>3, <2>1 DEF Distinct, Contains
  <2>4. \A u \in QTypes : Contains(r, u) <=> Contains(s, u) \/ u = t
    BY <1>1, <2>1 DEF Contains
  <2>5. r # << >>
    BY <1>1, <2>1
  <2> QED BY <2>1, <2>2, <2>3, <2>4, <2>5
<1> QED BY <1>2, <1>3

LEMMA RemovedList ==
    ASSUME NEW s \in Seq(QTypes), Distinct(s), NEW i \in 1..Len(s)
    PROVE  /\ Removed(s, i) \in Seq(QTypes) /\ Distinct(Removed(s, i))
           /\ \A u \in QTypes : Contains(Removed(s, i), u) <=> Contains(s, u) /\ u # s[i]
<1>. DEFINE a == SubSeq(s, 1, i - 1)
            b == SubSeq(s, i + 1, Len(s))
            r == a \o b
<1>1. Len(s) \in Nat /\ DOMAIN s = 1..Len(s)
  BY LenProperties
<1>2. a \in Seq(QTypes) /\ Len(a) = i - 1 /\ \A j \in 1..Len(a) : a[j] = s[j]
  BY <1>1
<1>3. b \in Seq(QTypes) /\ Len(b) = Len(s) - i /\ \A j \in 1..Len(b) : b[j] = s[i + j]
  <2>1. i + 1 \in 1..Len(s) + 1 /\ Len(s) \in i..Len(s)
    BY <1>1
  <2>2. /\ b \in Seq(QTypes)
        /\ Len(b) = IF i + 1 <= Len(s) THEN Len(s) - (i + 1) + 1 ELSE 0
        /\ \A j \in 1..Len(s) - (i + 1) + 1 : b[j] = s[(i + 1) + j - 1]
    BY <1>1, <2>1, SubSeqProperties
  <2>. HIDE DEF a, b, r
  <2>3. Len(b) = Len(s) - i
    <3>1. CASE i + 1 <= Len(s)
      BY <1>1, <2>2, <3>1
    <3>2. CASE ~(i + 1 <= Len(s))
      <4>1. Len(b) = 0
        BY <2>2, <3>2
      <4>2. ASSUME NEW m \in Nat, NEW k \in 1..m, ~(k + 1 <= m) PROVE k = m
        BY <4>2
      <4>3. i = Len(s)
        BY <1>1, <3>2, <4>2
      <4> QED BY <1>1, <4>1, <4>3
    <3> QED BY <3>1, <3>2
  <2>4. \A j \in 1..Len(b) : (i + 1) + j - 1 = i + j /\ j \in 1..Len(s) - (i + 1) + 1
    BY <1>1, <2>3
  <2> QED BY <2>2, <2>3, <2>4
<1>4. r = Removed(s, i)
  BY DEF Removed
<1>. HIDE DEF a, b
<1>5. /\ r \in Seq(QTypes) /\ Len(r) = Len(s) - 1 /\ DOMAIN r = 1..Len(r)
      /\ \A j \in 1..Len(r) : r[j] = IF j < i THEN s[j] ELSE s[j + 1]
  <2>1. r \in Seq(QTypes) /\ Len(r) = Len(a) + Len(b)
        /\ \A j \in 1..Len(a) + Len(b) : r[j] = IF j <= Len(a) THEN a[j] ELSE b[j - Len(a)]
    BY <1>2, <1>3, ConcatProperties
  <2>. HIDE DEF r
  <2>2. Len(r) = Len(s) - 1
    BY <1>1, <1>2, <1>3, <2>1
  <2>3. \A j \in 1..Len(r) : r[j] = IF j < i THEN s[j] ELSE s[j + 1]
    BY <1>1, <1>2, <1>3, <2>1, <2>2
  <2> QED BY <2>1, <2>2, <2>3, LenProperties
<1>. HIDE DEF r
<1>6. Distinct(r)
  <2>1. ASSUME NEW j \in 1..Len(r), NEW k \in 1..Len(r), r[j] = r[k] PROVE j = k
    <3>. DEFINE f(x) == IF x < i THEN x ELSE x + 1
    <3>1. f(j) \in 1..Len(s) /\ f(k) \in 1..Len(s) /\ r[j] = s[f(j)] /\ r[k] = s[f(k)]
      BY <1>1, <1>5
    <3>2. f(j) = f(k)
      BY <2>1, <3>1 DEF Distinct
    <3> QED BY <1>1, <1>5, <3>2
  <2> QED BY <1>5, <2>1 DEF Distinct
<1>7. ASSUME NEW u \in QTypes PROVE Contains(r, u) <=> Contains(s, u) /\ u # s[i]
  <2>1. ASSUME Contains(r, u) PROVE Contains(s, u) /\ u # s[i]
    BY <1>1, <1>5, <2>1 DEF Contains, Distinct
  <2>2. ASSUME Contains(s, u), u # s[i] PROVE Contains(r, u)
    <3>1. PICK j \in 1..Len(s) : s[j] = u
      BY <2>2 DEF Contains
    <3>2. CASE j < i
      BY <1>1, <1>5, <3>1, <3>2 DEF Contains
    <3>3. CASE j > i
      <4>1. j - 1 \in 1..Len(r) /\ r[j - 1] = s[j]
        BY <1>1, <1>5, <3>1, <3>3
      <4> QED BY <3>1, <4>1 DEF Contains
    <3> QED BY <1>1, <2>2, <3>1, <3>2, <3>3
  <2> QED BY <2>1, <2>2
<1> QED BY <1>4, <1>5, <1>6, <1>7

-----------------------------------------------------------------------------
(* Which levels are in reach *)

\* A path is a level and the path of its parent.
LEMMA SuffixTail ==
    ASSUME NEW d \in Domains, d # << >>
    PROVE  /\ Tail(d) \in Domains /\ Len(d) \in Nat /\ Len(Tail(d)) \in Nat /\ Len(Tail(d)) < Len(d)
           /\ Suffixes(d) = {d} \cup Suffixes(Tail(d))
<1>1. d \in Seq(Labels) /\ Suffixes(d) \subseteq Domains
  BY BlocklistAssumption
<1>2. Len(d) \in Nat /\ Len(d) # 0
  BY <1>1, EmptySeq, LenProperties
<1>3. /\ Tail(d) \in Seq(Labels) /\ Len(Tail(d)) = Len(d) - 1
      /\ \A i \in 1..Len(Tail(d)) : Tail(d)[i] = d[i + 1]
  BY <1>1, HeadTailProperties
<1>4. ASSUME NEW i \in 1..Len(d) - 1
      PROVE  SubSeq(Tail(d), i, Len(Tail(d))) = SubSeq(d, i + 1, Len(d))
  <2>. DEFINE a == SubSeq(Tail(d), i, Len(Tail(d)))
              b == SubSeq(d, i + 1, Len(d))
  <2>1. a \in Seq(Labels) /\ Len(a) = Len(d) - i /\ \A j \in 1..Len(a) : a[j] = d[i + j]
    BY <1>2, <1>3, SMTT(30)
  <2>2. b \in Seq(Labels) /\ Len(b) = Len(d) - i /\ \A j \in 1..Len(b) : b[j] = d[i + j]
    BY <1>1, <1>2, SMTT(30)
  <2>. HIDE DEF a, b
  <2>3. a = b
    BY <2>1, <2>2, SeqEqual
  <2> QED BY <2>3 DEF a, b
<1>5. SubSeq(d, 1, Len(d)) = d
  BY <1>1, <1>2
<1>6. Suffixes(d) \subseteq {d} \cup Suffixes(Tail(d))
  <2>1. ASSUME NEW i \in 1..Len(d)
        PROVE  SubSeq(d, i, Len(d)) \in {d} \cup Suffixes(Tail(d))
    <3>1. CASE i = 1
      BY <1>5, <3>1
    <3>2. CASE i # 1
      <4>1. i - 1 \in 1..Len(d) - 1 /\ i - 1 \in 1..Len(Tail(d)) /\ (i - 1) + 1 = i
        BY <1>2, <1>3, <3>2
      <4>2. SubSeq(Tail(d), i - 1, Len(Tail(d))) = SubSeq(d, i, Len(d))
        BY <1>4, <4>1
      <4> QED BY <4>1, <4>2 DEF Suffixes
    <3> QED BY <3>1, <3>2
  <2> QED BY <2>1 DEF Suffixes
<1>7. {d} \cup Suffixes(Tail(d)) \subseteq Suffixes(d)
  <2>1. ASSUME NEW i \in 1..Len(Tail(d))
        PROVE  SubSeq(Tail(d), i, Len(Tail(d))) \in Suffixes(d)
    <3>1. i \in 1..Len(d) - 1 /\ i + 1 \in 1..Len(d)
      BY <1>2, <1>3
    <3> QED BY <1>4, <3>1 DEF Suffixes
  <2> QED BY <1>1, <2>1, SuffixSelf DEF Suffixes
<1>8. Tail(d) \in Domains
  BY <1>1, <1>3, <1>7, SuffixSelf
<1> QED BY <1>2, <1>3, <1>6, <1>7, <1>8

LEMMA LeastNumber ==
    ASSUME NEW T \in SUBSET Nat, T # {}
    PROVE  \E x \in T : \A y \in T : x <= y
<1>. DEFINE R == OpToRel(<, Nat)
<1>1. IsWellFoundedOn(R, Nat)
  BY NatLessThanWellFounded, Zenon
<1>2. \A x, y \in Nat : <<x, y>> \in R <=> x < y
  BY DEF OpToRel
<1>. HIDE DEF R
<1>3. PICK x \in T : \A y \in T : ~(<<y, x>> \in R)
  BY <1>1, WFMin
<1>4. ASSUME NEW y \in T PROVE x <= y
  <2>1. x \in Nat /\ y \in Nat /\ ~(<<y, x>> \in R)
    BY <1>3
  <2>2. ~(y < x)
    BY <1>2, <2>1
  <2> QED BY <2>1, <2>2
<1> QED BY <1>4

\* After Add the path to the name is there, and no other level has come into
\* reach: not one that was left below a level which DeleteTree took out.
LEMMA ReachedAdd ==
    ASSUME TypeOK, NEW n \in Domains, links' = Linked(n)
    PROVE  \A d \in Domains : Reached(d)' <=> Reached(d) \/ d \in Suffixes(n)
<1>1. \A d \in Domains : d \in Suffixes(d) /\ \A e \in Suffixes(d) : Suffixes(e) \subseteq Suffixes(d)
  BY DomainSuffixes
<1>2. \A d \in Domains : Suffixes(d) \subseteq Domains
  BY DomainSuffixes
<1>3. links' = {d \in links : Tail(d) \notin Missing(n)} \cup Missing(n)
  BY DEF Linked
<1>4. ASSUME NEW e \in Domains, Reached(e) PROVE e \in links' \cup {<< >>}
  <2>1. CASE e = << >>
    BY <2>1
  <2>2. CASE e # << >>
    <3>1. e \in links /\ Reached(Tail(e))
      BY <1>1, <1>4, <2>2, SuffixTail DEF Reached
    <3> QED BY <1>3, <3>1 DEF Missing
  <2> QED BY <2>1, <2>2
<1>5. ASSUME NEW d \in Domains, Reached(d) PROVE Reached(d)'
  <2>1. \A e \in Suffixes(d) : e \in Domains /\ Reached(e)
    BY <1>1, <1>2, <1>5 DEF Reached
  <2> QED BY <1>4, <2>1 DEF Reached
<1>6. ASSUME NEW d \in Suffixes(n) PROVE Reached(d)'
  <2>1. d \in Domains /\ \A e \in Suffixes(d) : e \in Domains /\ e \in Suffixes(n)
    BY <1>1, <1>2
  <2>2. \A e \in Suffixes(d) : e \in links' \cup {<< >>}
    BY <1>3, <1>4, <2>1 DEF Missing
  <2> QED BY <2>2 DEF Reached
<1>. DEFINE Wrong(d) == d \in Domains /\ Reached(d)' /\ ~Reached(d) /\ d \notin Suffixes(n)
            T == {Len(d) : d \in {e \in Domains : Wrong(e)}}
<1>7. ASSUME NEW d \in Domains, Wrong(d)
      PROVE  d # << >> /\ Wrong(Tail(d))
  <2>1. << >> \in Suffixes(n) /\ d # << >>
    BY <1>7, DomainSuffixes
  <2>2. Tail(d) \in Domains /\ Suffixes(d) = {d} \cup Suffixes(Tail(d))
    BY <2>1, SuffixTail
  <2>3. Reached(Tail(d))' /\ d \in links'
    BY <1>7, <2>1, <2>2 DEF Reached
  <2>4. d \in links /\ Tail(d) \notin Missing(n)
    BY <1>3, <1>7, <2>3 DEF Missing
  <2>5. ~Reached(Tail(d))
    BY <1>7, <2>2, <2>4 DEF Reached
  <2> QED BY <2>1, <2>2, <2>3, <2>4, <2>5 DEF Missing
<1>8. T = {}
  <2>. SUFFICES ASSUME T # {} PROVE FALSE
    OBVIOUS
  <2>1. T \in SUBSET Nat
    BY BlocklistAssumption, LenProperties
  <2>2. PICK x \in T : \A y \in T : x <= y
    BY <2>1, LeastNumber
  <2>3. PICK d \in Domains : Wrong(d) /\ x = Len(d)
    BY <2>2
  <2>4. Wrong(Tail(d)) /\ Len(Tail(d)) \in Nat /\ Len(d) \in Nat /\ Len(Tail(d)) < Len(d)
    BY <1>7, <2>3, SuffixTail
  <2>5. Len(Tail(d)) \in T
    BY <2>4
  <2> QED BY <2>2, <2>3, <2>4, <2>5
<1> QED BY <1>5, <1>6, <1>8

\* DeleteTree puts a level out of reach, with all below it and nothing else.
LEMMA ReachedUnlink ==
    ASSUME TypeOK, NEW n \in Domains \ {<< >>}, Unlink(n)
    PROVE  \A d \in Domains : Reached(d)' <=> Reached(d) /\ n \notin Suffixes(d)
<1>1. \A d \in Domains : \A e \in Suffixes(d) : Suffixes(e) \subseteq Suffixes(d)
  BY DomainSuffixes
<1>2. Suffixes(Tail(n)) \subseteq Suffixes(n)
  BY SuffixTail
<1>3. CASE Reached(Tail(n))
  BY <1>3 DEF Unlink, Reached
<1>4. CASE ~Reached(Tail(n))
  BY <1>1, <1>2, <1>4 DEF Unlink, Reached
<1> QED BY <1>3, <1>4

-----------------------------------------------------------------------------
(* The rules in effect *)

IInv == TypeOK /\ \A d \in Domains : Distinct(blockQtype[d])

\* The level of d holds the rule for type t.
Holds(d, t) == IF t = "ANY" THEN d \in blockAny ELSE Contains(blockQtype[d], t)

LEMMA RuleIff ==
    /\ Rules \subseteq Domains \X Types
    /\ \A d \in Domains, t \in Types : <<d, t>> \in Rules <=> Reached(d) /\ Holds(d, t)
BY DEF Rules, Holds

\* The same of the state after a step.
LEMMA RuleIffNext ==
    /\ Rules' \subseteq Domains \X Types
    /\ \A d \in Domains, t \in Types : <<d, t>> \in Rules' <=> Reached(d)' /\ Holds(d, t)'
BY DEF Rules, Holds

\* Two sets of rules are the same if they agree on every domain and type.
LEMMA SameRules ==
    ASSUME NEW R, NEW Q, R \subseteq Domains \X Types, Q \subseteq Domains \X Types,
           \A d \in Domains, t \in Types : <<d, t>> \in R <=> <<d, t>> \in Q
    PROVE  R = Q
OBVIOUS

LEMMA InitIInv == Init => IInv /\ Set!Init
<1>. SUFFICES ASSUME Init PROVE IInv /\ Set!Init
  OBVIOUS
<1>1. << >> \in Seq(QTypes) /\ Len(<< >>) = 0
  BY EmptySeq
<1>2. IInv
  BY <1>1 DEF Init, IInv, TypeOK, Distinct
<1>3. \A d \in Domains, t \in Types : ~Holds(d, t)
  BY <1>1 DEF Init, Holds, Contains
<1>4. Rules = {}
  BY <1>3, RuleIff, SameRules
<1> QED BY <1>2, <1>4 DEF Init, Set!Init

\* Nothing of the trie changes.
LEMMA Frame ==
    ASSUME IInv, UNCHANGED <<links, blockAny, blockQtype>>,
           result' \in {"none", "true", "false", "error"}
    PROVE  IInv' /\ Rules' = Rules
BY DEF IInv, TypeOK, Distinct, Reached, Rules

LEMMA IgnoreStep ==
    ASSUME IInv, NEW r \in {"none", "error"}, Ignore(r)
    PROVE  IInv' /\ Set!Ignore(r)
BY Frame DEF Ignore, Set!Ignore

LEMMA AddStep ==
    ASSUME IInv, NEW n \in Domains, NEW t \in Types, Add(n, t)
    PROVE  IInv' /\ Set!Add(n, t)
<1>. DEFINE list(d) == IF d = n /\ t # "ANY" THEN Added(Listed(n, d), t) ELSE Listed(n, d)
<1>2. /\ n \in Suffixes(n) /\ Suffixes(n) \subseteq Domains
      /\ << >> \notin Missing(n) /\ Missing(n) \subseteq Suffixes(n)
  <2>1. Suffixes(<< >>) = {<< >>}
    BY EmptySeq DEF Suffixes
  <2> QED BY <2>1, DomainSuffixes DEF Missing, Reached
<1>3. /\ result' = "none" /\ links' = Linked(n)
      /\ blockAny' = (blockAny \ Missing(n)) \cup IF t = "ANY" THEN {n} ELSE {}
      /\ blockQtype' = [d \in Domains |-> list(d)]
  BY DEF Add
<1>4. \A d \in Domains : Listed(n, d) \in Seq(QTypes) /\ Distinct(Listed(n, d))
  BY EmptySeq DEF Listed, IInv, TypeOK, Distinct
<1>5. ASSUME t # "ANY"
      PROVE  /\ Added(Listed(n, n), t) \in Seq(QTypes) /\ Distinct(Added(Listed(n, n), t))
             /\ \A u \in QTypes : Contains(Added(Listed(n, n), t), u) <=> Contains(Listed(n, n), u) \/ u = t
  BY <1>4, <1>5, AddedList DEF Types
<1>6. \A d \in Domains : list(d) \in Seq(QTypes) /\ Distinct(list(d))
  BY <1>4, <1>5
<1>7. \A d \in Domains, u \in QTypes : Contains(list(d), u) <=> Contains(Listed(n, d), u) \/ (d = n /\ u = t)
  BY <1>5, BlocklistAssumption
<1>. HIDE DEF list
<1>8. \A d \in Domains : blockQtype'[d] = list(d)
  BY <1>3
<1>9. IInv'
  <2>1. links' \subseteq Domains \ {<< >>}
    BY <1>2, <1>3 DEF Linked, IInv, TypeOK
  <2>2. blockAny' \subseteq Domains
    BY <1>3 DEF IInv, TypeOK
  <2>3. blockQtype' \in [Domains -> Seq(QTypes)]
    BY <1>3, <1>6
  <2> QED BY <1>3, <1>6, <1>8, <2>1, <2>2, <2>3 DEF IInv, TypeOK
<1>10. \A d \in Domains : Reached(d)' <=> Reached(d) \/ d \in Missing(n)
  BY <1>3, ReachedAdd DEF IInv, Missing
<1>11. \A d \in Domains, u \in Types :
          Holds(d, u)' <=> (Holds(d, u) /\ d \notin Missing(n)) \/ (d = n /\ u = t)
  <2>1. \A d \in Domains : Holds(d, "ANY")' <=> (Holds(d, "ANY") /\ d \notin Missing(n)) \/ (d = n /\ "ANY" = t)
    BY <1>3 DEF Holds
  <2>2. ASSUME NEW d \in Domains, NEW u \in QTypes
        PROVE  Holds(d, u)' <=> (Holds(d, u) /\ d \notin Missing(n)) \/ (d = n /\ u = t)
    <3>1. u # "ANY" /\ ~Contains(<< >>, u)
      BY BlocklistAssumption, EmptySeq DEF Contains
    <3>2. Holds(d, u)' <=> Contains(Listed(n, d), u) \/ (d = n /\ u = t)
      BY <1>7, <1>8, <3>1 DEF Holds
    <3> QED BY <3>1, <3>2 DEF Holds, Listed
  <2> QED BY <2>1, <2>2 DEF Types
<1>12. Rules' = Rules \cup {<<n, t>>}
  <2>1. Rules \cup {<<n, t>>} \subseteq Domains \X Types
    BY RuleIff
  <2>2. \A d \in Domains, u \in Types : <<d, u>> \in Rules' <=> <<d, u>> \in Rules \cup {<<n, t>>}
    <3>1. Reached(n) \/ n \in Missing(n)
      BY <1>2 DEF Missing
    <3>2. \A d \in Missing(n) : ~Reached(d)
      BY DEF Missing
    <3> QED BY <1>10, <1>11, <3>1, <3>2, RuleIff, RuleIffNext
  <2> QED BY <2>1, <2>2, RuleIffNext, SameRules
<1> QED BY <1>3, <1>9, <1>12 DEF Set!Add

\* Match looks at the levels in reach, which are those with the rules in effect.
LEMMA MatchStep ==
    ASSUME IInv, NEW n \in Domains, NEW t \in Types, Match(n, t)
    PROVE  IInv' /\ Set!Match(n, t)
<1>1. result' \in {"true", "false"}
  BY DEF Match, Answer
<1>2. IInv' /\ Rules' = Rules
  BY <1>1, Frame DEF Match
<1>3. Suffixes(n) \subseteq Domains /\ "ANY" \in Types
  BY DomainSuffixes DEF Types
<1>4. \A d \in Domains : Blocks(d, t) <=> Holds(d, "ANY") \/ Holds(d, t)
  <2>1. \A d \in Domains : ~Contains(blockQtype[d], "ANY")
    BY BlocklistAssumption DEF IInv, TypeOK, Contains
  <2> QED BY <2>1 DEF Blocks, Holds
<1>5. Set!Blocked(n, t) <=> \E d \in Suffixes(n) : Reached(d) /\ Blocks(d, t)
  <2>1. ASSUME NEW d \in Suffixes(n), Reached(d) /\ Blocks(d, t)
        PROVE  Set!Blocked(n, t)
    <3>1. PICK u \in {"ANY", t} : <<d, u>> \in Rules
      BY <1>3, <1>4, <2>1, RuleIff
    <3> QED BY <3>1, <2>1 DEF Set!Blocked
  <2>2. ASSUME NEW rule \in Rules, rule[1] \in Suffixes(n), rule[2] \in {"ANY", t}
        PROVE  \E d \in Suffixes(n) : Reached(d) /\ Blocks(d, t)
    <3>1. rule = <<rule[1], rule[2]>> /\ rule[1] \in Domains /\ rule[2] \in Types
      BY RuleIff
    <3>2. Reached(rule[1]) /\ Blocks(rule[1], t)
      BY <1>4, <2>2, <3>1, RuleIff
    <3> QED BY <2>2, <3>2
  <2> QED BY <2>1, <2>2 DEF Set!Blocked
<1> QED BY <1>2, <1>5 DEF Match, Set!Match, Answer, Set!Answer

LEMMA DeleteStep ==
    ASSUME IInv, NEW n \in Domains, NEW t \in Types, Delete(n, t)
    PROVE  IInv' /\ Set!Delete(n, t)
<1>1. links' = links /\ \A d \in Domains : Reached(d)' <=> Reached(d)
  BY DEF Delete, Reached
<1>2. \A d \in Domains : ~Contains(blockQtype[d], "ANY")
  BY BlocklistAssumption DEF IInv, TypeOK, Contains
\* One rule goes, and all others stay.
<1>3. ASSUME Reached(n) /\ Holds(n, t) /\ result' = "true",
             \A d \in Domains, u \in Types : Holds(d, u)' <=> Holds(d, u) /\ ~(d = n /\ u = t)
      PROVE  Set!Delete(n, t)
  <2>1. Rules' = Rules \ {<<n, t>>}
    <3>1. Rules \ {<<n, t>>} \subseteq Domains \X Types
      BY RuleIff
    <3>2. \A d \in Domains, u \in Types : <<d, u>> \in Rules' <=> <<d, u>> \in Rules \ {<<n, t>>}
      BY <1>1, <1>3, RuleIff, RuleIffNext
    <3> QED BY <3>1, <3>2, RuleIffNext, SameRules
  <2>2. <<n, t>> \in Rules
    BY <1>3, RuleIff
  <2> QED BY <1>3, <2>1, <2>2 DEF Set!Delete, Set!Answer
<1>4. CASE /\ Reached(n) /\ t = "ANY" /\ n \in blockAny
           /\ blockAny' = blockAny \ {n} /\ result' = "true" /\ blockQtype' = blockQtype
  <2>1. IInv'
    BY <1>1, <1>4 DEF IInv, TypeOK, Distinct
  <2>2. \A d \in Domains, u \in Types : Holds(d, u)' <=> Holds(d, u) /\ ~(d = n /\ u = t)
    BY <1>4 DEF Holds
  <2>3. Holds(n, t)
    BY <1>4 DEF Holds
  <2> QED BY <1>3, <1>4, <2>1, <2>2, <2>3
<1>5. ASSUME Reached(n),
             NEW i \in 1..Len(blockQtype[n]),
             blockQtype[n][i] = t,
             blockQtype' = [blockQtype EXCEPT ![n] = Removed(blockQtype[n], i)],
             result' = "true", blockAny' = blockAny
      PROVE  IInv' /\ Set!Delete(n, t)
  <2>1. blockQtype[n] \in Seq(QTypes) /\ Distinct(blockQtype[n])
    BY DEF IInv, TypeOK
  <2>2. Contains(blockQtype[n], t) /\ t \in QTypes /\ t # "ANY"
    BY <1>2, <1>5, <2>1 DEF Contains, Types
  <2>3. /\ Removed(blockQtype[n], i) \in Seq(QTypes) /\ Distinct(Removed(blockQtype[n], i))
        /\ \A u \in QTypes : Contains(Removed(blockQtype[n], i), u)
                                <=> Contains(blockQtype[n], u) /\ u # t
    BY <1>5, <2>1, RemovedList
  <2>4. \A d \in Domains : blockQtype'[d] = IF d = n THEN Removed(blockQtype[n], i) ELSE blockQtype[d]
    BY <1>5 DEF IInv, TypeOK
  <2>5. IInv'
    <3>1. TypeOK'
      BY <1>1, <1>5, <2>3 DEF IInv, TypeOK
    <3> QED BY <2>3, <2>4, <3>1 DEF IInv
  <2>6. \A d \in Domains, u \in Types : Holds(d, u)' <=> Holds(d, u) /\ ~(d = n /\ u = t)
    <3>1. \A d \in Domains : Holds(d, "ANY")' <=> Holds(d, "ANY")
      BY <1>5 DEF Holds
    <3>2. \A d \in Domains, u \in QTypes : Holds(d, u)' <=> Holds(d, u) /\ ~(d = n /\ u = t)
      BY <2>3, <2>4, BlocklistAssumption DEF Holds
    <3> QED BY <2>2, <3>1, <3>2 DEF Types
  <2>7. Holds(n, t)
    BY <2>2 DEF Holds
  <2> QED BY <1>3, <1>5, <2>5, <2>6, <2>7
<1>6. CASE /\ ~(Reached(n) /\ t = "ANY" /\ n \in blockAny)
           /\ ~(Reached(n) /\ Contains(blockQtype[n], t))
           /\ result' = "false" /\ UNCHANGED <<blockAny, blockQtype>>
  <2>1. <<n, t>> \notin Rules
    BY <1>6, RuleIff DEF Holds
  <2>2. IInv' /\ Rules' = Rules
    BY <1>1, <1>6, Frame
  <2> QED BY <1>6, <2>1, <2>2 DEF Set!Delete, Set!Answer
<1> QED BY <1>4, <1>5, <1>6 DEF Delete

\* Unlinking a level takes away the rules of its subtree, no more and no less.
LEMMA UnlinkStep ==
    ASSUME IInv, NEW n \in Domains \ {<< >>}, Unlink(n),
           result' \in {"none", "true", "false"}
    PROVE  /\ IInv' /\ Rules' = Rules \ Set!Below(n)
           /\ ~Reached(n) => Set!Below(n) = {}
<1>1. IInv'
  BY DEF Unlink, IInv, TypeOK, Distinct
<1>2. \A d \in Domains : Reached(d)' <=> Reached(d) /\ n \notin Suffixes(d)
  BY ReachedUnlink DEF IInv
<1>3. \A d \in Domains, u \in Types : Holds(d, u)' <=> Holds(d, u)
  BY DEF Unlink, Holds
<1>4. Rules' = Rules \ Set!Below(n)
  <2>1. \A d \in Domains, u \in Types :
          <<d, u>> \in Rules \ Set!Below(n) <=> <<d, u>> \in Rules /\ n \notin Suffixes(d)
    BY DEF Set!Below
  <2>2. Rules \ Set!Below(n) \subseteq Domains \X Types
    BY RuleIff
  <2>3. \A d \in Domains, u \in Types : <<d, u>> \in Rules' <=> <<d, u>> \in Rules \ Set!Below(n)
    BY <1>2, <1>3, <2>1, RuleIff, RuleIffNext
  <2> QED BY <2>2, <2>3, RuleIffNext, SameRules
<1>5. ~Reached(n) => Set!Below(n) = {}
  <2>1. ASSUME NEW rule \in Rules, n \in Suffixes(rule[1])
        PROVE  Reached(n)
    <3>1. rule[1] \in Domains /\ rule[2] \in Types /\ rule = <<rule[1], rule[2]>>
      BY RuleIff
    <3>2. Reached(rule[1])
      BY <3>1, RuleIff
    <3> QED BY <2>1, <3>1, <3>2, DomainSuffixes DEF Reached
  <2> QED BY <2>1 DEF Set!Below
<1> QED BY <1>1, <1>4, <1>5

-----------------------------------------------------------------------------
(* The operations *)

LEMMA AddEntryStep ==
    ASSUME IInv, NEW e \in Entries, NEW default \in Types, AddEntry(e, default)
    PROVE  IInv' /\ Set!AddEntry(e, default)
<1>1. e.name \in Domains /\ (e.qtype # "bad" => Qtype(e, default) \in Types)
  BY BlocklistAssumption DEF Entries, Qtype
<1>2. CASE e.qtype = "bad"
  BY <1>2, IgnoreStep DEF AddEntry, Set!AddEntry
<1>3. CASE e.qtype # "bad"
  <2>1. IInv' /\ Set!Add(e.name, Qtype(e, default))
    BY <1>1, <1>3, AddStep DEF AddEntry
  <2> QED BY <1>3, <2>1 DEF Set!AddEntry, Qtype
<1> QED BY <1>2, <1>3

LEMMA AddHostsEntryStep ==
    ASSUME IInv, NEW e \in Entries, NEW ip \in Addresses, AddHostsEntry(e, ip)
    PROVE  IInv' /\ Set!AddHostsEntry(e, ip)
<1>1. CASE ip = "0.0.0.0"
  <2>1. IInv' /\ Set!AddEntry(e, "ANY")
    BY <1>1, AddEntryStep DEF AddHostsEntry, Types
  <2> QED BY <1>1, <2>1 DEF Set!AddHostsEntry
<1>2. CASE ip # "0.0.0.0"
  BY <1>2, IgnoreStep DEF AddHostsEntry, Set!AddHostsEntry, Addresses
<1> QED BY <1>1, <1>2

LEMMA DeleteEntryStep ==
    ASSUME IInv, NEW e \in Entries, DeleteEntry(e, "ANY")
    PROVE  IInv' /\ Set!DeleteEntry(e, "ANY")
<1>1. e.name \in Domains /\ (e.qtype # "bad" => Qtype(e, "ANY") \in Types)
  BY BlocklistAssumption DEF Entries, Qtype, Types
<1>2. CASE e.qtype = "bad"
  BY <1>2, IgnoreStep DEF DeleteEntry, Set!DeleteEntry
<1>3. CASE e.qtype # "bad"
  <2>1. IInv' /\ Set!Delete(e.name, Qtype(e, "ANY"))
    BY <1>1, <1>3, DeleteStep DEF DeleteEntry
  <2> QED BY <1>3, <2>1 DEF Set!DeleteEntry, Qtype
<1> QED BY <1>2, <1>3

LEMMA BlockDeleteStep ==
    ASSUME IInv, NEW e \in Entries, BlockDelete(e)
    PROVE  IInv' /\ Set!BlockDelete(e)
<1>1. e.name \in Domains \ {<< >>} /\ result' = "none"
  BY BlocklistAssumption DEF Entries, BlockDelete, Ignore
<1>2. CASE e.qtype = "none"
  <2>1. IInv' /\ Rules' = Rules \ Set!Below(e.name)
    BY <1>1, <1>2, UnlinkStep DEF BlockDelete
  <2> QED BY <1>1, <1>2, <2>1 DEF Set!BlockDelete
<1>3. CASE e.qtype # "none"
  <2>1. IInv' /\ Rules' = Rules
    BY <1>3, IgnoreStep DEF BlockDelete, Set!Ignore
  <2> QED BY <1>1, <1>3, <2>1 DEF Set!BlockDelete
<1> QED BY <1>2, <1>3

LEMMA DeleteTreeStep ==
    ASSUME IInv, NEW n \in Domains \ {<< >>}, DeleteTree(n)
    PROVE  IInv' /\ Set!DeleteTree(n)
BY UnlinkStep DEF DeleteTree, Answer, Set!DeleteTree

\* What ImplementsSet says of a step.
Steps ==
    /\ \A e \in Entries, default \in Types : AddEntry(e, default) => Set!AddEntry(e, default)
    /\ \A e \in Entries, ip \in Addresses : AddHostsEntry(e, ip) => Set!AddHostsEntry(e, ip)
    /\ \A e \in Entries : DeleteEntry(e, "ANY") => Set!DeleteEntry(e, "ANY")
    /\ \A e \in Entries : BlockDelete(e) => Set!BlockDelete(e)
    /\ \A name \in Names \ {<< >>} : DeleteTree(name) => Set!DeleteTree(name)
    /\ \A name \in Names, qtype \in Types : Match(name, qtype) => Set!Match(name, qtype)

LEMMA EveryStep == IInv => Steps
<1>1. Names \subseteq Domains
  BY BlocklistAssumption
<1> QED BY <1>1, AddEntryStep, AddHostsEntryStep, DeleteEntryStep, BlockDeleteStep,
           DeleteTreeStep, MatchStep DEF Steps

LEMMA NextIInv == IInv /\ [Next]_vars => IInv'
<1>. SUFFICES ASSUME IInv, [Next]_vars PROVE IInv'
  OBVIOUS
<1>1. Names \subseteq Domains
  BY BlocklistAssumption
<1>2. CASE UNCHANGED vars
  BY <1>2, Frame DEF vars, IInv, TypeOK
<1>3. CASE Next
  BY <1>1, <1>3, AddEntryStep, AddHostsEntryStep, DeleteEntryStep, BlockDeleteStep,
     DeleteTreeStep, MatchStep DEF Next
<1> QED BY <1>2, <1>3

\* The invariant of the trie: its types, and that no level lists a type twice.
THEOREM SpecIInv == Spec => []IInv
BY InitIInv, NextIInv, PTL DEF Spec

\* Every level stands for a domain and holds query types only, never ANY; every
\* operation of the blocklist returns.
THEOREM TypeCorrect == Spec => []TypeOK
BY SpecIInv, PTL DEF IInv

\* Every operation on the trie of blocklist/trie.go, with whatever arguments, does
\* and returns what the same operation does on the set of rules, for every set of
\* domains and of query types and after every sequence of operations.
THEOREM Implements == Spec => ImplementsSet
<1>1. Init => Set!Init
  BY InitIInv
<1>2. IInv /\ [Next]_vars => [Steps]_vars
  BY EveryStep
<1> QED BY <1>1, <1>2, SpecIInv, PTL DEF Spec, ImplementsSet, Steps

-----------------------------------------------------------------------------
(* Count *)

\* The elements that Count counts and the rules in effect are as many: each stands
\* for one rule, since no level lists a type twice.
LEMMA CountStep == IInv => CountsRules
<1>. SUFFICES ASSUME IInv PROVE CountsRules
  OBVIOUS
<1>. DEFINE f == [p \in Counted |-> <<p[1], IF p[2] = 0 THEN "ANY" ELSE blockQtype[p[1]][p[2]]>>]
<1>1. /\ \A d \in Domains : blockQtype[d] \in Seq(QTypes) /\ Distinct(blockQtype[d])
      /\ \A d \in Domains : Len(blockQtype[d]) \in Nat
      /\ \A d \in Domains : \A i \in 1..Len(blockQtype[d]) : blockQtype[d][i] \in QTypes
  BY LenProperties DEF IInv, TypeOK
<1>2. \A d, i : <<d, i>> \in Counted <=> /\ d \in Domains /\ Reached(d)
                                        /\ \/ i = 0 /\ d \in blockAny
                                           \/ i \in 1..Len(blockQtype[d])
  BY DEF Counted, IInv, TypeOK
<1>3. \A p \in Counted : p = <<p[1], p[2]>>
  BY DEF Counted
<1>4. "ANY" \notin QTypes
  BY BlocklistAssumption
<1>5. \A p \in Counted : f[p] \in Rules
  <2>. SUFFICES ASSUME NEW p \in Counted PROVE f[p] \in Rules
    OBVIOUS
  <2>1. p[1] \in Domains /\ Reached(p[1])
    BY <1>2, <1>3
  <2>2. CASE p[2] = 0
    <3>1. p[1] \in blockAny
      BY <1>1, <1>2, <1>3, <2>2
    <3> QED BY <2>1, <2>2, <3>1, RuleIff DEF Holds, Types
  <2>3. CASE p[2] # 0
    <3>1. p[2] \in 1..Len(blockQtype[p[1]])
      BY <1>2, <1>3, <2>3
    <3>2. blockQtype[p[1]][p[2]] \in QTypes /\ Contains(blockQtype[p[1]], blockQtype[p[1]][p[2]])
      BY <1>1, <2>1, <3>1 DEF Contains
    <3>3. Holds(p[1], blockQtype[p[1]][p[2]])
      BY <1>4, <3>2 DEF Holds
    <3> QED BY <2>1, <2>3, <3>2, <3>3, RuleIff DEF Types
  <2> QED BY <2>2, <2>3
<1>6. ASSUME NEW p \in Counted, NEW q \in Counted, f[p] = f[q] PROVE p = q
  <2>1. p[1] = q[1] /\ p[1] \in Domains
    BY <1>2, <1>3, <1>6
  <2>2. p[2] = q[2]
    <3>1. (p[2] = 0 \/ p[2] \in 1..Len(blockQtype[p[1]])) /\ (q[2] = 0 \/ q[2] \in 1..Len(blockQtype[p[1]]))
      BY <1>2, <1>3, <2>1
    <3>2. CASE p[2] = 0 \/ q[2] = 0
      BY <1>1, <1>4, <1>6, <2>1, <3>1, <3>2
    <3>3. CASE p[2] # 0 /\ q[2] # 0
      BY <1>1, <1>6, <2>1, <3>1, <3>3 DEF Distinct
    <3> QED BY <3>2, <3>3
  <2> QED BY <1>3, <2>1, <2>2
<1>7. \A r \in Rules : \E p \in Counted : f[p] = r
  <2>. SUFFICES ASSUME NEW r \in Rules PROVE \E p \in Counted : f[p] = r
    OBVIOUS
  <2>1. r = <<r[1], r[2]>> /\ r[1] \in Domains /\ r[2] \in Types
    BY RuleIff
  <2>2. Reached(r[1]) /\ Holds(r[1], r[2])
    BY <2>1, RuleIff
  <2>3. CASE r[2] = "ANY"
    <3>1. <<r[1], 0>> \in Counted
      BY <1>2, <2>1, <2>2, <2>3 DEF Holds
    <3> QED BY <2>1, <2>3, <3>1
  <2>4. CASE r[2] # "ANY"
    <3>1. PICK i \in 1..Len(blockQtype[r[1]]) : blockQtype[r[1]][i] = r[2]
      BY <2>2, <2>4 DEF Holds, Contains
    <3>2. <<r[1], i>> \in Counted /\ i # 0
      BY <1>1, <1>2, <2>1, <2>2, <3>1
    <3> QED BY <2>1, <3>1, <3>2
  <2> QED BY <2>3, <2>4
<1>8. ExistsBijection(Counted, Rules)
  <2>1. f \in [Counted -> Rules]
    BY <1>5
  <2>. HIDE DEF f
  <2>2. f \in Bijection(Counted, Rules)
    BY <1>6, <1>7, <2>1, Fun_IsBij
  <2> QED BY <2>2 DEF ExistsBijection
<1>9. IsFiniteSet(Rules)
  <2>1. IsFiniteSet(Types)
    BY BlocklistAssumption, FS_AddElement DEF Types
  <2>2. IsFiniteSet(Domains \X Types)
    BY <2>1, BlocklistAssumption, FS_Product
  <2> QED BY <2>2, RuleIff, FS_Subset
<1> QED BY <1>8, <1>9, Fun_ExistsBijSymmetric, FS_Bijection DEF CountsRules, Count

\* The blocklist always reports the number of its rules in effect.
THEOREM CountIsRight == Spec => []CountsRules
BY SpecIInv, CountStep, PTL

=============================================================================
