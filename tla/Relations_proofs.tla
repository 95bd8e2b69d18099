------------------------- MODULE Relations_proofs -------------------------
(***************************************************************************)
(* Theorems about Relations and their proofs: for any number of projects,  *)
(* learners and runners, any proposals and answers of any length.          *)
(***************************************************************************)
EXTENDS Relations, WellFoundedInduction, FiniteSetTheorems, TLAPS

\* A rule about projects of P, stored by a reflect of B, on only in a wording of A.
Rules(P, B, A) ==
  {r \in [name: {p.name : p \in Proposals}, from: P, to: P, action: Actions, enabled: BOOLEAN, batch: B] :
     r.enabled => Content(r) \in A}

\* A nonempty set of naturals has a least element.
LEMMA Least ==
  ASSUME NEW S \in SUBSET Nat, S # {}
  PROVE  \E n \in S : \A m \in S : ~(m < n)
<1>1. \E x \in S : \A y \in S : ~(<<y, x>> \in OpToRel(<, Nat))
  BY NatLessThanWellFounded, WFMin, Zenon
<1>2. \A x \in S : \A y \in S : y < x => <<y, x>> \in OpToRel(<, Nat)
  BY Zenon DEF OpToRel
<1> QED
  BY <1>1, <1>2, Zenon

\* A set of naturals with 0, and with n + 1 whenever with n < b, has all up to b.
LEMMA UpTo ==
  ASSUME NEW b \in Nat, NEW S, 0 \in S, \A n \in 0 .. b : n > 0 /\ n - 1 \in S => n \in S
  PROVE  0 .. b \subseteq S
<1> SUFFICES ASSUME (0 .. b) \ S # {} PROVE FALSE
  OBVIOUS
<1>1. PICK n \in (0 .. b) \ S : \A m \in (0 .. b) \ S : ~(m < n)
  <2>1. (0 .. b) \ S \in SUBSET Nat
    OBVIOUS
  <2> QED
    BY <2>1, Least, Zenon
<1>2. n > 0 /\ n - 1 \in 0 .. b /\ n - 1 < n
  BY <1>1
<1> QED
  BY <1>1, <1>2

-----------------------------------------------------------------------------
(* Sequences, with their elements as opaque values.                        *)

LEMMA Element == ASSUME NEW S, NEW s \in Seq(S), NEW i \in DOMAIN s PROVE s[i] \in S
OBVIOUS

LEMMA OtherElements ==
  ASSUME NEW S, NEW T, NEW s \in Seq(S), \A i \in DOMAIN s : s[i] \in T PROVE s \in Seq(T)
OBVIOUS

LEMMA Replaced ==
  ASSUME NEW S, NEW s \in Seq(S), NEW i \in DOMAIN s, NEW x \in S
  PROVE  /\ [s EXCEPT ![i] = x] \in Seq(S) /\ DOMAIN [s EXCEPT ![i] = x] = DOMAIN s
         /\ \A j \in DOMAIN s : [s EXCEPT ![i] = x][j] = IF j = i THEN x ELSE s[j]
OBVIOUS

LEMMA Appended ==
  ASSUME NEW S, NEW s \in Seq(S), NEW x \in S
  PROVE  /\ Append(s, x) \in Seq(S) /\ DOMAIN s = 1 .. Len(s) /\ Len(s) \in Nat
         /\ DOMAIN Append(s, x) = 1 .. (Len(s) + 1) /\ Append(s, x)[Len(s) + 1] = x
         /\ \A j \in DOMAIN s : Append(s, x)[j] = s[j]
OBVIOUS

LEMMA TailOf ==
  ASSUME NEW S, NEW s \in Seq(S), s # <<>>
  PROVE  /\ SubSeq(s, 2, Len(s)) \in Seq(S) /\ 1 \in DOMAIN s
         /\ \A k \in DOMAIN SubSeq(s, 2, Len(s)) : k + 1 \in DOMAIN s /\ SubSeq(s, 2, Len(s))[k] = s[k + 1]
OBVIOUS

-----------------------------------------------------------------------------
(* upsert_by_name, and an answer.                                          *)

LEMMA UpsertKeeps ==
  ASSUME NEW P, NEW B, NEW A, NEW rs \in Seq(Rules(P, B, A)),
         NEW p \in Proposals, p.from \in P, p.to \in P, p.action \in Actions, NEW b \in B
  PROVE  Upsert(rs, p, b) \in Seq(Rules(P, B, A)) /\ Len(rs) <= Len(Upsert(rs, p, b))
<1> DEFINE i == FindByName(rs, p.name)
           row == [name |-> p.name, from |-> p.from, to |-> p.to, action |-> p.action,
                   enabled |-> FALSE, batch |-> b]
<1>1. row \in Rules(P, B, A)
  BY DEF Rules
<1>2. i = 0 \/ i \in DOMAIN rs
  BY DEF FindByName
<1>3. Upsert(rs, p, b) = IF i = 0 THEN Append(rs, row) ELSE [rs EXCEPT ![i] = row]
  BY DEF Upsert
<1> HIDE DEF row, i
<1>4. CASE i = 0
  BY <1>1, <1>3, <1>4
<1>5. CASE i # 0
  BY <1>1, <1>2, <1>3, <1>5
<1> QED
  BY <1>4, <1>5

\* However many proposals an answer has, its rows are about registered projects and off.
LEMMA StoredKeeps ==
  ASSUME NEW P, NEW B, NEW A, rules \in Seq(Rules(P, B, A)), NEW names, NEW b \in B,
         NEW n \in Nat, NEW ps \in [1 .. n -> Proposals],
         \A i \in 1 .. n : {ps[i].from, ps[i].to} \subseteq names => {ps[i].from, ps[i].to} \subseteq P
  PROVE  Stored(ps, names, b) \in Seq(Rules(P, B, A)) /\ Len(rules) <= Len(Stored(ps, names, b))
<1> DEFINE Next1(before, i) ==
             IF {ps[i].from, ps[i].to} \subseteq names THEN Upsert(before, ps[i], b) ELSE before
           IsLoop(f, k) == f = [i \in 0 .. k |-> IF i = 0 THEN rules ELSE Next1(f[i - 1], i)]
           loop == CHOOSE f : IsLoop(f, n)
<1>1. Len(ps) = n
  OBVIOUS
<1>2. Stored(ps, names, b) = loop[n]
  BY <1>1 DEF Stored
<1>3. \E f : IsLoop(f, n)
  <2> DEFINE S == {k \in Nat : \E f : IsLoop(f, k)}
  <2>1. 0 \in S
    <3>1. IsLoop([i \in 0 .. 0 |-> rules], 0)
      BY 0 .. 0 = {0}
    <3> QED
      BY <3>1
  <2>2. ASSUME NEW k \in 0 .. n, k > 0, k - 1 \in S PROVE k \in S
    <3>1. PICK f : IsLoop(f, k - 1)
      BY <2>2
    <3> DEFINE g == [i \in 0 .. k |-> IF i = k THEN Next1(f[k - 1], k) ELSE f[i]]
    <3>2. k \in Nat /\ k - 1 \in Nat
      BY <2>2
    <3>3. \A i \in 0 .. (k - 1) : g[i] = f[i] /\ f[i] = IF i = 0 THEN rules ELSE Next1(f[i - 1], i)
      <4> HIDE DEF Next1
      <4> QED
        BY <3>1, <3>2
    <3>4. \A i \in 0 .. k : g[i] = IF i = 0 THEN rules ELSE Next1(g[i - 1], i)
      <4> SUFFICES ASSUME NEW i \in 0 .. k PROVE g[i] = IF i = 0 THEN rules ELSE Next1(g[i - 1], i)
        OBVIOUS
      <4> HIDE DEF Next1
      <4>1. CASE i = k
        <5>1. g[i] = Next1(f[k - 1], k) /\ g[i - 1] = f[k - 1]
          BY <2>2, <3>2, <3>3, <4>1
        <5> QED
          BY <2>2, <4>1, <5>1
      <4>2. CASE i # k
        <5>1. i \in 0 .. (k - 1) /\ (i # 0 => i - 1 \in 0 .. (k - 1))
          BY <3>2, <4>2
        <5> HIDE DEF g
        <5> QED
          BY <3>3, <5>1
      <4> QED
        BY <4>1, <4>2
    <3>5. IsLoop(g, k)
      <4> HIDE DEF Next1
      <4>1. g = [i \in 0 .. k |-> g[i]]
        OBVIOUS
      <4> HIDE DEF g
      <4> QED
        BY <3>4, <4>1
    <3> QED
      BY <3>2, <3>5
  <2>3. 0 .. n \subseteq S
    <3> HIDE DEF S
    <3> QED
      BY <2>1, <2>2, UpTo
  <2> QED
    BY <2>3
<1>4. IsLoop(loop, n)
  BY <1>3
<1> HIDE DEF loop
<1>5. \A i \in 0 .. n : loop[i] = IF i = 0 THEN rules ELSE Next1(loop[i - 1], i)
  <2> HIDE DEF Next1
  <2> QED
    BY <1>4
<1> DEFINE T == {i \in 0 .. n : loop[i] \in Seq(Rules(P, B, A)) /\ Len(rules) <= Len(loop[i])}
<1>6. 0 \in T
  BY <1>5
<1>7. ASSUME NEW i \in 0 .. n, i > 0, i - 1 \in T PROVE i \in T
  <2>1. loop[i - 1] \in Seq(Rules(P, B, A)) /\ Len(rules) <= Len(loop[i - 1]) /\ i \in 1 .. n
    BY <1>7
  <2>2. loop[i] = Next1(loop[i - 1], i)
    BY <1>5, <1>7
  <2>3. CASE {ps[i].from, ps[i].to} \subseteq names
    <3>1. ps[i] \in Proposals /\ ps[i].from \in P /\ ps[i].to \in P /\ ps[i].action \in Actions
      BY <2>1, <2>3, RelationsAssumption
    <3>2. loop[i] = Upsert(loop[i - 1], ps[i], b)
      BY <2>2, <2>3
    <3>3. loop[i] \in Seq(Rules(P, B, A)) /\ Len(loop[i - 1]) <= Len(loop[i])
      BY <2>1, <3>1, <3>2, UpsertKeeps
    <3> QED
      BY <2>1, <3>3
  <2>4. CASE ~({ps[i].from, ps[i].to} \subseteq names)
    <3>1. loop[i] = loop[i - 1]
      BY <2>2, <2>4
    <3> QED
      BY <2>1, <3>1
  <2> QED
    BY <2>3, <2>4
<1>8. n \in T
  <2>1. 0 .. n \subseteq T
    <3> HIDE DEF T
    <3> QED
      BY <1>6, <1>7, UpTo, Zenon
  <2> QED
    BY <2>1
<1> QED
  BY <1>2, <1>8

-----------------------------------------------------------------------------
(* The invariant.                                                          *)

\* A rule that a runner may act upon.
Standing(B, A) == {r \in Rules(Projects, B, A) : Content(r) \in A}

Quest(P) == [project: P, done: BOOLEAN, depth: Nat]

\* The rules that f has listed start from the project of its quest, one of qs.
Follows(f, qs) ==
  /\ f # Idle => f.quest \in DOMAIN qs
  /\ \A k \in DOMAIN f.rules : f.rules[k].from = qs[f.quest].project

RulesInv ==
  /\ projects \subseteq Projects /\ rules \in Seq(Rules(projects, reflected, switched))
  /\ known \in [Learners -> {None} \cup SUBSET Projects]
  /\ found = None \/ (found.id \in DOMAIN rules /\ found.on \in BOOLEAN)

QuestsInv ==
  /\ quests \in Seq(Quest(projects))
  /\ firing \in [Runners -> [quest: Nat, rules: Seq(Standing(reflected, switched))]]
  /\ \A t \in Runners : Follows(firing[t], quests)

\* The ranks of the projects along the switched rules.
Ranks == {rank \in [Projects -> 1 .. Cardinality(Projects)] : \A p \in Edges : rank[p[1]] < rank[p[2]]}

DepthInv == \A rank \in Ranks, q \in DOMAIN quests : quests[q].depth < rank[quests[q].project]

LEMMA RulesGrow ==
  ASSUME NEW P, NEW B, NEW A, NEW P2, NEW B2, NEW A2, P \subseteq P2, B \subseteq B2, A \subseteq A2,
         NEW rs \in Seq(Rules(P, B, A))
  PROVE  rs \in Seq(Rules(P2, B2, A2))
<1>1. Rules(P, B, A) \subseteq Rules(P2, B2, A2)
  <2> SUFFICES ASSUME NEW r \in Rules(P, B, A) PROVE r \in Rules(P2, B2, A2)
    OBVIOUS
  <2> QED
    BY DEF Rules
<1> QED
  BY <1>1

LEMMA RulesStep == RulesInv /\ [Next]_vars => RulesInv' /\ switched \subseteq switched' /\ reflected \subseteq reflected'
<1> SUFFICES ASSUME RulesInv, [Next]_vars
             PROVE  RulesInv' /\ switched \subseteq switched' /\ reflected \subseteq reflected'
  OBVIOUS
<1>1. CASE UNCHANGED <<projects, rules, switched, reflected, known, found>>
  BY <1>1 DEF RulesInv
<1>2. ASSUME NEW p \in Projects, Add(p) PROVE RulesInv' /\ UNCHANGED <<switched, reflected>>
  <2>1. /\ projects' = projects \cup {p} /\ UNCHANGED <<rules, switched, reflected, known, found>>
    BY <1>2 DEF Add, learning, history
  <2>2. rules \in Seq(Rules(projects', reflected, switched))
    BY <2>1, RulesGrow DEF RulesInv
  <2> QED
    BY <2>1, <2>2 DEF RulesInv
<1>3. ASSUME NEW p \in Projects, Remove(p) PROVE RulesInv' /\ UNCHANGED <<switched, reflected>>
  <2>1. /\ projects' = projects \ {p} /\ UNCHANGED <<rules, switched, reflected, known, found>>
        /\ \A i \in DOMAIN rules : rules[i].from # p /\ rules[i].to # p
    BY <1>3 DEF Remove, Used, learning, history
  <2>2. \A i \in 1 .. Len(rules) : rules[i] \in Rules(projects', reflected, switched)
    <3> SUFFICES ASSUME NEW i \in 1 .. Len(rules) PROVE rules[i] \in Rules(projects', reflected, switched)
      OBVIOUS
    <3>1. rules[i] \in Rules(projects, reflected, switched) /\ rules[i].from # p /\ rules[i].to # p
      BY <2>1 DEF RulesInv
    <3> QED
      BY <2>1, <3>1 DEF Rules
  <2>3. rules \in Seq(Rules(projects', reflected, switched))
    BY <2>2 DEF RulesInv
  <2> QED
    BY <2>1, <2>3 DEF RulesInv
<1>4. ASSUME NEW l \in Learners, ReflectReads(l) \/ ReflectFails(l) PROVE RulesInv' /\ UNCHANGED <<switched, reflected>>
  <2>1. UNCHANGED <<projects, rules, switched, reflected, found>>
    BY <1>4 DEF ReflectReads, ReflectFails, history
  <2>2. known' \in [Learners -> {None} \cup SUBSET Projects]
    BY <1>4 DEF ReflectReads, ReflectFails, RulesInv
  <2> QED
    BY <2>1, <2>2 DEF RulesInv
<1>5. ASSUME NEW l \in Learners, ReflectStores(l) PROVE RulesInv' /\ switched \subseteq switched' /\ reflected \subseteq reflected'
  <2> DEFINE b == Cardinality(reflected) + 1
  <2>1. PICK ps \in Answers : /\ known[l] # None /\ ~Dangling(ps, known[l]) /\ rules' = Stored(ps, known[l], b)
                              /\ reflected' = reflected \cup {b} /\ known' = [known EXCEPT ![l] = None]
                              /\ UNCHANGED <<projects, switched, found>>
    BY <1>5 DEF ReflectStores, history
  <2>2. PICK n \in Nat : ps \in [1 .. n -> Proposals]
    BY RelationsAssumption DEF Answers
  <2>3. \A i \in 1 .. n : {ps[i].from, ps[i].to} \subseteq known[l] => {ps[i].from, ps[i].to} \subseteq projects
    BY <2>1, <2>2 DEF Dangling
  <2>4. rules \in Seq(Rules(projects, reflected', switched)) /\ b \in reflected'
    BY <2>1, RulesGrow DEF RulesInv
  <2> HIDE DEF b
  <2>5. rules' \in Seq(Rules(projects, reflected', switched)) /\ Len(rules) <= Len(rules')
    BY <2>1, <2>2, <2>3, <2>4, StoredKeeps
  <2>6. DOMAIN rules \subseteq DOMAIN rules'
    BY <2>4, <2>5
  <2> QED
    BY <2>1, <2>5, <2>6 DEF RulesInv
<1>6. ASSUME NEW i \in DOMAIN rules, NEW on \in BOOLEAN, Finds(i, on) PROVE RulesInv' /\ UNCHANGED <<switched, reflected>>
  BY <1>6 DEF Finds, RulesInv, learning, history
<1>7. CASE SetEnabled
  <2>1. /\ rules' = [rules EXCEPT ![found.id].enabled = found.on] /\ found' = None
        /\ switched' = (IF found.on THEN switched \cup {Content(rules[found.id])} ELSE switched)
        /\ UNCHANGED <<projects, reflected, known>> /\ found.id \in DOMAIN rules /\ found.on \in BOOLEAN
    BY <1>7 DEF SetEnabled, RulesInv, learning
  <2>2. switched \subseteq switched'
    BY <2>1
  <2>3. rules \in Seq(Rules(projects, reflected, switched'))
    BY <2>2, RulesGrow DEF RulesInv
  <2> DEFINE r == [rules[found.id] EXCEPT !.enabled = found.on]
  <2>4. r \in Rules(projects, reflected, switched')
    <3>1. rules[found.id] \in Rules(projects, reflected, switched')
      BY <2>1, <2>3
    <3>2. Content(r) = Content(rules[found.id])
      BY <3>1 DEF Content, Rules
    <3>3. found.on => Content(r) \in switched'
      BY <2>1, <3>2
    <3> QED
      BY <2>1, <3>1, <3>3 DEF Rules
  <2>5. rules' = [rules EXCEPT ![found.id] = r]
    BY <2>1
  <2> HIDE DEF r
  <2>6. rules' \in Seq(Rules(projects, reflected, switched'))
    BY <2>1, <2>3, <2>4, <2>5
  <2> QED
    BY <2>1, <2>2, <2>6 DEF RulesInv
<1> QED
  BY <1>1, <1>2, <1>3, <1>4, <1>5, <1>6, <1>7
  DEF Next, vars, learning, history, Fires, Dispatches, Proposes, FireEnds

LEMMA StandingGrow ==
  ASSUME NEW B, NEW A, NEW B2, NEW A2, B \subseteq B2, A \subseteq A2
  PROVE  Standing(B, A) \subseteq Standing(B2, A2)
<1> SUFFICES ASSUME NEW r \in Standing(B, A) PROVE r \in Standing(B2, A2)
  OBVIOUS
<1> QED
  BY DEF Standing, Rules

LEMMA Opaque == ASSUME NEW R, NEW f \in [quest: Nat, rules: Seq(R)] PROVE f.quest \in Nat /\ f.rules \in Seq(R)
OBVIOUS

LEMMA IdleTyped == ASSUME NEW R PROVE Idle \in [quest: Nat, rules: Seq(R)] /\ DOMAIN Idle.rules = {}
<1>1. <<>> \in Seq(R) /\ DOMAIN <<>> = {}
  OBVIOUS
<1> QED
  BY <1>1 DEF Idle

\* What follows quests follows them also when more come.
LEMMA FollowsOn ==
  ASSUME NEW f, NEW qs, NEW qs2, Follows(f, qs), DOMAIN qs \subseteq DOMAIN qs2,
         \A q \in DOMAIN qs : qs2[q].project = qs[q].project
  PROVE  Follows(f, qs2)
<1>1. CASE f = Idle
  <2>1. DOMAIN f.rules = {}
    BY <1>1, IdleTyped
  <2> QED
    BY <1>1, <2>1 DEF Follows
<1>2. CASE f # Idle
  BY <1>2 DEF Follows
<1> QED
  BY <1>1, <1>2

\* A runner that has rules has a quest.
LEMMA Acting ==
  ASSUME QuestsInv, NEW t \in Runners, firing[t].rules # <<>>
  PROVE  /\ firing[t].quest \in DOMAIN quests /\ 1 \in DOMAIN firing[t].rules
         /\ firing[t].rules[1] \in Standing(reflected, switched)
         /\ firing[t].rules[1].from = quests[firing[t].quest].project
<1>1. firing[t] # Idle
  BY DEF Idle
<1>2. Follows(firing[t], quests) /\ firing[t].rules \in Seq(Standing(reflected, switched))
  BY DEF QuestsInv
<1>3. 1 \in DOMAIN firing[t].rules
  BY <1>2, TailOf
<1> QED
  BY <1>1, <1>2, <1>3, Element DEF Follows

LEMMA QuestRow ==
  ASSUME QuestsInv, NEW q \in DOMAIN quests
  PROVE  quests[q] \in Quest(projects) /\ quests[q].project \in projects /\ quests[q].depth \in Nat
<1>1. quests[q] \in Quest(projects)
  BY Element DEF QuestsInv
<1> QED
  BY <1>1 DEF Quest

LEMMA QuestsStep == RulesInv /\ QuestsInv /\ [Next]_vars => QuestsInv'
<1> SUFFICES ASSUME RulesInv, QuestsInv, [Next]_vars PROVE QuestsInv'
  OBVIOUS
<1> DEFINE R == Standing(reflected', switched')
<1>0. /\ firing \in [Runners -> [quest: Nat, rules: Seq(R)]] /\ quests \in Seq(Quest(projects))
      /\ \A t \in Runners : Follows(firing[t], quests)
  <2>1. Standing(reflected, switched) \subseteq R
    BY RulesStep, StandingGrow
  <2>2. Seq(Standing(reflected, switched)) \subseteq Seq(R)
    <3> HIDE DEF R
    <3> QED
      BY <2>1
  <2> HIDE DEF R
  <2> QED
    BY <2>2 DEF QuestsInv
\* Runner t goes on to f, and quests keep their places and projects.
<1>2. ASSUME NEW t \in Runners, NEW f \in [quest: Nat, rules: Seq(R)], firing' = [firing EXCEPT ![t] = f],
             Follows(f, quests), quests' \in Seq(Quest(projects')), DOMAIN quests \subseteq DOMAIN quests',
             \A q \in DOMAIN quests : quests'[q].project = quests[q].project
      PROVE  QuestsInv'
  <2> HIDE DEF R
  <2>1. firing' \in [Runners -> [quest: Nat, rules: Seq(R)]] /\ \A u \in Runners : firing'[u] = IF u = t THEN f ELSE firing[u]
    BY <1>0, <1>2
  <2>2. \A u \in Runners : Follows(firing'[u], quests)
    BY <1>0, <1>2, <2>1
  <2>3. \A u \in Runners : Follows(firing'[u], quests')
    BY <1>2, <2>2, FollowsOn
  <2> QED
    BY <1>2, <2>1, <2>3 DEF QuestsInv, R
<1>3. ASSUME UNCHANGED <<quests, firing>>, quests \in Seq(Quest(projects')) PROVE QuestsInv'
  BY <1>0, <1>3 DEF QuestsInv
<1>4. ASSUME UNCHANGED <<projects, quests, firing>> PROVE QuestsInv'
  BY <1>0, <1>3, <1>4
<1>5. ASSUME NEW p \in Projects, Add(p) PROVE QuestsInv'
  <2>1. projects \subseteq projects' /\ UNCHANGED <<quests, firing>>
    BY <1>5 DEF Add, running
  <2>2. \A q \in DOMAIN quests : quests[q] \in Quest(projects')
    BY <2>1, QuestRow DEF Quest
  <2> QED
    BY <1>0, <1>3, <2>1, <2>2, OtherElements
<1>6. ASSUME NEW p \in Projects, Remove(p) PROVE QuestsInv'
  <2>1. \A q \in DOMAIN quests : quests[q].project # p
    BY <1>6 DEF Remove, Used
  <2>2. projects' = projects \ {p} /\ UNCHANGED <<quests, firing>>
    BY <1>6 DEF Remove, running
  <2>3. \A q \in DOMAIN quests : quests[q] \in Quest(projects')
    BY <2>1, <2>2, QuestRow DEF Quest
  <2> QED
    BY <1>0, <1>3, <2>2, <2>3, OtherElements
<1>7. ASSUME NEW t \in Runners, NEW q \in DOMAIN quests, Fires(t, q) PROVE QuestsInv'
  <2>1. PICK listed \in ListByFrom(quests[q].project) :
          /\ firing' = [firing EXCEPT ![t] = [quest |-> q, rules |-> listed]]
          /\ quests' = [quests EXCEPT ![q].done = TRUE] /\ UNCHANGED projects
    BY <1>7 DEF Fires
  <2> DEFINE ids == {i \in DOMAIN rules : rules[i].from = quests[q].project /\ rules[i].enabled}
  <2>2. PICK s \in [1 .. Cardinality(ids) -> ids] : listed = [k \in DOMAIN s |-> rules[s[k]]]
    BY DEF ListByFrom
  <2>3. IsFiniteSet(ids) /\ Cardinality(ids) \in Nat
    <3>1. IsFiniteSet(1 .. Len(rules)) /\ ids \subseteq 1 .. Len(rules)
      BY FS_Interval DEF RulesInv
    <3> QED
      BY <3>1, FS_Subset, FS_CardinalityType
  <2>4. \A i \in ids : rules[i] \in R /\ rules[i].from = quests[q].project
    <3> SUFFICES ASSUME NEW i \in ids PROVE rules[i] \in R /\ rules[i].from = quests[q].project
      OBVIOUS
    <3>1. rules[i] \in Rules(projects, reflected, switched) /\ rules[i].enabled /\ rules[i].from = quests[q].project
      BY Element DEF RulesInv
    <3>2. Content(rules[i]) \in switched /\ switched \subseteq switched' /\ reflected \subseteq reflected' /\ projects \subseteq Projects
      BY <3>1, RulesStep DEF Rules, RulesInv
    <3> QED
      BY <3>1, <3>2 DEF Rules, Standing
  <2> HIDE DEF ids, R
  <2>5. listed \in Seq(R) /\ DOMAIN listed = 1 .. Cardinality(ids) /\ \A k \in DOMAIN listed : s[k] \in ids /\ listed[k] = rules[s[k]]
    BY <2>2, <2>3, <2>4
  <2> DEFINE f == [quest |-> q, rules |-> listed]
             x == [quests[q] EXCEPT !.done = TRUE]
  <2>6. q \in Nat /\ f \in [quest: Nat, rules: Seq(R)] /\ f.quest = q /\ f.rules = listed
    BY <1>0, <2>5
  <2>7. x \in Quest(projects') /\ x.project = quests[q].project /\ quests' = [quests EXCEPT ![q] = x]
    BY <2>1, QuestRow DEF Quest
  <2> HIDE DEF x
  <2>8. /\ quests' \in Seq(Quest(projects')) /\ DOMAIN quests' = DOMAIN quests
        /\ \A o \in DOMAIN quests : quests'[o].project = quests[o].project
    <3>1. quests \in Seq(Quest(projects'))
      BY <1>0, <2>1
    <3>2. /\ quests' \in Seq(Quest(projects')) /\ DOMAIN quests' = DOMAIN quests
          /\ \A o \in DOMAIN quests : quests'[o] = IF o = q THEN x ELSE quests[o]
      BY <2>7, <3>1, Replaced, Zenon
    <3> QED
      BY <2>7, <3>2
  <2> HIDE DEF f
  <2>9. firing' = [firing EXCEPT ![t] = f]
    BY <2>1 DEF f
  <2>10. Follows(f, quests)
    BY <2>4, <2>5, <2>6 DEF Follows
  <2> QED
    BY <1>2, <2>6, <2>8, <2>9, <2>10 DEF R
\* A runner that has acted on the first of its rules goes on to the rest.
<1>8. ASSUME NEW t \in Runners, firing[t].rules # <<>>, firing' = Rest(t),
             quests' \in Seq(Quest(projects')), DOMAIN quests \subseteq DOMAIN quests',
             \A q \in DOMAIN quests : quests'[q].project = quests[q].project
      PROVE  QuestsInv'
  <2> DEFINE rs == firing[t].rules
             f == [firing[t] EXCEPT !.rules = SubSeq(@, 2, Len(@))]
  <2> HIDE DEF R
  <2>1. firing' = [firing EXCEPT ![t] = f]
    BY <1>8 DEF Rest
  <2>2. firing[t] \in [quest: Nat, rules: Seq(R)] /\ rs \in Seq(R) /\ Follows(firing[t], quests)
    BY <1>0
  <2>3. /\ SubSeq(rs, 2, Len(rs)) \in Seq(R)
        /\ \A k \in DOMAIN SubSeq(rs, 2, Len(rs)) : k + 1 \in DOMAIN rs /\ SubSeq(rs, 2, Len(rs))[k] = rs[k + 1]
    <3> HIDE DEF rs
    <3> QED
      BY <1>8, <2>2, TailOf DEF rs
  <2>4. f.quest = firing[t].quest /\ f.rules = SubSeq(rs, 2, Len(rs)) /\ f \in [quest: Nat, rules: Seq(R)]
    BY <2>2, <2>3
  <2>5. Follows(f, quests)
    <3>1. f.quest \in DOMAIN quests
      BY <1>8, <2>4, Acting
    <3> HIDE DEF f
    <3> QED
      BY <2>2, <2>3, <2>4, <3>1 DEF Follows
  <2> HIDE DEF f
  <2> QED
    BY <1>2, <1>8, <2>1, <2>4, <2>5 DEF R
<1>9. ASSUME NEW t \in Runners, Dispatches(t) PROVE QuestsInv'
  <2> DEFINE x == [project |-> firing[t].rules[1].to, done |-> FALSE, depth |-> quests[firing[t].quest].depth + 1]
  <2>1. /\ firing[t].rules # <<>> /\ firing' = Rest(t) /\ UNCHANGED projects /\ firing[t].rules[1].to \in projects
        /\ quests' = Append(quests, x)
    BY <1>9 DEF Dispatches
  <2>2. x \in Quest(projects')
    BY <2>1, Acting, QuestRow DEF Quest
  <2> HIDE DEF x
  <2>3. quests' \in Seq(Quest(projects')) /\ DOMAIN quests \subseteq DOMAIN quests' /\ \A q \in DOMAIN quests : quests'[q] = quests[q]
    <3>1. quests \in Seq(Quest(projects'))
      BY <1>0, <2>1
    <3> QED
      BY <2>1, <2>2, <3>1, Appended
  <2> QED
    BY <1>8, <2>1, <2>3
<1>10. ASSUME NEW t \in Runners, Proposes(t) PROVE QuestsInv'
  BY <1>0, <1>8, <1>10 DEF Proposes
<1>11. ASSUME NEW t \in Runners, FireEnds(t) PROVE QuestsInv'
  <2>1. Idle \in [quest: Nat, rules: Seq(R)] /\ DOMAIN Idle.rules = {}
    BY IdleTyped
  <2>2. Follows(Idle, quests)
    BY <2>1 DEF Follows
  <2> HIDE DEF R
  <2> QED
    BY <1>0, <1>2, <1>11, <2>1, <2>2 DEF FireEnds, R
<1> QED
  BY <1>4, <1>5, <1>6, <1>7, <1>9, <1>10, <1>11
  DEF Next, vars, running, learning, ReflectReads, ReflectStores, ReflectFails, Finds, SetEnabled

LEMMA Start == Init => RulesInv /\ QuestsInv
<1> SUFFICES ASSUME Init PROVE RulesInv /\ QuestsInv
  OBVIOUS
<1>1. RulesInv
  <2>1. <<>> \in Seq(Rules(projects, reflected, switched))
    OBVIOUS
  <2> QED
    BY <2>1 DEF Init, RulesInv
<1>2. QuestsInv
  <2>1. PICK p \in Projects : quests = <<[project |-> p, done |-> FALSE, depth |-> 0]>> /\ projects = Projects
    BY DEF Init
  <2>2. quests \in Seq(Quest(projects))
    BY <2>1 DEF Quest
  <2>3. firing = [t \in Runners |-> Idle]
    BY DEF Init
  <2>4. Follows(Idle, quests)
    BY IdleTyped DEF Follows
  <2> QED
    BY <2>2, <2>3, <2>4, IdleTyped DEF QuestsInv
<1> QED
  BY <1>1, <1>2

LEMMA Holds == Spec => [](RulesInv /\ QuestsInv)
BY Start, RulesStep, QuestsStep, PTL DEF Spec

\* Whatever a model proposes, in answers of any length that overwrite rules while runs act
\* on them, is stored whole, and acted upon only in a wording that it had when a command
\* switched it on (reflect, fire_quest_completed).
THEOREM LearnsSafely == Spec => []LearnedSafely
<1> SUFFICES ASSUME RulesInv, QuestsInv PROVE LearnedSafely
  BY Holds, PTL
<1>1. \A i \in DOMAIN rules : rules[i] \in Rules(projects, reflected, switched)
  BY DEF RulesInv
<1>2. \A q \in DOMAIN quests : quests[q].project \in projects /\ quests[q].depth \in Nat
  BY QuestRow
<1>3. TypeOK
  <2>1. \A i \in DOMAIN rules : {rules[i].from, rules[i].to} \subseteq projects /\ rules[i].enabled \in BOOLEAN
    BY <1>1 DEF Rules
  <2> QED
    BY <1>2, <2>1 DEF RulesInv, QuestsInv, TypeOK, Follows
<1>4. SwitchedOn
  <2>1. \A i \in DOMAIN rules : rules[i].enabled => Content(rules[i]) \in switched
    BY <1>1 DEF Rules
  <2>2. \A t \in Runners : firing[t].rules \in Seq(Standing(reflected, switched))
    BY DEF QuestsInv
  <2>3. \A t \in Runners : \A k \in DOMAIN firing[t].rules : firing[t].rules[k] \in Standing(reflected, switched)
    BY <2>2, Element
  <2> QED
    BY <2>1, <2>3 DEF SwitchedOn, Standing
<1>5. ReflectedWhole
  BY <1>1 DEF ReflectedWhole, Rules
<1> QED
  BY <1>3, <1>4, <1>5 DEF LearnedSafely

\* Follow-ups of follow-ups end after at most as many steps as there are projects, as long
\* as the rules that commands have switched on form no cycle (fire_quest_completed).
THEOREM FollowUpsEnd == Spec => []ChainsEnd
<1>1. Init => DepthInv
  <2> SUFFICES ASSUME Init, NEW rank \in Ranks, NEW q \in DOMAIN quests PROVE quests[q].depth < rank[quests[q].project]
    BY DEF DepthInv
  <2>1. PICK p \in Projects : quests = <<[project |-> p, done |-> FALSE, depth |-> 0]>>
    BY DEF Init
  <2>2. quests[q].depth = 0 /\ quests[q].project = p
    BY <2>1
  <2>3. rank[p] \in 1 .. Cardinality(Projects) /\ Cardinality(Projects) \in Nat
    BY RelationsAssumption, FS_CardinalityType DEF Ranks
  <2> QED
    BY <2>2, <2>3
<1>2. RulesInv /\ QuestsInv /\ DepthInv /\ [Next]_vars => DepthInv'
  <2> SUFFICES ASSUME RulesInv, QuestsInv, DepthInv, [Next]_vars PROVE DepthInv'
    OBVIOUS
  <2>1. switched \subseteq switched'
    BY RulesStep
  <2>2. Ranks' \subseteq Ranks
    BY <2>1 DEF Ranks, Edges
  <2>3. ASSUME DOMAIN quests' = DOMAIN quests,
               \A q \in DOMAIN quests : quests'[q].project = quests[q].project /\ quests'[q].depth = quests[q].depth
        PROVE  DepthInv'
    BY <2>2, <2>3 DEF DepthInv
  <2>4. ASSUME NEW t \in Runners, NEW q \in DOMAIN quests, Fires(t, q) PROVE DepthInv'
    <3> DEFINE x == [quests[q] EXCEPT !.done = TRUE]
    <3>1. quests' = [quests EXCEPT ![q] = x] /\ quests \in Seq(Quest(projects))
      BY <2>4 DEF Fires, QuestsInv
    <3>2. x \in Quest(projects) /\ x.project = quests[q].project /\ x.depth = quests[q].depth
      BY QuestRow DEF Quest
    <3> HIDE DEF x
    <3> QED
      BY <2>3, <3>1, <3>2, Replaced
  <2>5. ASSUME NEW t \in Runners, Dispatches(t) PROVE DepthInv'
    <3> DEFINE r == firing[t].rules[1]
               q == firing[t].quest
               n == Len(quests) + 1
               x == [project |-> r.to, done |-> FALSE, depth |-> quests[q].depth + 1]
    <3>1. firing[t].rules # <<>> /\ r.action = "auto_dispatch" /\ quests' = Append(quests, x)
      BY <2>5 DEF Dispatches
    <3>2. q \in DOMAIN quests /\ r \in Standing(reflected, switched) /\ r.from = quests[q].project
      BY <3>1, Acting
    <3>3. Content(r) \in switched /\ r.to \in Projects
      BY <3>2 DEF Standing, Rules
    <3>4. <<quests[q].project, r.to>> \in Edges
      <4>1. Content(r).action = "auto_dispatch" /\ Content(r).from = quests[q].project /\ Content(r).to = r.to
        BY <3>1, <3>2 DEF Content
      <4> QED
        BY <3>3, <4>1 DEF Edges
    <3>5. quests \in Seq(Quest(projects)) /\ x \in Quest(projects)
      <4>1. r.to \in projects
        BY <2>5 DEF Dispatches
      <4> QED
        BY <3>2, <4>1, QuestRow DEF QuestsInv, Quest
    <3>6. x.project = r.to /\ x.depth = quests[q].depth + 1 /\ quests[q].depth \in Nat /\ quests[q].project \in Projects
      BY <3>2, QuestRow DEF RulesInv
    <3> HIDE DEF x, r, q
    <3>7. /\ n \in Nat /\ DOMAIN quests' = 1 .. n /\ DOMAIN quests = 1 .. (n - 1) /\ quests'[n] = x
          /\ \A o \in 1 .. (n - 1) : quests'[o] = quests[o]
      BY <3>1, <3>5, Appended
    <3> HIDE DEF n
    <3> SUFFICES ASSUME NEW rank \in Ranks, NEW o \in 1 .. n PROVE quests'[o].depth < rank[quests'[o].project]
      BY <2>2, <3>7 DEF DepthInv
    <3>8. CASE o # n
      <4>1. o \in 1 .. (n - 1)
        BY <3>7, <3>8
      <4> QED
        BY <3>7, <4>1 DEF DepthInv
    <3>9. CASE o = n
      <4>1. rank[quests[q].project] < rank[r.to]
        BY <3>4 DEF Ranks
      <4>2. quests[q].depth < rank[quests[q].project]
        BY <3>2 DEF DepthInv
      <4>3. rank[quests[q].project] \in Nat /\ rank[r.to] \in Nat
        <5>1. Cardinality(Projects) \in Nat
          BY RelationsAssumption, FS_CardinalityType
        <5> QED
          BY <3>3, <3>6, <5>1 DEF Ranks
      <4> QED
        BY <3>6, <3>7, <3>9, <4>1, <4>2, <4>3
    <3> QED
      BY <3>8, <3>9
  <2>6. ASSUME UNCHANGED quests PROVE DepthInv'
    BY <2>3, <2>6
  <2> QED
    BY <2>4, <2>5, <2>6 DEF Next, vars, running, learning, Add, Remove, ReflectReads, ReflectStores, ReflectFails,
                Finds, SetEnabled, Proposes, FireEnds
<1>3. QuestsInv /\ RulesInv /\ DepthInv => ChainsEnd
  <2> SUFFICES ASSUME QuestsInv, RulesInv, DepthInv, Acyclic(Edges), NEW q \in DOMAIN quests
               PROVE  quests[q].depth < Cardinality(Projects)
    BY DEF ChainsEnd
  <2>1. PICK rank \in [Projects -> 1 .. Cardinality(Projects)] : \A p \in Edges : rank[p[1]] < rank[p[2]]
    BY DEF Acyclic
  <2>2. quests[q].depth < rank[quests[q].project]
    BY <2>1 DEF DepthInv, Ranks
  <2>3. quests[q].project \in Projects /\ quests[q].depth \in Nat
    BY QuestRow DEF RulesInv
  <2>4. Cardinality(Projects) \in Nat
    BY RelationsAssumption, FS_CardinalityType
  <2>5. rank[quests[q].project] \in 1 .. Cardinality(Projects)
    BY <2>1, <2>3
  <2> QED
    BY <2>2, <2>3, <2>4, <2>5
<1> QED
  BY <1>1, <1>2, <1>3, Holds, PTL DEF Spec
=============================================================================
