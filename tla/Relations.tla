----------------------------- MODULE Relations -----------------------------
(***************************************************************************)
(* Relationships between projects: rules that reflect learns from events   *)
(* and stores disabled, that a human enables, and that                     *)
(* fire_quest_completed evaluates when a quest completes, in as many       *)
(* processes as run the campaign.                                          *)
(*                                                                         *)
(* A step is a statement, or a transaction.  Foreign keys hold: a project  *)
(* that a rule or a quest refers to is not removed, and an insert that     *)
(* refers to none fails.  A rule is identified by its row, a quest by its  *)
(* row; switched and reviewed are history variables.                       *)
(*                                                                         *)
(* Abstracted: briefs and templates, trigger_config, confidence, source;   *)
(* trigger kinds other than quest_completed, which nothing evaluates.      *)
(***************************************************************************)
EXTENDS Naturals, Sequences, FiniteSets

CONSTANTS
  Projects,
  Proposals,   \* what the agent may propose: [name, from, to, action]
  MaxAnswer,   \* bound: proposals of one answer
  Learners,    \* processes that run luida reflect
  Runners,     \* threads that run the campaign
  MaxRules, MaxQuests, MaxReflects, MaxFires,  \* bounds
  None

Actions == {"auto_dispatch", "propose"}

ASSUME RelationsAssumption ==
  /\ \A p \in Proposals : p.from \in Projects /\ p.to \in Projects /\ p.action \in Actions
  /\ MaxAnswer \in Nat /\ MaxRules \in Nat /\ MaxQuests \in Nat \ {0}
  /\ MaxReflects \in Nat /\ MaxFires \in Nat
  /\ None \notin Projects /\ IsFiniteSet(Projects)

VARIABLES
  projects,   \* the registered ones
  rules,      \* by row: what was proposed, enabled, and the reflect that stored it
  switched,   \* contents of the rows that a command has switched on
  reviewed,   \* contents a command had found when it was to switch a row on
  reflected,  \* the reflects that have recorded their event
  known,      \* of each learner: the projects it has read, None when idle
  reflects,   \* reflects begun
  found,      \* the rule a command has found and will set, None when idle
  quests,     \* by row: project, done, and how many completions led to it
  firing,     \* of each runner: the quest and the rules not yet acted upon
  fires,      \* evaluations begun
  mail        \* proposals in the inmail: rule name, quest, number

learning == <<reflected, known, reflects>>
running  == <<quests, firing, fires, mail>>
history  == <<switched, reviewed>>
vars     == <<projects, rules, history, learning, found, running>>

Content(r) == [from |-> r.from, to |-> r.to, action |-> r.action]

Idle == [quest |-> 0, rules |-> <<>>]

Init ==
  /\ projects = Projects /\ rules = <<>>
  /\ switched = {} /\ reviewed = {}
  /\ reflected = {} /\ known = [l \in Learners |-> None] /\ reflects = 0
  /\ found = None
  /\ \E p \in Projects : quests = <<[project |-> p, done |-> FALSE, depth |-> 0]>>
  /\ firing = [t \in Runners |-> Idle] /\ fires = 0 /\ mail = {}

-----------------------------------------------------------------------------
(* Projects, in other processes.                                           *)

Used(p) ==
  \/ \E i \in DOMAIN rules : p \in {rules[i].from, rules[i].to}
  \/ \E q \in DOMAIN quests : quests[q].project = p

Remove(p) ==
  /\ p \in projects /\ ~Used(p) /\ projects' = projects \ {p}
  /\ UNCHANGED <<rules, history, learning, found, running>>

Add(p) ==
  /\ p \notin projects /\ projects' = projects \cup {p}
  /\ UNCHANGED <<rules, history, learning, found, running>>

-----------------------------------------------------------------------------
(* reflect.                                                                *)

ReflectReads(l) ==
  /\ known[l] = None /\ reflects < MaxReflects
  /\ known' = [known EXCEPT ![l] = projects] /\ reflects' = reflects + 1
  /\ UNCHANGED <<projects, rules, history, reflected, found, running>>

\* The row of a name, 0 if there is none or the proposal has no name.
FindByName(rs, n) ==
  IF n # None /\ \E i \in DOMAIN rs : rs[i].name = n
  THEN CHOOSE i \in DOMAIN rs : rs[i].name = n ELSE 0

\* Bug: an existing rule stays enabled.
UpsertKeepsEnabled(rs, p, batch) ==
  LET i == FindByName(rs, p.name)
      row(on) == [name |-> p.name, from |-> p.from, to |-> p.to, action |-> p.action,
                  enabled |-> on, batch |-> batch]
  IN IF i = 0 THEN Append(rs, row(FALSE)) ELSE [rs EXCEPT ![i] = row(rs[i].enabled)]

\* upsert_by_name, with enabled = false: whatever had the name is overwritten.
Upsert(rs, p, batch) ==
  LET i == FindByName(rs, p.name)
      row == [name |-> p.name, from |-> p.from, to |-> p.to, action |-> p.action,
              enabled |-> FALSE, batch |-> batch]
  IN IF i = 0 THEN Append(rs, row) ELSE [rs EXCEPT ![i] = row]

\* One proposal after the other; one about a project that was not known is skipped.
Stored(ps, names, batch) ==
  LET rs[i \in 0 .. Len(ps)] ==
        IF i = 0 THEN rules
        ELSE LET before == rs[i - 1]
             IN IF {ps[i].from, ps[i].to} \subseteq names THEN Upsert(before, ps[i], batch) ELSE before
  IN rs[Len(ps)]

\* Whether a proposal of ps refers to a project that is no longer registered.
Dangling(ps, names) ==
  \E i \in DOMAIN ps : {ps[i].from, ps[i].to} \subseteq names /\ ~({ps[i].from, ps[i].to} \subseteq projects)

Answers == UNION {[1 .. n -> Proposals] : n \in 1 .. MaxAnswer}

\* The agent answers; one transaction, unless a foreign key fails in it.
ReflectStores(l) ==
  \E ps \in Answers :
    /\ known[l] # None /\ ~Dangling(ps, known[l])
    /\ Len(Stored(ps, known[l], reflects)) <= MaxRules
    /\ rules' = Stored(ps, known[l], Cardinality(reflected) + 1)
    /\ reflected' = reflected \cup {Cardinality(reflected) + 1}
    /\ known' = [known EXCEPT ![l] = None]
    /\ UNCHANGED <<projects, history, reflects, found, running>>

\* No answer, no JSON, a foreign key that fails, or a process that dies.
ReflectFails(l) ==
  /\ known[l] # None /\ known' = [known EXCEPT ![l] = None]
  /\ UNCHANGED <<projects, rules, history, reflected, reflects, found, running>>

-----------------------------------------------------------------------------
(* luida relationship enable and disable: find by name, then set by id,    *)
(* whatever the row has become.                                            *)

Finds(i, on) ==
  /\ found = None /\ rules[i].name # None
  /\ found' = [id |-> i, on |-> on, what |-> Content(rules[i])]
  /\ UNCHANGED <<projects, rules, history, learning, running>>

SetEnabled ==
  /\ found # None /\ found' = None
  /\ rules' = [rules EXCEPT ![found.id].enabled = found.on]
  /\ switched' = IF found.on THEN switched \cup {Content(rules[found.id])} ELSE switched
  /\ reviewed' = IF found.on THEN reviewed \cup {found.what} ELSE reviewed
  /\ UNCHANGED <<projects, learning, running>>

-----------------------------------------------------------------------------
(* fire_quest_completed.                                                   *)

\* list_by_from: one statement, in the order of the rows.
ListByFrom(p) ==
  LET ids == {i \in DOMAIN rules : rules[i].from = p /\ rules[i].enabled}
      rows == {s \in [1 .. Cardinality(ids) -> ids] : \A j, k \in DOMAIN s : j < k => s[j] < s[k]}
  IN {[k \in DOMAIN s |-> rules[s[k]]] : s \in rows}

\* A run has completed the quest, or two runs that work on it both have.
Fires(t, q) ==
  /\ firing[t] = Idle /\ fires < MaxFires /\ fires' = fires + 1
  /\ quests' = [quests EXCEPT ![q].done = TRUE]
  /\ \E listed \in ListByFrom(quests[q].project) :
       firing' = [firing EXCEPT ![t] = [quest |-> q, rules |-> listed]]
  /\ UNCHANGED <<projects, rules, history, learning, found, mail>>

Rest(t) == [firing EXCEPT ![t].rules = SubSeq(@, 2, Len(@))]

\* Bug: the follow-up goes to the project that has just completed one.
DispatchesBack(t) ==
  /\ firing[t].rules # <<>> /\ firing[t].rules[1].action = "auto_dispatch"
  /\ Len(quests) < MaxQuests
  /\ quests' = Append(quests, [project |-> firing[t].rules[1].from, done |-> FALSE,
                               depth |-> quests[firing[t].quest].depth + 1])
  /\ firing' = Rest(t)
  /\ UNCHANGED <<projects, rules, history, learning, found, fires, mail>>

\* auto_dispatch: a pending quest of the same campaign.
Dispatches(t) ==
  /\ firing[t].rules # <<>> /\ firing[t].rules[1].action = "auto_dispatch"
  /\ firing[t].rules[1].to \in projects /\ Len(quests) < MaxQuests
  /\ quests' = Append(quests, [project |-> firing[t].rules[1].to, done |-> FALSE,
                               depth |-> quests[firing[t].quest].depth + 1])
  /\ firing' = Rest(t)
  /\ UNCHANGED <<projects, rules, history, learning, found, fires, mail>>

\* enqueue: INSERT OR IGNORE on the dedupe key, which a rule without a name has not.
Enqueue(n, q) ==
  mail' = IF n # None /\ \E m \in mail : m.name = n /\ m.quest = q THEN mail
          ELSE mail \cup {[name |-> n, quest |-> q, no |-> Cardinality(mail)]}

\* propose: a mail to the user.
Proposes(t) ==
  /\ firing[t].rules # <<>> /\ firing[t].rules[1].action = "propose"
  /\ Enqueue(firing[t].rules[1].name, firing[t].quest)
  /\ firing' = Rest(t)
  /\ UNCHANGED <<projects, rules, history, learning, found, quests, fires>>

\* All are done, or a foreign key fails, or the process dies: the rest is lost.
FireEnds(t) ==
  /\ firing[t] # Idle /\ firing' = [firing EXCEPT ![t] = Idle]
  /\ UNCHANGED <<projects, rules, history, learning, found, quests, fires, mail>>

-----------------------------------------------------------------------------

Next ==
  \/ \E p \in Projects : Add(p) \/ Remove(p)
  \/ \E l \in Learners : ReflectReads(l) \/ ReflectStores(l) \/ ReflectFails(l)
  \/ SetEnabled \/ \E i \in DOMAIN rules, on \in BOOLEAN : Finds(i, on)
  \/ \E t \in Runners :
       \/ Dispatches(t) \/ Proposes(t) \/ FireEnds(t)
       \/ \E q \in DOMAIN quests : Fires(t, q)

Spec == Init /\ [][Next]_vars

-----------------------------------------------------------------------------
(* Properties.                                                             *)

\* Every variable stays within its type; what rules and quests refer to is registered.
TypeOK ==
  /\ projects \subseteq Projects
  /\ \A i \in DOMAIN rules : {rules[i].from, rules[i].to} \subseteq projects /\ rules[i].enabled \in BOOLEAN
  /\ \A q \in DOMAIN quests : quests[q].project \in projects /\ quests[q].depth \in Nat
  /\ \A l \in Learners : known[l] # None => known[l] \subseteq Projects
  /\ found # None => found.id \in DOMAIN rules
  /\ \A t \in Runners : firing[t] # Idle => firing[t].quest \in DOMAIN quests

\* A rule is on, and is about to be acted upon, only in a wording that its row had when a
\* command switched it on: no reflect stores a rule that is on, and one that is learned
\* anew while it is on is off from then (reflect, upsert_by_name).
SwitchedOn ==
  /\ \A i \in DOMAIN rules : rules[i].enabled => Content(rules[i]) \in switched
  /\ \A t \in Runners : \A k \in DOMAIN firing[t].rules : Content(firing[t].rules[k]) \in switched

\* "비활성(enabled=false) 제안으로 저장(사람 검토 후 활성화)" (reflect.rs:4): what is on is worded as
\* the command that switched it on had found it.  Refuted by a reflect that overwrites the
\* row by its name between the find and the set of luida relationship enable.
Reviewed == \A i \in DOMAIN rules : rules[i].enabled => Content(rules[i]) \in reviewed

\* No rule that is stored was stored by a reflect that did not get to its event: an
\* answer is stored whole or not at all, also when a project went away meanwhile.
ReflectedWhole == \A i \in DOMAIN rules : rules[i].batch \in reflected

\* What a model proposes is stored whole, and does nothing before a command switches it on.
LearnedSafely == TypeOK /\ SwitchedOn /\ ReflectedWhole

Edges == {<<c.from, c.to>> : c \in {d \in switched : d.action = "auto_dispatch"}}

\* Whether the relation e can be ranked.
Acyclic(e) == \E rank \in [Projects -> 1 .. Cardinality(Projects)] :
                \A p \in e : rank[p[1]] < rank[p[2]]

\* Follow-ups of follow-ups come to an end, unless a cycle has been switched on:
\* nothing else stops one.
ChainsEnd ==
  Acyclic(Edges) => \A q \in DOMAIN quests : quests[q].depth < Cardinality(Projects)
=============================================================================
