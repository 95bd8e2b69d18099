------------------------------ MODULE PlanDag -------------------------------
(***************************************************************************)
(* plan_campaign: the planner agent's plan is validated, sorted by         *)
(* topo_sort and stored in one transaction, while other processes add and  *)
(* remove projects.                                                        *)
(*                                                                         *)
(* A plan is the sequence of its quests.  The agent is external: it        *)
(* answers any plan of Plans, or fails.                                    *)
(*                                                                         *)
(* Abstracted: the plan's JSON, title, briefs and branches (blank says     *)
(* that the key or the brief is empty); which error a refusal reports;     *)
(* the campaign row and its event, which stand or fall with the quests;    *)
(* that ids go on from those of earlier campaigns.                         *)
(***************************************************************************)
EXTENDS Naturals, Sequences, FiniteSets

CONSTANTS
  Key,      \* what a plan may call its quests
  Project,  \* names of projects
  Plans,    \* what the agent may answer
  NoDep     \* depends_on_quest_id = NULL

PlannedQuest == [key: Key, project: Project, depends_on: Seq(Key), blank: BOOLEAN]

ASSUME PlanDagAssumption == Plans \subseteq Seq(PlannedQuest) /\ NoDep \notin Nat

VARIABLES
  projects,      \* the table projects
  quests, deps,  \* the tables quests and quest_deps, as committed
  pc,            \* where plan_campaign is, or how it ended
  known,         \* the projects it listed before it asked the agent
  plan,          \* the agent's answer
  indegree, queue, pos,  \* topo_sort; pos then walks the order (queue) again
  key_to_id,     \* ids of the quests inserted so far
  draft          \* the open transaction's quests and quest_deps

db     == <<projects, quests, deps>>
sort   == <<indegree, queue>>
store  == <<key_to_id, draft>>
planVars   == <<db, pc, known, plan, sort, pos, store>>

Empty == [quests |-> {}, deps |-> {}]

PlanInit ==
  /\ projects \in SUBSET Project /\ quests = {} /\ deps = {}
  /\ pc = "start" /\ known = {} /\ plan = <<>>
  /\ indegree = <<>> /\ queue = <<>> /\ pos = 1
  /\ key_to_id = <<>> /\ draft = Empty

-----------------------------------------------------------------------------
(* The plan.                                                               *)

Keys       == {plan[n].key : n \in DOMAIN plan}
Named(s)   == {s[n] : n \in DOMAIN s}
by_key(k)  == plan[CHOOSE n \in DOMAIN plan : plan[n].key = k]
Needs(k)   == by_key(k).depends_on

\* How often d is among the dependencies of k: an agent may repeat itself.
Times(k, d) == Cardinality({n \in DOMAIN Needs(k) : Needs(k)[n] = d})

\* validate, up to the sort.
Valid ==
  /\ plan # <<>>
  /\ \A n \in DOMAIN plan :
       /\ ~plan[n].blank
       /\ \A m \in 1..(n - 1) : plan[m].key # plan[n].key
       /\ plan[n].project \in known
  /\ \A n \in DOMAIN plan :
       Named(plan[n].depends_on) \subseteq Keys \ {plan[n].key}

\* The keys of K in the order of the plan: the only such sequence.
InPlanOrder(K) ==
  {s \in [1..Cardinality(K) -> K] :
     \A a, b \in DOMAIN s : a < b =>
       \E m, n \in DOMAIN plan : m < n /\ plan[m].key = s[a] /\ plan[n].key = s[b]}

-----------------------------------------------------------------------------
(* plan_campaign.                                                          *)

List ==
  /\ pc = "start"
  /\ known' = projects
  /\ pc' = IF projects = {} THEN "no_projects" ELSE "asking"
  /\ UNCHANGED <<db, plan, sort, pos, store>>

\* The agent takes minutes.
Answer ==
  /\ pc = "asking"
  /\ plan' \in Plans
  /\ pc' = "answered"
  /\ UNCHANGED <<db, known, sort, pos, store>>

AnswerFails ==
  /\ pc = "asking"
  /\ pc' = "failed"
  /\ UNCHANGED <<db, known, plan, sort, pos, store>>

Refuse ==
  /\ pc = "answered" /\ ~Valid
  /\ pc' = "invalid"
  /\ UNCHANGED <<db, known, plan, sort, pos, store>>

\* Bug in Count: the in-degree as the number of distinct dependencies
CountDistinct ==
  /\ pc = "answered" /\ Valid
  /\ indegree' = [k \in Keys |-> Cardinality(Named(Needs(k)))]
  /\ queue' \in InPlanOrder({k \in Keys : Needs(k) = <<>>})
  /\ pos' = 1 /\ pc' = "sorting"
  /\ UNCHANGED <<db, known, plan, store>>

\* A repeated dependency counts as often as it is named, here and in Visit.
Count ==
  /\ pc = "answered" /\ Valid
  /\ indegree' = [k \in Keys |-> Len(Needs(k))]
  /\ queue' \in InPlanOrder({k \in Keys : Needs(k) = <<>>})
  /\ pos' = 1 /\ pc' = "sorting"
  /\ UNCHANGED <<db, known, plan, store>>

\* One turn of the while loop: the children that wait for nobody else join.
Visit ==
  /\ pc = "sorting" /\ pos <= Len(queue)
  /\ LET k == queue[pos]
         left == [c \in Keys |-> indegree[c] - Times(c, k)]
         freed == {c \in Keys : Times(c, k) > 0 /\ left[c] = 0}
     IN /\ indegree' = left
        /\ \E s \in InPlanOrder(freed) : queue' = queue \o s
  /\ pos' = pos + 1
  /\ UNCHANGED <<db, pc, known, plan, store>>

\* Bug in Sorted: the loop runs until every quest is in the order
SortedWhenAll ==
  /\ pc = "sorting" /\ Len(queue) = Len(plan) /\ pos > Len(queue)
  /\ pc' = "storing" /\ pos' = 1
  /\ UNCHANGED <<db, known, plan, sort, store>>

Sorted ==
  /\ pc = "sorting" /\ pos > Len(queue)
  /\ pc' = IF Len(queue) = Len(plan) THEN "storing" ELSE "cyclic"
  /\ pos' = 1
  /\ UNCHANGED <<db, known, plan, sort, store>>

\* quests.project REFERENCES projects, while this transaction is the writer.
Registered(k) == by_key(k).project \in projects

\* insert, then add_dependency for every dependency; one that was not
\* inserted before fails the expect.
Insert ==
  /\ pc = "storing" /\ pos <= Len(queue) /\ Registered(queue[pos])
  /\ LET k == queue[pos]
         needs == Named(Needs(k))
         primary == IF Needs(k) = <<>> \/ Head(Needs(k)) \notin DOMAIN key_to_id
                    THEN NoDep ELSE key_to_id[Head(Needs(k))]
         row == [id |-> pos, key |-> k, project |-> by_key(k).project, primary |-> primary]
     IN IF needs \subseteq DOMAIN key_to_id
        THEN /\ key_to_id' = [c \in DOMAIN key_to_id \cup {k} |->
                                IF c = k THEN pos ELSE key_to_id[c]]
             /\ draft' = [quests |-> draft.quests \cup {row},
                          deps |-> draft.deps \cup {<<pos, key_to_id[d]>> : d \in needs}]
             /\ pc' = pc
        ELSE /\ pc' = "panicked" /\ draft' = Empty
             /\ key_to_id' = key_to_id
  /\ pos' = pos + 1
  /\ UNCHANGED <<db, known, plan, sort>>

\* Bug in InsertFails: what was inserted before stays
InsertFailsHalfway ==
  /\ pc = "storing" /\ pos <= Len(queue) /\ ~Registered(queue[pos])
  /\ pc' = "rolled_back" /\ draft' = Empty
  /\ quests' = draft.quests /\ deps' = draft.deps
  /\ UNCHANGED <<projects, known, plan, sort, pos, key_to_id>>

\* The project is gone: the transaction is dropped.
InsertFails ==
  /\ pc = "storing" /\ pos <= Len(queue) /\ ~Registered(queue[pos])
  /\ pc' = "rolled_back" /\ draft' = Empty
  /\ UNCHANGED <<db, known, plan, sort, pos, key_to_id>>

Commit ==
  /\ pc = "storing" /\ pos > Len(queue)
  /\ quests' = draft.quests /\ deps' = draft.deps /\ draft' = Empty
  /\ pc' = "planned"
  /\ UNCHANGED <<projects, known, plan, sort, pos, key_to_id>>

Working == pc \in {"start", "asking", "answered", "sorting", "storing"}

\* The process is killed.
Crash ==
  /\ Working
  /\ pc' = "dead" /\ draft' = Empty
  /\ UNCHANGED <<db, known, plan, sort, pos, key_to_id>>

-----------------------------------------------------------------------------
(* Other processes: they wait while the transaction is open.               *)

Add(p) ==
  /\ pc # "storing"
  /\ projects' = projects \cup {p}
  /\ UNCHANGED <<quests, deps, pc, known, plan, sort, pos, store>>

\* ON DELETE RESTRICT.
Remove(p) ==
  /\ pc # "storing"
  /\ \A q \in quests : q.project # p
  /\ projects' = projects \ {p}
  /\ UNCHANGED <<quests, deps, pc, known, plan, sort, pos, store>>

PlanCampaign ==
  List \/ Answer \/ AnswerFails \/ Refuse \/ Count \/ Visit \/ Sorted
    \/ Insert \/ InsertFails \/ Commit

PlanNext == PlanCampaign \/ Crash \/ \E p \in Project : Add(p) \/ Remove(p)

PlanSpec == PlanInit /\ [][PlanNext]_planVars

\* The thread of plan_campaign goes on; nothing is said of other processes.
PlanFairSpec == PlanSpec /\ WF_planVars(PlanCampaign)
-----------------------------------------------------------------------------
(* Properties.                                                             *)

Row == [id: Nat, key: Key, project: Project, primary: Nat \cup {NoDep}]
Ended == {"no_projects", "failed", "invalid", "cyclic", "rolled_back", "panicked",
          "planned", "dead"}

\* Types of all variables.
PlanTypes ==
  /\ projects \subseteq Project /\ known \subseteq Project
  /\ quests \subseteq Row /\ deps \subseteq Nat \X Nat
  /\ pc \in {"start", "asking", "answered", "sorting", "storing"} \cup Ended
  /\ plan \in Plans \cup {<<>>}
  /\ pc \in {"sorting", "storing"} => indegree \in [Keys -> Nat]
  /\ queue \in Seq(Key) /\ pos \in Nat \ {0}
  /\ DOMAIN key_to_id \subseteq Key /\ \A k \in DOMAIN key_to_id : key_to_id[k] \in Nat
  /\ draft \in [quests: SUBSET Row, deps: SUBSET (Nat \X Nat)]

\* A dependency graph: the quests can be ranked so that each comes after
\* what it depends on.
Acyclic == \E rank \in [Keys -> 1..Len(plan)] :
             \A k \in Keys : \A d \in Named(Needs(k)) : rank[d] < rank[k]

\* topo_sort accepts dependency graphs only ("사이클이면 Err").
AcceptedIsDag == pc \in {"storing", "rolled_back", "planned"} => Acyclic

\* ... and accepts each of them, repeated dependencies or not.
RefusedIsCyclic == pc = "cyclic" => ~Acyclic

\* Whatever the sort has put into its order, dependencies come before.
DepsFirst ==
  \A n \in DOMAIN queue : \A d \in Named(Needs(queue[n])) :
    \E m \in 1..(n - 1) : queue[m] = d

\* The expect "위상순 보장 — 의존성이 먼저 insert됨" never fails.
NoPanic == pc # "panicked"

\* The tables hold nothing of the plan or all of it: a quest per key, linked
\* to the quests of its dependencies and only to those, each of an older id;
\* the primary dependency is the first one named.
QuestOf(k) == CHOOSE q \in quests : q.key = k
Whole ==
  /\ {q.key : q \in quests} = Keys /\ Cardinality(quests) = Len(plan)
  /\ \A q \in quests :
       /\ q.project = by_key(q.key).project
       /\ q.primary = IF Needs(q.key) = <<>> THEN NoDep ELSE QuestOf(Head(Needs(q.key))).id
  /\ deps = UNION {{<<QuestOf(k).id, QuestOf(d).id>> : d \in Named(Needs(k))} : k \in Keys}
  /\ \A l \in deps : l[2] < l[1]
AllOrNothing == IF pc = "planned" THEN Whole ELSE quests = {} /\ deps = {}

\* Every stored quest's project is registered, although the plan was checked
\* against the projects of minutes ago and projects come and go.
NoOrphan == \A q \in quests : q.project \in projects

\* topo_sort accepts exactly the plans whose dependencies have no cycle.
DagsOnly == AcceptedIsDag /\ RefusedIsCyclic

\* What plan_campaign stores is a whole plan over registered projects, or nothing, and it
\* never panics on the way.
StoredWhole == AllOrNothing /\ NoOrphan /\ NoPanic

\* Once the agent has answered, plan_campaign returns or its process dies:
\* the sort ends on every plan, cyclic ones included.
Returns == (pc = "answered") ~> (pc \in Ended)
=============================================================================
