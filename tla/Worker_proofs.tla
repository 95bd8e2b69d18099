--------------------------- MODULE Worker_proofs ---------------------------
(***************************************************************************)
(* Theorems about Worker and their proofs: for any number of processes and *)
(* migrations, any agents.json and any lines of an agent.                  *)
(***************************************************************************)
EXTENDS Worker, TLAPS

USE MigrateAssumption

-----------------------------------------------------------------------------
(* migrate.                                                                *)

\* The migrations in effect are the first ones of the list, and are the ones entered.
Prefix ==
  /\ Len(log) <= N /\ table = 1 .. Len(log)
  /\ \A i \in 1 .. Len(log) : log[i] = i

\* A process has passed by a migration only when it is in effect.
PassedInEffect ==
  \A p \in Procs :
    /\ boot[p].pc = "migrating" => \A i \in 1 .. N : i < boot[p].next => i \in table
    /\ boot[p].pc = "ready" => Len(log) = N

Boot == [pc: {"down", "open", "migrating", "ready"}, applied: SUBSET (1 .. N), next: 1 .. N + 1]

MigInv ==
  /\ log \in Seq(1 .. N) /\ boot \in [Procs -> Boot]
  /\ \A p \in Procs :
       boot[p].applied \subseteq table /\ (boot[p].pc # "migrating" => boot[p].next = 1)
  /\ Prefix /\ PassedInEffect

LEMMA DownIsBoot ==
  Down \in Boot /\ Down.pc = "down" /\ Down.applied = {} /\ Down.next = 1
BY DEF Down, Boot

\* A process goes to b, with the schema as it is.
LEMMA BootMoves ==
  ASSUME MigInv, NEW p \in Procs, NEW b \in Boot, boot' = [boot EXCEPT ![p] = b], UNCHANGED <<log, table>>,
         b.applied \subseteq table, b.pc # "migrating" => b.next = 1,
         b.pc = "migrating" => \A i \in 1 .. N : i < b.next => i \in table,
         b.pc = "ready" => Len(log) = N
  PROVE  MigInv'
<1>1. boot' \in [Procs -> Boot] /\ \A r \in Procs : boot'[r] = IF r = p THEN b ELSE boot[r]
  BY DEF MigInv
<1> QED
  BY <1>1 DEF MigInv, Prefix, PassedInEffect

\* What a step of migrate does: the next migration of the list takes effect, or none.
LEMMA MigrateSteps ==
  ASSUME MigInv, NEW p \in Procs, MigrateStep(p)
  PROVE  MigInv' /\ [Schema!Step]_log
<1>1. /\ boot[p] \in Boot /\ boot[p].next \in 1 .. N + 1 /\ boot[p].applied \subseteq table
      /\ boot[p].pc # "migrating" => boot[p].next = 1
      /\ table = 1 .. Len(log) /\ Len(log) \in 0 .. N /\ N \in Nat
  BY DEF MigInv, Boot, Prefix
<1>2. CASE Open(p)
  <2> DEFINE b == [boot[p] EXCEPT !.pc = "open"]
  <2>1. /\ b \in Boot /\ boot' = [boot EXCEPT ![p] = b] /\ UNCHANGED <<log, table>>
        /\ b.pc = "open" /\ b.applied \subseteq table /\ b.next = 1
    BY <1>1, <1>2 DEF Open, Boot, MigInv
  <2> HIDE DEF b
  <2> QED
    BY <2>1, BootMoves
<1>3. CASE ReadApplied(p)
  <2> DEFINE b == [boot[p] EXCEPT !.pc = "migrating", !.applied = table]
  <2>0. table \in SUBSET (1 .. N) /\ boot[p].next = 1
    BY <1>1, <1>3 DEF ReadApplied
  <2>1. /\ b \in Boot /\ boot' = [boot EXCEPT ![p] = b] /\ UNCHANGED <<log, table>>
        /\ b.pc = "migrating" /\ b.applied \subseteq table /\ b.next = 1
    BY <1>1, <1>3, <2>0 DEF ReadApplied, Boot, MigInv
  <2>2. \A i \in 1 .. N : i < b.next => i \in table
    BY <2>1
  <2> HIDE DEF b
  <2> QED
    BY <2>1, <2>2, BootMoves
<1>4. CASE Skip(p)
  <2> DEFINE b == [boot[p] EXCEPT !.next = @ + 1]
  <2>0. boot[p].next + 1 \in 1 .. N + 1 /\ boot[p].next \in table
    BY <1>1, <1>4 DEF Skip
  <2>1. /\ b \in Boot /\ boot' = [boot EXCEPT ![p] = b] /\ UNCHANGED <<log, table>>
        /\ b.pc = "migrating" /\ b.applied \subseteq table /\ b.next = boot[p].next + 1
        /\ boot[p].next \in table
    BY <1>1, <1>4, <2>0 DEF Skip, Boot, MigInv
  <2>2. \A i \in 1 .. N : i < b.next => i \in table
    BY <1>1, <1>4, <2>1 DEF Skip, MigInv, PassedInEffect
  <2> HIDE DEF b
  <2> QED
    BY <2>1, <2>2, BootMoves
<1>5. CASE Apply(p)
  <2> DEFINE m == boot[p].next
             b == [boot[p] EXCEPT !.next = m + 1]
  <2>1. /\ m \in 1 .. N /\ m \notin table /\ boot[p].pc = "migrating"
        /\ log' = Append(log, m) /\ table' = table \cup {m} /\ boot' = [boot EXCEPT ![p] = b]
    BY <1>1, <1>5 DEF Apply, MigInv
  <2>2. m = Len(log) + 1
    <3>1. \A i \in 1 .. N : i < m => i \in table
      BY <2>1 DEF MigInv, PassedInEffect
    <3>2. Len(log) < m
      BY <1>1, <2>1
    <3>3. Len(log) + 1 \notin table
      BY <1>1
    <3> QED
      BY <1>1, <2>1, <3>1, <3>2, <3>3
  <2>3. /\ log \in Seq(1 .. N) /\ log' \in Seq(1 .. N) /\ Len(log') = m
        /\ \A i \in 1 .. m : log'[i] = i
    BY <1>1, <2>1, <2>2 DEF MigInv, Prefix
  <2>4. table' = 1 .. m
    BY <1>1, <2>1, <2>2
  <2>5. b \in Boot /\ b.pc = "migrating" /\ b.applied = boot[p].applied /\ b.next = m + 1
    BY <1>1, <2>1 DEF Boot
  <2>6. boot' \in [Procs -> Boot] /\ \A r \in Procs : boot'[r] = IF r = p THEN b ELSE boot[r]
    BY <2>1, <2>5 DEF MigInv
  <2> HIDE DEF b, m
  <2>7. PassedInEffect'
    <3> SUFFICES ASSUME NEW r \in Procs
                 PROVE  /\ boot'[r].pc = "migrating" => \A i \in 1 .. N : i < boot'[r].next => i \in table'
                        /\ boot'[r].pc = "ready" => Len(log') = N
      BY DEF PassedInEffect
    <3>1. CASE r = p
      BY <2>1, <2>4, <2>5, <2>6, <3>1
    <3>2. CASE r # p
      <4>1. boot'[r] = boot[r]
        BY <2>6, <3>2
      <4>2. boot[r].pc # "ready"
        BY <1>1, <2>1, <2>2 DEF MigInv, PassedInEffect
      <4> QED
        BY <2>1, <4>1, <4>2 DEF MigInv, PassedInEffect
    <3> QED
      BY <3>1, <3>2
  <2>8. MigInv'
    BY <1>1, <2>1, <2>3, <2>4, <2>5, <2>6, <2>7 DEF MigInv, Prefix
  <2>9. Schema!Step
    BY <1>1, <2>1, <2>2 DEF Schema!Step
  <2> QED
    BY <2>8, <2>9
<1>6. CASE ApplyFails(p)
  BY <1>6, BootMoves, DownIsBoot DEF ApplyFails
<1>7. CASE Migrated(p)
  <2> DEFINE b == [Down EXCEPT !.pc = "ready"]
  <2>1. b \in Boot /\ b.pc = "ready" /\ b.applied = {} /\ b.next = 1
    BY DEF Down, Boot
  <2>2. Len(log) = N
    <3>1. \A i \in 1 .. N : i \in table
      BY <1>1, <1>7 DEF Migrated, MigInv, PassedInEffect
    <3> QED
      BY <1>1, <3>1
  <2>3. boot' = [boot EXCEPT ![p] = b] /\ UNCHANGED <<log, table>>
    BY <1>7 DEF Migrated
  <2> HIDE DEF b
  <2> QED
    BY <2>1, <2>2, <2>3, BootMoves
<1> QED
  BY <1>2, <1>3, <1>4, <1>5, <1>6, <1>7, BootMoves DEF MigrateStep, Open, ReadApplied, Skip, ApplyFails, Migrated

\* The other steps leave the schema alone, and at most end a process.
LEMMA SchemaStep == MigInv /\ [Next]_vars => MigInv' /\ [Schema!Step]_log
<1> SUFFICES ASSUME MigInv, [Next]_vars PROVE MigInv' /\ [Schema!Step]_log
  OBVIOUS
<1>1. CASE UNCHANGED migration
  BY <1>1 DEF migration, MigInv, Prefix, PassedInEffect
<1>2. ASSUME NEW p \in Procs, MigrateStep(p) PROVE MigInv' /\ [Schema!Step]_log
  BY <1>2, MigrateSteps
<1>3. ASSUME NEW p \in Procs, boot' = [boot EXCEPT ![p] = Down], UNCHANGED <<log, table>>
      PROVE  MigInv' /\ [Schema!Step]_log
  BY <1>3, BootMoves, DownIsBoot
<1>4. ASSUME NEW p \in Procs, Ready(p) PROVE MigInv' /\ [Schema!Step]_log
  BY <1>1, <1>3, <1>4 DEF Ready, migration
<1>5. ASSUME NEW p \in Procs, Ends(p) PROVE MigInv' /\ [Schema!Step]_log
  BY <1>3, <1>5 DEF Ends
<1> QED
  BY <1>1, <1>2, <1>4, <1>5
  DEF Next, vars, Dispatch, Starts, Resume, RuntimeFails, Spawns, Settles, SettlesCancelled, Line,
      AgentOpens, EditConfig, RemoveWorktree

\* Processes that migrate at once, and may die at any point, have the effect of one that
\* runs alone: each migration once, in the order of the list (migrate).
THEOREM MigratesAsOne == Spec => SchemaSpec
<1>1. Init => MigInv /\ Schema!Init
  BY DownIsBoot DEF Init, MigrateInit, MigInv, Prefix, PassedInEffect, Schema!Init
<1> QED
  BY <1>1, SchemaStep, PTL DEF Spec, SchemaSpec, Schema!Spec

-----------------------------------------------------------------------------
(* agents.json.                                                            *)

\* What validate has let pass resolves to the settings of the highest priority.
LEMMA ValidResolves ==
  ASSUME NEW c, IsAgentsConfig(c), Validate(c)
  PROVE  /\ Prior(c, "runtime") \in DOMAIN c.runtimes
         /\ Resolve(c) # None =>
              /\ Resolve(c).runtime = Prior(c, "runtime")
              /\ Resolve(c).model = IF Prior(c, "model") # None THEN Prior(c, "model")
                                    ELSE <<Prior(c, "runtime"), Prior(c, "tier")>>
<1> DEFINE base == [runtime |-> c.runtime, tier |-> c.tier, model |-> None]
           r == Over(Over(base, c.action), c.override)
<1>1. \A f \in {"runtime", "tier", "model"} : r[f] = Prior(c, f)
  BY DEF Over, Prior
<1>2. Prior(c, "runtime") \in DOMAIN c.runtimes
  BY DEF Prior, Validate, LayerOK
<1>3. Resolve(c) = IF c.runtimes[r.runtime].enabled
                   THEN [runtime |-> r.runtime, kind |-> c.runtimes[r.runtime].kind,
                         model |-> IF r.model # None THEN r.model ELSE <<r.runtime, r.tier>>]
                   ELSE None
  BY DEF Resolve
<1> HIDE DEF r
<1> QED
  BY <1>1, <1>2, <1>3

-----------------------------------------------------------------------------
(* The quest and its worker.                                               *)

Agents   == {Resolve(c) : c \in Configs}
Outcomes == [saw_result: BOOLEAN, success: BOOLEAN, escalation: {None, "ask", "ask more"}]
Workers  == [pc: {"idle", "chosen", "started", "spawned", "open"}, by: Procs \cup {None},
             agent: Agents \cup {None}, resume: BOOLEAN, alive: BOOLEAN,
             printed: Seq(Lines), outcome: Outcomes]

\* A process has a configuration when it has passed open_ready, and only then.
Loads ==
  /\ agents_json \in Configs \cup {None} /\ cfg \in [Procs -> Configs \cup {None}]
  /\ \A p \in Procs : cfg[p] # None => boot[p].pc = "ready" /\ Validate(cfg[p])

QuestTyped ==
  /\ status \in {"pending", "running", "needs_input", "completed", "failed"}
  /\ question \in {None, "ask", "ask more"}
  /\ path \in BOOLEAN /\ dir \in BOOLEAN /\ removed \in BOOLEAN /\ session \in BOOLEAN
  /\ starts \in 0 .. MaxStarts

\* Who works is a process with a configuration, on a complete schema.
WorkerTyped ==
  /\ worker \in Workers /\ (worker.pc = "idle" => worker = Idle)
  /\ worker.pc # "idle" => worker.by \in Procs /\ cfg[worker.by] # None /\ worker.agent # None
  /\ worker.pc = "chosen" => starts < MaxStarts
  /\ worker.pc # "idle" \/ status # "pending" => Len(log) = N

WorkInv == MigInv /\ Loads /\ QuestTyped /\ WorkerTyped

LEMMA Constants == MaxStarts \in Nat /\ DefaultConfig \in Configs /\ None \notin Configs
BY WorkerAssumption

LEMMA IdleTyped == Idle \in Workers /\ Idle.pc = "idle" /\ NoOutcome \in Outcomes
<1>1. <<>> \in Seq(Lines)
  OBVIOUS
<1>2. NoOutcome \in Outcomes
  BY DEF NoOutcome, Outcomes
<1> QED
  BY <1>1, <1>2 DEF Idle, Workers

LEMMA DefaultValid == Validate(DefaultConfig)
BY DEF Validate, DefaultConfig, LayerOK, TIERS

LEMMA FoldTyped ==
  ASSUME NEW o \in Outcomes, NEW l
  PROVE  Fold(o, Event(l)) \in Outcomes
BY DEF Fold, Event, Outcomes

\* A command starts a worker of a process that has passed open_ready.
LEMMA TakesTyped ==
  ASSUME WorkInv, NEW p \in Procs, Commands(p), NEW resumes \in BOOLEAN, Takes(p, resumes),
         UNCHANGED <<migration, agents_json, cfg, status, starts>>
  PROVE  WorkerTyped'
<1>1. Resolve(cfg[p]) \in Agents /\ Resolve(cfg[p]) # None /\ boot[p].pc = "ready" /\ starts < MaxStarts
  BY WorkerAssumption DEF Commands, WorkInv, Loads, Agents, QuestTyped
<1>2. Len(log) = N
  BY <1>1 DEF WorkInv, MigInv, PassedInEffect
<1>3. worker' = [Idle EXCEPT !.pc = "chosen", !.by = p, !.agent = Resolve(cfg[p]), !.resume = resumes]
  BY DEF Takes
<1>4. worker' \in Workers /\ worker'.pc = "chosen" /\ worker'.by = p /\ worker'.agent # None
  BY <1>1, <1>3, IdleTyped DEF Workers, Idle
<1> QED
  BY <1>1, <1>2, <1>4 DEF WorkerTyped, Commands, migration

\* The steps of migrate, seen from the quest: a process that is past it stays there, and a
\* complete schema stays complete.
LEMMA MigrateSpares ==
  ASSUME MigInv, NEW p \in Procs, MigrateStep(p)
  PROVE  /\ \A q \in Procs : boot[q].pc = "ready" => boot'[q] = boot[q]
         /\ Len(log) = N => Len(log') = N
<1>1. boot \in [Procs -> Boot] /\ boot[p].pc # "ready"
  BY DEF MigInv, MigrateStep, Open, ReadApplied, Skip, Apply, ApplyFails, Migrated
<1>2. \A q \in Procs : q # p => boot'[q] = boot[q]
  BY <1>1 DEF MigrateStep, Open, ReadApplied, Skip, Apply, ApplyFails, Migrated
<1>3. Len(log) = N => log' = log
  BY MigrateSteps DEF Schema!Step, MigInv
<1> QED
  BY <1>1, <1>2, <1>3

\* An action that leaves the schema and the configurations alone.
LEMMA LoadsKept ==
  ASSUME WorkInv, UNCHANGED <<migration, agents_json, cfg>>
  PROVE  Loads'
BY DEF WorkInv, Loads, migration

LEMMA WorkStep == WorkInv /\ [Next]_vars => WorkInv'
<1> SUFFICES ASSUME WorkInv, [Next]_vars PROVE WorkInv'
  OBVIOUS
<1> USE DEF WorkInv
<1>0. MigInv'
  BY SchemaStep
<1>1. CASE UNCHANGED vars
  <2>1. UNCHANGED <<log, table, boot, agents_json, cfg, status, path, question, dir, removed, session, worker, starts>>
    BY <1>1 DEF vars, migration, work, repo, outside
  <2> QED
    BY <1>0, <2>1 DEF Loads, QuestTyped, WorkerTyped
<1>2. ASSUME NEW p \in Procs, MigrateStep(p), UNCHANGED <<agents_json, work>> PROVE WorkInv'
  <2>1. UNCHANGED <<agents_json, cfg, status, path, question, dir, removed, session, worker, starts>>
    BY <1>2 DEF work, repo, outside
  <2> QED
    BY <1>0, <1>2, <2>1, MigrateSpares DEF Loads, QuestTyped, WorkerTyped
<1>3. ASSUME NEW p \in Procs, Ready(p) PROVE WorkInv'
  <2>1. /\ boot[p].pc = "ready" /\ cfg[p] = None /\ boot \in [Procs -> Boot] /\ Len(log) = N
        /\ UNCHANGED <<log, agents_json, path, question, dir, removed, session, worker, starts>>
    BY <1>3 DEF Ready, outside, MigInv, PassedInEffect
  <2>2. Loaded \in Configs
    BY Constants DEF Loaded, Loads
  <2>3. Loads'
    <3>1. CASE Validate(Loaded)
      BY <1>3, <2>1, <2>2, <3>1 DEF Ready, Loads
    <3>2. CASE ~Validate(Loaded)
      BY <1>3, <2>1, <3>2 DEF Ready, Loads
    <3> QED
      BY <3>1, <3>2
  <2>4. QuestTyped'
    BY <1>3, <2>1 DEF Ready, Reconciled, QuestTyped
  <2>5. WorkerTyped'
    <3>1. worker.pc # "idle" => worker.by # p
      BY <2>1 DEF WorkerTyped
    <3>2. \A q \in Procs : q # p => cfg'[q] = cfg[q]
      BY <1>3 DEF Ready, Loads
    <3> QED
      BY <2>1, <3>1, <3>2 DEF WorkerTyped
  <2> QED
    BY <1>0, <2>3, <2>4, <2>5
<1>4. ASSUME NEW p \in Procs, Ends(p) PROVE WorkInv'
  <2>1. /\ cfg' = [cfg EXCEPT ![p] = None] /\ boot' = [boot EXCEPT ![p] = Down]
        /\ worker' = IF worker.by = p THEN Idle ELSE worker
        /\ UNCHANGED <<log, agents_json, status, path, question, dir, removed, session, starts>>
    BY <1>4 DEF Ends, repo, outside
  <2>2. Loads' /\ QuestTyped'
    BY <2>1 DEF Loads, QuestTyped, MigInv
  <2>3. WorkerTyped'
    BY <2>1, IdleTyped DEF WorkerTyped, Loads
  <2> QED
    BY <1>0, <2>2, <2>3
<1>5. ASSUME NEW p \in Procs, Dispatch(p) PROVE WorkInv'
  BY <1>0, <1>5, TakesTyped, LoadsKept DEF Dispatch, Create, repo, QuestTyped
<1>6. ASSUME NEW p \in Procs, Resume(p) PROVE WorkInv'
  BY <1>0, <1>6, TakesTyped, LoadsKept DEF Resume, repo, outside, QuestTyped
<1>7. ASSUME NEW p \in Procs, Starts(p) PROVE WorkInv'
  <2>1. /\ worker' = [worker EXCEPT !.pc = "started"] /\ worker.pc = "chosen" /\ starts' = starts + 1
        /\ status' = "running" /\ path' = TRUE
        /\ UNCHANGED <<migration, agents_json, cfg, question, dir, removed, session>>
    BY <1>7 DEF Starts, outside
  <2>2. worker' \in Workers /\ worker'.pc = "started" /\ worker'.by = worker.by /\ worker'.agent = worker.agent
    BY <2>1 DEF WorkerTyped, Workers
  <2>3. starts' \in 0 .. MaxStarts
    <3>1. starts < MaxStarts /\ starts \in 0 .. MaxStarts
      BY <2>1 DEF WorkerTyped, QuestTyped
    <3> QED
      BY <2>1, <3>1, Constants
  <2> QED
    BY <1>0, <2>1, <2>2, <2>3, LoadsKept DEF QuestTyped, WorkerTyped, migration
<1>8. ASSUME UNCHANGED <<migration, agents_json, cfg, path, dir, removed, session, starts>>,
             status' \in {"pending", "needs_input", "completed", "failed"}, worker.pc # "idle",
             question' \in {None, "ask", "ask more"}, worker' = Idle
      PROVE  WorkInv'
  BY <1>0, <1>8, LoadsKept, IdleTyped DEF QuestTyped, WorkerTyped, migration
<1>9. ASSUME NEW p \in Procs, RuntimeFails(p) \/ SettlesCancelled(p) PROVE WorkInv'
  BY <1>8, <1>9 DEF RuntimeFails, SettlesCancelled, outside, QuestTyped
<1>10. ASSUME NEW p \in Procs, Settles(p) PROVE WorkInv'
  <2>1. Finalize(worker.outcome).escalation \in {None, "ask", "ask more"}
    BY DEF Finalize, WorkerTyped, Workers, Outcomes
  <2>2. question' \in {None, "ask", "ask more"}
    BY <1>10, <2>1 DEF Settles, QuestTyped
  <2>3. status' \in {"pending", "needs_input", "completed", "failed"}
    BY <1>10 DEF Settles
  <2> QED
    BY <1>8, <1>10, <2>2, <2>3 DEF Settles, outside
<1>11. ASSUME worker' \in Workers, worker.pc # "idle", worker'.pc \in {"spawned", "open"}, worker'.by = worker.by,
              worker'.agent = worker.agent, UNCHANGED <<migration, agents_json, cfg, repo, dir, removed, starts>>,
              session' \in BOOLEAN
       PROVE  WorkInv'
  BY <1>0, <1>11, LoadsKept DEF QuestTyped, WorkerTyped, migration, repo
<1>12. ASSUME NEW p \in Procs, Spawns(p) PROVE WorkInv'
  BY <1>11, <1>12 DEF Spawns, WorkerTyped, Workers, outside, QuestTyped
<1>13. ASSUME AgentOpens PROVE WorkInv'
  BY <1>11, <1>13 DEF AgentOpens, WorkerTyped, Workers, QuestTyped
<1>14. ASSUME NEW p \in Procs, NEW l \in Lines, Line(p, l) PROVE WorkInv'
  <2>1. Fold(worker.outcome, Event(l)) \in Outcomes /\ Append(worker.printed, l) \in Seq(Lines)
    BY FoldTyped DEF WorkerTyped, Workers
  <2> QED
    BY <1>11, <1>14, <2>1 DEF Line, WorkerTyped, Workers, outside, QuestTyped
<1>15. ASSUME EditConfig PROVE WorkInv'
  BY <1>0, <1>15 DEF EditConfig, Loads, QuestTyped, WorkerTyped, migration, work, repo, outside
<1>16. ASSUME RemoveWorktree PROVE WorkInv'
  BY <1>0, <1>16, LoadsKept DEF RemoveWorktree, QuestTyped, WorkerTyped, migration, repo
<1> QED
  BY <1>1, <1>2, <1>3, <1>4, <1>5, <1>6, <1>7, <1>9, <1>10, <1>12, <1>13, <1>14, <1>15, <1>16 DEF Next

LEMMA WorkInvHolds == Spec => []WorkInv
<1>1. Init => WorkInv
  <2> SUFFICES ASSUME Init PROVE WorkInv
    OBVIOUS
  <2>1. MigInv
    BY DownIsBoot DEF Init, MigrateInit, MigInv, Prefix, PassedInEffect
  <2>2. Loads
    BY Constants DEF Init, Loads
  <2>3. QuestTyped
    <3>1. starts \in 0 .. MaxStarts
      BY Constants DEF Init
    <3> QED
      BY <3>1 DEF Init, QuestTyped
  <2>4. WorkerTyped
    BY IdleTyped DEF Init, WorkerTyped
  <2> QED
    BY <2>1, <2>2, <2>3, <2>4 DEF WorkInv
<1> QED
  BY <1>1, WorkStep, PTL DEF Spec

\* Whoever works on a quest has passed open_ready on a complete schema, and has the agent
\* that agents.json, as it was when the process read it, asks for (open_ready, resolve).
THEOREM WorksPrepared == Spec => []Prepared
<1>1. WorkInv => TypeOK
  <2> SUFFICES ASSUME WorkInv PROVE TypeOK
    OBVIOUS
  <2>1. MigrateTypeOK
    BY DEF WorkInv, MigInv, Boot, Prefix, MigrateTypeOK
  <2>2. worker.pc \in {"idle", "chosen", "started", "spawned", "open"}
    BY DEF WorkInv, WorkerTyped, Workers
  <2>3. worker # Idle => cfg[worker.by] # None /\ worker.agent # None
    BY DEF WorkInv, WorkerTyped
  <2>4. \A p \in Procs : cfg[p] # None => cfg[p] \in Configs /\ boot[p].pc = "ready"
    BY DEF WorkInv, Loads
  <2> QED
    BY <2>1, <2>2, <2>3, <2>4 DEF WorkInv, Loads, QuestTyped, TypeOK
<1>2. WorkInv => SchemaComplete /\ CommandsAfterSchema
  BY DEF WorkInv, MigInv, Prefix, PassedInEffect, WorkerTyped, SchemaComplete, CommandsAfterSchema
<1>3. WorkInv => ResolvedRight
  BY ValidResolves, WorkerAssumption DEF WorkInv, Loads, ResolvedRight
<1>4. WorkInv => Prepared
  BY <1>1, <1>2, <1>3 DEF Prepared
<1> QED
  BY <1>4, WorkInvHolds, PTL

-----------------------------------------------------------------------------
(* The session.                                                            *)

\* claude has the quest's session only when the worktree is stored, and a worktree that is
\* stored is there unless the user has removed it.
SessionInv ==
  /\ (session => path) /\ (path => dir \/ removed)
  /\ worker.pc = "chosen" => dir \/ removed
  /\ worker.pc \in {"started", "spawned", "open"} => path
  /\ worker.pc \in {"chosen", "started", "spawned"} /\ ~worker.resume /\ session => removed

\* claude is told to begin a session that it has only after the worktree was removed: a
\* worker that was killed is followed by one that resumes (dispatch_quest).
THEOREM BeginsANewSession == Spec => []BeginsNew
<1>1. Init => SessionInv
  BY DEF Init, SessionInv, Idle
<1>2. WorkInv /\ SessionInv /\ [Next]_vars => SessionInv'
  <2> SUFFICES ASSUME WorkInv, SessionInv, [Next]_vars PROVE SessionInv'
    OBVIOUS
  <2>0. worker \in Workers
    BY DEF WorkInv, WorkerTyped
  <2> USE DEF SessionInv
  <2>1. ASSUME UNCHANGED <<path, outside>>, worker' = worker \/ worker' = Idle PROVE SessionInv'
    BY <2>1, IdleTyped DEF outside
  <2>2. ASSUME NEW p \in Procs, Dispatch(p) PROVE SessionInv'
    <3>1. \A b \in BOOLEAN : Takes(p, b) => worker'.pc = "chosen" /\ worker'.resume = b
      BY DEF Takes, Idle
    <3>2. UNCHANGED <<path, removed, session>>
      BY <2>2 DEF Dispatch, repo
    <3>3. CASE path /\ dir /\ UNCHANGED dir /\ Takes(p, TRUE)
      BY <3>1, <3>2, <3>3
    <3>4. CASE ~(path /\ dir) /\ Create /\ Takes(p, FALSE)
      BY <3>1, <3>2, <3>4 DEF Create
    <3> QED
      BY <2>2, <3>3, <3>4 DEF Dispatch
  <2>3. ASSUME NEW p \in Procs, Resume(p) PROVE SessionInv'
    <3>1. worker'.pc = "chosen" /\ worker'.resume
      BY <2>3 DEF Resume, Takes, Idle
    <3> QED
      BY <2>3, <3>1 DEF Resume, repo, outside
  <2>4. ASSUME NEW p \in Procs, Starts(p) PROVE SessionInv'
    <3>1. worker'.pc = "started" /\ worker'.resume = worker.resume
      BY <2>0, <2>4 DEF Starts, Workers
    <3> QED
      BY <2>4, <3>1 DEF Starts, outside
  <2>5. ASSUME NEW p \in Procs, Spawns(p) PROVE SessionInv'
    <3>1. worker'.pc = "spawned" /\ worker'.resume = worker.resume
      BY <2>0, <2>5 DEF Spawns, Workers
    <3> QED
      BY <2>5, <3>1 DEF Spawns, repo, outside
  <2>6. ASSUME AgentOpens PROVE SessionInv'
    <3>1. worker'.pc = "open"
      BY <2>0, <2>6 DEF AgentOpens, Workers
    <3> QED
      BY <2>6, <3>1 DEF AgentOpens, repo
  <2>7. ASSUME NEW p \in Procs, NEW l \in Lines, Line(p, l) PROVE SessionInv'
    <3>1. worker'.pc = "open"
      BY <2>0, <2>7 DEF Line, Workers
    <3> QED
      BY <2>7, <3>1 DEF Line, repo, outside
  <2>8. ASSUME RemoveWorktree PROVE SessionInv'
    BY <2>8 DEF RemoveWorktree, repo
  <2> QED
    BY <2>1, <2>2, <2>3, <2>4, <2>5, <2>6, <2>7, <2>8
    DEF Next, vars, work, repo, Ready, Ends, RuntimeFails, Settles, SettlesCancelled, EditConfig
<1>3. SessionInv => BeginsNew
  BY DEF SessionInv, BeginsNew
<1> QED
  BY <1>1, <1>2, <1>3, WorkInvHolds, PTL DEF Spec

-----------------------------------------------------------------------------
(* The verdict.                                                            *)

\* What fold_outcome has kept of the lines ls.
Told(o, ls) ==
  /\ o.escalation = None <=> Asks(ls) = {}
  /\ Asks(ls) # {} => \E i \in Asks(ls) : (\A j \in Asks(ls) : j <= i) /\ o.escalation = ls[i]
  /\ o.saw_result <=> Results(ls) # {}
  /\ Results(ls) # {} =>
       \E i \in Results(ls) : (\A j \in Results(ls) : j <= i) /\ (o.success <=> ls[i] = "ok")

LEMMA LastIs ==
  ASSUME NEW S \in SUBSET Nat, NEW i \in S, \A j \in S : j <= i
  PROVE  Last(S) = i
<1> SUFFICES ASSUME NEW k \in S, \A j \in S : j <= k PROVE k = i
  BY DEF Last
<1> QED
  BY k \in Nat, i \in Nat, k <= i, i <= k

\* Where the lines of a kind are, when one more is printed.
LEMMA OneMore ==
  ASSUME NEW ls \in Seq(Lines), NEW l \in Lines
  PROVE  LET n == Len(ls) + 1
             ms == Append(ls, l)
         IN /\ n \in Nat /\ Asks(ls) \in SUBSET (1 .. (n - 1)) /\ Results(ls) \in SUBSET (1 .. (n - 1))
            /\ ms[n] = l /\ \A i \in 1 .. (n - 1) : ms[i] = ls[i]
            /\ Asks(ms) = IF l \in {"ask", "ask more"} THEN Asks(ls) \cup {n} ELSE Asks(ls)
            /\ Results(ms) = IF l \in {"ok", "bad"} THEN Results(ls) \cup {n} ELSE Results(ls)
<1> DEFINE n == Len(ls) + 1
           ms == Append(ls, l)
<1>1. /\ n \in Nat /\ n - 1 \in Nat /\ DOMAIN ms = 1 .. n /\ DOMAIN ls = 1 .. (n - 1)
      /\ ms[n] = l /\ \A i \in 1 .. (n - 1) : ms[i] = ls[i]
  OBVIOUS
<1> HIDE DEF n, ms
<1>2. ASSUME NEW K
      PROVE  {i \in DOMAIN ms : ms[i] \in K} =
               IF l \in K THEN {i \in DOMAIN ls : ls[i] \in K} \cup {n} ELSE {i \in DOMAIN ls : ls[i] \in K}
  <2>1. n \notin 1 .. (n - 1) /\ 1 .. n = 1 .. (n - 1) \cup {n}
    BY <1>1
  <2> QED
    BY <1>1, <2>1, Zenon
<1>3. Asks(ms) = IF l \in {"ask", "ask more"} THEN Asks(ls) \cup {n} ELSE Asks(ls)
  BY <1>2, Zenon DEF Asks
<1>4. Results(ms) = IF l \in {"ok", "bad"} THEN Results(ls) \cup {n} ELSE Results(ls)
  BY <1>2, Zenon DEF Results
<1>5. Asks(ls) \in SUBSET (1 .. (n - 1)) /\ Results(ls) \in SUBSET (1 .. (n - 1))
  BY <1>1, Zenon DEF Asks, Results
<1> QED
  BY <1>1, <1>3, <1>4, <1>5 DEF n, ms

LEMMA FoldTells ==
  ASSUME NEW ls \in Seq(Lines), NEW o \in Outcomes, Told(o, ls), NEW l \in Lines
  PROVE  Told(Fold(o, Event(l)), Append(ls, l))
<1> DEFINE n == Len(ls) + 1
           ms == Append(ls, l)
           f == Fold(o, Event(l))
<1>1. /\ n \in Nat
      /\ Asks(ls) \in SUBSET (1 .. (n - 1)) /\ Results(ls) \in SUBSET (1 .. (n - 1))
      /\ ms[n] = l /\ \A i \in 1 .. (n - 1) : ms[i] = ls[i]
      /\ Asks(ms) = IF l \in {"ask", "ask more"} THEN Asks(ls) \cup {n} ELSE Asks(ls)
      /\ Results(ms) = IF l \in {"ok", "bad"} THEN Results(ls) \cup {n} ELSE Results(ls)
  BY OneMore
<1> HIDE DEF ms, n
<1>2. \A i \in Asks(ls) \cup Results(ls) : ms[i] = ls[i] /\ i <= n
  <2>1. ASSUME NEW i \in Asks(ls) \cup Results(ls) PROVE i \in 1 .. (n - 1)
    BY <1>1, Zenon
  <2>2. ASSUME n \in Nat, NEW i \in 1 .. (n - 1) PROVE i <= n
    BY <2>2
  <2> QED
    BY <1>1, <2>1, <2>2, Zenon
<1>3. ASSUME n \in Nat PROVE n <= n
  BY <1>3
<1>4. CASE l \in {"ask", "ask more"}
  <2>1. f = [o EXCEPT !.escalation = l]
    BY <1>4 DEF Fold, Event
  <2> HIDE DEF f
  <2>2. f.escalation = l /\ f.saw_result = o.saw_result /\ f.success = o.success /\ l # None
    BY <1>4, <2>1, WorkerAssumption DEF Outcomes
  <2>3. Asks(ms) = Asks(ls) \cup {n} /\ Results(ms) = Results(ls)
    BY <1>1, <1>4
  <2>4. Told(f, ms)
    BY <1>1, <1>2, <1>3, <2>2, <2>3 DEF Told
  <2> QED
    BY <2>4 DEF f, ms
<1>5. CASE l \in {"ok", "bad"}
  <2>1. f = [o EXCEPT !.saw_result = TRUE, !.success = (l = "ok")]
    BY <1>5 DEF Fold, Event
  <2> HIDE DEF f
  <2>2. f.escalation = o.escalation /\ f.saw_result = TRUE /\ f.success = (l = "ok")
    BY <1>5, <2>1 DEF Outcomes
  <2>3. Asks(ms) = Asks(ls) /\ Results(ms) = Results(ls) \cup {n}
    BY <1>1, <1>5
  <2>4. Told(f, ms)
    BY <1>1, <1>2, <1>3, <2>2, <2>3 DEF Told
  <2> QED
    BY <2>4 DEF f, ms
<1>6. CASE l \notin {"ask", "ask more", "ok", "bad"}
  <2>1. f = o
    BY <1>6 DEF Fold, Event
  <2> HIDE DEF f
  <2>2. Asks(ms) = Asks(ls) /\ Results(ms) = Results(ls)
    BY <1>1, <1>6
  <2>3. Told(f, ms)
    BY <1>2, <2>1, <2>2 DEF Told
  <2> QED
    BY <2>3 DEF f, ms
<1> QED
  BY <1>4, <1>5, <1>6

\* The verdict on a quest follows from the whole of what was read of its agent's output
\* (fold_outcome, finalize_outcome, settle_outcome).
THEOREM VerdictFollows == Spec => VerdictOfLines
<1> DEFINE VInv == Told(worker.outcome, worker.printed)
<1>0. Told(NoOutcome, <<>>) /\ Idle.outcome = NoOutcome /\ Idle.printed = <<>>
  BY DEF Told, NoOutcome, Asks, Results, Idle
<1>1. Init => VInv
  BY <1>0 DEF Init
<1>2. WorkInv /\ VInv /\ [Next]_vars => VInv'
  <2> SUFFICES ASSUME WorkInv, VInv, [Next]_vars PROVE VInv'
    OBVIOUS
  <2>0. worker \in Workers
    BY DEF WorkInv, WorkerTyped
  <2>1. ASSUME worker' = worker \/ worker' = Idle PROVE VInv'
    BY <1>0, <2>1
  <2>2. ASSUME worker'.outcome = worker.outcome, worker'.printed = worker.printed PROVE VInv'
    BY <2>2
  <2>3. ASSUME worker'.outcome = NoOutcome, worker'.printed = <<>> PROVE VInv'
    BY <1>0, <2>3
  <2>4. ASSUME NEW p \in Procs, NEW b \in BOOLEAN, Takes(p, b) PROVE VInv'
    BY <2>3, <2>4 DEF Takes, Idle
  <2>5. ASSUME NEW p \in Procs, Starts(p) \/ Spawns(p) PROVE VInv'
    BY <2>0, <2>2, <2>5 DEF Starts, Spawns, Workers
  <2>6. ASSUME AgentOpens PROVE VInv'
    BY <2>0, <2>2, <2>6 DEF AgentOpens, Workers
  <2>7. ASSUME NEW p \in Procs, NEW l \in Lines, Line(p, l) PROVE VInv'
    <3>1. worker.outcome \in Outcomes /\ worker.printed \in Seq(Lines)
      BY <2>0 DEF Workers
    <3>2. worker'.outcome = Fold(worker.outcome, Event(l)) /\ worker'.printed = Append(worker.printed, l)
      BY <2>0, <2>7 DEF Line, Workers
    <3> QED
      BY <3>1, <3>2, FoldTells
  <2> QED
    BY <2>1, <2>4, <2>5, <2>6, <2>7
    DEF Next, vars, work, Dispatch, Resume, Ready, Ends, RuntimeFails, Settles, SettlesCancelled, EditConfig, RemoveWorktree
<1> DEFINE Follows ==
             LET ls == worker.printed
             IN /\ status' = "needs_input" <=> Asks(ls) # {}
                /\ status' = "completed" <=> Asks(ls) = {} /\ Results(ls) # {} /\ ls[Last(Results(ls))] = "ok"
                /\ status' = "needs_input" => question' = ls[Last(Asks(ls))]
           AllFollow == \A p \in Procs : Settles(p) => Follows
<1>3. ASSUME WorkInv, VInv, NEW p \in Procs, Settles(p) PROVE Follows
  <2> DEFINE ls == worker.printed
             o == worker.outcome
  <2>1. o \in Outcomes /\ ls \in Seq(Lines) /\ Told(o, ls)
    BY <1>3 DEF WorkInv, WorkerTyped, Workers
  <2>2. Finalize(o).escalation = o.escalation /\ (Finalize(o).success <=> o.saw_result /\ o.success)
    BY <2>1 DEF Finalize, Outcomes
  <2>3. Asks(ls) \in SUBSET Nat /\ Results(ls) \in SUBSET Nat
    <3>1. DOMAIN ls \in SUBSET Nat
      BY <2>1
    <3> QED
      BY <3>1, Zenon DEF Asks, Results
  <2>4. Asks(ls) # {} => o.escalation = ls[Last(Asks(ls))]
    BY <2>1, <2>3, LastIs DEF Told
  <2>5. Results(ls) # {} => (o.success <=> ls[Last(Results(ls))] = "ok")
    BY <2>1, <2>3, LastIs DEF Told
  <2>6. (o.escalation = None <=> Asks(ls) = {}) /\ (o.saw_result <=> Results(ls) # {})
    BY <2>1 DEF Told
  <2>7. /\ status' = "needs_input" <=> o.escalation # None
        /\ status' = "completed" <=> o.escalation = None /\ o.saw_result /\ o.success
        /\ o.escalation # None => question' = o.escalation
    BY <1>3, <2>2 DEF Settles
  <2> QED
    BY <2>4, <2>5, <2>6, <2>7
<1>4. WorkInv /\ VInv => AllFollow
  BY <1>3
<1> HIDE DEF VInv
<1> QED
  BY <1>1, <1>2, <1>4, WorkInvHolds, PTL DEF Spec, VerdictOfLines
=============================================================================
