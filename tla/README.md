# TLA+ models of luida

luida (v2, Rust, `src/crates`) turns a user's request into a *campaign*: a DAG of *quests* over
registered projects, each executed by an external agent CLI (claude, codex) in a git worktree. All
state is in one SQLite file, `tavern.db`, which any number of luida processes open at once: CLI
commands, the terminal UI, the HTTP server. This directory models those processes, checks the
models with TLC on small instances, and proves the main properties with TLAPS for every instance.

## 1. Inventory

| component (under `src/crates`) | state | operations | hard behaviour | what makes it correct | module |
|---|---|---|---|---|---|
| campaign run, `luida-planner/planner.rs` | `campaigns.status`, the run's report | `run_campaign` | stale ready list, errors and cancels in mid loop | runs drain, verdicts are so, dependencies come first | `CampaignRun` |
| plan, `luida-planner/{plan,planner}.rs` | rows of a new campaign | `validate`, `topo_sort`, `plan_campaign` | cycles, duplicate edges, projects that go meanwhile | accepts exactly the DAGs, stores all or nothing | `PlanDag` |
| worker, `luida-sidecar/dispatch.rs` | quest status, runner lease, session | `dispatch_quest`, `resume_quest`, `run_worker`, `settle_outcome`, `finalize_failed` | check and transaction apart, failing runtimes, kills | no zombies, no second worker, no session begun twice, verdict of all lines read | `CampaignRun`, `Worker` |
| escalation, `luida-sidecar/escalation.rs` | inmail, events | `triage_escalation`, `notify_user_escalation` | question, triage, resume loop; old questions | bounded, the last question is answered, the user is told | `CampaignRun`, `Queries` |
| triggers, `luida-sidecar/triggers.rs` | new quests, mails | `fire_quest_completed` | insert by insert, cyclic rules, two evaluations | each rule once per completion, chains end | `CampaignRun`, `Relations` |
| recovery, `luida-core/{lib,recover}.rs` | quest status | `open_ready`, `reconcile_interrupted_quests` | concurrent boots | takes back all dead and no living work | `CampaignRun`, `Worker` |
| migrations, `luida-core/db.rs` | schema | `migrate` | two boots on an old database | each migration once, in order | `Migrate`, `Schema` |
| agent configuration, `luida-core/agents/{config,resolver}.rs` | `agents.json` | `load_or_default`, `validate`, `resolve` | three layers, runtimes that are missing | the most specific setting wins, field by field | `Worker` |
| prompts, `luida-core/agents/tokenjuice.rs` | none (pure) | `compress_context` | budgets around the marker | fits, keeps what it can | `TokenJuice` |
| cancel token, runtimes, `luida-core/agents/cancel.rs`, `luida-runtimes/lib.rs` | flag, pid, child process, pipes | `cancel`, `register_child`, `clear_child`, `run_cli_streaming` | races with spawn, reap, pid reuse; grandchildren | a cancelled run leaves nobody and is reported as such | `AgentCli` |
| agent output, `luida-core/agents/runtime.rs` | outcome | `parse_*_stream_line`, `fold_outcome`, `finalize_outcome` | questions and results in any order | the verdict follows from all lines read | `Worker` |
| TUI, `luida-tui/lib.rs` | lists, selection, mode, pane, worker | every key, `spawn_worker`, `reload`, `run_loop` | rows move under the cursor, panics, quitting at work, a terminal that fails | acts on what is highlighted, one worker, a way out | `Tui`, `Queries` |
| server, `luida-server/lib.rs` | `running` set | `run_http`, `resume_http`, `triage_http`, reads | concurrent requests | one run per campaign and server | `CampaignRun` |
| handoff, `luida-core/handoff.rs` | `handoff_state`, owner, the bundle | `suspend_campaign`, `resume_bundle` | statements apart, commands that go on and overlap, imports twice | nothing lost, every copy can be gone on with | `Handoff` |
| report and ingest, `luida-brain/{report,ingest,memory}.rs` | `campaigns.status`, vault, `context_path` | `report_campaign`, `ingest_project` | model calls of minutes between read and write, runs that overlap, kills | tables name what is on file, closes only what it saw completed | `Chronicle` |
| memory tree, `luida-brain/memtree.rs` | `memory_chunks` | `chunk_markdown`, `ingest_chunks`, `build_summary_tree` | failing summaries, any fan-out | nothing lost between chunks, one whole tree | `MemTree` |
| reflection, `luida-brain/reflect.rs`, `repo/relationship.rs` | relationships | `reflect`, `upsert_by_name`, `find_by_name`, `set_enabled` | overwrites by name between a find and a set, projects that go | nothing acts before a human switches it on | `Relations` |
| repositories, `luida-core/repo/*.rs` | the tables | SQL | limits and orders of reads, rows stamped before they are inserted | timelines end with the newest, screens agree | all of the above, `Queries` |
| CLI, `luida-cli/main.rs` | none | one command per process | several at once | | all of the above |

Components meet in the tables (every process reads and writes `tavern.db` and nobody holds a lock
for longer than a transaction), in the cancel token (TUI thread and worker thread) and in files
(vault, bundle, `agents.json`). So each module's step is one statement or transaction, one access
to the token, one system call, or one file; what a handler has read before is in a variable of its
own and may be stale.

## 2. Modules

| module | what it is |
|---|---|
| `CampaignRun` | boots, commands, run loop, dispatch, triage, resume, follow-ups, server guard, cancel, kill |
| `CampaignRunProperties` | its properties, and the strengthenings the proofs use |
| `QuestLifecycle` | abstract: what a quest's status may go through; `CampaignRun` implements it |
| `AgentCli` | `run_cli_streaming` against the `CancelToken`, one atomic access or system call per step |
| `PlanDag` | `plan_campaign`: validation, the sort, one transaction, while projects come and go |
| `Tui` | `run_loop` and `handle_key` against lists that other processes change |
| `Queries` | the reads behind the screens, triage and report, over tables that several writers fill |
| `Handoff` | a campaign carried between databases while any number of commands work on it |
| `Chronicle` | reports and ingested contexts against runs, removals and kills |
| `MemTree` | chunking and the summary tree |
| `TokenJuice` | the compression of a prompt |
| `Relations` | rules learned, switched, evaluated |
| `Schema` | abstract: each migration once, in order |
| `Migrate` | `migrate` in several processes, statement by statement; implements `Schema` |
| `Worker` | extends `Migrate`: one quest through boot, configuration, worktree, session, agent output, verdict |
| `MC*` | instances for TLC. `MCMemory` holds `Chronicle`, `MemTree` and `TokenJuice`, `MCTui` holds `Tui` and `Queries`, `MCPlanWork` holds `PlanDag` and `Worker`, `MCExchange` holds `Relations` and `Handoff`: they share nothing, so a behaviour moves one of them (`part`) |
| `*_proofs` | theorems and proofs; `Memory_proofs` is about what `MCMemory` holds, `Tui_proofs` about `Tui` and `Queries`, `Worker_proofs` about `Worker` and `Migrate` |

How state and actions correspond to the code, where it is not plain from the names:

* `CampaignRun`. `pc[t]` is where a thread is in the handlers that a command calls: `open` and
  `reconcile` are `open_ready`; `begin`, `snapshot`, `pick`, `wrapup`, `close` are `run_campaign`;
  `prepare`, `work`, `settle` are `dispatch_quest` with `run_worker`; `triage`, `triaging`,
  `notify` are `triage_escalation`; `resume` and `reattach` are `resume_quest`, by a user or by the
  loop; `fire` is `fire_quest_completed`. `rows`, `todo`, `report` are what those hold between two
  transactions. A pid stands for a process instance, since the code compares pid and start time.
* `AgentCli`. `main` is the TUI thread, `worker` the thread in `run_cli_streaming`, `os` the
  process table. A grandchild inherits stdout, stderr, both or neither. `rude` marks agents that close stdout early or print what ends the reader; `slain`,
  `hurt`, `late` record what was killed and when.
* `PlanDag`. The model call is the choice of `plan` before `Commit`; `Add` and `Remove` change the
  projects during it, `Remove` with the foreign key's `ON DELETE RESTRICT`. Nothing of the open
  transaction (`draft`) is visible; `pos` is the place of the loop that inserts. `CampaignRun` starts from what `Commit` leaves.
* `Tui`. `pc` goes round the loop: `top` (draw, `try_recv`), `quit`, `refresh`, `poll`. Whatever a
  read returns is any of `Views`. One action per key and mode. `LoopFails` is the three `?` of the
  loop, after which `run` returns the error: `failed`, where `exited` is a key's doing.
* `Queries`. `record` is two steps: `Stamp` takes the time, `InsertRow` gets the write lock, and any
  number of writers are in between. `seen`, in a row, is how many rows there were when it was
  stamped: a row was recorded after another if that was in the table by then. Each operator is one SQL
  statement or one count.
* `Handoff`. A copy is one database's row of the campaign; quests are named by position, which is
  how the bundle names them. `at[t]` is where a command is and what it has read: `recover` and
  `loop` hold the rows it has listed, `seen` the quest it has looked at before the transaction that
  starts it (`dispatch_quest` and `resume_quest` alike), `works` the quest its agent is at. Nothing
  looks again: a quest may be dispatched twice, settled when it is something else by then, and reset
  by a boot that had listed it. `lease` is what the next boot's reconcile goes by. `sus` is the
  suspend in progress. `achieved` remembers what has completed; `alone` says whether commands on one
  copy overlap.
* `Chronicle`. `runs[w]` is the quest that a command which runs the campaign, or resumes a quest of
  it, has taken and will settle, whatever it has become; `Recovers` is the reset of a row that a
  boot had listed before. `cmd[r]` is what a process has read before its model call; `chronicle`
  counts lines. `cleared` remembers how many quests there were whenever all of them were completed;
  `sole` says whether runs overlap.
* `MemTree`. A paragraph is its length; a summary is the sequence of leaves it was made from, so
  that losing or repeating one shows. `tx` is the open transaction.
* `Relations`. A rule is the proposal it was stored from. `luida relationship enable` is two steps:
  `Finds` by name, `SetEnabled` by id. `switched` remembers the wordings that rows had when they were
  switched on, `reviewed` those that the command had found; `batch` and `reflected` which answers
  were recorded.
* `Worker`. `boot` and `log` (in `Migrate`) are each process's migration and the schema; `cfg` what
  it loaded; `session` what claude keeps; `printed` the lines so far. The user edits `agents.json`
  and removes worktrees at any time.

## 3. Runs

| run | instance | shows |
|---|---|---|
| `solo` | a TUI and two CLI processes, one alive at a time; two planned quests (2 after 1), one follow-up rule; all commands, kills anywhere | `FollowUpOnce`, `RunDrains`, `VerdictHonest`: the contract of a run; `LifecycleSpec`: it implements `QuestLifecycle` |
| `pair` | CLI and TUI at once; runs, resumes, boots, cancels, kills | what survives a race: `NoZombie`, `DependenciesDone` |
| `server` | two server instances with three threads, then a TUI; run requests at once, kills, cancels, agents that may hang | the guard gives a server what one process has (`OneRunPerServer`, `SoleWorker`, `DependencyOrder`, `ReconcileTakesOnlyDead`); `CancelEnds`, `CommandEnds`, `CrashRecovered` |
| `recover_race` | three CLI processes, two alive at once | violation of `LiveWorkUntouched`, see findings |
| `cli` | two CLI runs, two pids, polite and rude agents, grandchildren with any of the pipes | `KilledIsCancelled`, `CancelledLeavesNobody`, `LateCancelSpares`, `CancelStops` |
| `rude_orphan` | the same | violation of `CancelKills`, see findings |
| `screen` | five snapshots of at most two rows per list, two tokens, a terminal that may fail anywhere; tables of up to three rows, two writers, two instants | `WorkerInHand`, `ScreenHonest`, `HighlightMeant`, `LoopGoesOn` (`ResultCollected`, `QuitEnds`); `ReadRight` |
| `loop_fails` | the same | violation of `EndsClean`, see findings |
| `exchange` | rules: one learner, two runs, two projects, four proposals (a cycle, a mail, one without a name) in answers of up to two; bundles: two machines, three commands, one import, a chain of two quests and a follow-up, one suspend | `LearnedSafely`, `ChainsEnd`; `CanGoOn`, `NothingLost` |
| `enable_race` | the rules of `exchange` | violation of `Reviewed`, see findings |
| `memory` | two runs that overlap or not, two processes, three commands, three projects of which two share a file; documents of up to five paragraphs, budgets 0 to 4, fan-outs 1 to 3, two builds; texts of up to five lines around nine budgets | `OnFile`, `ClosesSeen`; `ChunkedRight`, `BuildsWhole`, `BuildsReturn`; `ContextKept` |
| `work` | planning: every graph of three quests with up to two dependencies each, also repeated; chains over two projects; plans that must be refused. Working: two processes, two migrations, five `agents.json`, two workers of up to two lines each | `DagsOnly`, `StoredWhole`, `Returns`; `SchemaSpec` (implements `Schema`), `Prepared`, `BeginsNew`, `VerdictOfLines` |

Every property has a mutant of the code that breaks it under its own run (the definitions marked
`Bug:` in the modules).

**Bounds.** `MaxLive` bounds the processes alive at once, `Cli`, `Tui`, `Server` the process
instances of a behaviour: a CLI instance is one command, the others any number. A process that is
killed, one that recovers and one that goes on are the least that recovery is about; two quests
with an edge and one follow-up the least that has a blocked quest, a stale ready list and a growing
campaign; two threads of one server what the guard is about. In `AgentCli` two runs are the one that
is cancelled and the one that must not begin, two pids the agent's and the next one's. Three quests
with two dependencies each have what the sort tells apart: cycles of two and three, half a
diamond, a dependency named twice. Snapshots of the TUI have lists that are empty, reordered, and
that lose a row; two tokens would show a second worker. Five paragraphs with a fan-out of 2 make
three levels of a tree, the budgets lie on both sides of every paragraph. Two writers and three rows
have two that race and one that comes before or after both; two overlapping runs are the double
dispatch. Three commands on a copy are two that overlap and one that boots on what they left; in
`exchange` the third acts only while nothing has been suspended, and a quest is added only where
commands do not overlap and the third has not acted (`Small`). `MaxRules`, `MaxQuests`,
`MaxReflects`, `MaxFires`, `MaxCommands`, `MaxStarts`, `MaxLines`, `MaxCopies`, `MaxPlaces`,
`MaxSuspends`, `MaxRows`, `LastInstant`, `QuitLimit` bound counters, each above what the properties
need to be violated by their mutants. In `exchange` the runners, the machines (which are given the
runners' names, so that both are permuted at once) and the commands are symmetric; liveness is
checked without symmetry. `CHECK_DEADLOCK FALSE` stands where processes end.

**Fairness.** luida's threads never block on each other (SQLite waits on a busy timeout), so a
thread's next step is weakly fair. Agents are not: in `CancelSpec` one may hang for ever unless its
token is set, and `CommandEnds` has the ending of agents as its premise, since luida has no timeout
for them. The TUI's loop is weakly fair because its poll times out; its worker never. In
`AgentCli` the thread in `run_cli_streaming` and a `cancel()` that has begun are fair. `PlanDag`
and `MemTree` are loops of one thread; that a document is rebuilt is not required. Users, kills,
boots, and other processes are never fair.

**What holds when.** `SoleWorker`, `DependencyOrder`, `FollowUpOnce`, `RunDrains`,
`ReconcileTakesOnlyDead`, `VerdictHonest` and the refinement of `QuestLifecycle` are checked and
proved for one process at a time or one guarded server that is asked for runs only (`OneAtATime`,
`Undisturbed`). Two unguarded processes break them: `dispatch_quest`
refuses only terminal quests (`dispatch.rs:55`), `resume_quest` looks at `needs_input` outside the
transaction that starts the worker (`dispatch.rs:149`), and reconcile is the first finding. So these
properties say nothing of those races, nor of a verdict that overwrites what another command wrote.
`Handoff` and `Chronicle` have the races, and their properties say which part holds in spite of
them (what had completed once, who works on a running quest) and which only `alone` or `sole`, that
is, as long as commands on one campaign do not overlap (what is completed now). `SoleWorker` speaks of luida's
threads: the agent of a luida that was killed may live on in its own process group. The instance of
`CommandEnds` has no rules; follow-ups of follow-ups are in `ChainsEnd`.

## 4. Findings

* `recover_race`: reconcile lists the running quests once and resets them one by one without
  looking again; with two boots after a kill, the slower one resets a quest the faster one is
  already working on. `recover.rs:19` and `lib.rs:41` say living work is never touched.
* `rude_orphan`: a `cancel()` between `clear_child` and `wait()` kills nobody, and an agent that
  closed its stdout outlives the TUI, against `luida-tui/src/lib.rs:950`. A little earlier in the
  same window the agent is killed but its run settled as failed, which is why `KilledIsCancelled`
  speaks of agents that keep stdout open until they exit.
* `enable_race`: `luida relationship enable` finds a rule by name and sets it by id (`main.rs:370`,
  `371`); a reflect in between overwrites the row, and its wording is switched on unseen, against
  `reflect.rs:4` ("enabled after a human has reviewed it").
* `loop_fails`: `terminal.draw`, `event::poll` and `event::read` leave `run_loop` by `?`
  (`luida-tui/src/lib.rs:915`, `981`, `982`) past every `cancel()`; a worker's agent lives on, against
  `luida-runtimes/src/lib.rs:177` and `docs/operations.md:180`.

What the code does and the models follow, without a property that says otherwise:

* rules are evaluated by `run_campaign` only (`planner.rs:183`): a quest that completes through a
  user's resume fires none, against `docs/operations.md:144`;
* a crash between two inserts of `fire_quest_completed` loses follow-ups, and nothing but the
  absence of a cycle among the enabled rules ends a chain of them (`ChainsEnd`);
* a triage whose answer has no JSON is an error of the whole run (`escalation.rs:83`), and the mail
  of an escalation has a key per quest, so that a second question of the same quest is not mailed;
* a grandchild that holds an agent's stderr, and not its stdout, keeps `run_cli_streaming` in `join`
  (`luida-runtimes/src/lib.rs:143`) after the agent was reaped and its pid cleared: no `cancel()`
  reaches it, and the command ends when that process does (`HeldByStderr`, which `CancelStops`
  excepts);
* two commands that overlap may settle, reset or begin again a quest that had completed
  (`dispatch.rs:55`, `149`, `240`): a bundle or a report that has read it is then out of date
  (`NothingLost`, `ClosesSeen`), and a dependency of a begun quest may be open again (`CanGoOn`);
* an event is stamped before its insert gets the write lock (`event.rs:28`): of two that race, the
  one inserted last may come first in a timeline (`ReadRight`);
* a rebuild of the memory tree takes the leaves from the earlier tree, whose upper nodes stay;
* a settling transaction that itself fails (`dispatch.rs:302`) leaves the quest running under a
  living pid, beyond reconcile;
* a worktree that was created before a kill, but whose path was not stored, makes the branch's next
  `wt switch --create` fail;
* `resolve` may hand the model named in one layer to the runtime named in another
  (`resolver.rs:28`);
* a wall clock that is set back breaks the order of timelines (`event.rs:63`);
* `memtree.rs:17` says chunks stay within the budget; the blank lines between paragraphs are not
  counted, so a chunk may be one token over. `tokenjuice.rs:27` says three blank lines or more are
  compressed; two are;
* `memtree` is a library no command calls; nothing marks mail as delivered.

## 5. Theorems

All are about `Spec` of the module, for every value of its constants that satisfies the named
assumptions. Those type the constants; where they say more, it is named below.

`CampaignRun_proofs` (`QuestAssumption`; `ProcessAssumption`: a CLI or TUI process executes one
command at a time, which is how `main` and `spawn_worker` are written)

* `TypeCorrect`: inductive as it stands, since it says that a thread at a label that uses its quest
  has one.
* `ZombieFree` (`NoZombie`), from `ZombieInv`: besides, a thread at work belongs to a living
  process (`ThreadUp`) and a lease names a process that has started (`LeaseStarted`), so that no boot
  brings a dead runner's lease back to life.
* `DependenciesRespected` (`DependenciesDone`), from `OrderInv`: completions are recorded for good
  even when a quest is taken back (`CompletedRecorded`), and listed quests and the one in hand had
  their dependencies completed (`ListedReady`, `InHandReady`), so a stale list does no harm.
* `ServerGuarded` (`OneRunPerServer`), from `GuardInv`: `busy` holds as long as the run does.

Under `OneAtATime`, `MaxLive <= 1`: luida processes do not overlap, though any of them may be killed
at any step, and a server still has any number of threads.

* `ReconcilesTheDead` (`ReconcileTakesOnlyDead`) and `LivingWorkSpared` (`LiveWorkUntouched`, which
  run `recover_race` refutes without the hypothesis), from `RecoverInv`: while a boot has rows left
  no other thread is at anything, so its rows are still the orphans they were when it read them
  (`RowsTrue`, `RowsComplete`), and a TUI or a server that is up leaves none (`UpClean`).

Under `Undisturbed`, besides: if there is a server, it is asked for nothing but runs, since its
resumes and triages pass by the guard.

* `OneWorker` (`SoleWorker`), `OrderKept` (`DependencyOrder`), `FollowedUpOnce` (`FollowUpOnce`),
  `RunsDrain` (`RunDrains`), `HonestVerdict` (`VerdictHonest`) and `LivesOfQuests` (`LifecycleSpec`,
  the refinement of `QuestLifecycle`, step by step), from `SoloInv`: what a thread has read is still
  so when it uses it. The quest in hand has the status that its label says and the listed ones are
  pending (`InHand`); what it noted in its report has happened and been mailed (`Noted`); of the
  follow-ups it is to fire none is there (`Unfired`); when it leaves the loop nothing is ready
  (`Drained`); before and after its command it knows nothing (`Blank`); and completed quests, the
  only ones that are followed up, stay so (`CompletionsStay`, `OriginsCompleted`). A step of another
  thread cannot disturb this, because with one process, or one guarded server, there is no other
  thread past `open_ready`.

`PlanDag_proofs` (`PlanDagAssumption`)

* `SortDecides` (`DagsOnly`), `OrderIsTopological`, `ExpectHolds`, from `IInv`. In the loop,
  `indegree[k]` is the number of places where `k` names a dependency that has not been taken from
  the queue (`VisitCounts`), and a key is in the queue exactly when that is zero. An order of full
  length is a ranking (`OrderIsRank`); if the loop ends early, each quest left waits for another
  that is left, so no ranking has a least one among them (`StuckIsCyclic`).
* `StoredRight` (`StoredWhole`): the draft is the rows and links of the order's first `pos - 1` quests
  (`Drafted`), at `Commit` the whole plan (`CommitWhole`).

`AgentCli_proofs` (`AgentCliAssumption`)

* `NobodyLeft` (`CancelledLeavesNobody`), `SlainReported` (`KilledIsCancelled`), `StrangersSpared`
  (`LateCancelSpares`), from one `IInv`: where the token's pid, the flag and the child's life may be
  at each label of both threads.

`Worker_proofs` (`WorkerAssumption`, and `Migrate`'s)

* `MigratesAsOne` (`SchemaSpec`): the refinement of `Schema`, from `MigInv`: the log is `1, 2, ...`
  as far as the table goes (`Prefix`), and a process has passed by a migration only when it is in
  effect (`PassedInEffect`); one that comes late fails on the table's primary key.
* `WorksPrepared` (`Prepared`): a process has a configuration only behind a complete schema, and
  only one that `validate` accepts, for which `resolve` always finds the runtime.
* `BeginsANewSession` (`BeginsNew`), from `SessionInv`: claude has the session only when the
  worktree's path is stored, and the worker that finds it stored and there resumes.
* `VerdictFollows` (`VerdictOfLines`): the outcome is the fold of the printed lines, by an invariant
  on the last question and the last result (`Told`), for output of any length; a line that is not
  UTF-8 ends what is read.

`Memory_proofs`, about `Chronicle` (`ChronicleAssumption`: finitely many processes), about `MemTree`
(`MemTreeAssumption`: documents are sequences of nonempty paragraphs) and about `TokenJuice`
(`TokenJuiceAssumption`: texts are sequences of lines, budgets numbers)

* `TablesOnFile` (`OnFile`): the events of reports are at most the chronicle's lines, counting the
  processes that have written their line and not yet their event; a context is marked by the
  process that has just written its file, whose name did not change.
* `ClosesWhatItSaw` (`ClosesSeen`): a report that has read `all_completed` has a number of quests that
  is among `cleared`, whatever was settled or taken back since; under `sole` no quest in hand is a
  completed one, so that what had completed still has (`SawCompleted`, `Ran`).
* `ChunksHold` (`ChunkedRight`), from the invariant `CutOK` of the loop: the whole chunks and the
  one in hand are `Right` for the blocks so far. The recursive functions of the model are unfolded
  step by step (`FlatSteps`, `CharsSteps`, `CutSteps`) by `Recursion` and `Same`, that such a function
  exists and is the only one.
* `TreesWhole` (`BuildsWhole`), from `TreeInv`: in the open transaction the nodes of `Frontier`, of two
  levels, hold all the leaves once and in their order (`WholeOK`), every other node of this build has
  a parent of this build (`BelowOK`), what other builds have left is untouched (`Grows`), and the levels
  shrink (`ShrinkOK`), so that a node's level stays below the number of leaves and the way up ends at
  a root (`TopEnds`). It is about the tree of the last build that committed; an earlier one loses its
  leaves to it.
* `ContextIsKept` (`ContextKept`), from the invariant `PushOK` of the loop in `tidy`: what is kept of the
  lines so far has their changes from one line to a different one and no others (`Turns`), ends with
  the words of the last one and is not longer. Cutting blank ends loses no change between lines that
  say something (`TidyGives`); what is left is `Neat`, and a neat text passes through `tidy` as it is.

`Relations_proofs` (`RelationsAssumption`: proposals name registered projects, of which there are
finitely many)

* `LearnsSafely` (`LearnedSafely`), from `RulesInv` and `QuestsInv`: each row is of a recorded
  answer and on only in a wording that was switched on (`Rules`), which the loop over an answer keeps
  (`StoredKeeps`, by the least-number lemma), and what a runner has listed starts from its quest's
  project and was switched on (`Standing`, `Follows`). That it was also what the command had found is
  `Reviewed`, which does not hold.
* `FollowUpsEnd` (`ChainsEnd`), from `DepthInv`: under every ranking of the projects along the rules
  that were switched on, a quest's depth is below its project's rank.

`Handoff_proofs` (`HandoffAssumption`), of `CarrySpec`

* `GoesOn` (`CanGoOn`), `LosesNothing` (`NothingLost`), from one `IInv`. Whatever overlaps: the quests
  of each copy (`CopiesInv`), of the suspend in progress (`SusInv`) and of the bundle (`BundleInv`) are
  `Whole`, that is, the plan at least, begun only when what they need was achieved; what a command has
  listed or looked at was free to begin and stays so, since `achieved` only grows (`Placed`); and a
  running quest has a thread or a dead lease (`Held`), which a double dispatch moves to the second
  thread. Where commands on one copy do not overlap, what the only one has read is still so when it
  uses it (`Solo`), so that completed quests stay completed and those that a suspend or a bundle has
  read are completed still (`Read`, `Kept`).

`Tui_proofs` (`TuiAssumption`: campaigns and quests have ids of their own; `QueriesAssumption`:
limits and instants are numbers)

* `InHand` (`WorkerInHand`), from `HandInv`: once the user has quit, the worker in hand is cancelled,
  and the loop takes no key that would start another. A loop that fails keeps the worker and its
  token in hand and cancels nothing, so that `EndsClean` is no theorem.
* `HighlightKept` (`HighlightMeant`), with `AnswerInv`: while the answer's form is open the highlight
  stays on the quest it answers, since nothing reloads the lists under it.
* `HonestScreen` (`ScreenHonest`), from `ScreenInv`: the selection stays within its list (`ListOK`),
  and for each mode and place of the loop, what pane, form and bar may be (`PaneOK`, `RestOK`).
* `ReadsRight` (`ReadRight`), of `TablesSpec` of `Queries`: a row has as many rows of its timeline
  before it as its place says, by time and, within one instant, by id (`Ranks`, `RowRanks`), so that
  the newest rows are the tail of the order (`NewestAreTail`); since the clock is not set back, a row
  that was stamped when another was in the table has no earlier time, and a greater id (`Stamped`, in
  `TablesInv`).

Only model-checked: all liveness (`CancelEnds`, `CommandEnds`, `CrashRecovered`, `CancelStops`,
`Returns`, `LoopGoesOn`, `BuildsReturn`); fairness and `ENABLED` are beyond the prover.

## 6. Not modelled

* SQLite errors, lock timeouts and panics inside a step: a step commits or its process dies. What
  follows from a settling transaction that fails is said in section 4.
* Drawing, colours, labels and toasts of the TUI, prompts and report texts, argument parsing and
  printing of the CLI, the argument lists of the agent adapters: no decision depends on them.
* The server's read-only routes and its project and plan routes, which are single calls of what other
  modules have.
* What `ingest_project` gathers from a repository (`gather_repo_context`): file I/O without state.
* `insert_idempotent`, `mark_delivered`, `mark_handled` and `RelationshipRepo::insert` have no caller
  outside tests; `set_progress` writes what nothing decides on; trigger kinds other than
  `quest_completed` are stored and never evaluated.
* Runners of other machines, which reconcile never touches, and platforms without process start
  times, where a reused pid counts as the runner.
* The fake runtime and the temporary worktree provider (tests and demos); the archived v1 packages
  (`src/packages`, README.md:7).
