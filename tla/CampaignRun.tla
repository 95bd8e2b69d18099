---------------------------- MODULE CampaignRun ----------------------------
(***************************************************************************)
(* The execution of one campaign over tavern.db by any number of luida     *)
(* processes: the boot of every command (open_ready and its reconcile of   *)
(* interrupted quests), the loop of run_campaign, the dispatch, triage and *)
(* resume of a quest, the follow-up quests fired by a completion, the      *)
(* run guard of the server, the cancellation of the TUI, and the death of  *)
(* a process at any point.                                                 *)
(*                                                                         *)
(* A step is one SQLite transaction (or an autocommit statement with the   *)
(* event recorded right after it), or the return of an external agent CLI. *)
(* What a handler read in an earlier step is in a variable of its thread,  *)
(* and may be stale when it is used.                                       *)
(*                                                                         *)
(* Abstracted: the text of briefs, answers and summaries; worktree paths;  *)
(* the projects table, agents.json and the relationships table, which do   *)
(* not change here; the rows of the events table other than                *)
(* quest_completed.  A pid stands for one process instance, as the code    *)
(* identifies it by pid and start time, so it never comes back; every      *)
(* runner is on this machine.                                              *)
(***************************************************************************)
EXTENDS Integers, FiniteSets

CONSTANTS
  Quests,       \* quest ids, taken in AUTOINCREMENT order
  Planned,      \* the quests plan_campaign stored
  Deps,         \* Deps[q]: the quests q depends on (quest_deps)
  Projects,
  HomeProject,  \* HomeProject[q]: the project of a planned quest
  Rules,        \* <<from, to>> of the enabled quest_completed/auto_dispatch rules
  Cli, Tui, Server,  \* the process instances, by surface
  Threads,      \* threads that execute commands
  PidOf,        \* PidOf[t]: the process instance of a thread
  Jobs,         \* the commands users give
  Crashable,    \* the process instances that may be killed
  MaxLive,      \* bound: processes alive at the same time
  NoPid, NoQuest, NoProject

MAX_AUTO_RESUME == 2

Pids == Cli \cup Tui \cup Server

ASSUME QuestAssumption ==
  /\ Quests \subseteq Nat
  /\ Planned \subseteq Quests
  /\ Deps \in [Quests -> SUBSET Planned]
  /\ HomeProject \in [Planned -> Projects]
  /\ Rules \subseteq Projects \X Projects
  /\ NoQuest \notin Quests

ASSUME ProcessAssumption ==
  /\ Cli \cap Tui = {} /\ Cli \cap Server = {} /\ Tui \cap Server = {}
  /\ PidOf \in [Threads -> Pids]
  \* a CLI executes its one command on its main thread, a TUI has one worker
  /\ \A t, u \in Threads : PidOf[t] = PidOf[u] /\ PidOf[t] \notin Server => t = u
  /\ Jobs \subseteq {"look", "run", "resume", "triage"}
  /\ Crashable \subseteq Pids
  /\ MaxLive \in Nat
  /\ NoPid \notin Pids

VARIABLES
  \* tavern.db
  status,       \* quests.status, "absent" before the row is inserted
  lease,        \* quests.runner_pid with runner_started_at
  project,      \* quests.project
  origin,       \* the quest a trigger_dispatched event names as from_quest
  completions,  \* quests with a quest_completed event
  mail,         \* quests with an escalation inmail to @user
  campaign,     \* campaigns.status
  \* processes
  proc,         \* life of each process instance
  busy,         \* servers whose running set holds the campaign
  cancelled,    \* TUI processes whose cancel token is set
  \* the command each thread executes
  pc, job,
  rows,         \* list_running_runners rows still to examine
  todo,         \* rest of the ready list of this pass
  cur,          \* quest in hand
  tries,        \* automatic resumes of it so far
  outcome,      \* outcome of its worker
  fires,        \* projects of the rules still to fire for it
  report        \* CampaignRunReport

dbVars     == <<status, lease, project, origin, completions, mail, campaign>>
procVars   == <<proc, busy, cancelled>>
threadVars == <<pc, job, rows, todo, cur, tries, outcome, fires, report>>
vars       == <<dbVars, procVars, threadVars>>

QuestStatus    == {"pending", "running", "needs_input", "completed", "failed"}
QUEST_TERMINAL == {"completed", "failed"}
Outcomes       == {"cancelled", "asks", "done", "fails", "errs"}
EmptyReport    == [asked |-> {}, failed |-> {}, interrupted |-> FALSE, allDone |-> FALSE]

Inserted == {q \in Quests : status[q] # "absent"}

\* Bug: a failed dependency counts as done.
ReadyAfterTerminal ==
  {q \in Inserted : /\ status[q] = "pending"
                    /\ \A d \in Deps[q] : status[d] \in QUEST_TERMINAL}

\* ready_in_campaign: pending quests whose dependencies are all completed.
ReadyInCampaign ==
  {q \in Inserted : /\ status[q] = "pending"
                    /\ \A d \in Deps[q] : status[d] = "completed"}

Init ==
  /\ status = [q \in Quests |-> IF q \in Planned THEN "pending" ELSE "absent"]
  /\ lease = [q \in Quests |-> NoPid]
  /\ project = [q \in Quests |-> IF q \in Planned THEN HomeProject[q] ELSE NoProject]
  /\ origin = [q \in Quests |-> NoQuest]
  /\ completions = {} /\ mail = {}
  /\ campaign = "planning"
  /\ proc = [p \in Pids |-> "new"]
  /\ busy = {} /\ cancelled = {}
  /\ pc = [t \in Threads |-> "idle"]
  /\ job = [t \in Threads |-> "look"]
  /\ rows = [t \in Threads |-> {}]
  /\ todo = [t \in Threads |-> {}]
  /\ cur = [t \in Threads |-> NoQuest]
  /\ tries = [t \in Threads |-> 0]
  /\ outcome = [t \in Threads |-> "done"]
  /\ fires = [t \in Threads |-> {}]
  /\ report = [t \in Threads |-> EmptyReport]

-----------------------------------------------------------------------------
(* How a command ends.                                                     *)

\* The threads of S are done; nothing of what they had read survives.
Ended(S) ==
  /\ pc' = [t \in Threads |-> IF t \in S THEN "idle" ELSE pc[t]]
  /\ job' = [t \in Threads |-> IF t \in S THEN "look" ELSE job[t]]
  /\ rows' = [t \in Threads |-> IF t \in S THEN {} ELSE rows[t]]
  /\ todo' = [t \in Threads |-> IF t \in S THEN {} ELSE todo[t]]
  /\ cur' = [t \in Threads |-> IF t \in S THEN NoQuest ELSE cur[t]]
  /\ tries' = [t \in Threads |-> IF t \in S THEN 0 ELSE tries[t]]
  /\ outcome' = [t \in Threads |-> IF t \in S THEN "done" ELSE outcome[t]]
  /\ fires' = [t \in Threads |-> IF t \in S THEN {} ELSE fires[t]]
  /\ report' = [t \in Threads |-> IF t \in S THEN EmptyReport ELSE report[t]]

\* Bug: any command of a server drops the guard of the run.
ReturnDropsGuard(t) ==
  LET p == PidOf[t] IN
  /\ Ended({t})
  /\ proc' = [proc EXCEPT ![p] = IF p \in Cli THEN "down" ELSE "up"]
  /\ busy' = busy \ {p}
  /\ UNCHANGED cancelled

\* The command of t returns, with a result or an error: a CLI process exits, a
\* TUI or server stays (or is up now, if this was the reconcile of its start),
\* and the server drops the RunGuard of a run.
Return(t) ==
  LET p == PidOf[t] IN
  /\ Ended({t})
  /\ proc' = [proc EXCEPT ![p] = IF p \in Cli THEN "down" ELSE "up"]
  /\ busy' = IF p \in Server /\ job[t] = "run" THEN busy \ {p} ELSE busy
  /\ UNCHANGED cancelled

\* Inside a run the loop goes on at label l; the command resume or triage of a
\* user ends here.
Continue(t, l) ==
  \/ /\ job[t] = "run"
     /\ pc' = [pc EXCEPT ![t] = l]
     /\ UNCHANGED <<procVars, job, rows, todo, cur, tries, outcome, fires, report>>
  \/ /\ job[t] # "run"
     /\ Return(t)

\* break 'outer after a cancellation.
Interrupt(t) ==
  \/ /\ job[t] = "run"
     /\ pc' = [pc EXCEPT ![t] = "wrapup"]
     /\ report' = [report EXCEPT ![t].interrupted = TRUE]
     /\ UNCHANGED <<procVars, job, rows, todo, cur, tries, outcome, fires>>
  \/ /\ job[t] # "run"
     /\ Return(t)

-----------------------------------------------------------------------------
(* Processes.                                                              *)

Live == {p \in Pids : proc[p] \in {"starting", "up"}}

\* A TUI or a server reconciles before it takes its first command.
Boot(p) ==
  /\ proc[p] = "new"
  /\ Cardinality(Live) < MaxLive
  /\ proc' = [proc EXCEPT ![p] = IF p \in Cli THEN "up" ELSE "starting"]
  /\ UNCHANGED <<dbVars, busy, cancelled, threadVars>>

\* The process is gone, with every thread of it.
Exit(p) ==
  /\ p \in Live
  /\ proc' = [proc EXCEPT ![p] = "down"]
  /\ busy' = busy \ {p}
  /\ Ended({t \in Threads : PidOf[t] = p})
  /\ UNCHANGED <<dbVars, cancelled>>

\* SIGKILL, power loss.
Crash(p) == Exit(p)

\* q, Esc or Ctrl-C in the TUI while its worker thread runs.
Cancel(p) ==
  /\ proc[p] = "up" /\ p \notin cancelled
  /\ \E t \in Threads : PidOf[t] = p /\ pc[t] # "idle"
  /\ cancelled' = cancelled \cup {p}
  /\ UNCHANGED <<dbVars, proc, busy, threadVars>>

\* The TUI leaves its loop once no worker runs.
Quit(p) ==
  /\ proc[p] = "up"
  /\ \A t \in Threads : PidOf[t] = p => pc[t] = "idle"
  /\ proc' = [proc EXCEPT ![p] = "down"]
  /\ UNCHANGED <<dbVars, busy, cancelled, threadVars>>

\* ... or 3 s after the cancellation, whatever its worker is doing.
QuitTimesOut(p) == p \in cancelled /\ Exit(p)

\* Bug: run_http does not look at the result of the insert.
RequestUnguarded(t, j, q) ==
  LET p == PidOf[t] IN
  /\ pc[t] = "idle" /\ p \notin cancelled
  /\ proc[p] = "up" \/ (proc[p] = "starting" /\ j = "look")
  /\ q = NoQuest <=> j \in {"look", "run"}
  /\ busy' = IF p \in Server /\ j = "run" THEN busy \cup {p} ELSE busy
  /\ pc' = [pc EXCEPT ![t] = "open"]
  /\ job' = [job EXCEPT ![t] = j]
  /\ cur' = [cur EXCEPT ![t] = q]
  /\ UNCHANGED <<dbVars, proc, cancelled, rows, todo, tries, outcome, fires, report>>

\* A user gives the idle thread t a command, or a starting process its first.
\* run_http refuses a campaign the server is already running; a TUI that is
\* quitting takes no command.
Request(t, j, q) ==
  LET p == PidOf[t] IN
  /\ pc[t] = "idle" /\ p \notin cancelled
  /\ \/ proc[p] = "up"
     \/ /\ proc[p] = "starting" /\ j = "look"
        /\ \A u \in Threads : PidOf[u] = p => pc[u] = "idle"
  /\ q = NoQuest <=> j \in {"look", "run"}
  /\ \/ p \in Server /\ j = "run" /\ p \notin busy /\ busy' = busy \cup {p}
     \/ ~(p \in Server /\ j = "run") /\ UNCHANGED busy
  /\ pc' = [pc EXCEPT ![t] = "open"]
  /\ job' = [job EXCEPT ![t] = j]
  /\ cur' = [cur EXCEPT ![t] = q]
  /\ UNCHANGED <<dbVars, proc, cancelled, rows, todo, tries, outcome, fires, report>>

-----------------------------------------------------------------------------
(* open_ready: reconcile_interrupted_quests.                               *)

\* Bug: every quest that has a runner is listed, not the running ones only.
ListRunnersAll(t) ==
  /\ pc[t] = "open"
  /\ rows' = [rows EXCEPT ![t] = {<<q, lease[q]>> : q \in {r \in Quests : lease[r] # NoPid}}]
  /\ pc' = [pc EXCEPT ![t] = "reconcile"]
  /\ UNCHANGED <<dbVars, procVars, job, todo, cur, tries, outcome, fires, report>>

ListRunners(t) ==
  /\ pc[t] = "open"
  /\ rows' = [rows EXCEPT ![t] = {<<q, lease[q]>> : q \in {r \in Quests : status[r] = "running"}}]
  /\ pc' = [pc EXCEPT ![t] = "reconcile"]
  /\ UNCHANGED <<dbVars, procVars, job, todo, cur, tries, outcome, fires, report>>

RunnerAlive(p) == p \in Live

\* Bug: the liveness of the runner is not checked.
RecoverAnyRow(t) ==
  /\ pc[t] = "reconcile"
  /\ \E r \in rows[t] :
       /\ status' = [status EXCEPT ![r[1]] = "pending"]
       /\ rows' = [rows EXCEPT ![t] = @ \ {r}]
  /\ UNCHANGED <<lease, project, origin, completions, mail, campaign, procVars,
                 pc, job, todo, cur, tries, outcome, fires, report>>

\* The row's runner is dead: the quest becomes pending, whatever it is by now.
RecoverRow(t) ==
  /\ pc[t] = "reconcile"
  /\ \E r \in rows[t] :
       /\ ~RunnerAlive(r[2])
       /\ status' = [status EXCEPT ![r[1]] = "pending"]
       /\ rows' = [rows EXCEPT ![t] = @ \ {r}]
  /\ UNCHANGED <<lease, project, origin, completions, mail, campaign, procVars,
                 pc, job, todo, cur, tries, outcome, fires, report>>

\* Bug: a pid that is in use again counts as the runner.
SpareAnyRow(t) ==
  /\ pc[t] = "reconcile"
  /\ \E r \in rows[t] : rows' = [rows EXCEPT ![t] = @ \ {r}]
  /\ UNCHANGED <<dbVars, procVars, pc, job, todo, cur, tries, outcome, fires, report>>

SpareRow(t) ==
  /\ pc[t] = "reconcile"
  /\ \E r \in rows[t] : RunnerAlive(r[2]) /\ rows' = [rows EXCEPT ![t] = @ \ {r}]
  /\ UNCHANGED <<dbVars, procVars, pc, job, todo, cur, tries, outcome, fires, report>>

\* open_ready returns and the command proper starts; "look" is any command that
\* does nothing more to quests (list, plan of another campaign, server start).
Opened(t) ==
  /\ pc[t] = "reconcile" /\ rows[t] = {}
  /\ UNCHANGED dbVars
  /\ \/ job[t] = "look" /\ Return(t)
     \/ /\ job[t] # "look"
        /\ pc' = [pc EXCEPT ![t] = IF job[t] = "run" THEN "begin" ELSE job[t]]
        /\ UNCHANGED <<procVars, job, rows, todo, cur, tries, outcome, fires, report>>

-----------------------------------------------------------------------------
(* run_campaign: the loop.                                                 *)

Begin(t) ==
  /\ pc[t] = "begin"
  /\ campaign' = "running"
  /\ pc' = [pc EXCEPT ![t] = "snapshot"]
  /\ UNCHANGED <<status, lease, project, origin, completions, mail, procVars,
                 job, rows, todo, cur, tries, outcome, fires, report>>

TakeReady(t) ==
  /\ pc[t] = "snapshot"
  /\ todo' = [todo EXCEPT ![t] = ReadyInCampaign]
  /\ pc' = [pc EXCEPT ![t] = IF ReadyInCampaign = {} THEN "wrapup" ELSE "pick"]
  /\ UNCHANGED <<dbVars, procVars, job, rows, cur, tries, outcome, fires, report>>

\* Bug: one pass over the ready list, as if it could not grow.
ScanOnce(t) ==
  /\ pc[t] = "pick" /\ todo[t] = {}
  /\ pc' = [pc EXCEPT ![t] = "wrapup"]
  /\ cur' = [cur EXCEPT ![t] = NoQuest]
  /\ UNCHANGED <<dbVars, procVars, job, rows, todo, tries, outcome, fires, report>>

\* The for loop over the ready list is exhausted, its locals are gone: take a new one.
Rescan(t) ==
  /\ pc[t] = "pick" /\ todo[t] = {}
  /\ pc' = [pc EXCEPT ![t] = "snapshot"]
  /\ cur' = [cur EXCEPT ![t] = NoQuest]
  /\ tries' = [tries EXCEPT ![t] = 0]
  /\ outcome' = [outcome EXCEPT ![t] = "done"]
  /\ UNCHANGED <<dbVars, procVars, job, rows, todo, fires, report>>

\* The next quest of the list, in id order.
IsNext(t, q) == q \in todo[t] /\ \A r \in todo[t] : q <= r

\* dispatch_quest reads the quest and goes on unless it is terminal.
Pick(t) ==
  /\ pc[t] = "pick"
  /\ \E q \in Quests :
       /\ IsNext(t, q) /\ status[q] \notin QUEST_TERMINAL
       /\ cur' = [cur EXCEPT ![t] = q]
       /\ todo' = [todo EXCEPT ![t] = @ \ {q}]
  /\ tries' = [tries EXCEPT ![t] = 0]
  /\ outcome' = [outcome EXCEPT ![t] = "done"]
  /\ pc' = [pc EXCEPT ![t] = "prepare"]
  /\ UNCHANGED <<dbVars, procVars, job, rows, fires, report>>

\* ... else it bails, and the error leaves run_campaign with the campaign running.
PickTerminal(t) ==
  /\ pc[t] = "pick"
  /\ \E q \in Quests : IsNext(t, q) /\ status[q] \in QUEST_TERMINAL
  /\ Return(t)
  /\ UNCHANGED dbVars

\* A missing project, a disabled runtime, a failed `wt switch`: an error before
\* anything is written.
PrepareFails(t) ==
  /\ pc[t] \in {"prepare", "reattach"}
  /\ Return(t)
  /\ UNCHANGED dbVars

\* The transaction that starts a worker: runner lease, status running, event.
StartWorker(t) ==
  /\ status' = [status EXCEPT ![cur[t]] = "running"]
  /\ lease' = [lease EXCEPT ![cur[t]] = PidOf[t]]
  /\ pc' = [pc EXCEPT ![t] = "work"]
  /\ UNCHANGED <<project, origin, completions, mail, campaign, procVars,
                 job, rows, todo, cur, tries, outcome, fires, report>>

Dispatch(t) == pc[t] = "prepare" /\ StartWorker(t)

Wrapup(t) ==
  /\ pc[t] = "wrapup"
  /\ report' = [report EXCEPT ![t].allDone =
       Inserted # {} /\ \A q \in Inserted : status[q] = "completed"]
  /\ pc' = [pc EXCEPT ![t] = "close"]
  /\ UNCHANGED <<dbVars, procVars, job, rows, todo, cur, tries, outcome, fires>>

\* The campaign status a finished run writes.
Verdict(r) ==
  CASE r.interrupted -> "running"
    [] ~r.interrupted /\ r.asked # {} -> "needs_input"
    [] ~r.interrupted /\ r.asked = {} /\ ~r.allDone /\ r.failed # {} -> "failed"
    [] OTHER -> "running"

Close(t) ==
  /\ pc[t] = "close"
  /\ campaign' = Verdict(report[t])
  /\ Return(t)
  /\ UNCHANGED <<status, lease, project, origin, completions, mail>>

-----------------------------------------------------------------------------
(* run_worker and settle_outcome.                                          *)

\* The agent CLI ends by itself, or the cancel token kills it or keeps it from
\* being started; an error in making the runtime comes before that.
WorkerReturns(t) ==
  /\ pc[t] = "work"
  /\ \E o \in Outcomes :
       /\ o # "errs" => (o = "cancelled" <=> PidOf[t] \in cancelled)
       /\ outcome' = [outcome EXCEPT ![t] = o]
  /\ pc' = [pc EXCEPT ![t] = "settle"]
  /\ UNCHANGED <<dbVars, procVars, job, rows, todo, cur, tries, fires, report>>

Settle(t, o, s) ==
  /\ pc[t] = "settle" /\ outcome[t] = o
  /\ status' = [status EXCEPT ![cur[t]] = s]
  /\ UNCHANGED <<lease, project, origin, mail, campaign>>

\* Bug: the run goes on with its list after a cancellation.
SettleCancelledGoesOn(t) ==
  /\ Settle(t, "cancelled", "pending")
  /\ Continue(t, "pick")
  /\ UNCHANGED completions

SettleCancelled(t) ==
  /\ Settle(t, "cancelled", "pending")
  /\ Interrupt(t)
  /\ UNCHANGED completions

SettleAsks(t) ==
  /\ Settle(t, "asks", "needs_input")
  /\ Continue(t, "triage")
  /\ UNCHANGED completions

\* A run then fires the follow-ups of the quest; a user's resume does not.
SettleDone(t) ==
  /\ Settle(t, "done", "completed")
  /\ completions' = completions \cup {cur[t]}
  /\ \/ /\ job[t] = "run"
        /\ fires' = [fires EXCEPT ![t] = {p \in Projects : <<project[cur[t]], p>> \in Rules}]
        /\ pc' = [pc EXCEPT ![t] = "fire"]
        /\ UNCHANGED <<procVars, job, rows, todo, cur, tries, outcome, report>>
     \/ job[t] # "run" /\ Return(t)

SettleFails(t) ==
  /\ Settle(t, "fails", "failed")
  /\ \/ /\ job[t] = "run"
        /\ report' = [report EXCEPT ![t].failed = @ \cup {cur[t]}]
        /\ pc' = [pc EXCEPT ![t] = "pick"]
        /\ UNCHANGED <<procVars, job, rows, todo, cur, tries, outcome, fires>>
     \/ job[t] # "run" /\ Return(t)
  /\ UNCHANGED completions

\* Bug: the error is passed on and the quest left as it is.
SettleErrsLeavesRunning(t) ==
  /\ pc[t] = "settle" /\ outcome[t] = "errs"
  /\ Return(t)
  /\ UNCHANGED dbVars

\* The runtime could not be made or run: the quest fails and so does the command.
SettleErrs(t) ==
  /\ Settle(t, "errs", "failed")
  /\ Return(t)
  /\ UNCHANGED completions

-----------------------------------------------------------------------------
(* triage_escalation and resume_quest.                                     *)

\* The check at the head of both: anything but needs_input is refused.
NotWaiting(t) ==
  /\ pc[t] \in {"triage", "resume"}
  /\ status[cur[t]] # "needs_input"
  /\ Return(t)
  /\ UNCHANGED dbVars

ReadWaiting(t, l, next) ==
  /\ pc[t] = l
  /\ status[cur[t]] = "needs_input"
  /\ pc' = [pc EXCEPT ![t] = next]
  /\ UNCHANGED <<dbVars, procVars, job, rows, todo, cur, tries, outcome, fires, report>>

\* Bug: the status is not checked.
TriageReadsAny(t) ==
  /\ pc[t] = "triage"
  /\ pc' = [pc EXCEPT ![t] = "triaging"]
  /\ UNCHANGED <<dbVars, procVars, job, rows, todo, cur, tries, outcome, fires, report>>

TriageReads(t) == ReadWaiting(t, "triage", "triaging")
ResumeReads(t) == ReadWaiting(t, "resume", "reattach")

\* The triage CLI was killed: the quest becomes pending, without a new check.
TriageCancelled(t) ==
  /\ pc[t] = "triaging" /\ PidOf[t] \in cancelled
  /\ status' = [status EXCEPT ![cur[t]] = "pending"]
  /\ Interrupt(t)
  /\ UNCHANGED <<lease, project, origin, completions, mail, campaign>>

\* No runtime, no summary, no JSON: the error leaves the command.
TriageErrs(t) ==
  /\ pc[t] = "triaging"
  /\ Return(t)
  /\ UNCHANGED dbVars

\* ask_user, no answer, or the automatic resumes are used up.
TriageAsksUser(t) ==
  /\ pc[t] = "triaging" /\ PidOf[t] \notin cancelled
  /\ Continue(t, "notify")
  /\ UNCHANGED dbVars

\* Bug: the attempts are not counted.
TriageAnswersForever(t) ==
  /\ pc[t] = "triaging" /\ PidOf[t] \notin cancelled
  /\ job[t] = "run"
  /\ pc' = [pc EXCEPT ![t] = "resume"]
  /\ UNCHANGED <<dbVars, procVars, job, rows, todo, cur, tries, outcome, fires, report>>

TriageAnswers(t) ==
  /\ pc[t] = "triaging" /\ PidOf[t] \notin cancelled
  /\ job[t] = "run" /\ tries[t] < MAX_AUTO_RESUME
  /\ tries' = [tries EXCEPT ![t] = @ + 1]
  /\ pc' = [pc EXCEPT ![t] = "resume"]
  /\ UNCHANGED <<dbVars, procVars, job, rows, todo, cur, outcome, fires, report>>

Reattach(t) == pc[t] = "reattach" /\ StartWorker(t)

\* Bug: the quest is reported as waiting without a mail.
NotifyNobody(t) ==
  /\ pc[t] = "notify"
  /\ report' = [report EXCEPT ![t].asked = @ \cup {cur[t]}]
  /\ pc' = [pc EXCEPT ![t] = "pick"]
  /\ UNCHANGED <<dbVars, procVars, job, rows, todo, cur, tries, outcome, fires>>

\* notify_user_escalation: one inmail per quest, ever.
Notify(t) ==
  /\ pc[t] = "notify"
  /\ mail' = mail \cup {cur[t]}
  /\ report' = [report EXCEPT ![t].asked = @ \cup {cur[t]}]
  /\ pc' = [pc EXCEPT ![t] = "pick"]
  /\ UNCHANGED <<status, lease, project, origin, completions, campaign, procVars,
                 job, rows, todo, cur, tries, outcome, fires>>

-----------------------------------------------------------------------------
(* fire_quest_completed: one insert per rule.                              *)

FireRule(t) ==
  /\ pc[t] = "fire"
  /\ \E p \in fires[t], q \in Quests \ Inserted :
       /\ \A r \in Quests \ Inserted : q <= r
       /\ status' = [status EXCEPT ![q] = "pending"]
       /\ project' = [project EXCEPT ![q] = p]
       /\ origin' = [origin EXCEPT ![q] = cur[t]]
       /\ fires' = [fires EXCEPT ![t] = @ \ {p}]
  /\ UNCHANGED <<lease, completions, mail, campaign, procVars,
                 pc, job, rows, todo, cur, tries, outcome, report>>

FireDone(t) ==
  /\ pc[t] = "fire" /\ fires[t] = {}
  /\ pc' = [pc EXCEPT ![t] = "pick"]
  /\ UNCHANGED <<dbVars, procVars, job, rows, todo, cur, tries, outcome, fires, report>>

-----------------------------------------------------------------------------

\* The steps of luida itself.
Step(t) ==
  \/ ListRunners(t) \/ RecoverRow(t) \/ SpareRow(t) \/ Opened(t)
  \/ Begin(t) \/ TakeReady(t) \/ Rescan(t) \/ Pick(t) \/ PickTerminal(t)
  \/ PrepareFails(t) \/ Dispatch(t) \/ Wrapup(t) \/ Close(t)
  \/ SettleCancelled(t) \/ SettleAsks(t) \/ SettleDone(t) \/ SettleFails(t) \/ SettleErrs(t)
  \/ NotWaiting(t) \/ TriageReads(t) \/ ResumeReads(t) \/ Reattach(t)
  \/ Notify(t) \/ FireRule(t) \/ FireDone(t)

\* The return of an external agent CLI, worker or triage.
AgentReturns(t) ==
  \/ WorkerReturns(t)
  \/ TriageCancelled(t) \/ TriageErrs(t) \/ TriageAsksUser(t) \/ TriageAnswers(t)

Next ==
  \/ \E p \in Pids : Boot(p)
  \/ \E p \in Crashable : Crash(p)
  \/ \E p \in Tui : Cancel(p) \/ Quit(p) \/ QuitTimesOut(p)
  \/ \E t \in Threads, j \in Jobs, q \in Quests \cup {NoQuest} : Request(t, j, q)
  \/ \E t \in Threads : Step(t) \/ AgentReturns(t)

Spec == Init /\ [][Next]_vars

\* luida's own steps do not stop; an agent CLI may hang, unless it is cancelled.
CancelSpec ==
  /\ Spec
  /\ \A t \in Threads :
       WF_vars(Step(t) \/ (PidOf[t] \in cancelled /\ AgentReturns(t)))

\* ... and every agent CLI ends.
AgentsEnd == \A t \in Threads : WF_vars(Step(t) \/ AgentReturns(t))
FairSpec == Spec /\ AgentsEnd
=============================================================================
