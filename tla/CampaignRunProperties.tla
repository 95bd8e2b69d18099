----------------------- MODULE CampaignRunProperties -----------------------
(***************************************************************************)
(* What the execution of a campaign promises.  The first group holds for   *)
(* any number of processes at once; the second is what a single process at *)
(* a time, or a single guarded server, gives.                              *)
(***************************************************************************)
EXTENDS CampaignRun

PcLabels == {"idle", "open", "reconcile", "begin", "snapshot", "pick", "prepare", "work",
             "settle", "triage", "triaging", "notify", "resume", "reattach", "fire",
             "wrapup", "close"}

DbTypes ==
  /\ status \in [Quests -> QuestStatus \cup {"absent"}]
  /\ lease \in [Quests -> Pids \cup {NoPid}]
  /\ project \in [Quests -> Projects \cup {NoProject}]
  /\ origin \in [Quests -> Quests \cup {NoQuest}]
  /\ completions \subseteq Quests /\ mail \subseteq Quests
  /\ campaign \in {"planning", "running", "needs_input", "failed"}

ProcTypes ==
  /\ proc \in [Pids -> {"new", "starting", "up", "down"}]
  /\ busy \subseteq Server /\ cancelled \subseteq Tui

Reports == [asked : SUBSET Quests, failed : SUBSET Quests,
            interrupted : BOOLEAN, allDone : BOOLEAN]

\* The labels at which a thread has a quest in hand.
HasQuest == {"prepare", "work", "settle", "triage", "triaging", "notify", "resume",
             "reattach", "fire"}

ThreadTypes ==
  /\ pc \in [Threads -> PcLabels]
  /\ job \in [Threads -> {"look", "run", "resume", "triage"}]
  /\ rows \in [Threads -> SUBSET (Quests \X (Pids \cup {NoPid}))]
  /\ todo \in [Threads -> SUBSET Quests]
  /\ cur \in [Threads -> Quests \cup {NoQuest}]
  /\ tries \in [Threads -> 0 .. MAX_AUTO_RESUME]
  /\ outcome \in [Threads -> Outcomes]
  /\ fires \in [Threads -> SUBSET Projects]
  /\ report \in [Threads -> Reports]
  /\ \A t \in Threads :
       \/ pc[t] \in HasQuest
       \/ pc[t] \in {"open", "reconcile"} /\ job[t] \in {"resume", "triage"}
       => cur[t] \in Quests

\* Every variable stays within its type, and a thread at a label that uses its
\* quest in hand has one.
TypeOK == DbTypes /\ ProcTypes /\ ThreadTypes

-----------------------------------------------------------------------------
(* Any number of processes.                                                *)

\* Thread t runs a worker on q, or is about to write what it returned.
Works(t, q) == pc[t] \in {"work", "settle"} /\ cur[t] = q

\* A quest that is running under the lease of a living process is being worked
\* on by a thread of that process: however commands interleave and fail, none
\* leaves behind a zombie that reconcile, which spares living runners, can
\* never recover (run_worker, finalize_failed).
NoZombie ==
  \A q \in Quests :
    status[q] = "running" /\ RunnerAlive(lease[q]) =>
      \E t \in Threads : PidOf[t] = lease[q] /\ Works(t, q)

\* A quest leaves pending only after each of its dependencies has completed,
\* even when the ready list it was taken from is stale (ready_in_campaign).
DependenciesDone ==
  \A q \in Quests :
    status[q] \notin {"absent", "pending"} => Deps[q] \subseteq completions

\* Two threads of a server never run the campaign at once: the running set of
\* run_http admits one until its RunGuard is dropped.
OneRunPerServer ==
  \A t, u \in Threads :
    /\ t # u /\ PidOf[t] = PidOf[u] /\ PidOf[t] \in Server
    /\ pc[t] # "idle" /\ pc[u] # "idle"
    => job[t] # "run" \/ job[u] # "run"

\* What makes NoZombie inductive: a thread at work belongs to a live process, and
\* a pid in a lease is of a process that has started, so that no boot revives it.
ThreadUp == \A t \in Threads : pc[t] # "idle" => PidOf[t] \in Live
LeaseStarted == \A q \in Quests : lease[q] \in Pids => proc[lease[q]] # "new"

\* What makes DependenciesDone inductive: whatever is taken back, a completion has
\* been recorded, also for the dependencies of the quests a thread has listed or
\* has in hand.
CompletedRecorded == \A q \in Quests : status[q] = "completed" => q \in completions
ListedReady == \A t \in Threads : \A q \in todo[t] : Deps[q] \subseteq completions
InHandReady ==
  \A t \in Threads :
    pc[t] \in {"prepare", "work", "settle", "triaging", "reattach"} =>
      Deps[cur[t]] \subseteq completions

\* What makes OneRunPerServer inductive: the guard is held for as long as the run.
GuardHeld ==
  \A t \in Threads :
    pc[t] # "idle" /\ job[t] = "run" /\ PidOf[t] \in Server => PidOf[t] \in busy

-----------------------------------------------------------------------------
(* One process at a time, or one guarded server.                           *)

\* No two workers on one quest at once: they would share its worktree.
SoleWorker ==
  \A t, u \in Threads : t # u => \A q \in Quests : ~(Works(t, q) /\ Works(u, q))

\* While a quest is beyond pending its dependencies are completed, and stay so:
\* nothing takes a completed quest back.
DependencyOrder ==
  \A q \in Quests : status[q] \notin {"absent", "pending"} =>
    \A d \in Deps[q] : status[d] = "completed"

\* A rule fires at most once for a quest, whatever crashes: a quest of the plan
\* does not complete twice (fire_quest_completed inserts without a key).
FollowUpOnce ==
  \A q, r \in Quests :
    q # r /\ origin[q] # NoQuest /\ origin[q] = origin[r] => project[q] # project[r]

\* A run that was not interrupted closes only when nothing is left that it could
\* dispatch, the follow-ups it fired included.
RunDrains ==
  \A t \in Threads :
    pc[t] \in {"wrapup", "close"} /\ ~report[t].interrupted => ReadyInCampaign = {}

\* The reconcile of a booting process takes back only quests that are running
\* and whose runner is dead.
ReconcileTakesOnlyDead ==
  [][\A t \in Threads : pc[t] = "reconcile" /\ rows'[t] # rows[t] =>
       \A q \in Quests : status'[q] # status[q] =>
         status[q] = "running" /\ ~RunnerAlive(lease[q])]_vars

\* Reconcile never touches living work: the safety principle of recover.rs, which
\* the code gives up when two processes boot at once.
LiveWorkUntouched ==
  [][\A t \in Threads : pc[t] = "reconcile" /\ rows'[t] # rows[t] =>
       \A q \in Quests : status'[q] # status[q] =>
         ~(status[q] = "running" /\ RunnerAlive(lease[q]))]_vars

\* What a run writes as the campaign's status is so: needs_input when the user
\* has been told of a quest that waits, failed when a quest has failed.
VerdictHonest ==
  [][campaign' # campaign =>
       /\ campaign' = "needs_input" => \E q \in mail : status[q] = "needs_input"
       /\ campaign' = "failed" => \E q \in Quests : status[q] = "failed"]_vars

\* The campaign's quests refine the life of a quest (QuestRepo::set_status and
\* its callers).
Lifecycle == INSTANCE QuestLifecycle WITH Quests <- Quests, Planned <- Planned, status <- status
LifecycleSpec == Lifecycle!Spec

-----------------------------------------------------------------------------
(* Why one process at a time keeps these promises.                         *)

\* Processes do not overlap; and a server, whose threads do, is asked for runs only.
OneAtATime == MaxLive <= 1
Undisturbed == OneAtATime /\ (Server = {} \/ Jobs \subseteq {"look", "run"})

OneLive == \A p, r \in Live : p = r

\* Thread t is past open_ready.
AtWork(t) == pc[t] \notin {"idle", "open", "reconcile"}

\* Which commands get to which labels.
JobsMeant ==
  \A t \in Threads :
    /\ pc[t] # "idle" => job[t] \in Jobs
    /\ AtWork(t) => job[t] # "look"
    /\ pc[t] \in {"begin", "snapshot", "pick", "prepare", "notify", "fire", "wrapup", "close"} =>
         job[t] = "run"

\* A process that is starting executes one command and that does nothing else.
StartsAlone ==
  \A t \in Threads : pc[t] # "idle" /\ proc[PidOf[t]] = "starting" =>
    /\ job[t] = "look"
    /\ \A u \in Threads : u # t /\ PidOf[u] = PidOf[t] => pc[u] = "idle"

\* Quests that are running for a dead process.
Orphans == {q \in Quests : status[q] = "running" /\ ~RunnerAlive(lease[q])}

\* A TUI or a server that is up has taken back every orphan, and leaves none.
UpClean == \A p \in Tui \cup Server : proc[p] = "up" => Orphans = {}

\* Reconcile has every orphan in its rows, and of the dead only orphans; and
\* while it has some, no other thread is at anything.
RowsComplete ==
  \A t \in Threads : pc[t] = "reconcile" => \A q \in Orphans : <<q, lease[q]>> \in rows[t]
RowsTrue ==
  \A t \in Threads :
    /\ rows[t] # {} => pc[t] = "reconcile"
    /\ \A r \in rows[t] : ~RunnerAlive(r[2]) =>
         /\ r[1] \in Orphans /\ lease[r[1]] = r[2]
         /\ \A u \in Threads : u # t => pc[u] = "idle"

RecoverInv ==
  /\ TypeOK /\ ThreadUp /\ OneLive /\ JobsMeant /\ StartsAlone
  /\ UpClean /\ RowsComplete /\ RowsTrue

\* The status of the quest in hand, and of the quests that are still listed, is what
\* the thread has seen.
InHand(t) ==
  /\ pc[t] = "prepare" => status[cur[t]] = "pending"
  /\ pc[t] \in {"work", "settle"} => status[cur[t]] = "running"
  /\ pc[t] \in {"triaging", "reattach", "notify"} => status[cur[t]] = "needs_input"
  /\ pc[t] \in {"triage", "resume"} /\ job[t] = "run" => status[cur[t]] = "needs_input"
  /\ pc[t] = "fire" => status[cur[t]] = "completed"
  /\ \A q \in todo[t] : status[q] = "pending"
  /\ pc[t] \in HasQuest => cur[t] \notin todo[t]

\* So is that of the quests it has noted in its report.
Noted(t) ==
  /\ \A q \in report[t].asked : q \in mail /\ status[q] = "needs_input"
  /\ \A q \in report[t].failed : status[q] = "failed"
  /\ pc[t] \in HasQuest => cur[t] \notin report[t].asked \cup report[t].failed

\* It has not yet inserted what it is still to fire, and nothing is ready that it has
\* not listed once it leaves the loop.
Unfired(t) == pc[t] = "fire" => \A q \in Quests : origin[q] = cur[t] => project[q] \notin fires[t]
Drained(t) == pc[t] \in {"wrapup", "close"} /\ ~report[t].interrupted => ReadyInCampaign = {}

\* Before and after its command a thread knows nothing, and a user's resume lists nothing.
Blank(t) == ~AtWork(t) \/ job[t] # "run" => todo[t] = {} /\ report[t] = EmptyReport

\* Completions are for good, and only they are followed up.
CompletionsStay == \A q \in completions : status[q] = "completed"
OriginsCompleted == \A q \in Quests : origin[q] # NoQuest => status[origin[q]] = "completed"

SoloInv ==
  /\ RecoverInv /\ GuardHeld /\ OneRunPerServer
  /\ \A t \in Threads : InHand(t) /\ Noted(t) /\ Unfired(t) /\ Drained(t) /\ Blank(t)
  /\ CompletionsStay /\ OriginsCompleted /\ FollowUpOnce

-----------------------------------------------------------------------------
(* Liveness.                                                               *)

\* Once the TUI's token is cancelled its command ends, although an agent that is
\* not cancelled may run for ever and the run may have more quests to dispatch.
CancelEnds ==
  \A t \in Threads : PidOf[t] \in cancelled ~> pc[t] = "idle"

\* If agents end, a command ends: automatic resumes are limited, and a
\* dispatched quest does not become ready again.
CommandEnds == AgentsEnd => \A t \in Threads : pc[t] = "open" ~> pc[t] = "idle"

\* A quest a dead process left running is taken back by the next boot, unless that
\* is itself killed or cancelled.
CrashRecovered ==
  \A t \in Threads, q \in Quests :
    /\ PidOf[t] \notin Crashable
    /\ pc[t] = "open" /\ status[q] = "running" /\ ~RunnerAlive(lease[q])
    ~> PidOf[t] \in cancelled \/ ~(status[q] = "running" /\ ~RunnerAlive(lease[q]))
=============================================================================
