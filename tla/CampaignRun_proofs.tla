------------------------- MODULE CampaignRun_proofs -------------------------
(***************************************************************************)
(* Proofs of what holds of the execution of a campaign for any number of   *)
(* processes, threads and quests: type correctness, that no live process   *)
(* leaves a zombie, the order of dependencies, the guard of a server; and  *)
(* of what holds when one process runs at a time: that reconcile spares    *)
(* living work, one worker on a quest, the order of dependencies for good, *)
(* one follow-up, that a run drains, an honest verdict, and that the       *)
(* quests lead the life of QuestLifecycle.                                 *)
(***************************************************************************)
EXTENDS CampaignRunProperties, FiniteSetTheorems, TLAPS

-----------------------------------------------------------------------------
(* Types.                                                                  *)

\* The initial values have the types.
LEMMA TypeInit == Init => TypeOK
BY QuestAssumption, ProcessAssumption
DEF Init, TypeOK, DbTypes, ProcTypes, ThreadTypes, Reports, HasQuest, QuestStatus, PcLabels,
    Outcomes, EmptyReport, MAX_AUTO_RESUME, Pids

\* What a run notes in its report keeps its type.
LEMMA ReportUpdate ==
  ASSUME NEW r \in Reports
  PROVE  /\ [r EXCEPT !.interrupted = TRUE] \in Reports
         /\ \A b \in BOOLEAN : [r EXCEPT !.allDone = b] \in Reports
         /\ \A q \in Quests : /\ [r EXCEPT !.asked = r.asked \cup {q}] \in Reports
                              /\ [r EXCEPT !.failed = r.failed \cup {q}] \in Reports
BY DEF Reports

\* Threads that end leave the thread variables well typed.
LEMMA EndedTypes ==
  ASSUME ThreadTypes, NEW S \in SUBSET Threads, Ended(S)
  PROVE  ThreadTypes'
BY DEF ThreadTypes, Reports, HasQuest, PcLabels, Outcomes, EmptyReport, MAX_AUTO_RESUME, Ended

\* So does a command that returns, ...
LEMMA ReturnTypes ==
  ASSUME ProcTypes, ThreadTypes, NEW t \in Threads, Return(t)
  PROVE  ProcTypes' /\ ThreadTypes'
BY EndedTypes, ProcessAssumption DEF ProcTypes, Return, Pids

\* ... a step that goes on at a label where the quest in hand is the same, ...
LEMMA ContinueTypes ==
  ASSUME ProcTypes, ThreadTypes, NEW t \in Threads, NEW l \in PcLabels \ {"open", "reconcile"},
         cur[t] \in Quests, Continue(t, l)
  PROVE  ProcTypes' /\ ThreadTypes'
BY ReturnTypes DEF ProcTypes, ThreadTypes, Continue, procVars

\* ... and an interruption.
LEMMA InterruptTypes ==
  ASSUME ProcTypes, ThreadTypes, NEW t \in Threads, Interrupt(t)
  PROVE  ProcTypes' /\ ThreadTypes'
<1>1. [report[t] EXCEPT !.interrupted = TRUE] \in Reports
  BY ReportUpdate DEF ThreadTypes
<1>2. CASE job[t] # "run"
  BY <1>2, ReturnTypes DEF Interrupt
<1>3. CASE job[t] = "run"
  <2>1. report' \in [Threads -> Reports]
    BY <1>1, <1>3 DEF Interrupt, ThreadTypes
  <2> QED BY <1>3, <2>1 DEF ProcTypes, ThreadTypes, PcLabels, HasQuest, Interrupt, procVars
<1> QED BY <1>2, <1>3

\* The life of a process keeps the types.
LEMMA TypeProcess ==
  ASSUME TypeOK, NEW p \in Pids, Boot(p) \/ Crash(p) \/ (p \in Tui /\ (Cancel(p) \/ Quit(p)))
  PROVE  TypeOK'
<1> USE DEF TypeOK, DbTypes, ProcTypes, dbVars
<1>1. CASE Boot(p)
  BY <1>1 DEF Boot, threadVars, ThreadTypes
<1>2. CASE Crash(p)
  BY <1>2, EndedTypes DEF Crash, Exit
<1>3. CASE p \in Tui /\ Cancel(p)
  BY <1>3 DEF Cancel, threadVars, ThreadTypes
<1>4. CASE Quit(p)
  BY <1>4 DEF Quit, threadVars, ThreadTypes
<1> QED BY <1>1, <1>2, <1>3, <1>4

\* A request keeps them.
LEMMA TypeRequest ==
  ASSUME TypeOK, NEW t \in Threads, NEW j \in Jobs, NEW q \in Quests \cup {NoQuest},
         Request(t, j, q)
  PROVE  TypeOK'
BY QuestAssumption, ProcessAssumption
DEF TypeOK, DbTypes, ProcTypes, ThreadTypes, HasQuest, PcLabels, dbVars, Request

\* So does every step of a thread.
LEMMA TypeStep ==
  ASSUME TypeOK, NEW t \in Threads, Step(t) \/ AgentReturns(t)
  PROVE  TypeOK'
<1> USE QuestAssumption, ProcessAssumption DEF TypeOK, DbTypes, dbVars
<1>1. CASE ListRunners(t)
  BY <1>1
  DEF ListRunners, ProcTypes, ThreadTypes, HasQuest, PcLabels, procVars
<1>2. CASE RecoverRow(t)
  BY <1>2
  DEF RecoverRow, ProcTypes, ThreadTypes, HasQuest, PcLabels, procVars, QuestStatus
<1>3. CASE SpareRow(t)
  BY <1>3
  DEF SpareRow, ProcTypes, ThreadTypes, HasQuest, PcLabels, procVars
<1>4. CASE Opened(t)
  BY <1>4, ReturnTypes
  DEF Opened, ProcTypes, ThreadTypes, HasQuest, PcLabels, procVars
<1>5. CASE Begin(t)
  BY <1>5
  DEF Begin, ProcTypes, ThreadTypes, HasQuest, PcLabels, procVars
<1>6. CASE TakeReady(t)
  BY <1>6
  DEF TakeReady, ReadyInCampaign, Inserted, ProcTypes, ThreadTypes, HasQuest, PcLabels, procVars
<1>7. CASE Rescan(t)
  BY <1>7
  DEF Rescan, ProcTypes, ThreadTypes, HasQuest, PcLabels, procVars, Outcomes, MAX_AUTO_RESUME
<1>8. CASE Pick(t)
  <2>1. PICK q \in Quests : q \in todo[t] /\ cur' = [cur EXCEPT ![t] = q]
                             /\ todo' = [todo EXCEPT ![t] = @ \ {q}]
    BY <1>8 DEF Pick, IsNext
  <2> QED BY <1>8, <2>1 DEF Pick, ProcTypes, ThreadTypes, HasQuest, PcLabels, procVars, Outcomes,
                            MAX_AUTO_RESUME
<1>9. CASE PickTerminal(t)
  BY <1>9, ReturnTypes
  DEF PickTerminal
<1>10. CASE PrepareFails(t)
  BY <1>10, ReturnTypes
  DEF PrepareFails
<1>11. CASE Dispatch(t)
  BY <1>11
  DEF Dispatch, StartWorker, ProcTypes, ThreadTypes, HasQuest, PcLabels, procVars, QuestStatus
<1>12. CASE Wrapup(t)
  <2>1. \A b \in BOOLEAN : [report[t] EXCEPT !.allDone = b] \in Reports
    BY ReportUpdate DEF ThreadTypes
  <2>2. report' \in [Threads -> Reports]
    BY <1>12, <2>1 DEF Wrapup, ThreadTypes
  <2> QED BY <1>12, <2>2 DEF Wrapup, ProcTypes, ThreadTypes, HasQuest, PcLabels, procVars
<1>13. CASE Close(t)
  BY <1>13, ReturnTypes
  DEF Close, Verdict
<1>14. CASE SettleCancelled(t)
  BY <1>14, InterruptTypes
  DEF SettleCancelled, Settle, QuestStatus
<1>15. CASE SettleAsks(t)
  BY <1>15, ContinueTypes
  DEF SettleAsks, Settle, ProcTypes, ThreadTypes, HasQuest, PcLabels, procVars, QuestStatus
<1>16. CASE SettleDone(t)
  <2>1. cur[t] \in Quests
    BY <1>16 DEF SettleDone, Settle, ThreadTypes, HasQuest
  <2>2. DbTypes'
    BY <1>16, <2>1 DEF SettleDone, Settle, QuestStatus
  <2>3. CASE job[t] # "run" /\ Return(t)
    BY <2>2, <2>3, ReturnTypes
  <2>4. CASE job[t] = "run"
    <3> DEFINE f == {p \in Projects : <<project[cur[t]], p>> \in Rules}
    <3>1. fires' = [fires EXCEPT ![t] = f]
      BY <1>16, <2>4 DEF SettleDone
    <3> HIDE DEF f
    <3>2. f \in SUBSET Projects
      BY DEF f
    <3>3. fires' \in [Threads -> SUBSET Projects]
      BY <3>1, <3>2 DEF ThreadTypes
    <3>4. pc' = [pc EXCEPT ![t] = "fire"]
          /\ UNCHANGED <<procVars, job, rows, todo, cur, tries, outcome, report>>
      BY <1>16, <2>4 DEF SettleDone
    <3> QED BY <2>1, <2>2, <3>3, <3>4 DEF ProcTypes, ThreadTypes, PcLabels, procVars
  <2> QED BY <1>16, <2>3, <2>4 DEF SettleDone
<1>17. CASE SettleFails(t)
  <2>1. cur[t] \in Quests
    BY <1>17 DEF SettleFails, Settle, ThreadTypes, HasQuest
  <2>2. DbTypes'
    BY <1>17, <2>1 DEF SettleFails, Settle, QuestStatus
  <2>3. [report[t] EXCEPT !.failed = @ \cup {cur[t]}] \in Reports
    BY <2>1, ReportUpdate DEF ThreadTypes
  <2>4. CASE job[t] # "run" /\ Return(t)
    BY <2>2, <2>4, ReturnTypes
  <2>5. CASE job[t] = "run"
    <3> DEFINE r == [report[t] EXCEPT !.failed = @ \cup {cur[t]}]
    <3>1. report' = [report EXCEPT ![t] = r]
      BY <1>17, <2>5 DEF SettleFails
    <3>2. report' \in [Threads -> Reports]
      BY <2>3, <3>1 DEF ThreadTypes
    <3>3. pc' = [pc EXCEPT ![t] = "pick"]
          /\ UNCHANGED <<procVars, job, rows, todo, cur, tries, outcome, fires>>
      BY <1>17, <2>5 DEF SettleFails
    <3> QED BY <2>2, <3>2, <3>3 DEF ProcTypes, ThreadTypes, HasQuest, PcLabels, procVars
  <2> QED BY <1>17, <2>4, <2>5 DEF SettleFails
<1>18. CASE SettleErrs(t)
  BY <1>18, ReturnTypes
  DEF SettleErrs, Settle, QuestStatus
<1>19. CASE NotWaiting(t)
  BY <1>19, ReturnTypes
  DEF NotWaiting
<1>20. CASE TriageReads(t)
  BY <1>20
  DEF TriageReads, ReadWaiting, ProcTypes, ThreadTypes, HasQuest, PcLabels, procVars
<1>21. CASE ResumeReads(t)
  BY <1>21
  DEF ResumeReads, ReadWaiting, ProcTypes, ThreadTypes, HasQuest, PcLabels, procVars
<1>22. CASE Reattach(t)
  BY <1>22
  DEF Reattach, StartWorker, ProcTypes, ThreadTypes, HasQuest, PcLabels, procVars, QuestStatus
<1>23. CASE Notify(t)
  <2>1. cur[t] \in Quests
    BY <1>23 DEF Notify, ThreadTypes, HasQuest
  <2>2. [report[t] EXCEPT !.asked = @ \cup {cur[t]}] \in Reports
    BY <2>1, ReportUpdate DEF ThreadTypes
  <2>3. report' \in [Threads -> Reports]
    BY <1>23, <2>2 DEF Notify, ThreadTypes
  <2> QED BY <1>23, <2>1, <2>3 DEF Notify, ProcTypes, ThreadTypes, HasQuest, PcLabels, procVars
<1>24. CASE FireRule(t)
  BY <1>24
  DEF FireRule, Inserted, ProcTypes, ThreadTypes, HasQuest, PcLabels, procVars, QuestStatus
<1>25. CASE FireDone(t)
  BY <1>25
  DEF FireDone, ProcTypes, ThreadTypes, HasQuest, PcLabels, procVars
<1>26. CASE WorkerReturns(t)
  BY <1>26
  DEF WorkerReturns, ProcTypes, ThreadTypes, HasQuest, PcLabels, procVars, Outcomes
<1>27. CASE TriageCancelled(t)
  BY <1>27, InterruptTypes
  DEF TriageCancelled, QuestStatus
<1>28. CASE TriageErrs(t)
  BY <1>28, ReturnTypes
  DEF TriageErrs
<1>29. CASE TriageAsksUser(t)
  BY <1>29, ContinueTypes
  DEF TriageAsksUser, ProcTypes, ThreadTypes, HasQuest, PcLabels, procVars
<1>30. CASE TriageAnswers(t)
  BY <1>30
  DEF TriageAnswers, ProcTypes, ThreadTypes, HasQuest, PcLabels, procVars, MAX_AUTO_RESUME
<1> QED BY <1>1, <1>2, <1>3, <1>4, <1>5, <1>6, <1>7, <1>8, <1>9, <1>10, <1>11, <1>12, <1>13,
           <1>14, <1>15, <1>16, <1>17, <1>18, <1>19, <1>20, <1>21, <1>22, <1>23, <1>24, <1>25,
           <1>26, <1>27, <1>28, <1>29, <1>30
  DEF Step, AgentReturns

\* Every variable stays within its type, for any number of processes.
THEOREM TypeCorrect == Spec => []TypeOK
<1>1. TypeOK /\ [Next]_vars => TypeOK'
  <2> SUFFICES ASSUME TypeOK, [Next]_vars PROVE TypeOK'
    OBVIOUS
  <2>1. CASE \E p \in Pids : Boot(p)
    BY <2>1, TypeProcess
  <2>2. CASE \E p \in Crashable : Crash(p)
    BY <2>2, TypeProcess, ProcessAssumption
  <2>3. CASE \E p \in Tui : Cancel(p) \/ Quit(p) \/ QuitTimesOut(p)
    BY <2>3, TypeProcess DEF Pids, QuitTimesOut, Crash
  <2>4. CASE \E t \in Threads, j \in Jobs, q \in Quests \cup {NoQuest} : Request(t, j, q)
    BY <2>4, TypeRequest
  <2>5. CASE \E t \in Threads : Step(t) \/ AgentReturns(t)
    BY <2>5, TypeStep
  <2>6. CASE UNCHANGED vars
    BY <2>6 DEF vars, dbVars, procVars, threadVars, TypeOK, DbTypes, ProcTypes, ThreadTypes
  <2> QED BY <2>1, <2>2, <2>3, <2>4, <2>5, <2>6 DEF Next
<1> QED BY <1>1, TypeInit, PTL DEF Spec

-----------------------------------------------------------------------------
(* No zombies.                                                             *)

\* A step of thread t ends its command, or leaves processes, commands and the other
\* threads alone.
Inner(t) ==
  /\ UNCHANGED <<procVars, job>>
  /\ pc'[t] # "idle"
  /\ \A u \in Threads : u # t => pc'[u] = pc[u] /\ cur'[u] = cur[u]

\* Every step of a working thread is one of the two.
LEMMA StepEndsOrInner ==
  ASSUME TypeOK, NEW t \in Threads, Step(t) \/ AgentReturns(t)
  PROVE  pc[t] # "idle" /\ (Return(t) \/ Inner(t))
<1> USE DEF Inner, TypeOK, ThreadTypes
<1>1. CASE ListRunners(t)
  BY <1>1 DEF ListRunners
<1>2. CASE RecoverRow(t)
  BY <1>2 DEF RecoverRow
<1>3. CASE SpareRow(t)
  BY <1>3 DEF SpareRow
<1>4. CASE Opened(t)
  BY <1>4 DEF Opened
<1>5. CASE Begin(t)
  BY <1>5 DEF Begin
<1>6. CASE TakeReady(t)
  BY <1>6 DEF TakeReady
<1>7. CASE Rescan(t)
  BY <1>7 DEF Rescan
<1>8. CASE Pick(t)
  BY <1>8 DEF Pick
<1>9. CASE PickTerminal(t)
  BY <1>9 DEF PickTerminal
<1>10. CASE PrepareFails(t)
  BY <1>10 DEF PrepareFails
<1>11. CASE Dispatch(t)
  BY <1>11 DEF Dispatch, StartWorker
<1>12. CASE Wrapup(t)
  BY <1>12 DEF Wrapup
<1>13. CASE Close(t)
  BY <1>13 DEF Close
<1>14. CASE SettleCancelled(t)
  BY <1>14 DEF SettleCancelled, Interrupt, Settle
<1>15. CASE SettleAsks(t)
  BY <1>15 DEF SettleAsks, Continue, Settle
<1>16. CASE SettleDone(t)
  BY <1>16 DEF SettleDone, Settle
<1>17. CASE SettleFails(t)
  BY <1>17 DEF SettleFails, Settle
<1>18. CASE SettleErrs(t)
  BY <1>18 DEF SettleErrs, Settle
<1>19. CASE NotWaiting(t)
  BY <1>19 DEF NotWaiting
<1>20. CASE TriageReads(t)
  BY <1>20 DEF TriageReads, ReadWaiting
<1>21. CASE ResumeReads(t)
  BY <1>21 DEF ResumeReads, ReadWaiting
<1>22. CASE Reattach(t)
  BY <1>22 DEF Reattach, StartWorker
<1>23. CASE Notify(t)
  BY <1>23 DEF Notify
<1>24. CASE FireRule(t)
  BY <1>24 DEF FireRule
<1>25. CASE FireDone(t)
  BY <1>25 DEF FireDone
<1>26. CASE WorkerReturns(t)
  BY <1>26 DEF WorkerReturns
<1>27. CASE TriageCancelled(t)
  BY <1>27 DEF TriageCancelled, Interrupt
<1>28. CASE TriageErrs(t)
  BY <1>28 DEF TriageErrs
<1>29. CASE TriageAsksUser(t)
  BY <1>29 DEF TriageAsksUser, Continue
<1>30. CASE TriageAnswers(t)
  BY <1>30 DEF TriageAnswers
<1> QED BY <1>1, <1>2, <1>3, <1>4, <1>5, <1>6, <1>7, <1>8, <1>9, <1>10, <1>11, <1>12, <1>13,
           <1>14, <1>15, <1>16, <1>17, <1>18, <1>19, <1>20, <1>21, <1>22, <1>23, <1>24, <1>25,
           <1>26, <1>27, <1>28, <1>29, <1>30
  DEF Step, AgentReturns

\* So it starts no process and keeps the threads of live processes at work.
Frame(t) ==
  /\ Live' \subseteq Live /\ ThreadUp'
  /\ \A p \in Pids : proc'[p] = "new" => proc[p] = "new"
  /\ \A u \in Threads : u # t => pc'[u] = pc[u] /\ cur'[u] = cur[u]

\* A step of a thread revives no lease and keeps every thread on a living process.
LEMMA StepFrame ==
  ASSUME TypeOK, ThreadUp, NEW t \in Threads, Step(t) \/ AgentReturns(t)
  PROVE  Frame(t)
<1> USE DEF Frame, TypeOK, ProcTypes, ThreadTypes, Pids, Live, ThreadUp
<1>1. CASE Return(t)
  BY <1>1, StepEndsOrInner, ProcessAssumption DEF Return, Ended
<1>2. CASE Inner(t)
  BY <1>2, StepEndsOrInner DEF Inner, procVars
<1> QED BY <1>1, <1>2, StepEndsOrInner

\* A step by thread t, which does not leave a quest running behind, keeps NoZombie.
LEMMA ZombieFrame ==
  ASSUME NoZombie, NEW t \in Threads, Live' \subseteq Live,
         \A u \in Threads : u # t => pc'[u] = pc[u] /\ cur'[u] = cur[u],
         pc[t] \notin {"work", "settle"} \/ status'[cur[t]] # "running",
         \A q \in Quests : status'[q] = "running" => status[q] = "running" /\ lease'[q] = lease[q]
  PROVE  NoZombie'
BY DEF NoZombie, Works, RunnerAlive

\* The inductive invariant.
ZombieInv == TypeOK /\ ThreadUp /\ LeaseStarted /\ NoZombie

\* It holds at first,
LEMMA ZombieInit == Init => ZombieInv
BY TypeInit, ProcessAssumption
DEF Init, ZombieInv, ThreadUp, LeaseStarted, NoZombie, RunnerAlive, Live

\* the life of a process keeps it: one that starts is in no lease, one that is
\* killed takes its leases with it,
LEMMA ZombieProcess ==
  ASSUME ZombieInv, NEW p \in Pids, Boot(p) \/ Crash(p) \/ (p \in Tui /\ (Cancel(p) \/ Quit(p)))
  PROVE  ZombieInv'
<1> USE ProcessAssumption DEF ZombieInv
<1>1. TypeOK'
  BY TypeProcess
<1>2. CASE Boot(p)
  BY <1>1, <1>2
  DEF Boot, TypeOK, DbTypes, ProcTypes, ThreadUp, LeaseStarted, NoZombie, Works, RunnerAlive,
      Live,
      dbVars, threadVars
<1>3. CASE Crash(p)
  BY <1>1, <1>3
  DEF Crash, Exit, Ended, TypeOK, DbTypes, ProcTypes, ThreadTypes, ThreadUp, LeaseStarted,
      NoZombie, Works,
      RunnerAlive, Live, dbVars
<1>4. CASE p \in Tui /\ Cancel(p)
  BY <1>1, <1>4
  DEF Cancel, ThreadUp, LeaseStarted, NoZombie, Works, RunnerAlive, Live, dbVars, threadVars
<1>5. CASE Quit(p)
  BY <1>1, <1>5
  DEF Quit, TypeOK, DbTypes, ProcTypes, ThreadTypes, ThreadUp, LeaseStarted, NoZombie, Works,
      RunnerAlive, Live, dbVars, threadVars
<1> QED BY <1>2, <1>3, <1>4, <1>5

\* a request keeps it,
LEMMA ZombieRequest ==
  ASSUME ZombieInv, NEW t \in Threads, NEW j \in Jobs, NEW q \in Quests \cup {NoQuest},
         Request(t, j, q)
  PROVE  ZombieInv'
<1> USE DEF ZombieInv
<1>1. TypeOK'
  BY TypeRequest
<1>2. ThreadUp' /\ LeaseStarted'
  BY ProcessAssumption DEF Request, TypeOK, ThreadTypes, ThreadUp, LeaseStarted, Live, dbVars
<1>3. NoZombie'
  BY ZombieFrame DEF Request, TypeOK, ThreadTypes, Live, dbVars
<1> QED BY <1>1, <1>2, <1>3

\* and every step of a thread does: it starts a worker, or it is quiet: it leaves
\* no quest running that was not, or not with this lease.
Quiet(t) ==
  /\ pc[t] \notin {"work", "settle"} \/ status'[cur[t]] # "running"
  /\ lease' = lease
  /\ \A q \in Quests : status'[q] = "running" => status[q] = "running"

\* A step of a thread is quiet, returns from an agent, or starts a worker.
LEMMA StepQuiet ==
  ASSUME TypeOK, NEW t \in Threads, Step(t) \/ AgentReturns(t)
  PROVE  \/ Quiet(t) \/ WorkerReturns(t)
         \/ pc[t] \in {"prepare", "reattach"} /\ StartWorker(t)
<1> USE QuestAssumption DEF Quiet, TypeOK, DbTypes, dbVars
<1>1. ASSUME ListRunners(t) PROVE Quiet(t)
  BY <1>1 DEF ListRunners
<1>2. ASSUME RecoverRow(t) PROVE Quiet(t)
  BY <1>2 DEF RecoverRow
<1>3. ASSUME SpareRow(t) PROVE Quiet(t)
  BY <1>3 DEF SpareRow
<1>4. ASSUME Opened(t) PROVE Quiet(t)
  BY <1>4 DEF Opened
<1>5. ASSUME Begin(t) PROVE Quiet(t)
  BY <1>5 DEF Begin
<1>6. ASSUME TakeReady(t) PROVE Quiet(t)
  BY <1>6 DEF TakeReady
<1>7. ASSUME Rescan(t) PROVE Quiet(t)
  BY <1>7 DEF Rescan
<1>8. ASSUME Pick(t) PROVE Quiet(t)
  BY <1>8 DEF Pick
<1>9. ASSUME PickTerminal(t) PROVE Quiet(t)
  BY <1>9 DEF PickTerminal
<1>10. ASSUME PrepareFails(t) PROVE Quiet(t)
  BY <1>10 DEF PrepareFails
<1>11. ASSUME Dispatch(t) PROVE pc[t] \in {"prepare", "reattach"} /\ StartWorker(t)
  BY <1>11 DEF Dispatch
<1>12. ASSUME Wrapup(t) PROVE Quiet(t)
  BY <1>12 DEF Wrapup
<1>13. ASSUME Close(t) PROVE Quiet(t)
  BY <1>13 DEF Close
<1>14. ASSUME SettleCancelled(t) PROVE Quiet(t)
  BY <1>14 DEF SettleCancelled, Settle, ThreadTypes, HasQuest
<1>15. ASSUME SettleAsks(t) PROVE Quiet(t)
  BY <1>15 DEF SettleAsks, Settle, ThreadTypes, HasQuest
<1>16. ASSUME SettleDone(t) PROVE Quiet(t)
  BY <1>16 DEF SettleDone, Settle, ThreadTypes, HasQuest
<1>17. ASSUME SettleFails(t) PROVE Quiet(t)
  BY <1>17 DEF SettleFails, Settle, ThreadTypes, HasQuest
<1>18. ASSUME SettleErrs(t) PROVE Quiet(t)
  BY <1>18 DEF SettleErrs, Settle, ThreadTypes, HasQuest
<1>19. ASSUME NotWaiting(t) PROVE Quiet(t)
  BY <1>19 DEF NotWaiting
<1>20. ASSUME TriageReads(t) PROVE Quiet(t)
  BY <1>20 DEF TriageReads, ReadWaiting
<1>21. ASSUME ResumeReads(t) PROVE Quiet(t)
  BY <1>21 DEF ResumeReads, ReadWaiting
<1>22. ASSUME Reattach(t) PROVE pc[t] \in {"prepare", "reattach"} /\ StartWorker(t)
  BY <1>22 DEF Reattach
<1>23. ASSUME Notify(t) PROVE Quiet(t)
  BY <1>23 DEF Notify
<1>24. ASSUME FireRule(t) PROVE Quiet(t)
  BY <1>24 DEF FireRule, Inserted
<1>25. ASSUME FireDone(t) PROVE Quiet(t)
  BY <1>25 DEF FireDone
<1>26. ASSUME TriageCancelled(t) PROVE Quiet(t)
  BY <1>26 DEF TriageCancelled
<1>27. ASSUME TriageErrs(t) PROVE Quiet(t)
  BY <1>27 DEF TriageErrs
<1>28. ASSUME TriageAsksUser(t) PROVE Quiet(t)
  BY <1>28 DEF TriageAsksUser
<1>29. ASSUME TriageAnswers(t) PROVE Quiet(t)
  BY <1>29 DEF TriageAnswers
<1> QED BY <1>1, <1>2, <1>3, <1>4, <1>5, <1>6, <1>7, <1>8, <1>9, <1>10, <1>11, <1>12, <1>13,
           <1>14, <1>15, <1>16, <1>17, <1>18, <1>19, <1>20, <1>21, <1>22, <1>23, <1>24, <1>25,
           <1>26, <1>27, <1>28, <1>29
  DEF Step, AgentReturns

\* So a step of a thread keeps the invariant.
LEMMA ZombieStep ==
  ASSUME ZombieInv, NEW t \in Threads, Step(t) \/ AgentReturns(t)
  PROVE  ZombieInv'
<1> USE DEF ZombieInv
<1>1. TypeOK' /\ Frame(t)
  BY TypeStep, StepFrame
<1>2. CASE Quiet(t)
  BY <1>1, <1>2, ZombieFrame DEF Quiet, Frame, LeaseStarted
<1>3. CASE WorkerReturns(t)
  BY <1>1, <1>3
  DEF WorkerReturns, Frame, LeaseStarted, NoZombie, Works, RunnerAlive, TypeOK, ThreadTypes,
      dbVars, procVars
<1>4. CASE pc[t] \in {"prepare", "reattach"} /\ StartWorker(t)
  <2>1. PidOf[t] \in Pids /\ proc'[PidOf[t]] # "new"
    BY <1>4, ProcessAssumption DEF StartWorker, ThreadUp, Live, procVars
  <2>2. LeaseStarted'
    BY <1>1, <1>4, <2>1 DEF Frame, StartWorker, LeaseStarted, TypeOK, DbTypes
  <2>3. cur[t] \in Quests
    BY <1>4 DEF TypeOK, ThreadTypes, HasQuest
  <2>4. NoZombie'
    BY <1>1, <1>4, <2>3
    DEF Frame, StartWorker, NoZombie, Works, RunnerAlive, TypeOK, DbTypes, ThreadTypes
  <2> QED BY <1>1, <2>2, <2>4 DEF Frame
<1> QED BY <1>2, <1>3, <1>4, StepQuiet

\* No command leaves a quest running under the lease of a live process that does not
\* work on it: reconcile, which spares the live, would never take it back.
THEOREM ZombieFree == Spec => []NoZombie
<1>1. ZombieInv /\ [Next]_vars => ZombieInv'
  <2> SUFFICES ASSUME ZombieInv, [Next]_vars PROVE ZombieInv'
    OBVIOUS
  <2>1. CASE \E p \in Pids : Boot(p)
    BY <2>1, ZombieProcess
  <2>2. CASE \E p \in Crashable : Crash(p)
    BY <2>2, ZombieProcess, ProcessAssumption
  <2>3. CASE \E p \in Tui : Cancel(p) \/ Quit(p) \/ QuitTimesOut(p)
    BY <2>3, ZombieProcess DEF Pids, QuitTimesOut, Crash
  <2>4. CASE \E t \in Threads, j \in Jobs, q \in Quests \cup {NoQuest} : Request(t, j, q)
    BY <2>4, ZombieRequest
  <2>5. CASE \E t \in Threads : Step(t) \/ AgentReturns(t)
    BY <2>5, ZombieStep
  <2>6. CASE UNCHANGED vars
    BY <2>6
    DEF vars, dbVars, procVars, threadVars, ZombieInv, TypeOK, DbTypes, ProcTypes, ThreadTypes,
        ThreadUp, LeaseStarted, NoZombie, Works, RunnerAlive, Live
  <2> QED BY <2>1, <2>2, <2>3, <2>4, <2>5, <2>6 DEF Next
<1> QED BY <1>1, ZombieInit, PTL DEF Spec, ZombieInv

-----------------------------------------------------------------------------
(* Dependencies.                                                           *)

\* The inductive invariant, and its part about the table alone.
OrderInTable == DependenciesDone /\ CompletedRecorded
OrderInv == TypeOK /\ OrderInTable /\ ListedReady /\ InHandReady

\* The labels at which the quest in hand has its dependencies completed.
Ready == {"prepare", "work", "settle", "triaging", "reattach"}

\* A step that takes no quest in hand and lists none keeps what is known of those
\* that are.
Sheds(t) ==
  /\ completions \subseteq completions'
  /\ \A u \in Threads :
       /\ todo'[u] \subseteq todo[u]
       /\ pc'[u] \in Ready => pc[u] \in Ready /\ cur'[u] = cur[u]

\* Such a step keeps what is known of the listed quests and of the one in hand.
LEMMA ShedsKeeps ==
  ASSUME ListedReady, InHandReady, NEW t \in Threads, Sheds(t)
  PROVE  ListedReady' /\ InHandReady'
BY DEF ListedReady, InHandReady, Sheds, Ready

\* To end a command, whether it returns, goes on elsewhere or is interrupted,
\* is such a step.
LEMMA EndSheds ==
  ASSUME TypeOK, NEW t \in Threads, completions \subseteq completions',
         Return(t) \/ Interrupt(t) \/ (\E l \in PcLabels \ Ready : Continue(t, l))
  PROVE  Sheds(t)
<1> USE DEF Sheds, TypeOK, ThreadTypes
<1>1. CASE Return(t)
  BY <1>1 DEF Return, Ended, Ready
<1>2. CASE Interrupt(t)
  BY <1>1, <1>2 DEF Interrupt, Return, Ended, Ready
<1>3. CASE \E l \in PcLabels \ Ready : Continue(t, l)
  BY <1>1, <1>3 DEF Continue, Return, Ended, Ready
<1> QED BY <1>1, <1>2, <1>3

\* Dependencies hold at first,
LEMMA OrderInit == Init => OrderInv
BY TypeInit, QuestAssumption
DEF Init, OrderInv, OrderInTable, DependenciesDone, CompletedRecorded, ListedReady,
    InHandReady, Ready

\* and processes and requests change nothing about them,
LEMMA OrderProcess ==
  ASSUME OrderInv, NEW p \in Pids,
         Boot(p) \/ Crash(p) \/ (p \in Tui /\ (Cancel(p) \/ Quit(p)))
  PROVE  OrderInv'
<1> USE DEF OrderInv, OrderInTable, DependenciesDone, CompletedRecorded, ListedReady, InHandReady
<1>1. TypeOK'
  BY TypeProcess
<1>2. CASE Boot(p)
  BY <1>1, <1>2 DEF Boot, dbVars, threadVars
<1>3. CASE Crash(p)
  BY <1>1, <1>3 DEF Crash, Exit, Ended, dbVars, TypeOK, ThreadTypes
<1>4. CASE p \in Tui /\ Cancel(p)
  BY <1>1, <1>4 DEF Cancel, dbVars, threadVars
<1>5. CASE Quit(p)
  BY <1>1, <1>5 DEF Quit, dbVars, threadVars
<1> QED BY <1>2, <1>3, <1>4, <1>5

\* A request touches no quest, and has none in hand yet that is ready to work on;
LEMMA OrderRequest ==
  ASSUME OrderInv, NEW t \in Threads, NEW j \in Jobs, NEW q \in Quests \cup {NoQuest},
         Request(t, j, q)
  PROVE  OrderInv'
<1> USE DEF OrderInv, OrderInTable
<1>1. TypeOK'
  BY TypeRequest
<1>2. DependenciesDone' /\ CompletedRecorded'
  BY DEF Request, DependenciesDone, CompletedRecorded, dbVars
<1>3. Sheds(t)
  BY DEF Request, Sheds, Ready, TypeOK, ThreadTypes, dbVars
<1> QED BY <1>1, <1>2, <1>3, ShedsKeeps

\* and neither does a step: a quest is listed or taken in hand when its dependencies
\* are completed, and nothing takes a completion back.
LEMMA OrderStep ==
  ASSUME OrderInv, NEW t \in Threads, Step(t) \/ AgentReturns(t)
  PROVE  OrderInTable' /\ ListedReady' /\ InHandReady'
<1> USE QuestAssumption DEF OrderInv, OrderInTable
<1>0. ASSUME UNCHANGED <<status, completions>> PROVE OrderInTable'
  BY <1>0 DEF DependenciesDone, CompletedRecorded
<1>1. CASE ListRunners(t)
  <2>1. OrderInTable'
    BY <1>1, <1>0 DEF ListRunners, dbVars
  <2>2. Sheds(t)
    BY <1>1 DEF ListRunners, Sheds, Ready, TypeOK, ThreadTypes, dbVars
  <2> QED BY <2>1, <2>2, ShedsKeeps
<1>2. CASE RecoverRow(t)
  <2>1. OrderInTable'
    BY <1>2
    DEF RecoverRow, DependenciesDone, CompletedRecorded, InHandReady, TypeOK, DbTypes,
        ThreadTypes, HasQuest
  <2>2. Sheds(t)
    BY <1>2 DEF RecoverRow, Sheds, Ready, TypeOK, ThreadTypes, dbVars
  <2> QED BY <2>1, <2>2, ShedsKeeps
<1>3. CASE SpareRow(t)
  <2>1. OrderInTable'
    BY <1>3, <1>0 DEF SpareRow, dbVars
  <2>2. Sheds(t)
    BY <1>3 DEF SpareRow, Sheds, Ready, TypeOK, ThreadTypes, dbVars
  <2> QED BY <2>1, <2>2, ShedsKeeps
<1>4. CASE Opened(t)
  <2>1. OrderInTable'
    BY <1>4, <1>0 DEF Opened, dbVars
  <2>2. Sheds(t)
    BY <1>4, EndSheds DEF Opened, Sheds, Ready, TypeOK, ThreadTypes, PcLabels, dbVars
  <2> QED BY <2>1, <2>2, ShedsKeeps
<1>5. CASE Begin(t)
  <2>1. OrderInTable'
    BY <1>5, <1>0 DEF Begin, dbVars
  <2>2. Sheds(t)
    BY <1>5 DEF Begin, Sheds, Ready, TypeOK, ThreadTypes, dbVars
  <2> QED BY <2>1, <2>2, ShedsKeeps
<1>6. CASE TakeReady(t)
  <2>1. OrderInTable'
    BY <1>6, <1>0 DEF TakeReady, dbVars
  <2>2. ListedReady' /\ InHandReady'
    BY <1>6
    DEF TakeReady, ReadyInCampaign, Inserted, ListedReady, InHandReady, CompletedRecorded,
        TypeOK, ThreadTypes, DbTypes, dbVars
  <2> QED BY <2>1, <2>2, ShedsKeeps
<1>7. CASE Rescan(t)
  <2>1. OrderInTable'
    BY <1>7, <1>0 DEF Rescan, dbVars
  <2>2. Sheds(t)
    BY <1>7 DEF Rescan, Sheds, Ready, TypeOK, ThreadTypes, dbVars
  <2> QED BY <2>1, <2>2, ShedsKeeps
<1>8. CASE Pick(t)
  <2>1. OrderInTable'
    BY <1>8, <1>0 DEF Pick, dbVars
  <2>2. ListedReady' /\ InHandReady'
    BY <1>8 DEF Pick, IsNext, ListedReady, InHandReady, TypeOK, ThreadTypes, dbVars
  <2> QED BY <2>1, <2>2, ShedsKeeps
<1>9. CASE PickTerminal(t)
  <2>1. OrderInTable'
    BY <1>9, <1>0 DEF PickTerminal, dbVars
  <2>2. Sheds(t)
    BY <1>9, EndSheds DEF PickTerminal, Sheds, Ready, TypeOK, ThreadTypes, PcLabels, dbVars
  <2> QED BY <2>1, <2>2, ShedsKeeps
<1>10. CASE PrepareFails(t)
  <2>1. OrderInTable'
    BY <1>10, <1>0 DEF PrepareFails, dbVars
  <2>2. Sheds(t)
    BY <1>10, EndSheds DEF PrepareFails, Sheds, Ready, TypeOK, ThreadTypes, PcLabels, dbVars
  <2> QED BY <2>1, <2>2, ShedsKeeps
<1>11. CASE Dispatch(t)
  <2>1. OrderInTable'
    BY <1>11
    DEF Dispatch, StartWorker, DependenciesDone, CompletedRecorded, InHandReady, TypeOK, DbTypes,
        ThreadTypes, HasQuest
  <2>2. Sheds(t)
    BY <1>11 DEF Dispatch, StartWorker, Sheds, Ready, TypeOK, ThreadTypes, dbVars
  <2> QED BY <2>1, <2>2, ShedsKeeps
<1>12. CASE Wrapup(t)
  <2>1. OrderInTable'
    BY <1>12, <1>0 DEF Wrapup, dbVars
  <2>2. Sheds(t)
    BY <1>12 DEF Wrapup, Sheds, Ready, TypeOK, ThreadTypes, dbVars
  <2> QED BY <2>1, <2>2, ShedsKeeps
<1>13. CASE Close(t)
  <2>1. OrderInTable'
    BY <1>13, <1>0 DEF Close, dbVars
  <2>2. Sheds(t)
    BY <1>13, EndSheds DEF Close, Sheds, Ready, TypeOK, ThreadTypes, PcLabels, dbVars
  <2> QED BY <2>1, <2>2, ShedsKeeps
<1>14. CASE SettleCancelled(t)
  <2>1. OrderInTable'
    BY <1>14
    DEF SettleCancelled, Settle, DependenciesDone, CompletedRecorded, InHandReady, TypeOK,
        DbTypes,
        ThreadTypes, HasQuest
  <2>2. Sheds(t)
    BY <1>14, EndSheds
    DEF SettleCancelled, Settle, Sheds, Ready, TypeOK, ThreadTypes, PcLabels, dbVars
  <2> QED BY <2>1, <2>2, ShedsKeeps
<1>15. CASE SettleAsks(t)
  <2>1. OrderInTable'
    BY <1>15
    DEF SettleAsks, Settle, DependenciesDone, CompletedRecorded, InHandReady, TypeOK, DbTypes,
        ThreadTypes, HasQuest
  <2>2. Sheds(t)
    BY <1>15, EndSheds DEF SettleAsks, Settle, Sheds, Ready, TypeOK, ThreadTypes, PcLabels, dbVars
  <2> QED BY <2>1, <2>2, ShedsKeeps
<1>16. CASE SettleDone(t)
  <2>1. OrderInTable'
    BY <1>16
    DEF SettleDone, Settle, DependenciesDone, CompletedRecorded, InHandReady, TypeOK, DbTypes,
        ThreadTypes, HasQuest
  <2>2. Sheds(t)
    BY <1>16, EndSheds DEF SettleDone, Settle, Sheds, Ready, TypeOK, ThreadTypes, PcLabels, dbVars
  <2> QED BY <2>1, <2>2, ShedsKeeps
<1>17. CASE SettleFails(t)
  <2>1. OrderInTable'
    BY <1>17
    DEF SettleFails, Settle, DependenciesDone, CompletedRecorded, InHandReady, TypeOK, DbTypes,
        ThreadTypes, HasQuest
  <2>2. Sheds(t)
    BY <1>17, EndSheds
    DEF SettleFails, Settle, Sheds, Ready, TypeOK, ThreadTypes, PcLabels, dbVars
  <2> QED BY <2>1, <2>2, ShedsKeeps
<1>18. CASE SettleErrs(t)
  <2>1. OrderInTable'
    BY <1>18
    DEF SettleErrs, Settle, DependenciesDone, CompletedRecorded, InHandReady, TypeOK, DbTypes,
        ThreadTypes, HasQuest
  <2>2. Sheds(t)
    BY <1>18, EndSheds DEF SettleErrs, Settle, Sheds, Ready, TypeOK, ThreadTypes, PcLabels, dbVars
  <2> QED BY <2>1, <2>2, ShedsKeeps
<1>19. CASE NotWaiting(t)
  <2>1. OrderInTable'
    BY <1>19, <1>0 DEF NotWaiting, dbVars
  <2>2. Sheds(t)
    BY <1>19, EndSheds DEF NotWaiting, Sheds, Ready, TypeOK, ThreadTypes, PcLabels, dbVars
  <2> QED BY <2>1, <2>2, ShedsKeeps
<1>20. CASE TriageReads(t)
  <2>1. OrderInTable'
    BY <1>20, <1>0 DEF TriageReads, ReadWaiting, dbVars
  <2>2. ListedReady' /\ InHandReady'
    BY <1>20
    DEF TriageReads, ReadWaiting, ListedReady, InHandReady, DependenciesDone, TypeOK,
        ThreadTypes, HasQuest, dbVars
  <2> QED BY <2>1, <2>2, ShedsKeeps
<1>21. CASE ResumeReads(t)
  <2>1. OrderInTable'
    BY <1>21, <1>0 DEF ResumeReads, ReadWaiting, dbVars
  <2>2. ListedReady' /\ InHandReady'
    BY <1>21
    DEF ResumeReads, ReadWaiting, ListedReady, InHandReady, DependenciesDone, TypeOK,
        ThreadTypes, HasQuest, dbVars
  <2> QED BY <2>1, <2>2, ShedsKeeps
<1>22. CASE Reattach(t)
  <2>1. OrderInTable'
    BY <1>22
    DEF Reattach, StartWorker, DependenciesDone, CompletedRecorded, InHandReady, TypeOK, DbTypes,
        ThreadTypes, HasQuest
  <2>2. Sheds(t)
    BY <1>22 DEF Reattach, StartWorker, Sheds, Ready, TypeOK, ThreadTypes, dbVars
  <2> QED BY <2>1, <2>2, ShedsKeeps
<1>23. CASE Notify(t)
  <2>1. OrderInTable'
    BY <1>23, <1>0 DEF Notify, dbVars
  <2>2. Sheds(t)
    BY <1>23 DEF Notify, Sheds, Ready, TypeOK, ThreadTypes, dbVars
  <2> QED BY <2>1, <2>2, ShedsKeeps
<1>24. CASE FireRule(t)
  <2>1. OrderInTable'
    BY <1>24
    DEF FireRule, Inserted, DependenciesDone, CompletedRecorded, InHandReady, TypeOK, DbTypes,
        ThreadTypes, HasQuest
  <2>2. Sheds(t)
    BY <1>24 DEF FireRule, Inserted, Sheds, Ready, TypeOK, ThreadTypes, dbVars
  <2> QED BY <2>1, <2>2, ShedsKeeps
<1>25. CASE FireDone(t)
  <2>1. OrderInTable'
    BY <1>25, <1>0 DEF FireDone, dbVars
  <2>2. Sheds(t)
    BY <1>25 DEF FireDone, Sheds, Ready, TypeOK, ThreadTypes, dbVars
  <2> QED BY <2>1, <2>2, ShedsKeeps
<1>26. CASE WorkerReturns(t)
  <2>1. OrderInTable'
    BY <1>26, <1>0 DEF WorkerReturns, dbVars
  <2>2. Sheds(t)
    BY <1>26 DEF WorkerReturns, Sheds, Ready, TypeOK, ThreadTypes, dbVars
  <2> QED BY <2>1, <2>2, ShedsKeeps
<1>27. CASE TriageCancelled(t)
  <2>1. OrderInTable'
    BY <1>27
    DEF TriageCancelled, DependenciesDone, CompletedRecorded, InHandReady, TypeOK, DbTypes,
        ThreadTypes, HasQuest
  <2>2. Sheds(t)
    BY <1>27, EndSheds DEF TriageCancelled, Sheds, Ready, TypeOK, ThreadTypes, PcLabels, dbVars
  <2> QED BY <2>1, <2>2, ShedsKeeps
<1>28. CASE TriageErrs(t)
  <2>1. OrderInTable'
    BY <1>28, <1>0 DEF TriageErrs, dbVars
  <2>2. Sheds(t)
    BY <1>28, EndSheds DEF TriageErrs, Sheds, Ready, TypeOK, ThreadTypes, PcLabels, dbVars
  <2> QED BY <2>1, <2>2, ShedsKeeps
<1>29. CASE TriageAsksUser(t)
  <2>1. OrderInTable'
    BY <1>29, <1>0 DEF TriageAsksUser, dbVars
  <2>2. Sheds(t)
    BY <1>29, EndSheds DEF TriageAsksUser, Sheds, Ready, TypeOK, ThreadTypes, PcLabels, dbVars
  <2> QED BY <2>1, <2>2, ShedsKeeps
<1>30. CASE TriageAnswers(t)
  <2>1. OrderInTable'
    BY <1>30, <1>0 DEF TriageAnswers, dbVars
  <2>2. Sheds(t)
    BY <1>30 DEF TriageAnswers, Sheds, Ready, TypeOK, ThreadTypes, dbVars
  <2> QED BY <2>1, <2>2, ShedsKeeps
<1> QED BY <1>1, <1>2, <1>3, <1>4, <1>5, <1>6, <1>7, <1>8, <1>9, <1>10, <1>11, <1>12, <1>13,
           <1>14, <1>15, <1>16, <1>17, <1>18, <1>19, <1>20, <1>21, <1>22, <1>23, <1>24, <1>25,
           <1>26, <1>27, <1>28, <1>29, <1>30
  DEF Step, AgentReturns

\* A quest leaves pending only after each of its dependencies has completed, for any
\* plan, rules and number of processes.
THEOREM DependenciesRespected == Spec => []DependenciesDone
<1>1. OrderInv /\ [Next]_vars => OrderInv'
  <2> SUFFICES ASSUME OrderInv, [Next]_vars PROVE OrderInv'
    OBVIOUS
  <2>1. CASE \E p \in Pids : Boot(p)
    BY <2>1, OrderProcess
  <2>2. CASE \E p \in Crashable : Crash(p)
    BY <2>2, OrderProcess, ProcessAssumption
  <2>3. CASE \E p \in Tui : Cancel(p) \/ Quit(p) \/ QuitTimesOut(p)
    BY <2>3, OrderProcess DEF Pids, QuitTimesOut, Crash
  <2>4. CASE \E t \in Threads, j \in Jobs, q \in Quests \cup {NoQuest} : Request(t, j, q)
    BY <2>4, OrderRequest
  <2>5. CASE \E t \in Threads : Step(t) \/ AgentReturns(t)
    BY <2>5, OrderStep, TypeStep DEF OrderInv
  <2>6. CASE UNCHANGED vars
    BY <2>6
    DEF vars, dbVars, procVars, threadVars, OrderInv, OrderInTable, TypeOK, DbTypes, ProcTypes,
        ThreadTypes, DependenciesDone, CompletedRecorded, ListedReady, InHandReady
  <2> QED BY <2>1, <2>2, <2>3, <2>4, <2>5, <2>6 DEF Next
<1> QED BY <1>1, OrderInit, PTL DEF Spec, OrderInv, OrderInTable

-----------------------------------------------------------------------------
(* The guard of a server.                                                  *)

\* The inductive invariant.
GuardInv == TypeOK /\ GuardHeld /\ OneRunPerServer

\* It holds at first, and the life of a process keeps it: a killed server loses its
\* threads with its running set.
LEMMA GuardInit == Init => GuardInv
BY TypeInit DEF Init, GuardInv, GuardHeld, OneRunPerServer

\* The death of a server drops its running set together with its threads.
LEMMA GuardProcess ==
  ASSUME GuardInv, NEW p \in Pids,
         Boot(p) \/ Crash(p) \/ (p \in Tui /\ (Cancel(p) \/ Quit(p)))
  PROVE  GuardInv'
<1> USE DEF GuardInv, GuardHeld, OneRunPerServer
<1>1. TypeOK'
  BY TypeProcess
<1>2. CASE Boot(p)
  BY <1>1, <1>2 DEF Boot, threadVars
<1>3. CASE Crash(p)
  BY <1>1, <1>3 DEF Crash, Exit, Ended, TypeOK, ThreadTypes
<1>4. CASE p \in Tui /\ Cancel(p)
  BY <1>1, <1>4 DEF Cancel, threadVars
<1>5. CASE Quit(p)
  BY <1>1, <1>5 DEF Quit, threadVars
<1> QED BY <1>2, <1>3, <1>4, <1>5

\* A request is admitted only when no run holds the guard,
LEMMA GuardRequest ==
  ASSUME GuardInv, NEW t \in Threads, NEW j \in Jobs, NEW q \in Quests \cup {NoQuest},
         Request(t, j, q)
  PROVE  GuardInv'
<1>1. TypeOK'
  BY TypeRequest DEF GuardInv
<1>2. /\ \A u \in Threads : u # t => pc'[u] = pc[u] /\ job'[u] = job[u]
      /\ job'[t] = j /\ pc[t] = "idle" /\ busy \subseteq busy'
  BY DEF Request, GuardInv, TypeOK, ThreadTypes
<1>3. PidOf[t] \in Server /\ j = "run" => PidOf[t] \notin busy /\ PidOf[t] \in busy'
  BY DEF Request
<1> QED BY <1>1, <1>2, <1>3 DEF GuardInv, GuardHeld, OneRunPerServer

\* and a step gives it back only with the run that holds it.
LEMMA GuardStep ==
  ASSUME GuardInv, NEW t \in Threads, Step(t) \/ AgentReturns(t)
  PROVE  GuardInv'
<1> USE DEF GuardInv, GuardHeld, OneRunPerServer
<1>1. TypeOK' /\ pc[t] # "idle"
  BY TypeStep, StepEndsOrInner
<1>2. CASE Return(t)
  <2>1. /\ pc'[t] = "idle" /\ \A u \in Threads : u # t => pc'[u] = pc[u] /\ job'[u] = job[u]
        /\ busy' = IF PidOf[t] \in Server /\ job[t] = "run" THEN busy \ {PidOf[t]} ELSE busy
    BY <1>2 DEF Return, Ended, TypeOK, ThreadTypes
  <2> QED BY <1>1, <2>1
<1>3. CASE Inner(t)
  BY <1>1, <1>3 DEF Inner, procVars
<1> QED BY <1>2, <1>3, StepEndsOrInner

\* Two threads of a server never run the campaign at once, whatever other commands
\* they execute and however those end.
THEOREM ServerGuarded == Spec => []OneRunPerServer
<1>1. GuardInv /\ [Next]_vars => GuardInv'
  <2> SUFFICES ASSUME GuardInv, [Next]_vars PROVE GuardInv'
    OBVIOUS
  <2>1. CASE \E p \in Pids : Boot(p)
    BY <2>1, GuardProcess
  <2>2. CASE \E p \in Crashable : Crash(p)
    BY <2>2, GuardProcess, ProcessAssumption
  <2>3. CASE \E p \in Tui : Cancel(p) \/ Quit(p) \/ QuitTimesOut(p)
    BY <2>3, GuardProcess DEF Pids, QuitTimesOut, Crash
  <2>4. CASE \E t \in Threads, j \in Jobs, q \in Quests \cup {NoQuest} : Request(t, j, q)
    BY <2>4, GuardRequest
  <2>5. CASE \E t \in Threads : Step(t) \/ AgentReturns(t)
    BY <2>5, GuardStep
  <2>6. CASE UNCHANGED vars
    BY <2>6
    DEF vars, dbVars, procVars, threadVars, GuardInv, TypeOK, DbTypes, ProcTypes, ThreadTypes,
        GuardHeld, OneRunPerServer
  <2> QED BY <2>1, <2>2, <2>3, <2>4, <2>5, <2>6 DEF Next
<1> QED BY <1>1, GuardInit, PTL DEF Spec, GuardInv
-----------------------------------------------------------------------------
(* One process at a time: what a step of a thread leaves alone.            *)

\* The other threads, and what they have read.
Others(t) ==
  \A u \in Threads : u # t =>
    /\ pc'[u] = pc[u] /\ job'[u] = job[u] /\ rows'[u] = rows[u] /\ todo'[u] = todo[u]
    /\ cur'[u] = cur[u] /\ fires'[u] = fires[u] /\ report'[u] = report[u]

\* The command of t is over and forgotten.
Gone(t) ==
  /\ pc'[t] = "idle" /\ job'[t] = "look" /\ rows'[t] = {} /\ todo'[t] = {}
  /\ report'[t] = EmptyReport

\* A command that returns touches no other thread.
LEMMA ReturnGone ==
  ASSUME TypeOK, NEW t \in Threads, Return(t)
  PROVE  Others(t) /\ Gone(t)
BY DEF Return, Ended, Others, Gone, TypeOK, ThreadTypes

\* Nor does any other step.
LEMMA StepOthers ==
  ASSUME TypeOK, NEW t \in Threads, Step(t) \/ AgentReturns(t)
  PROVE  Others(t)
<1> USE DEF Others, TypeOK, ThreadTypes
<1>1. CASE Return(t)
  BY <1>1, ReturnGone
<1>2. CASE ListRunners(t) \/ RecoverRow(t) \/ SpareRow(t) \/ Opened(t) \/ Begin(t) \/ TakeReady(t)
           \/ Rescan(t) \/ Pick(t) \/ PickTerminal(t) \/ PrepareFails(t)
  BY <1>1, <1>2
  DEF ListRunners, RecoverRow, SpareRow, Opened, Begin, TakeReady, Rescan, Pick, PickTerminal, PrepareFails
<1>3. CASE Dispatch(t) \/ Reattach(t) \/ Wrapup(t) \/ Close(t) \/ SettleCancelled(t) \/ SettleAsks(t)
           \/ SettleDone(t) \/ SettleFails(t) \/ SettleErrs(t)
  BY <1>1, <1>3
  DEF Dispatch, Reattach, StartWorker, Wrapup, Close, SettleCancelled, SettleAsks, SettleDone, SettleFails,
      SettleErrs, Interrupt, Continue
<1>4. CASE NotWaiting(t) \/ TriageReads(t) \/ ResumeReads(t) \/ Notify(t) \/ FireRule(t) \/ FireDone(t)
           \/ WorkerReturns(t) \/ TriageCancelled(t) \/ TriageErrs(t) \/ TriageAsksUser(t) \/ TriageAnswers(t)
  BY <1>1, <1>4
  DEF NotWaiting, TriageReads, ResumeReads, ReadWaiting, Notify, FireRule, FireDone, WorkerReturns,
      TriageCancelled, TriageErrs, TriageAsksUser, TriageAnswers, Interrupt, Continue
<1> QED BY <1>2, <1>3, <1>4 DEF Step, AgentReturns

\* What a step of a thread does to the table of quests.
Settles(t) ==
  /\ pc[t] = "settle" /\ lease' = lease
  /\ \E s \in {"pending", "needs_input", "completed", "failed"} : status' = [status EXCEPT ![cur[t]] = s]

\* The steps that write the table of quests: recovery, a start, a settlement, a cancelled
\* triage, a rule that fires.
LEMMA StatusEffect ==
  ASSUME TypeOK, NEW t \in Threads, Step(t) \/ AgentReturns(t)
  PROVE  \/ UNCHANGED <<status, lease>>
         \/ RecoverRow(t)
         \/ pc[t] \in {"prepare", "reattach"} /\ StartWorker(t)
         \/ Settles(t)
         \/ TriageCancelled(t)
         \/ FireRule(t)
<1>1. CASE SettleCancelled(t) \/ SettleAsks(t) \/ SettleDone(t) \/ SettleFails(t) \/ SettleErrs(t)
  BY <1>1 DEF Settles, Settle, SettleCancelled, SettleAsks, SettleDone, SettleFails, SettleErrs
<1>2. CASE Dispatch(t) \/ Reattach(t)
  BY <1>2 DEF Dispatch, Reattach
<1>3. CASE ListRunners(t) \/ SpareRow(t) \/ Opened(t) \/ Begin(t) \/ TakeReady(t)
           \/ Rescan(t) \/ Pick(t) \/ PickTerminal(t) \/ PrepareFails(t) \/ Wrapup(t) \/ Close(t)
  BY <1>3
  DEF ListRunners, SpareRow, Opened, Begin, TakeReady, Rescan, Pick, PickTerminal, PrepareFails, Wrapup, Close,
      dbVars
<1>4. CASE NotWaiting(t) \/ TriageReads(t) \/ ResumeReads(t) \/ Notify(t) \/ FireDone(t)
           \/ WorkerReturns(t) \/ TriageErrs(t) \/ TriageAsksUser(t) \/ TriageAnswers(t)
  BY <1>4
  DEF NotWaiting, TriageReads, ResumeReads, ReadWaiting, Notify, FireDone, WorkerReturns, TriageErrs,
      TriageAsksUser, TriageAnswers, dbVars
<1> QED BY <1>1, <1>2, <1>3, <1>4 DEF Step, AgentReturns

-----------------------------------------------------------------------------
(* Recovery.                                                               *)

\* A process that boots finds no other.
LEMMA NoneLive ==
  ASSUME OneAtATime, OneLive, Cardinality(Live) < MaxLive
  PROVE  Live = {}
<1> SUFFICES ASSUME NEW p \in Live PROVE FALSE
  OBVIOUS
<1>1. Live = {p}
  BY DEF OneLive
<1>2. Cardinality(Live) = 1
  BY <1>1, FS_Singleton
<1> QED BY <1>2, ProcessAssumption DEF OneAtATime

\* Threads that are at something share their process.
LEMMA SameProcess ==
  ASSUME TypeOK, ThreadUp, OneLive, NEW t \in Threads, NEW u \in Threads, pc[t] # "idle",
         pc[u] # "idle"
  PROVE  PidOf[t] = PidOf[u] /\ (PidOf[t] \notin Server => t = u)
BY ProcessAssumption DEF ThreadUp, OneLive

\* Where a command may go.
LEMMA JobsStep ==
  ASSUME TypeOK, JobsMeant, NEW t \in Threads, Step(t) \/ AgentReturns(t)
  PROVE  JobsMeant'
<1> USE DEF TypeOK, ThreadTypes, AtWork
<1> SUFFICES /\ pc'[t] # "idle" => job'[t] \in Jobs
             /\ AtWork(t)' => job'[t] # "look"
             /\ pc'[t] \in {"begin", "snapshot", "pick", "prepare", "notify", "fire", "wrapup", "close"} =>
                  job'[t] = "run"
  BY StepOthers DEF Others, JobsMeant
<1>0. CASE Return(t)
  BY <1>0, ReturnGone DEF Gone
<1> USE DEF JobsMeant
<1>1. CASE ListRunners(t) \/ RecoverRow(t) \/ SpareRow(t) \/ Opened(t) \/ Begin(t) \/ TakeReady(t)
           \/ Rescan(t) \/ Pick(t) \/ PickTerminal(t) \/ PrepareFails(t)
  BY <1>0, <1>1
  DEF ListRunners, RecoverRow, SpareRow, Opened, Begin, TakeReady, Rescan, Pick, PickTerminal, PrepareFails
<1>2. CASE Dispatch(t) \/ Reattach(t) \/ Wrapup(t) \/ Close(t) \/ SettleCancelled(t) \/ SettleAsks(t)
           \/ SettleDone(t) \/ SettleFails(t) \/ SettleErrs(t)
  BY <1>0, <1>2
  DEF Dispatch, Reattach, StartWorker, Wrapup, Close, Settle, SettleCancelled, SettleAsks, SettleDone,
      SettleFails, SettleErrs, Interrupt, Continue
<1>3. CASE NotWaiting(t) \/ TriageReads(t) \/ ResumeReads(t) \/ Notify(t) \/ FireRule(t) \/ FireDone(t)
           \/ WorkerReturns(t) \/ TriageCancelled(t) \/ TriageErrs(t) \/ TriageAsksUser(t) \/ TriageAnswers(t)
  BY <1>0, <1>3
  DEF NotWaiting, TriageReads, ResumeReads, ReadWaiting, Notify, FireRule, FireDone, WorkerReturns,
      TriageCancelled, TriageErrs, TriageAsksUser, TriageAnswers, Interrupt, Continue
<1> QED BY <1>1, <1>2, <1>3 DEF Step, AgentReturns

\* A step of a process that starts is a step of its only command.
LEMMA StartsStep ==
  ASSUME TypeOK, StartsAlone, NEW t \in Threads, Step(t) \/ AgentReturns(t)
  PROVE  StartsAlone'
<1>1. pc[t] # "idle" /\ Others(t)
  BY StepOthers, StepEndsOrInner
<1>2. CASE Inner(t)
  BY <1>1, <1>2 DEF Inner, procVars, Others, StartsAlone
<1>3. CASE Return(t)
  <2>1. pc'[t] = "idle" /\ \A p \in Pids : proc'[p] = "starting" => proc[p] = "starting"
    BY <1>3, ReturnGone DEF Gone, Return, TypeOK, ProcTypes
  <2> QED BY <1>1, <2>1, ProcessAssumption DEF Others, StartsAlone
<1> QED BY <1>2, <1>3, StepEndsOrInner

\* A step makes no orphan, unless its process exits.
LEMMA OrphansShrink ==
  ASSUME TypeOK, ThreadUp, NEW t \in Threads, Step(t) \/ AgentReturns(t), Live' = Live
  PROVE  \A q \in Orphans' : q \in Orphans /\ lease'[q] = lease[q]
<1> USE DEF Orphans, RunnerAlive, TypeOK, DbTypes
<1>1. CASE UNCHANGED <<status, lease>>
  BY <1>1
<1>2. CASE RecoverRow(t)
  BY <1>2 DEF RecoverRow
<1>3. CASE pc[t] \in {"prepare", "reattach"} /\ StartWorker(t)
  BY <1>3 DEF StartWorker, ThreadUp
<1>4. CASE Settles(t)
  BY <1>4 DEF Settles
<1>5. CASE TriageCancelled(t)
  BY <1>5 DEF TriageCancelled
<1>6. CASE FireRule(t)
  BY <1>6 DEF FireRule
<1> QED BY <1>1, <1>2, <1>3, <1>4, <1>5, <1>6, StatusEffect

\* Outside of reconcile a step has no rows.
LEMMA RowsEmpty ==
  ASSUME TypeOK, RowsTrue, NEW t \in Threads, Step(t) \/ AgentReturns(t),
         ~ListRunners(t), ~RecoverRow(t), ~SpareRow(t)
  PROVE  rows'[t] = {} /\ pc'[t] # "reconcile"
<1> USE DEF TypeOK, ThreadTypes
<1>0. CASE Return(t)
  BY <1>0, ReturnGone DEF Gone
<1> USE DEF RowsTrue
<1>1. CASE Opened(t) \/ Begin(t) \/ TakeReady(t) \/ Rescan(t) \/ Pick(t) \/ PickTerminal(t) \/ PrepareFails(t)
  BY <1>0, <1>1 DEF Opened, Begin, TakeReady, Rescan, Pick, PickTerminal, PrepareFails
<1>2. CASE Dispatch(t) \/ Reattach(t) \/ Wrapup(t) \/ Close(t) \/ SettleCancelled(t) \/ SettleAsks(t)
           \/ SettleDone(t) \/ SettleFails(t) \/ SettleErrs(t)
  BY <1>0, <1>2
  DEF Dispatch, Reattach, StartWorker, Wrapup, Close, Settle, SettleCancelled, SettleAsks, SettleDone,
      SettleFails, SettleErrs, Interrupt, Continue
<1>3. CASE NotWaiting(t) \/ TriageReads(t) \/ ResumeReads(t) \/ Notify(t) \/ FireRule(t) \/ FireDone(t)
           \/ WorkerReturns(t) \/ TriageCancelled(t) \/ TriageErrs(t) \/ TriageAsksUser(t) \/ TriageAnswers(t)
  BY <1>0, <1>3
  DEF NotWaiting, TriageReads, ResumeReads, ReadWaiting, Notify, FireRule, FireDone, WorkerReturns,
      TriageCancelled, TriageErrs, TriageAsksUser, TriageAnswers, Interrupt, Continue
<1> QED BY <1>1, <1>2, <1>3 DEF Step, AgentReturns

\* At the start nothing is running.
LEMMA RecoverInit == Init => RecoverInv
<1> SUFFICES ASSUME Init PROVE RecoverInv
  OBVIOUS
<1>1. Live = {} /\ Orphans = {} /\ \A t \in Threads : pc[t] = "idle" /\ rows[t] = {}
  BY DEF Init, Live, Orphans
<1> QED
  BY <1>1, TypeInit DEF Init, RecoverInv, ThreadUp, OneLive, JobsMeant, AtWork, StartsAlone, UpClean, RowsComplete,
     RowsTrue

\* When every thread is idle, what recovery is about is the table alone.
AllIdle == \A t \in Threads : pc[t] = "idle" /\ rows[t] = {}

\* With every thread idle, only the table and the processes have to be looked at.
LEMMA IdleRecovers ==
  ASSUME TypeOK', AllIdle', OneLive', UpClean'
  PROVE  RecoverInv'
BY DEF AllIdle, RecoverInv, ThreadUp, JobsMeant, AtWork, StartsAlone, RowsComplete, RowsTrue

\* Processes come and go.
LEMMA RecoverProcess ==
  ASSUME OneAtATime, RecoverInv, NEW p \in Pids,
         Boot(p) \/ Crash(p) \/ (p \in Tui /\ (Cancel(p) \/ Quit(p)))
  PROVE  RecoverInv'
<1> USE DEF RecoverInv
<1>1. TypeOK'
  BY TypeProcess
<1>2. CASE Boot(p)
  <2>1. Live = {}
    BY <1>2, NoneLive DEF Boot
  <2>2. Live' \subseteq {p} /\ (p \in Tui \cup Server => proc'[p] = "starting")
    BY <1>2, <2>1, ProcessAssumption DEF Boot, Live, TypeOK, ProcTypes
  <2>3. AllIdle'
    BY <1>2, <2>1 DEF Boot, threadVars, AllIdle, ThreadUp, RowsTrue
  <2>4. UpClean'
    BY <2>2 DEF UpClean, Live, Pids
  <2> QED BY <1>1, <2>2, <2>3, <2>4, IdleRecovers DEF OneLive
<1>3. CASE Crash(p)
  <2>1. Live = {p} /\ Live' = {}
    BY <1>3 DEF Crash, Exit, OneLive, Live, TypeOK, ProcTypes
  <2>2. AllIdle'
    BY <1>3, <2>1 DEF Crash, Exit, Ended, AllIdle, ThreadUp, RowsTrue
  <2> QED BY <1>1, <2>1, <2>2, IdleRecovers DEF OneLive, UpClean, Live, Pids
<1>4. CASE p \in Tui /\ Cancel(p)
  <2>1. UNCHANGED <<dbVars, threadVars, proc>>
    BY <1>4 DEF Cancel
  <2>2. Live' = Live /\ Orphans' = Orphans
    BY <2>1 DEF Live, Orphans, RunnerAlive, dbVars
  <2> QED
    BY <1>1, <2>1, <2>2
    DEF dbVars, threadVars, ThreadUp, OneLive, JobsMeant, AtWork, StartsAlone, UpClean, RowsComplete, RowsTrue,
        RunnerAlive
<1>5. CASE Quit(p)
  <2>1. Live = {p} /\ Live' = {}
    BY <1>5 DEF Quit, OneLive, Live, TypeOK, ProcTypes
  <2>2. AllIdle'
    BY <1>5, <2>1 DEF Quit, AllIdle, ThreadUp, RowsTrue, threadVars
  <2> QED BY <1>1, <2>1, <2>2, IdleRecovers DEF OneLive, UpClean, Live, Pids
<1> QED BY <1>2, <1>3, <1>4, <1>5

\* A thread that gets a command has no rows, and while another has rows of the dead there
\* is no thread to get one.
LEMMA RecoverRequest ==
  ASSUME RecoverInv, NEW t \in Threads, NEW j \in Jobs, NEW q \in Quests \cup {NoQuest}, Request(t, j, q)
  PROVE  RecoverInv'
<1> USE DEF RecoverInv
<1>1. TypeOK'
  BY TypeRequest
<1>2. /\ pc[t] = "idle" /\ pc'[t] = "open" /\ job'[t] = j /\ PidOf[t] \in Live /\ rows' = rows
      /\ \A u \in Threads : u # t => pc'[u] = pc[u] /\ job'[u] = job[u]
      /\ UNCHANGED <<dbVars, proc>>
      /\ proc[PidOf[t]] = "starting" =>
           j = "look" /\ \A u \in Threads : PidOf[u] = PidOf[t] => pc[u] = "idle"
    BY ProcessAssumption DEF Request, TypeOK, ThreadTypes, Live
<1>3. Live' = Live /\ Orphans' = Orphans
  BY <1>2 DEF Live, Orphans, RunnerAlive, dbVars
<1>4. ThreadUp' /\ OneLive' /\ UpClean' /\ RowsComplete'
  BY <1>2, <1>3 DEF ThreadUp, OneLive, UpClean, RowsComplete, dbVars
<1>5. JobsMeant' /\ StartsAlone'
  BY <1>2 DEF JobsMeant, AtWork, StartsAlone
<1>6. ASSUME NEW u \in Threads, NEW r \in rows[u], ~RunnerAlive(r[2]) PROVE FALSE
  <2>1. pc[u] = "reconcile" /\ Orphans # {} /\ u # t
    BY <1>2, <1>6 DEF RowsTrue
  <2>2. PidOf[u] = PidOf[t]
    BY <1>2, <2>1 DEF ThreadUp, OneLive
  <2>3. PidOf[t] \in Server
    BY <2>1, <2>2, ProcessAssumption
  <2>4. proc[PidOf[t]] = "up"
    BY <1>2, <2>1, <2>2 DEF Live
  <2> QED BY <2>1, <2>3, <2>4 DEF UpClean
<1>7. RowsTrue'
  BY <1>2, <1>3, <1>6 DEF RowsTrue, RunnerAlive
<1> QED BY <1>1, <1>4, <1>5, <1>7

\* To list the runners finds orphans only for a thread that is alone.
LEMMA ListsAlone ==
  ASSUME RecoverInv, NEW t \in Threads, NEW u \in Threads, u # t, pc[t] # "idle", pc[u] # "idle"
  PROVE  Orphans = {}
<1> USE DEF RecoverInv
<1>1. PidOf[t] = PidOf[u] /\ PidOf[t] \in Server /\ PidOf[t] \in Live
  BY SameProcess DEF ThreadUp
<1>2. proc[PidOf[t]] # "starting"
  BY <1>1 DEF StartsAlone
<1> QED BY <1>1, <1>2 DEF Live, UpClean

\* When the only process exits with its command, every thread is idle.
LEMMA ExitsIdle ==
  ASSUME RecoverInv, NEW t \in Threads, Step(t) \/ AgentReturns(t), TypeOK', Live' # Live
  PROVE  RecoverInv'
<1> USE DEF RecoverInv
<1>1. Return(t) /\ pc[t] # "idle" /\ Live = {PidOf[t]}
  <2>1. Live' = Live \/ Return(t)
    BY StepEndsOrInner DEF Inner, procVars, Live
  <2> QED BY <2>1, StepEndsOrInner DEF ThreadUp, OneLive
<1>2. \A p \in Pids : p # PidOf[t] => proc'[p] = proc[p] /\ p \notin Live
  BY <1>1 DEF Return, TypeOK, ProcTypes
<1>3. Live' = {}
  BY <1>1, <1>2 DEF Live
<1>4. pc'[t] = "idle" /\ rows'[t] = {} /\ Others(t)
  BY <1>1, ReturnGone DEF Gone
<1>5. ASSUME NEW u \in Threads, u # t PROVE pc[u] = "idle" /\ rows[u] = {}
  <2>1. PidOf[t] \in Cli
    BY <1>1, <1>3, ProcessAssumption DEF Return, Live, TypeOK, ProcTypes, Pids
  <2>2. pc[u] = "idle"
    BY <1>1, <1>5, <2>1, SameProcess, ProcessAssumption
  <2> QED BY <2>2 DEF RowsTrue
<1>6. AllIdle'
  BY <1>4, <1>5 DEF AllIdle, Others
<1> QED BY <1>3, <1>6, IdleRecovers DEF OneLive, UpClean, Live, Pids

\* A step keeps the rows complete, and true of the dead.
LEMMA RowsStep ==
  ASSUME RecoverInv, NEW t \in Threads, Step(t) \/ AgentReturns(t), Live' = Live
  PROVE  RowsComplete' /\ RowsTrue'
<1> USE DEF RecoverInv
<1>1. \A q \in Orphans' : q \in Orphans /\ lease'[q] = lease[q]
  BY OrphansShrink
<1>2. pc[t] # "idle" /\ Others(t)
  BY StepOthers, StepEndsOrInner
<1>3. \A p : RunnerAlive(p)' <=> RunnerAlive(p)
  BY DEF RunnerAlive
<1>4. ASSUME NEW u \in Threads, u # t
      PROVE  /\ pc'[u] = "reconcile" => \A q \in Orphans' : <<q, lease'[q]>> \in rows'[u]
             /\ rows'[u] # {} => pc'[u] = "reconcile"
             /\ \A r \in rows'[u] : RunnerAlive(r[2])
  BY <1>1, <1>2, <1>4 DEF Others, RowsComplete, RowsTrue
<1>5. CASE ListRunners(t)
  <2>1. /\ rows'[t] = {<<q, lease[q]>> : q \in {r \in Quests : status[r] = "running"}}
        /\ pc'[t] = "reconcile" /\ UNCHANGED <<status, lease>>
    BY <1>5 DEF ListRunners, TypeOK, ThreadTypes, dbVars
  <2>2. Orphans' = Orphans
    BY <1>3, <2>1 DEF Orphans
  <2>3. \A q \in Orphans' : <<q, lease'[q]>> \in rows'[t]
    BY <2>1, <2>2 DEF Orphans
  <2>4. \A r \in rows'[t] : ~RunnerAlive(r[2]) => r[1] \in Orphans' /\ lease'[r[1]] = r[2]
    BY <2>1, <2>2 DEF Orphans
  <2>5. Orphans = {} \/ \A u \in Threads : u # t => pc'[u] = "idle"
    BY <1>2, ListsAlone DEF Others
  <2> QED BY <1>3, <1>4, <2>1, <2>2, <2>3, <2>4, <2>5 DEF RowsComplete, RowsTrue
<1>6. CASE RecoverRow(t)
  <2>1. PICK r \in rows[t] : /\ ~RunnerAlive(r[2]) /\ status' = [status EXCEPT ![r[1]] = "pending"]
                             /\ rows' = [rows EXCEPT ![t] = @ \ {r}]
    BY <1>6 DEF RecoverRow
  <2>2. /\ pc[t] = "reconcile" /\ UNCHANGED <<pc, lease>> /\ rows'[t] = rows[t] \ {r}
        /\ r = <<r[1], r[2]>> /\ r[1] \in Quests
    BY <1>6, <2>1 DEF RecoverRow, TypeOK, ThreadTypes
  <2>3. r[1] \in Orphans /\ lease[r[1]] = r[2] /\ \A u \in Threads : u # t => pc[u] = "idle"
    BY <2>1 DEF RowsTrue
  <2>4. Orphans' = Orphans \ {r[1]}
    BY <1>3, <2>1, <2>2 DEF Orphans, TypeOK, DbTypes
  <2>5. \A s \in rows[t] : s = <<s[1], s[2]>>
    BY DEF TypeOK, ThreadTypes
  <2>6. \A q \in Orphans' : <<q, lease'[q]>> \in rows'[t]
    BY <2>2, <2>4 DEF RowsComplete
  <2>7. \A s \in rows'[t] : ~RunnerAlive(s[2]) => s[1] \in Orphans' /\ lease'[s[1]] = s[2]
    BY <2>2, <2>3, <2>4, <2>5 DEF RowsTrue
  <2> QED BY <1>3, <1>4, <2>2, <2>3, <2>6, <2>7 DEF RowsComplete, RowsTrue
<1>7. CASE SpareRow(t)
  <2>1. PICK r \in rows[t] : RunnerAlive(r[2]) /\ rows' = [rows EXCEPT ![t] = @ \ {r}]
    BY <1>7 DEF SpareRow
  <2>2. /\ pc[t] = "reconcile" /\ UNCHANGED <<pc, status, lease>> /\ rows'[t] = rows[t] \ {r}
        /\ r = <<r[1], r[2]>>
    BY <1>7, <2>1 DEF SpareRow, TypeOK, ThreadTypes, dbVars
  <2>3. Orphans' = Orphans
    BY <1>3, <2>2 DEF Orphans
  <2>4. \A q \in Orphans' : <<q, lease'[q]>> \in rows'[t]
    BY <2>1, <2>2, <2>3 DEF RowsComplete, Orphans
  <2> QED BY <1>3, <1>4, <2>2, <2>3, <2>4 DEF RowsComplete, RowsTrue
<1>8. CASE ~ListRunners(t) /\ ~RecoverRow(t) /\ ~SpareRow(t)
  BY <1>3, <1>4, <1>8, RowsEmpty DEF RowsComplete, RowsTrue
<1> QED BY <1>5, <1>6, <1>7, <1>8

\* A TUI or server is up only after its first command has emptied the rows.
LEMMA UpStep ==
  ASSUME RecoverInv, NEW t \in Threads, Step(t) \/ AgentReturns(t), Live' = Live
  PROVE  UpClean'
<1> USE DEF RecoverInv
<1> SUFFICES ASSUME NEW p \in Tui \cup Server, proc'[p] = "up" PROVE Orphans' = {}
  BY DEF UpClean
<1>1. \A q \in Orphans' : q \in Orphans
  BY OrphansShrink
<1>2. CASE proc[p] = "up"
  BY <1>1, <1>2 DEF UpClean
<1>3. CASE proc[p] # "up"
  <2>1. Return(t) /\ p = PidOf[t] /\ proc[p] = "starting" /\ pc[t] # "idle"
    BY <1>3, StepEndsOrInner DEF Inner, procVars, Return, TypeOK, ProcTypes, Live, Pids
  <2>2. job[t] = "look" /\ pc[t] \in {"open", "reconcile"}
    BY <2>1 DEF StartsAlone, JobsMeant, AtWork
  <2>3. pc'[t] = "idle"
    BY <2>1, ReturnGone DEF Gone
  <2>4. pc[t] = "reconcile" /\ rows[t] = {}
    BY <2>2, <2>3
    DEF Step, AgentReturns, ListRunners, RecoverRow, SpareRow, Opened, Begin, TakeReady, Rescan, Pick, PickTerminal,
        PrepareFails, Dispatch, Reattach, StartWorker, Wrapup, Close, Settle, SettleCancelled, SettleAsks,
        SettleDone, SettleFails, SettleErrs, NotWaiting, TriageReads, ResumeReads, ReadWaiting, Notify, FireRule,
        FireDone, WorkerReturns, TriageCancelled, TriageErrs, TriageAsksUser, TriageAnswers, TypeOK, ThreadTypes
  <2>5. Orphans = {}
    BY <2>4 DEF RowsComplete
  <2> QED BY <1>1, <2>5
<1> QED BY <1>2, <1>3

\* A step of a thread: what recovery rests on survives it.
LEMMA RecoverStep ==
  ASSUME RecoverInv, NEW t \in Threads, Step(t) \/ AgentReturns(t)
  PROVE  RecoverInv'
<1>1. TypeOK' /\ ThreadUp' /\ Live' \subseteq Live
  BY TypeStep, StepFrame DEF RecoverInv, Frame
<1>2. CASE Live' = Live
  BY <1>1, <1>2, JobsStep, StartsStep, RowsStep, UpStep DEF RecoverInv, OneLive
<1>3. CASE Live' # Live
  BY <1>1, <1>3, ExitsIdle
<1> QED BY <1>2, <1>3

\* So it does every step.
LEMMA Recovers ==
  ASSUME OneAtATime
  PROVE  RecoverInv /\ [Next]_vars => RecoverInv'
<1> SUFFICES ASSUME RecoverInv, [Next]_vars PROVE RecoverInv'
  OBVIOUS
<1>1. CASE \E p \in Pids : Boot(p)
  BY <1>1, RecoverProcess
<1>2. CASE \E p \in Crashable : Crash(p)
  BY <1>2, RecoverProcess, ProcessAssumption
<1>3. CASE \E p \in Tui : Cancel(p) \/ Quit(p) \/ QuitTimesOut(p)
  BY <1>3, RecoverProcess DEF Pids, QuitTimesOut, Crash
<1>4. CASE \E t \in Threads, j \in Jobs, q \in Quests \cup {NoQuest} : Request(t, j, q)
  BY <1>4, RecoverRequest
<1>5. CASE \E t \in Threads : Step(t) \/ AgentReturns(t)
  BY <1>5, RecoverStep
<1>6. CASE UNCHANGED vars
  BY <1>6
  DEF vars, dbVars, procVars, threadVars, RecoverInv, TypeOK, DbTypes, ProcTypes, ThreadTypes, ThreadUp, OneLive,
      Live, JobsMeant, AtWork, StartsAlone, UpClean, RowsComplete, RowsTrue, Orphans, RunnerAlive
<1> QED BY <1>1, <1>2, <1>3, <1>4, <1>5, <1>6 DEF Next

\* Only a recovered row, or its thread's death, leaves the rows of a reconcile.
LEMMA RowsChange ==
  ASSUME RecoverInv, Next, NEW t \in Threads, pc[t] = "reconcile", rows'[t] # rows[t]
  PROVE  RecoverRow(t) \/ UNCHANGED status
<1> USE DEF RecoverInv
<1>1. CASE \E p \in Pids : Boot(p)
  BY <1>1 DEF Boot, dbVars
<1>2. CASE \E p \in Crashable : Crash(p)
  BY <1>2 DEF Crash, Exit, dbVars
<1>3. CASE \E p \in Tui : Cancel(p) \/ Quit(p) \/ QuitTimesOut(p)
  BY <1>3 DEF Cancel, Quit, QuitTimesOut, Exit, dbVars
<1>4. CASE \E u \in Threads, j \in Jobs, q \in Quests \cup {NoQuest} : Request(u, j, q)
  BY <1>4 DEF Request, dbVars
<1>5. ASSUME NEW u \in Threads, Step(u) \/ AgentReturns(u) PROVE RecoverRow(t) \/ UNCHANGED status
  <2>1. u = t
    BY <1>5, StepOthers DEF Others
  <2> QED BY <1>5, <2>1, StatusEffect DEF StartWorker, Settles, TriageCancelled, FireRule
<1> QED BY <1>1, <1>2, <1>3, <1>4, <1>5 DEF Next

\* The quest that a step of a reconcile takes back is an orphan.
LEMMA TakesOrphan ==
  ASSUME RecoverInv, Next, NEW t \in Threads, pc[t] = "reconcile", rows'[t] # rows[t],
         NEW q \in Quests, status'[q] # status[q]
  PROVE  status[q] = "running" /\ ~RunnerAlive(lease[q])
<1>1. RecoverRow(t)
  BY RowsChange
<1>2. PICK r \in rows[t] : ~RunnerAlive(r[2]) /\ status' = [status EXCEPT ![r[1]] = "pending"]
  BY <1>1 DEF RecoverRow
<1>3. q = r[1]
  BY <1>2 DEF RecoverInv, TypeOK, DbTypes
<1> QED BY <1>2, <1>3 DEF RecoverInv, RowsTrue, Orphans

\* As long as processes do not overlap, reconcile takes back what a dead process left and
\* nothing else, although it looks at each row only once (reconcile_interrupted_quests).
THEOREM ReconcilesTheDead ==
  ASSUME OneAtATime
  PROVE  Spec => ReconcileTakesOnlyDead
<1> DEFINE OnlyDead ==
      \A t \in Threads : pc[t] = "reconcile" /\ rows'[t] # rows[t] =>
        \A q \in Quests : status'[q] # status[q] => status[q] = "running" /\ ~RunnerAlive(lease[q])
<1>1. RecoverInv /\ [Next]_vars => [OnlyDead]_vars
  BY TakesOrphan
<1> QED BY <1>1, RecoverInit, Recovers, PTL DEF Spec, ReconcileTakesOnlyDead

\* So the safety principle of recover.rs, that living work is never touched, holds as long
\* as processes do not overlap; two that boot at once break it.
THEOREM LivingWorkSpared ==
  ASSUME OneAtATime
  PROVE  Spec => LiveWorkUntouched
<1> DEFINE Untouched ==
      \A t \in Threads : pc[t] = "reconcile" /\ rows'[t] # rows[t] =>
        \A q \in Quests : status'[q] # status[q] => ~(status[q] = "running" /\ RunnerAlive(lease[q]))
<1>1. RecoverInv /\ [Next]_vars => [Untouched]_vars
  BY TakesOrphan
<1> QED BY <1>1, RecoverInit, Recovers, PTL DEF Spec, LiveWorkUntouched

-----------------------------------------------------------------------------
(* What a thread knows of its quests stays so.                             *)

\* What SoloInv says of one thread.
Knows(t) == InHand(t) /\ Noted(t) /\ Unfired(t) /\ Drained(t) /\ Blank(t)

\* One thread is past open_ready, no more.
LEMMA SoleActor ==
  ASSUME Undisturbed, SoloInv, NEW t \in Threads, NEW u \in Threads, t # u, AtWork(t)
  PROVE  ~AtWork(u)
<1> SUFFICES ASSUME AtWork(u) PROVE FALSE
  OBVIOUS
<1>1. PidOf[t] = PidOf[u] /\ PidOf[t] \in Server
  BY SameProcess DEF SoloInv, RecoverInv, AtWork
<1>2. job[t] = "run" /\ job[u] = "run"
  BY <1>1 DEF SoloInv, RecoverInv, JobsMeant, AtWork, Undisturbed
<1> QED BY <1>1, <1>2 DEF SoloInv, OneRunPerServer, AtWork

\* A thread that is not past it knows nothing that could change.
LEMMA BlankKnows ==
  ASSUME NEW t \in Threads, pc'[t] \in {"idle", "open", "reconcile"}, todo'[t] = {}, report'[t] = EmptyReport
  PROVE  Knows(t)'
BY DEF Knows, InHand, Noted, Unfired, Drained, Blank, HasQuest, EmptyReport, AtWork

\* Nor does what a thread knows change when its own variables and the tables do not.
LEMMA SameKnows ==
  ASSUME NEW t \in Threads, Knows(t), UNCHANGED <<status, project, origin, mail>>,
         pc'[t] = pc[t], job'[t] = job[t], todo'[t] = todo[t], cur'[t] = cur[t], fires'[t] = fires[t],
         report'[t] = report[t]
  PROVE  Knows(t)'
BY DEF Knows, InHand, Noted, Unfired, Drained, Blank, ReadyInCampaign, Inserted, AtWork

\* A step before the end of open_ready changes the tables only to recover a row.
LEMMA OpeningStep ==
  ASSUME TypeOK, NEW t \in Threads, Step(t) \/ AgentReturns(t), ~AtWork(t)
  PROVE  \/ ListRunners(t) \/ RecoverRow(t) \/ SpareRow(t) \/ Opened(t)
BY DEF Step, AgentReturns, AtWork, Begin, TakeReady, Rescan, Pick, PickTerminal, PrepareFails, Dispatch, Reattach,
   StartWorker, Wrapup, Close, Settle, SettleCancelled, SettleAsks, SettleDone, SettleFails, SettleErrs, NotWaiting,
   TriageReads, ResumeReads, ReadWaiting, Notify, FireRule, FireDone, WorkerReturns, TriageCancelled, TriageErrs,
   TriageAsksUser, TriageAnswers, TypeOK, ThreadTypes

\* A step of one thread leaves what the others know.
LEMMA OthersKnow ==
  ASSUME Undisturbed, SoloInv, NEW t \in Threads, Step(t) \/ AgentReturns(t), NEW u \in Threads, u # t
  PROVE  Knows(u)'
<1>1. Others(t) /\ Knows(u)
  BY StepOthers DEF SoloInv, RecoverInv, Knows
<1>2. CASE ~AtWork(u)
  BY <1>1, <1>2, BlankKnows DEF Others, Knows, Blank, AtWork
<1>3. CASE AtWork(u)
  <2>1. ~AtWork(t)
    BY <1>3, SoleActor
  <2>2. ~RecoverRow(t)
    BY <1>3 DEF RecoverRow, SoloInv, RecoverInv, RowsTrue, AtWork
  <2>3. UNCHANGED dbVars
    BY <2>1, <2>2, OpeningStep DEF ListRunners, SpareRow, Opened, SoloInv, RecoverInv
  <2> QED BY <1>1, <2>3, SameKnows DEF Others, dbVars
<1> QED BY <1>2, <1>3

\* What a step of a thread makes of what the thread knows.
LEMMA OwnKnows ==
  ASSUME SoloInv, NEW t \in Threads, Step(t) \/ AgentReturns(t)
  PROVE  Knows(t)'
<1>0. TypeOK /\ JobsMeant /\ Knows(t)
  BY DEF SoloInv, RecoverInv, Knows
<1>1. CASE Return(t)
  BY <1>0, <1>1, ReturnGone, BlankKnows DEF Gone
<1> USE DEF Knows, InHand, Noted, Unfired, Drained, Blank, AtWork, HasQuest, TypeOK, ThreadTypes
<1>2. CASE ListRunners(t) \/ RecoverRow(t) \/ SpareRow(t)
  BY <1>0, <1>2, BlankKnows DEF ListRunners, RecoverRow, SpareRow
<1>3. CASE Opened(t)
  <2>1. CASE Return(t)
    BY <1>1, <2>1
  <2>2. CASE ~Return(t)
    <3>1. /\ pc'[t] \in {"begin", "resume", "triage"} /\ (pc'[t] = "begin" <=> job[t] = "run")
          /\ todo' = todo /\ report' = report /\ job' = job
      BY <1>0, <1>3, <2>2 DEF Opened
    <3>2. todo[t] = {} /\ report[t] = EmptyReport
      BY <1>0, <1>3 DEF Opened
    <3> QED BY <3>1, <3>2 DEF EmptyReport
  <2> QED BY <2>1, <2>2
<1>4. CASE Begin(t)
  BY <1>0, <1>4 DEF Begin, JobsMeant
<1>5. CASE TakeReady(t)
  BY <1>0, <1>5 DEF TakeReady, JobsMeant, ReadyInCampaign, Inserted, dbVars
<1>6. CASE Rescan(t)
  BY <1>0, <1>6 DEF Rescan, JobsMeant, dbVars
<1>7. CASE Pick(t)
  BY <1>0, <1>7 DEF Pick, IsNext, JobsMeant, dbVars
<1>8. CASE PickTerminal(t) \/ PrepareFails(t) \/ Close(t) \/ SettleErrs(t) \/ NotWaiting(t) \/ TriageErrs(t)
  BY <1>1, <1>8 DEF PickTerminal, PrepareFails, Close, SettleErrs, NotWaiting, TriageErrs
<1>9. CASE Dispatch(t) \/ Reattach(t)
  <2>1. /\ pc[t] \in {"prepare", "reattach"} /\ pc'[t] = "work"
        /\ status' = [status EXCEPT ![cur[t]] = "running"] /\ UNCHANGED <<mail, job, todo, cur, report>>
    BY <1>0, <1>9 DEF Dispatch, Reattach, StartWorker
  <2>2. cur[t] \in Quests /\ status'[cur[t]] = "running"
    BY <1>0, <2>1 DEF DbTypes
  <2>3. InHand(t)' /\ Noted(t)'
    BY <1>0, <2>1, <2>2 DEF DbTypes
  <2> QED BY <1>0, <2>1, <2>3
<1>10. CASE Wrapup(t)
  BY <1>0, <1>10 DEF Wrapup, JobsMeant, ReadyInCampaign, Inserted, Reports, dbVars
<1>11. CASE WorkerReturns(t)
  BY <1>0, <1>11 DEF WorkerReturns, dbVars
<1>12. CASE SettleCancelled(t) \/ TriageCancelled(t)
  <2>1. CASE Return(t)
    BY <1>1, <2>1
  <2>2. CASE ~Return(t)
    <3>1. /\ pc[t] \in {"settle", "triaging"} /\ pc'[t] = "wrapup" /\ job[t] = "run"
          /\ report' = [report EXCEPT ![t].interrupted = TRUE]
          /\ status' = [status EXCEPT ![cur[t]] = "pending"] /\ UNCHANGED <<mail, job, todo, cur>>
      BY <1>0, <1>12, <2>2 DEF SettleCancelled, TriageCancelled, Settle, Interrupt
    <3>2. /\ report'[t].interrupted /\ report'[t].asked = report[t].asked
          /\ report'[t].failed = report[t].failed
      BY <1>0, <3>1 DEF Reports
    <3>3. cur[t] \in Quests
      BY <1>0, <3>1
    <3>4. InHand(t)' /\ Noted(t)'
      BY <1>0, <3>1, <3>2, <3>3 DEF DbTypes
    <3> QED BY <1>0, <3>1, <3>2, <3>4
  <2> QED BY <2>1, <2>2
<1>13. CASE SettleAsks(t)
  BY <1>0, <1>1, <1>13 DEF SettleAsks, Settle, Continue, DbTypes
<1>14. CASE SettleDone(t)
  <2>1. CASE Return(t)
    BY <1>1, <2>1
  <2>2. CASE ~Return(t)
    <3>1. /\ pc[t] = "settle" /\ pc'[t] = "fire" /\ job[t] = "run"
          /\ status' = [status EXCEPT ![cur[t]] = "completed"]
          /\ UNCHANGED <<mail, origin, project, job, todo, cur, report>>
      BY <1>0, <1>14, <2>2 DEF SettleDone, Settle
    <3>2. cur[t] \in Quests /\ status[cur[t]] = "running"
      BY <1>0, <3>1
    <3>3. \A q \in Quests : origin[q] # cur[t]
      BY <3>2, QuestAssumption DEF SoloInv, OriginsCompleted
    <3>4. InHand(t)' /\ Noted(t)'
      BY <1>0, <3>1, <3>2 DEF DbTypes
    <3> QED BY <1>0, <3>1, <3>3, <3>4
  <2> QED BY <2>1, <2>2
<1>15. CASE SettleFails(t)
  <2>1. CASE Return(t)
    BY <1>1, <2>1
  <2>2. CASE ~Return(t)
    <3>1. /\ pc[t] = "settle" /\ pc'[t] = "pick" /\ job[t] = "run"
          /\ report' = [report EXCEPT ![t].failed = @ \cup {cur[t]}]
          /\ status' = [status EXCEPT ![cur[t]] = "failed"] /\ UNCHANGED <<mail, job, todo, cur>>
      BY <1>0, <1>15, <2>2 DEF SettleFails, Settle
    <3>2. report'[t].asked = report[t].asked /\ report'[t].failed = report[t].failed \cup {cur[t]}
      BY <1>0, <3>1 DEF Reports
    <3>3. cur[t] \in Quests
      BY <1>0, <3>1
    <3>4. InHand(t)' /\ Noted(t)'
      BY <1>0, <3>1, <3>2, <3>3 DEF DbTypes
    <3> QED BY <1>0, <3>1, <3>4
  <2> QED BY <2>1, <2>2
<1>16. CASE TriageReads(t) \/ ResumeReads(t)
  BY <1>0, <1>16 DEF TriageReads, ResumeReads, ReadWaiting, dbVars
<1>17. CASE Notify(t)
  BY <1>0, <1>17 DEF Notify, Reports, JobsMeant
<1>18. CASE FireRule(t)
  BY <1>0, <1>18 DEF FireRule, Inserted, JobsMeant, DbTypes
<1>19. CASE FireDone(t)
  BY <1>0, <1>19 DEF FireDone, JobsMeant, dbVars
<1>20. CASE TriageAsksUser(t) \/ TriageAnswers(t)
  BY <1>0, <1>1, <1>20 DEF TriageAsksUser, TriageAnswers, Continue, dbVars
<1> QED BY <1>2, <1>3, <1>4, <1>5, <1>6, <1>7, <1>8, <1>9, <1>10, <1>11, <1>12, <1>13, <1>14, <1>15, <1>16, <1>17,
           <1>18, <1>19, <1>20
  DEF Step, AgentReturns

\* How a step moves a quest: as the life of a quest allows.
LEMMA StepMoves ==
  ASSUME SoloInv, NEW t \in Threads, Step(t) \/ AgentReturns(t)
  PROVE  UNCHANGED status \/ Lifecycle!Next
<1> USE QuestAssumption
    DEF SoloInv, RecoverInv, TypeOK, DbTypes, Lifecycle!Next, Lifecycle!Insert, Lifecycle!Start, Lifecycle!Finish,
        Lifecycle!Interrupt, Lifecycle!Move
<1>0. pc[t] \in HasQuest => cur[t] \in Quests
  BY DEF ThreadTypes
<1>1. CASE RecoverRow(t)
  <2>1. PICK r \in rows[t] : ~RunnerAlive(r[2]) /\ status' = [status EXCEPT ![r[1]] = "pending"]
    BY <1>1 DEF RecoverRow
  <2>2. r[1] \in Quests /\ status[r[1]] = "running"
    BY <2>1 DEF RowsTrue, Orphans
  <2> QED BY <2>1, <2>2
<1>2. CASE pc[t] \in {"prepare", "reattach"} /\ StartWorker(t)
  BY <1>0, <1>2 DEF StartWorker, InHand, HasQuest
<1>3. CASE Settles(t)
  BY <1>0, <1>3 DEF Settles, InHand, HasQuest
<1>4. CASE TriageCancelled(t)
  BY <1>0, <1>4 DEF TriageCancelled, InHand, HasQuest
<1>5. CASE FireRule(t)
  BY <1>5 DEF FireRule, Inserted
<1> QED BY <1>1, <1>2, <1>3, <1>4, <1>5, StatusEffect

\* So what is completed stays completed, whoever takes the step.
LEMMA MovesKeep ==
  ASSUME TypeOK, UNCHANGED status \/ Lifecycle!Next, NEW q \in Quests, status[q] = "completed"
  PROVE  status'[q] = "completed"
BY DEF Lifecycle!Next, Lifecycle!Insert, Lifecycle!Start, Lifecycle!Finish, Lifecycle!Interrupt, Lifecycle!Move,
   TypeOK, DbTypes

\* A step records a completion with the status, and names an origin that is completed.
LEMMA StepRecords ==
  ASSUME SoloInv, NEW t \in Threads, Step(t) \/ AgentReturns(t)
  PROVE  CompletionsStay' /\ OriginsCompleted' /\ FollowUpOnce'
<1> USE DEF SoloInv, RecoverInv, TypeOK, DbTypes
<1>0. \A q \in Quests : status[q] = "completed" => status'[q] = "completed"
  BY StepMoves, MovesKeep
<1>1. CASE SettleDone(t)
  <2>1. cur[t] \in Quests
    BY <1>1 DEF SettleDone, Settle, ThreadTypes, HasQuest
  <2>2. /\ completions' = completions \cup {cur[t]} /\ status'[cur[t]] = "completed"
        /\ UNCHANGED <<origin, project>>
    BY <1>1, <2>1 DEF SettleDone, Settle
  <2> QED BY <1>0, <2>2, QuestAssumption DEF CompletionsStay, OriginsCompleted, FollowUpOnce
<1>2. CASE FireRule(t)
  <2>1. PICK p \in fires[t], q \in Quests \ Inserted :
          project' = [project EXCEPT ![q] = p] /\ origin' = [origin EXCEPT ![q] = cur[t]]
    BY <1>2 DEF FireRule
  <2>2. pc[t] = "fire" /\ cur[t] \in Quests /\ status[cur[t]] = "completed" /\ UNCHANGED completions
    BY <1>2 DEF FireRule, InHand, ThreadTypes, HasQuest
  <2>3. \A r \in Quests : origin[r] = cur[t] => project[r] # p
    BY <2>1, <2>2 DEF Unfired
  <2>4. FollowUpOnce'
    BY <2>1, <2>2, <2>3 DEF FollowUpOnce
  <2> QED BY <1>0, <2>1, <2>2, <2>4, QuestAssumption DEF CompletionsStay, OriginsCompleted
<1>3. CASE ~SettleDone(t) /\ ~FireRule(t)
  <2>1. UNCHANGED <<completions, origin, project>>
    BY <1>3
    DEF Step, AgentReturns, ListRunners, RecoverRow, SpareRow, Opened, Begin, TakeReady, Rescan, Pick, PickTerminal,
        PrepareFails, Dispatch, Reattach, StartWorker, Wrapup, Close, Settle, SettleCancelled, SettleAsks,
        SettleFails, SettleErrs, NotWaiting, TriageReads, ResumeReads, ReadWaiting, Notify,
        FireDone, WorkerReturns, TriageCancelled, TriageErrs, TriageAsksUser, TriageAnswers, dbVars
  <2> QED BY <1>0, <2>1, QuestAssumption DEF CompletionsStay, OriginsCompleted, FollowUpOnce
<1> QED BY <1>1, <1>2, <1>3

\* The parts that speak of the tables alone are kept when the tables are.
LEMMA TablesKept ==
  ASSUME SoloInv, UNCHANGED dbVars
  PROVE  CompletionsStay' /\ OriginsCompleted' /\ FollowUpOnce'
BY DEF SoloInv, dbVars, CompletionsStay, OriginsCompleted, FollowUpOnce

\* The first state of the campaign has all of it.
LEMMA SoloInit == Init => SoloInv
<1> SUFFICES ASSUME Init PROVE SoloInv
  OBVIOUS
<1>1. RecoverInv /\ GuardHeld /\ OneRunPerServer
  BY RecoverInit, GuardInit DEF GuardInv
<1>2. \A t \in Threads : InHand(t) /\ Noted(t) /\ Unfired(t) /\ Drained(t) /\ Blank(t)
  BY DEF Init, InHand, Noted, Unfired, Drained, Blank, HasQuest, EmptyReport, AtWork
<1> QED BY <1>1, <1>2, QuestAssumption DEF Init, SoloInv, CompletionsStay, OriginsCompleted, FollowUpOnce

\* Processes come and go: a thread that ends knows nothing, and the tables are kept.
LEMMA SoloProcess ==
  ASSUME OneAtATime, SoloInv, NEW p \in Pids, Boot(p) \/ Crash(p) \/ (p \in Tui /\ (Cancel(p) \/ Quit(p)))
  PROVE  SoloInv'
<1>1. RecoverInv' /\ GuardHeld' /\ OneRunPerServer'
  BY RecoverProcess, GuardProcess DEF SoloInv, RecoverInv, GuardInv
<1>2. UNCHANGED dbVars
  BY DEF Boot, Crash, Exit, Cancel, Quit
<1>3. ASSUME NEW t \in Threads PROVE Knows(t)'
  <2>1. CASE Crash(p) /\ PidOf[t] = p
    BY <2>1, BlankKnows DEF Crash, Exit, Ended, SoloInv, RecoverInv, TypeOK, ThreadTypes
  <2>2. CASE Crash(p) /\ PidOf[t] # p
    BY <1>2, <2>2, SameKnows DEF Crash, Exit, Ended, SoloInv, RecoverInv, TypeOK, ThreadTypes, Knows, dbVars
  <2>3. CASE ~Crash(p)
    BY <1>2, <2>3, SameKnows DEF Boot, Cancel, Quit, threadVars, SoloInv, Knows, dbVars
  <2> QED BY <2>1, <2>2, <2>3
<1> QED BY <1>1, <1>2, <1>3, TablesKept DEF SoloInv, Knows

\* A thread that gets a command knows nothing yet.
LEMMA SoloRequest ==
  ASSUME SoloInv, NEW t \in Threads, NEW j \in Jobs, NEW q \in Quests \cup {NoQuest}, Request(t, j, q)
  PROVE  SoloInv'
<1>1. RecoverInv' /\ GuardHeld' /\ OneRunPerServer'
  BY RecoverRequest, GuardRequest DEF SoloInv, RecoverInv, GuardInv
<1>2. UNCHANGED dbVars
  BY DEF Request
<1>3. Knows(t)'
  BY BlankKnows DEF Request, SoloInv, RecoverInv, TypeOK, ThreadTypes, Blank, AtWork
<1>4. ASSUME NEW u \in Threads, u # t PROVE Knows(u)'
  BY <1>2, <1>4, SameKnows DEF Request, SoloInv, RecoverInv, TypeOK, ThreadTypes, Knows, dbVars
<1> QED BY <1>1, <1>2, <1>3, <1>4, TablesKept DEF SoloInv, Knows

\* A step of a thread keeps what that thread knows and what the others know.
LEMMA SoloStep ==
  ASSUME Undisturbed, SoloInv, NEW t \in Threads, Step(t) \/ AgentReturns(t)
  PROVE  SoloInv'
<1>1. RecoverInv' /\ GuardHeld' /\ OneRunPerServer'
  BY RecoverStep, GuardStep DEF SoloInv, RecoverInv, GuardInv
<1> QED BY <1>1, OwnKnows, OthersKnow, StepRecords DEF SoloInv, Knows

\* Every step keeps it, ...
LEMMA SoloNext ==
  ASSUME Undisturbed
  PROVE  SoloInv /\ [Next]_vars => SoloInv'
<1> SUFFICES ASSUME SoloInv, [Next]_vars PROVE SoloInv'
  OBVIOUS
<1> USE DEF Undisturbed
<1>1. CASE \E p \in Pids : Boot(p)
  BY <1>1, SoloProcess
<1>2. CASE \E p \in Crashable : Crash(p)
  BY <1>2, SoloProcess, ProcessAssumption
<1>3. CASE \E p \in Tui : Cancel(p) \/ Quit(p) \/ QuitTimesOut(p)
  BY <1>3, SoloProcess DEF Pids, QuitTimesOut, Crash
<1>4. CASE \E t \in Threads, j \in Jobs, q \in Quests \cup {NoQuest} : Request(t, j, q)
  BY <1>4, SoloRequest
<1>5. CASE \E t \in Threads : Step(t) \/ AgentReturns(t)
  BY <1>5, SoloStep
<1>6. CASE UNCHANGED vars
  <2>1. RecoverInv'
    BY <1>6, Recovers DEF SoloInv
  <2>2. GuardHeld' /\ OneRunPerServer'
    BY <1>6 DEF vars, threadVars, procVars, SoloInv, GuardHeld, OneRunPerServer
  <2>3. \A t \in Threads : Knows(t)'
    BY <1>6, SameKnows DEF vars, dbVars, threadVars, SoloInv, Knows
  <2> QED BY <1>6, <2>1, <2>2, <2>3, TablesKept DEF vars, SoloInv, Knows
<1> QED BY <1>1, <1>2, <1>3, <1>4, <1>5, <1>6 DEF Next

\* ... so it always holds.
LEMMA SoloHolds ==
  ASSUME Undisturbed
  PROVE  Spec => []SoloInv
BY SoloInit, SoloNext, PTL DEF Spec

-----------------------------------------------------------------------------
(* The promises.                                                           *)

\* No two workers on one quest at once: they would share its worktree.
THEOREM OneWorker ==
  ASSUME Undisturbed
  PROVE  Spec => []SoleWorker
<1>1. SoloInv => SoleWorker
  BY SoleActor DEF SoleWorker, Works, AtWork
<1> QED BY <1>1, SoloHolds, PTL

\* While a quest is beyond pending its dependencies are completed, and stay so.
THEOREM OrderKept ==
  ASSUME Undisturbed
  PROVE  Spec => []DependencyOrder
<1>1. SoloInv /\ DependenciesDone => DependencyOrder
  BY DEF SoloInv, CompletionsStay, DependenciesDone, DependencyOrder
<1> QED BY <1>1, SoloHolds, DependenciesRespected, PTL

\* A rule fires at most once for a quest, whatever crashes.
THEOREM FollowedUpOnce ==
  ASSUME Undisturbed
  PROVE  Spec => []FollowUpOnce
<1>1. SoloInv => FollowUpOnce
  BY DEF SoloInv
<1> QED BY <1>1, SoloHolds, PTL

\* A run that was not interrupted closes only when nothing is left to dispatch.
THEOREM RunsDrain ==
  ASSUME Undisturbed
  PROVE  Spec => []RunDrains
<1>1. SoloInv => RunDrains
  BY DEF SoloInv, RunDrains, Drained
<1> QED BY <1>1, SoloHolds, PTL

\* What a run writes as the campaign's status is so, although it adds up what it has
\* seen of its quests since it began.
THEOREM HonestVerdict ==
  ASSUME Undisturbed
  PROVE  Spec => VerdictHonest
<1> DEFINE Honest == campaign' # campaign =>
             /\ campaign' = "needs_input" => \E q \in mail : status[q] = "needs_input"
             /\ campaign' = "failed" => \E q \in Quests : status[q] = "failed"
<1>1. SoloInv /\ [Next]_vars => [Honest]_vars
  <2> SUFFICES ASSUME SoloInv, Next, campaign' # campaign PROVE Honest
    OBVIOUS
  <2>1. PICK t \in Threads : Begin(t) \/ Close(t)
    BY DEF Next, Boot, Crash, Exit, Cancel, Quit, QuitTimesOut, Request, Step, AgentReturns, ListRunners, RecoverRow,
        SpareRow, Opened, TakeReady, Rescan, Pick, PickTerminal, PrepareFails, Dispatch, Reattach, StartWorker,
        Wrapup, Settle, SettleCancelled, SettleAsks, SettleDone, SettleFails, SettleErrs, NotWaiting, TriageReads,
        ResumeReads, ReadWaiting, Notify, FireRule, FireDone, WorkerReturns, TriageCancelled, TriageErrs,
        TriageAsksUser, TriageAnswers, dbVars
  <2>2. /\ campaign' = "needs_input" => report[t].asked # {}
        /\ campaign' = "failed" => report[t].failed # {}
    BY <2>1 DEF Begin, Close, Verdict
  <2>3. report[t].failed \subseteq Quests
    BY DEF SoloInv, RecoverInv, TypeOK, ThreadTypes, Reports
  <2> QED BY <2>2, <2>3 DEF SoloInv, Noted
<1> QED BY <1>1, SoloHolds, PTL DEF Spec, VerdictHonest

\* The campaign's quests refine the life of a quest: every step of every process maps to
\* a step of it, or to none.
THEOREM LivesOfQuests ==
  ASSUME Undisturbed
  PROVE  Spec => LifecycleSpec
<1>1. Init => Lifecycle!Init
  BY DEF Init, Lifecycle!Init
<1>2. SoloInv /\ [Next]_vars => [Lifecycle!Next]_status
  <2> SUFFICES ASSUME SoloInv, [Next]_vars, status' # status PROVE Lifecycle!Next
    OBVIOUS
  <2>1. PICK t \in Threads : Step(t) \/ AgentReturns(t)
    BY DEF Next, Boot, Crash, Exit, Cancel, Quit, QuitTimesOut, Request, vars, dbVars
  <2> QED BY <2>1, StepMoves
<1> QED BY <1>1, <1>2, SoloHolds, PTL DEF Spec, LifecycleSpec, Lifecycle!Spec
=============================================================================
