-------------------------- MODULE AgentCli_proofs --------------------------
(***************************************************************************)
(* Theorems about AgentCli and their proofs: for any set of pids and any   *)
(* number of runs.                                                         *)
(***************************************************************************)
EXTENDS AgentCli, TLAPS

\* The labels at which run_cli_streaming has a child that is not reaped ...
Reading == {"register", "registered", "read", "check", "clear", "drop"}
Unreaped == Reading \cup {"wait"}

\* ... and those before it has one.
Childless == {"start", "spawn"}

\* A run has a child from its spawn on, and the token keeps a pid only while it is read.
ChildInHand ==
  /\ worker \in Unreaped \cup {"join"} => child # NoPid
  /\ worker \in Childless => child = NoPid
  /\ child_pid # NoPid => worker \in {"registered", "read", "check", "clear"}

\* cancel() goes through its steps once.
CallerInStep ==
  /\ main = "idle" <=> ~cancelled
  /\ main = "idle" => ~hurt /\ ~late
  /\ main = "kill" => loaded \in Pids

\* A cancel() that comes late finds no pid, and no run is begun after it.
LateFindsNone ==
  late => /\ main # "kill" /\ child_pid = NoPid
          /\ worker \in {"drop", "wait", "join", "returned", "start"}

\* An agent that keeps its stdout open is read as long as it runs: the loop ends before
\* it only because of the token.
RunningIsRead ==
  ~rude /\ child # NoPid /\ os[child] = "run" =>
    /\ "child" \in stdout /\ worker \in Reading
    /\ worker = "check" => cancelled
    /\ worker = "clear" => was

\* What the token has killed goes on to be reported as cancelled.
SlainIsCancelled ==
  ~rude /\ slain =>
    /\ cancelled /\ worker \in Reading \cup {"returned"}
    /\ worker = "clear" => was
    /\ worker = "returned" => result = "cancelled"

IInv ==
  /\ TypeOK /\ ChildInHand /\ CallerInStep /\ LateFindsNone /\ RunningIsRead /\ SlainIsCancelled
  /\ CancelledLeavesNobody /\ LateCancelSpares

USE AgentCliAssumption

LEMMA InitIInv == Init => IInv
<1>1. 1 \in 1 .. MaxRuns
  OBVIOUS
<1> QED
  BY <1>1 DEF Init, IInv, TypeOK, ChildInHand, CallerInStep, LateFindsNone, RunningIsRead, SlainIsCancelled,
              CancelledLeavesNobody, LateCancelSpares, Reading, Unreaped, Childless

\* The system's steps start nothing and touch neither thread.
LEMMA SystemStep == IInv /\ System => IInv'
<1> SUFFICES ASSUME IInv, System PROVE IInv'
  OBVIOUS
<1> USE DEF IInv, TypeOK, ChildInHand, CallerInStep, LateFindsNone, RunningIsRead, SlainIsCancelled,
            CancelledLeavesNobody, LateCancelSpares, Reading, Unreaped, Childless,
            token, caller, run
<1>1. CASE ChildExits
  BY <1>1 DEF ChildExits
<1>2. CASE ChildCloses
  BY <1>2 DEF ChildCloses
<1>3. CASE KinStarts
  <2>1. /\ stdout \subseteq stdout' /\ stdout' \subseteq {"child", "kin"} /\ stderr' \subseteq {"child", "kin"}
        /\ kin' = kin \cup {child} /\ child # NoPid /\ os[child] = "run"
        /\ UNCHANGED <<rude, token, caller, worker, run, os, hurt, slain>>
    BY <1>3 DEF KinStarts
  <2>2. ~(worker = "returned" /\ result = "cancelled")
    BY <2>1
  <2> QED
    BY <2>1, <2>2
<1>4. CASE KinExits
  BY <1>4 DEF KinExits
<1>5. CASE PidReused
  BY <1>5 DEF PidReused
<1> QED
  BY <1>1, <1>2, <1>3, <1>4, <1>5 DEF System

\* The steps of cancel().
LEMMA MainStep == IInv /\ Main => IInv'
<1> SUFFICES ASSUME IInv, Main PROVE IInv'
  OBVIOUS
<1> USE DEF IInv, TypeOK, ChildInHand, CallerInStep, LateFindsNone, RunningIsRead, SlainIsCancelled,
            CancelledLeavesNobody, LateCancelSpares, Reading, Unreaped, Childless,
            token, run, system
<1>1. CASE SetFlag
  BY <1>1 DEF SetFlag
<1>2. CASE LoadChild
  BY <1>2 DEF LoadChild
<1>3. CASE KillChild
  <2>1. loaded \in Pids /\ ~late /\ cancelled
    BY <1>3 DEF KillChild
  <2>2. /\ os' \in [Pids -> {"free", "run", "exited", "stranger"}]
        /\ \A p \in Pids : os'[p] = "run" => os[p] = "run" /\ p # loaded
        /\ kin' \subseteq kin /\ hurt' \in BOOLEAN
        /\ stdout' \subseteq stdout /\ stderr' \subseteq stderr
        /\ child # loaded => stdout' = stdout
    BY <1>3, <2>1 DEF KillChild, KillGroup
  <2>3. slain' = (slain \/ (loaded = child /\ os[child] = "run")) /\ main = "kill" /\ main' = "done"
        /\ UNCHANGED <<rude, token, loaded, late, worker, run>>
    BY <1>3 DEF KillChild
  <2> QED
    BY <2>1, <2>2, <2>3
<1> QED
  BY <1>1, <1>2, <1>3 DEF Main

\* The steps of run_cli_streaming.
LEMMA WorkerStep == IInv /\ Worker => IInv'
<1> SUFFICES ASSUME IInv, Worker PROVE IInv'
  OBVIOUS
<1> USE DEF IInv, TypeOK, ChildInHand, CallerInStep, LateFindsNone, RunningIsRead, SlainIsCancelled,
            CancelledLeavesNobody, LateCancelSpares, Reading, Unreaped, Childless,
            token, caller, run, system, Returns
<1>1. CASE Start
  BY <1>1 DEF Start
<1>2. CASE SpawnFails
  BY <1>2 DEF SpawnFails
<1>3. CASE Spawn
  BY <1>3 DEF Spawn
<1>4. CASE Register
  BY <1>4 DEF Register
<1>5. CASE RegisterChecks
  BY <1>5 DEF RegisterChecks, KillGroup
<1>6. CASE ReadLine
  <2>1. \A l \in {"ok", "err", "ask"} : Folded(l) \subseteq {"ok", "err", "ask"}
    BY DEF Folded
  <2>2. seen' \subseteq {"ok", "err", "ask"}
    BY <1>6, <2>1 DEF ReadLine
  <2>3. /\ UNCHANGED <<rude, token, caller, runs, child, was, result, system>> /\ worker = "read"
        /\ IF cancelled THEN worker' = "check" ELSE worker' = worker
    BY <1>6, Zenon DEF ReadLine
  <2> QED
    BY <2>2, <2>3
<1>7. CASE ReadEnds
  BY <1>7 DEF ReadEnds
<1>8. CASE Check
  BY <1>8 DEF Check
<1>9. CASE Clear
  BY <1>9 DEF Clear
<1>10. CASE Drop
  BY <1>10 DEF Drop
<1>11. CASE Wait
  BY <1>11 DEF Wait
<1>12. CASE Join
  BY <1>12 DEF Join
<1>13. CASE NextRun
  <2>1. runs' \in 1 .. MaxRuns
    BY <1>13 DEF NextRun
  <2>2. worker = "returned" /\ result # "cancelled" /\ child_pid' = NoPid /\ (late => child_pid = NoPid)
    BY <1>13 DEF NextRun
  <2> QED
    BY <1>13, <2>1, <2>2 DEF NextRun
<1> QED
  BY <1>1, <1>2, <1>3, <1>4, <1>5, <1>6, <1>7, <1>8, <1>9, <1>10, <1>11, <1>12, <1>13 DEF Worker

LEMMA Inductive == Spec => []IInv
<1>1. IInv /\ UNCHANGED vars => IInv'
  BY DEF IInv, TypeOK, ChildInHand, CallerInStep, LateFindsNone, RunningIsRead, SlainIsCancelled,
         CancelledLeavesNobody, LateCancelSpares, vars, token, caller, run, system
<1>2. IInv /\ [Next]_vars => IInv'
  BY <1>1, SystemStep, MainStep, WorkerStep DEF Next
<1> QED
  BY <1>2, InitIInv, PTL DEF Spec

\* Every variable stays within its type; in particular, the token never keeps the pid of an
\* earlier run (clear_child).
THEOREM TypeCorrect == Spec => []TypeOK
<1>1. IInv => TypeOK
  BY DEF IInv
<1> QED
  BY <1>1, Inductive, PTL

\* A run that reports a cancellation leaves neither its CLI nor a grandchild of it behind
\* (ChildGuard, run_cli_streaming).
THEOREM NobodyLeft == Spec => []CancelledLeavesNobody
<1>1. IInv => CancelledLeavesNobody
  BY DEF IInv
<1> QED
  BY <1>1, Inductive, PTL

\* A CLI the token killed is reported as cancelled, if agents keep stdout open until they
\* exit (run_cli_streaming).
THEOREM SlainReported == Spec => []KilledIsCancelled
<1>1. IInv => KilledIsCancelled
  BY DEF IInv, SlainIsCancelled, KilledIsCancelled, TypeOK
<1> QED
  BY <1>1, Inductive, PTL

\* A cancel() that is called after clear_child kills no stranger (cancel).
THEOREM StrangersSpared == Spec => []LateCancelSpares
<1>1. IInv => LateCancelSpares
  BY DEF IInv
<1> QED
  BY <1>1, Inductive, PTL
=============================================================================
