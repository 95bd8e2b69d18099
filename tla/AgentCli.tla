------------------------------ MODULE AgentCli ------------------------------
(***************************************************************************)
(* run_cli_streaming with the CancelToken of the TUI: one worker thread    *)
(* runs agent CLIs one after the other, the main thread may cancel at any  *)
(* time, and the operating system gives a reaped pid to strangers.         *)
(*                                                                         *)
(* A step is one access to the token or one system call.  SIGKILL takes    *)
(* effect at once.  A CLI may leave a grandchild in its process group      *)
(* (an MCP server), which holds those of the pipes that it was given.      *)
(*                                                                         *)
(* Abstracted: the text of the lines; the exit code and stderr, which only *)
(* word the summary; the CLI's working directory.                          *)
(***************************************************************************)
EXTENDS Naturals, FiniteSets

CONSTANTS
  Pids,      \* pids the system hands out
  MaxRuns,   \* bound: CLI runs of the command
  NoPid      \* 0 in child_pid

ASSUME AgentCliAssumption ==
  NoPid \notin Pids /\ MaxRuns \in Nat \ {0}

VARIABLES
  rude,      \* agents may close stdout before they exit, or print garbage
  cancelled, child_pid,   \* the CancelToken
  main,      \* the thread that calls cancel()
  loaded,    \* the pid it has read
  late,      \* it was called after clear_child of the run in hand
  worker,    \* where run_cli_streaming is
  runs,      \* runs begun
  child,     \* pid of the run's CLI, NoPid before spawn
  seen,      \* what the lines folded so far: a subset of {"ok", "err", "ask"}
  was,       \* the worker's local: cancelled at the end of the stream
  result,    \* how settle_outcome reads what the run returned
  os,        \* each pid: free, run, exited (not reaped) or stranger
  kin,       \* pids whose process group has a living grandchild
  stdout, stderr,  \* who holds the write end: a subset of {"child", "kin"}
  hurt,      \* a stranger was killed
  slain      \* the run's CLI was killed by the token while it ran

token  == <<cancelled, child_pid>>
caller == <<main, loaded, late>>
run    == <<runs, child, seen, was, result>>
system == <<os, kin, stdout, stderr, hurt, slain>>
vars   == <<rude, token, caller, worker, run, system>>

Init ==
  /\ rude \in BOOLEAN
  /\ cancelled = FALSE /\ child_pid = NoPid
  /\ main = "idle" /\ loaded = NoPid /\ late = FALSE
  /\ worker = "start" /\ runs = 1 /\ child = NoPid
  /\ seen = {} /\ was = FALSE /\ result = "none"
  /\ os = [p \in Pids |-> "free"] /\ kin = {}
  /\ stdout = {} /\ stderr = {} /\ hurt = FALSE /\ slain = FALSE

-----------------------------------------------------------------------------
(* The system.                                                             *)

\* kill(-p), then kill(p): the group of the child, or whoever has p by now.
KillGroup(p) ==
  /\ os' = [os EXCEPT ![p] = IF @ = "run" THEN "exited" ELSE IF @ = "stranger" THEN "free" ELSE @]
  /\ kin' = kin \ {p}
  /\ hurt' = (hurt \/ os[p] = "stranger")
  /\ stdout' = IF p = child THEN {} ELSE stdout
  /\ stderr' = IF p = child THEN {} ELSE stderr

\* A CLI ends by itself, ...
ChildExits ==
  /\ child # NoPid /\ os[child] = "run"
  /\ os' = [os EXCEPT ![child] = "exited"]
  /\ stdout' = stdout \ {"child"} /\ stderr' = stderr \ {"child"}
  /\ UNCHANGED <<rude, token, caller, worker, run, kin, hurt, slain>>

\* ... or closes its stdout and goes on.
ChildCloses ==
  /\ rude /\ child # NoPid /\ os[child] = "run" /\ "child" \in stdout
  /\ stdout' = stdout \ {"child"}
  /\ UNCHANGED <<rude, token, caller, worker, run, os, kin, stderr, hurt, slain>>

\* It starts a grandchild, which inherits each of the pipes its parent still holds, or
\* not: a server that talks over pipes of its own often keeps stderr only.
KinStarts ==
  /\ child # NoPid /\ os[child] = "run" /\ child \notin kin
  /\ kin' = kin \cup {child}
  /\ \E out, err \in {{}, {"kin"}} :
       /\ "child" \in stdout \/ out = {}
       /\ stdout' = stdout \cup out /\ stderr' = stderr \cup err
  /\ UNCHANGED <<rude, token, caller, worker, run, os, hurt, slain>>

KinExits ==
  /\ \E p \in kin :
       /\ kin' = kin \ {p}
       /\ stdout' = IF p = child THEN stdout \ {"kin"} ELSE stdout
       /\ stderr' = IF p = child THEN stderr \ {"kin"} ELSE stderr
  /\ UNCHANGED <<rude, token, caller, worker, run, os, hurt, slain>>

\* A pid that is reaped, and no longer a process group, is used again.
PidReused ==
  /\ \E p \in Pids \ kin : os[p] = "free" /\ os' = [os EXCEPT ![p] = "stranger"]
  /\ UNCHANGED <<rude, token, caller, worker, run, kin, stdout, stderr, hurt, slain>>

-----------------------------------------------------------------------------
(* cancel().                                                               *)

SetFlag ==
  /\ main = "idle"
  /\ cancelled' = TRUE
  /\ late' = (worker \in {"drop", "wait", "join", "returned", "start"})
  /\ main' = "load"
  /\ UNCHANGED <<rude, child_pid, loaded, worker, run, system>>

LoadChild ==
  /\ main = "load"
  /\ loaded' = child_pid
  /\ main' = IF child_pid = NoPid THEN "done" ELSE "kill"
  /\ UNCHANGED <<rude, token, late, worker, run, system>>

KillChild ==
  /\ main = "kill"
  /\ KillGroup(loaded)
  /\ slain' = (slain \/ (loaded = child /\ os[loaded] = "run"))
  /\ main' = "done"
  /\ UNCHANGED <<rude, token, loaded, late, worker, run>>

-----------------------------------------------------------------------------
(* run_cli_streaming.                                                      *)

\* A run that ends here, with what settle_outcome will make of it.
Returns(r) == worker' = "returned" /\ result' = r

\* Nothing is started once the token is cancelled.
Start ==
  /\ worker = "start"
  /\ IF cancelled THEN Returns("cancelled") ELSE worker' = "spawn" /\ UNCHANGED result
  /\ UNCHANGED <<rude, token, caller, runs, child, seen, was, system>>

\* The worktree is gone, or the CLI is not installed.
SpawnFails ==
  /\ worker = "spawn" /\ Returns("errs")
  /\ UNCHANGED <<rude, token, caller, runs, child, seen, was, system>>

Spawn ==
  /\ worker = "spawn"
  /\ \E p \in Pids \ kin :
       /\ os[p] = "free"
       /\ os' = [os EXCEPT ![p] = "run"]
       /\ child' = p
  /\ stdout' = {"child"} /\ stderr' = {"child"}
  /\ worker' = "register"
  /\ UNCHANGED <<rude, token, caller, runs, seen, was, result, kin, hurt, slain>>

\* register_child: store, ...
Register ==
  /\ worker = "register"
  /\ child_pid' = child
  /\ worker' = "registered"
  /\ UNCHANGED <<rude, cancelled, caller, run, system>>

\* Bug: the flag is not looked at again.
RegisterForgets ==
  /\ worker = "registered" /\ worker' = "read"
  /\ UNCHANGED <<rude, token, caller, run, system>>

\* ... then look at the flag, which may have been set before the store.
RegisterChecks ==
  /\ worker = "registered"
  /\ IF cancelled
     THEN KillGroup(child) /\ slain' = (slain \/ os[child] = "run")
     ELSE UNCHANGED system
  /\ worker' = "read"
  /\ UNCHANGED <<rude, token, caller, run>>

\* fold_outcome: the last result counts, an escalation stays.
Folded(l) == IF l = "ask" THEN seen \cup {"ask"} ELSE (seen \ {"ok", "err"}) \cup {l}

\* A line: the loop ends if the token is cancelled by now.
ReadLine ==
  /\ worker = "read" /\ "child" \in stdout
  /\ IF cancelled
     THEN worker' = "check" /\ UNCHANGED seen
     ELSE /\ \E l \in {"ok", "err", "ask"} : seen' = Folded(l)
          /\ UNCHANGED worker
  /\ UNCHANGED <<rude, token, caller, runs, child, was, result, system>>

\* The end of the stream, or a line that is not UTF-8.
ReadEnds ==
  /\ worker = "read"
  /\ stdout = {} \/ (rude /\ "child" \in stdout)
  /\ worker' = "check"
  /\ UNCHANGED <<rude, token, caller, run, system>>

\* Bug: only a run that was broken off between lines counts as cancelled.
CheckForgets ==
  /\ worker = "check" /\ worker' = "clear"
  /\ UNCHANGED <<rude, token, caller, run, system>>

Check ==
  /\ worker = "check"
  /\ was' = cancelled
  /\ worker' = "clear"
  /\ UNCHANGED <<rude, token, caller, runs, child, seen, result, system>>

\* Bug: the pid stays registered.
ClearKeeps ==
  /\ worker = "clear"
  /\ worker' = IF was THEN "drop" ELSE "wait"
  /\ UNCHANGED <<rude, token, caller, run, system>>

\* clear_child.
Clear ==
  /\ worker = "clear"
  /\ child_pid' = NoPid
  /\ worker' = IF was THEN "drop" ELSE "wait"
  /\ UNCHANGED <<rude, cancelled, caller, run, system>>

\* Bug: only the child is killed, not its group.
DropChildOnly ==
  /\ worker = "drop"
  /\ os' = [os EXCEPT ![child] = "free"]
  /\ Returns("cancelled")
  /\ UNCHANGED <<rude, token, caller, runs, child, seen, was, kin, stdout, stderr, hurt, slain>>

\* ChildGuard: the group is killed and the child reaped.
Drop ==
  /\ worker = "drop"
  /\ os' = [os EXCEPT ![child] = "free"]
  /\ kin' = kin \ {child}
  /\ stdout' = {} /\ stderr' = {}
  /\ Returns("cancelled")
  /\ UNCHANGED <<rude, token, caller, runs, child, seen, was, hurt, slain>>

Wait ==
  /\ worker = "wait" /\ os[child] = "exited"
  /\ os' = [os EXCEPT ![child] = "free"]
  /\ worker' = "join"
  /\ UNCHANGED <<rude, token, caller, run, kin, stdout, stderr, hurt, slain>>

\* The stderr thread ends with the last holder of the pipe; finalize_outcome, and
\* the order in which settle_outcome looks at it.
Join ==
  /\ worker = "join" /\ stderr = {}
  /\ Returns(IF "ask" \in seen THEN "asks" ELSE IF "ok" \in seen THEN "done" ELSE "fails")
  /\ UNCHANGED <<rude, token, caller, runs, child, seen, was, system>>

\* The command runs its next CLI (a triage, a resume, the next quest).
NextRun ==
  /\ worker = "returned" /\ result \notin {"cancelled", "errs"} /\ runs < MaxRuns
  /\ runs' = runs + 1
  /\ worker' = "start" /\ child' = NoPid /\ seen' = {} /\ was' = FALSE /\ result' = "none"
  /\ slain' = FALSE /\ stdout' = {}
  /\ UNCHANGED <<rude, token, caller, os, kin, stderr, hurt>>

-----------------------------------------------------------------------------

Worker ==
  \/ Start \/ SpawnFails \/ Spawn \/ Register \/ RegisterChecks \/ ReadLine \/ ReadEnds
  \/ Check \/ Clear \/ Drop \/ Wait \/ Join \/ NextRun
Main   == SetFlag \/ LoadChild \/ KillChild
System == ChildExits \/ ChildCloses \/ KinStarts \/ KinExits \/ PidReused

Next == Worker \/ Main \/ System

Spec == Init /\ [][Next]_vars

\* luida's threads do not stop; agents may run, and grandchildren live, for ever.
FairSpec == Spec /\ WF_vars(Worker) /\ WF_vars(LoadChild \/ KillChild)

-----------------------------------------------------------------------------
(* Properties.                                                             *)

\* Every variable stays within its type, and the token never keeps the pid of an
\* earlier run.
TypeOK ==
  /\ rude \in BOOLEAN /\ cancelled \in BOOLEAN /\ child_pid \in {child, NoPid}
  /\ main \in {"idle", "load", "kill", "done"} /\ loaded \in Pids \cup {NoPid}
  /\ late \in BOOLEAN
  /\ worker \in {"start", "spawn", "register", "registered", "read", "check", "clear", "drop",
                 "wait", "join", "returned"}
  /\ runs \in 1 .. MaxRuns /\ child \in Pids \cup {NoPid}
  /\ seen \subseteq {"ok", "err", "ask"} /\ was \in BOOLEAN
  /\ result \in {"none", "cancelled", "errs", "asks", "done", "fails"}
  /\ os \in [Pids -> {"free", "run", "exited", "stranger"}] /\ kin \subseteq Pids
  /\ stdout \subseteq {"child", "kin"} /\ stderr \subseteq {"child", "kin"}
  /\ hurt \in BOOLEAN /\ slain \in BOOLEAN

\* A run that reports a cancellation leaves neither its CLI nor a grandchild of it
\* behind, whatever the other thread had time to kill.
CancelledLeavesNobody ==
  worker = "returned" /\ result = "cancelled" /\ child # NoPid =>
    os[child] # "run" /\ child \notin kin

\* A CLI the token killed is reported as cancelled, so that its quest is interrupted
\* and not failed (cancel.rs), as long as agents keep stdout open until they exit.
KilledIsCancelled == worker = "returned" /\ slain /\ ~rude => result = "cancelled"

\* A cancel() that is called after clear_child kills no stranger that got the pid.
LateCancelSpares == ~(late /\ hurt)

\* Only a grandchild that kept stderr, but not stdout, is waited for, by a run whose
\* agent has exited and whose pid cancel() no longer finds.
HeldByStderr == worker = "join" /\ ~was /\ os[child] # "run" /\ stdout = {} /\ stderr = {"kin"}

\* After cancel() the command stops, even if the agent would have run for ever, as
\* long as it keeps stdout open until it exits; unless the cancel came after the end
\* of the stream and a grandchild holds stderr alone: the join of the stderr thread
\* has no way out (run_cli_streaming).
CancelStops == main = "done" /\ ~rude ~> worker = "returned" \/ HeldByStderr

\* After cancel() the CLI is gone: "the child has been killed by cancel(), so no orphan
\* remains even if the worker does not end" (run_loop of the TUI).
CancelKills == main = "done" ~> child = NoPid \/ os[child] # "run"
=============================================================================
