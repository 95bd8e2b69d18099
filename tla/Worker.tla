------------------------------- MODULE Worker -------------------------------
(***************************************************************************)
(* One quest's way through the processes that work on it: open_ready       *)
(* (migrate, reconcile, agents.json), the runtime and model resolve picks, *)
(* the worktree and the CLI session it gets, the lines its agent prints,   *)
(* and what settle_outcome makes of them.                                  *)
(*                                                                         *)
(* Processes migrate at once, and work on the quest one at a time: what    *)
(* happens when two do is CampaignRun's.  A process may be killed at any   *)
(* point, the user may edit agents.json and remove worktrees.  Of the      *)
(* agent there is what the program knows of it: claude keeps sessions,     *)
(* and ends without a result when it is told to resume one it has not or   *)
(* to begin one it has; codex keeps none.                                  *)
(*                                                                         *)
(* Abstracted: prompts, briefs and answers, the wording of lines, tool     *)
(* use and progress, model names but for where they come from, the mode of *)
(* an action, which no runtime reads.                                      *)
(***************************************************************************)
EXTENDS Migrate

CONSTANTS
  Configs,    \* what agents.json may hold, valid or not
  Lines,      \* kinds of lines an agent may print, a subset of LineKinds
  MaxLines,   \* bound: lines of one agent
  MaxStarts,  \* bound: workers started
  None

TIERS == {"complex", "simple"}

\* default_config, as far as quest.execute is concerned.
DefaultConfig ==
  [runtime |-> "claude", tier |-> "simple",
   runtimes |-> [claude |-> [kind |-> "claude-cli", enabled |-> TRUE],
                 codex |-> [kind |-> "codex-cli", enabled |-> TRUE]],
   action |-> [runtime |-> "claude", tier |-> "simple", model |-> None],
   override |-> [runtime |-> None, tier |-> None, model |-> None]]

LineKinds == {"ask", "ask more", "half an ask", "text", "ok", "bad", "error"}

\* AgentsConfig, as far as quest.execute and the quest's project are concerned: a layer
\* sets what it does not leave None.
IsLayer(l) == DOMAIN l = {"runtime", "tier", "model"}

IsAgentsConfig(c) ==
  /\ DOMAIN c = {"runtime", "tier", "runtimes", "action", "override"}
  /\ \A r \in DOMAIN c.runtimes : DOMAIN c.runtimes[r] = {"kind", "enabled"} /\ c.runtimes[r].enabled \in BOOLEAN
  /\ IsLayer(c.action) /\ IsLayer(c.override)

ASSUME WorkerAssumption ==
  /\ Lines \subseteq LineKinds /\ MaxLines \in Nat /\ MaxStarts \in Nat
  /\ DefaultConfig \in Configs /\ \A c \in Configs : IsAgentsConfig(c)
  /\ None \notin Configs /\ None \notin {"ask", "ask more"}

VARIABLES
  agents_json,  \* None when there is no such file
  cfg,          \* what each process has loaded, None before
  status,       \* quests.status
  path,         \* whether worktree_path is set
  dir,          \* whether the worktree is on disk
  removed,      \* whether one was ever removed by the user
  session,      \* whether claude has the quest's session
  worker,       \* the worker in progress
  question,     \* of the last quest_needs_input event
  starts

repo    == <<status, path, question>>
outside == <<dir, removed, session>>
work    == <<cfg, repo, outside, worker, starts>>
vars    == <<migration, agents_json, work>>

NoOutcome == [saw_result |-> FALSE, success |-> FALSE, escalation |-> None]

Idle == [pc |-> "idle", by |-> None, agent |-> None, resume |-> FALSE,
         alive |-> FALSE, printed |-> <<>>, outcome |-> NoOutcome]

Init ==
  /\ MigrateInit
  /\ agents_json \in Configs \cup {None}
  /\ cfg = [p \in Procs |-> None]
  /\ status = "pending" /\ path = FALSE /\ question = None
  /\ dir = FALSE /\ removed = FALSE /\ session = FALSE
  /\ worker = Idle /\ starts = 0

-----------------------------------------------------------------------------
(* agents.json.                                                            *)

\* A layer of the configuration: an entry of actions or of projectOverrides.
LayerOK(c, l) ==
  /\ l.runtime # None => l.runtime \in DOMAIN c.runtimes
  /\ l.tier # None => l.tier \in TIERS

\* validate.
Validate(c) ==
  /\ c.tier \in TIERS /\ c.runtime \in DOMAIN c.runtimes
  /\ LayerOK(c, c.action) /\ LayerOK(c, c.override)

\* apply: what the layer sets wins.
Over(r, l) == [f \in {"runtime", "tier", "model"} |-> IF l[f] # None THEN l[f] ELSE r[f]]

\* Bug: the project's own settings are applied first.
ResolveSwapped(c) ==
  LET r == Over(Over([runtime |-> c.runtime, tier |-> c.tier, model |-> None], c.override), c.action)
      rt == c.runtimes[r.runtime]
  IN IF rt.enabled
     THEN [runtime |-> r.runtime, kind |-> rt.kind,
           model |-> IF r.model # None THEN r.model ELSE <<r.runtime, r.tier>>]
     ELSE None

\* resolve for quest.execute and the quest's project; None when the runtime is disabled.
Resolve(c) ==
  LET r == Over(Over([runtime |-> c.runtime, tier |-> c.tier, model |-> None], c.action), c.override)
      rt == c.runtimes[r.runtime]
  IN IF rt.enabled
     THEN [runtime |-> r.runtime, kind |-> rt.kind,
           model |-> IF r.model # None THEN r.model ELSE <<r.runtime, r.tier>>]
     ELSE None

\* The user's editor, luida agents init.
EditConfig ==
  /\ agents_json' \in Configs \ {agents_json}
  /\ UNCHANGED <<migration, work>>

-----------------------------------------------------------------------------
(* open_ready, once the schema is there: reconcile, then load_or_default.  *)

\* A quest whose runner is gone is pending again.
Reconciled == IF status = "running" /\ worker.pc = "idle" THEN "pending" ELSE status

Loaded == IF agents_json = None THEN DefaultConfig ELSE agents_json

Ready(p) ==
  /\ boot[p].pc = "ready" /\ cfg[p] = None
  /\ status' \in {Reconciled, status}   \* reconcile may fail, and is then left to the next boot
  /\ IF Validate(Loaded) THEN cfg' = [cfg EXCEPT ![p] = Loaded] /\ UNCHANGED boot
     ELSE boot' = [boot EXCEPT ![p] = Down] /\ UNCHANGED cfg
  /\ UNCHANGED <<log, table, agents_json, path, question, outside, worker, starts>>

\* The process ends, or is killed: its agent may live on, and nobody listens.
Ends(p) ==
  /\ boot[p].pc # "down" /\ boot' = [boot EXCEPT ![p] = Down]
  /\ cfg' = [cfg EXCEPT ![p] = None]
  /\ worker' = IF worker.by = p THEN Idle ELSE worker
  /\ UNCHANGED <<log, table, agents_json, repo, outside, starts>>

-----------------------------------------------------------------------------
(* dispatch_quest and resume_quest.                                        *)

\* An error before the transaction leaves the quest as it is.
Commands(p) == cfg[p] # None /\ worker = Idle /\ Resolve(cfg[p]) # None /\ starts < MaxStarts

Takes(p, resumes) ==
  worker' = [Idle EXCEPT !.pc = "chosen", !.by = p, !.agent = Resolve(cfg[p]), !.resume = resumes]

\* wt switch --create: refused when its branch has a worktree already, one that was made
\* for a quest whose path was never stored.
Create == ~dir /\ dir' = TRUE

\* Bug: the worktree is used again and the session is not.
DispatchAnew(p) ==
  /\ Commands(p) /\ status = "pending"
  /\ \/ path /\ dir /\ UNCHANGED dir
     \/ ~(path /\ dir) /\ Create
  /\ Takes(p, FALSE)
  /\ UNCHANGED <<migration, agents_json, cfg, repo, removed, session, starts>>

\* The worktree of an interrupted quest is used again if it is still there, and its
\* session resumed; otherwise one is created.
Dispatch(p) ==
  /\ Commands(p) /\ status = "pending"
  /\ \/ path /\ dir /\ UNCHANGED dir /\ Takes(p, TRUE)
     \/ ~(path /\ dir) /\ Create /\ Takes(p, FALSE)
  /\ UNCHANGED <<migration, agents_json, cfg, repo, removed, session, starts>>

\* set_worktree, set_runner, set_status, and the event: one transaction.
Starts(p) ==
  /\ worker.pc = "chosen" /\ worker.by = p /\ starts' = starts + 1
  /\ status' = "running" /\ path' = TRUE
  /\ worker' = [worker EXCEPT !.pc = "started"]
  /\ UNCHANGED <<migration, agents_json, cfg, question, outside>>

\* An answer to a quest that waits: the same worktree, whether it is there or not.
Resume(p) ==
  /\ Commands(p) /\ status = "needs_input" /\ path
  /\ Takes(p, TRUE)
  /\ UNCHANGED <<migration, agents_json, cfg, repo, outside, starts>>

-----------------------------------------------------------------------------
(* run_worker: the runtime and its agent.                                  *)

\* runtime_for_kind has none, or the CLI does not start: finalize_failed.
RuntimeFails(p) ==
  /\ worker.pc = "started" /\ worker.by = p
  /\ status' = "failed" /\ worker' = Idle
  /\ UNCHANGED <<migration, agents_json, cfg, path, question, outside, starts>>

\* The CLI is started with --session-id or --resume (claude), or with neither (codex).
Spawns(p) ==
  /\ worker.pc = "started" /\ worker.by = p
  /\ worker.agent.kind \in {"claude-cli", "codex-cli"}
  /\ worker' = [worker EXCEPT !.pc = "spawned"]
  /\ UNCHANGED <<migration, agents_json, cfg, repo, outside, starts>>

\* External: the agent comes up, with its session if it keeps one, or gives up.
AgentOpens ==
  /\ worker.pc = "spawned"
  /\ worker' = [worker EXCEPT !.pc = "open",
       !.alive = dir /\ (worker.agent.kind = "claude-cli" => worker.resume = session)]
  /\ session' = (session \/ (dir /\ worker.agent.kind = "claude-cli" /\ ~worker.resume))
  /\ UNCHANGED <<migration, agents_json, cfg, repo, dir, removed, starts>>

\* parse_claude_stream_line: a marker without its end is text, another line is nothing.
Event(l) ==
  CASE l = "ask" -> [kind |-> "Escalation", question |-> "ask"]
    [] l = "ask more" -> [kind |-> "Escalation", question |-> "ask more"]
    [] l \in {"ok", "bad"} -> [kind |-> "Result", success |-> l = "ok"]
    [] l = "error" -> [kind |-> "Error"]
    [] l \in {"half an ask", "text"} -> [kind |-> "Text"]
    [] OTHER -> [kind |-> "None"]

\* Bug: a result that comes later takes the question back.
FoldResultWins(o, e) ==
  CASE e.kind = "Result" -> [saw_result |-> TRUE, success |-> e.success, escalation |-> None]
    [] e.kind = "Escalation" -> [o EXCEPT !.escalation = e.question]
    [] OTHER -> o

\* fold_outcome, but for the summary.
Fold(o, e) ==
  CASE e.kind = "Result" -> [o EXCEPT !.saw_result = TRUE, !.success = e.success]
    [] e.kind = "Escalation" -> [o EXCEPT !.escalation = e.question]
    [] OTHER -> o

\* run_cli_streaming reads a line; the agent goes on printing after a result.
Line(p, l) ==
  /\ worker.pc = "open" /\ worker.by = p /\ worker.alive /\ Len(worker.printed) < MaxLines
  /\ worker' = [worker EXCEPT !.printed = Append(@, l), !.outcome = Fold(@, Event(l))]
  /\ UNCHANGED <<migration, agents_json, cfg, repo, outside, starts>>

\* finalize_outcome: an agent that gave no result has failed.
Finalize(o) == [o EXCEPT !.success = o.saw_result /\ @]

\* settle_outcome, when stdout ends: a question comes before a result.
Settles(p) ==
  LET outcome == Finalize(worker.outcome)
  IN
  /\ worker.pc = "open" /\ worker.by = p
  /\ status' = CASE outcome.escalation # None -> "needs_input"
                 [] outcome.escalation = None /\ outcome.success -> "completed"
                 [] OTHER -> "failed"
  /\ question' = IF outcome.escalation # None THEN outcome.escalation ELSE question
  /\ worker' = Idle
  /\ UNCHANGED <<migration, agents_json, cfg, path, outside, starts>>

\* The token was cancelled: the quest is pending again.
SettlesCancelled(p) ==
  /\ worker.pc = "open" /\ worker.by = p
  /\ status' = "pending" /\ worker' = Idle
  /\ UNCHANGED <<migration, agents_json, cfg, path, question, outside, starts>>

\* External: the user removes the worktree.
RemoveWorktree ==
  /\ dir /\ dir' = FALSE /\ removed' = TRUE
  /\ UNCHANGED <<migration, agents_json, cfg, repo, session, worker, starts>>

-----------------------------------------------------------------------------

Next ==
  \/ \E p \in Procs :
       \/ MigrateStep(p) /\ UNCHANGED <<agents_json, work>>
       \/ Ready(p) \/ Ends(p) \/ Dispatch(p) \/ Starts(p) \/ Resume(p)
       \/ RuntimeFails(p) \/ Spawns(p) \/ Settles(p) \/ SettlesCancelled(p)
       \/ \E l \in Lines : Line(p, l)
  \/ AgentOpens \/ EditConfig \/ RemoveWorktree

Spec == Init /\ [][Next]_vars

-----------------------------------------------------------------------------
(* Properties.                                                             *)

\* Every variable stays within its type.
TypeOK ==
  /\ MigrateTypeOK
  /\ agents_json \in Configs \cup {None}
  /\ \A p \in Procs : cfg[p] # None => cfg[p] \in Configs /\ boot[p].pc = "ready"
  /\ status \in {"pending", "running", "needs_input", "completed", "failed"}
  /\ question \in {None, "ask", "ask more"}
  /\ {path, dir, removed, session} \subseteq BOOLEAN /\ starts \in 0 .. MaxStarts
  /\ worker.pc \in {"idle", "chosen", "started", "spawned", "open"}
  /\ worker # Idle => cfg[worker.by] # None /\ worker.agent # None

\* No command works on a schema that is not complete, whichever process migrated it.
CommandsAfterSchema == worker # Idle \/ status # "pending" => Len(log) = N

\* What sets f with the highest priority: projectOverrides > actions > defaults.
Prior(c, f) ==
  CASE c.override[f] # None -> c.override[f]
    [] c.override[f] = None /\ c.action[f] # None -> c.action[f]
    [] OTHER -> IF f = "model" THEN None ELSE c[f]

\* A configuration that a process has accepted never lacks the runtime that a quest needs,
\* and the agent chosen is the one of the highest priority, field by field.
ResolvedRight ==
  \A p \in Procs : cfg[p] # None =>
    /\ Prior(cfg[p], "runtime") \in DOMAIN cfg[p].runtimes
    /\ Resolve(cfg[p]) # None =>
         /\ Resolve(cfg[p]).runtime = Prior(cfg[p], "runtime")
         /\ Resolve(cfg[p]).model = IF Prior(cfg[p], "model") # None THEN Prior(cfg[p], "model")
                                    ELSE <<Prior(cfg[p], "runtime"), Prior(cfg[p], "tier")>>

\* Whoever works on a quest has a complete schema, and the agent that agents.json asks for.
Prepared == TypeOK /\ SchemaComplete /\ CommandsAfterSchema /\ ResolvedRight

\* claude is never told to begin a session that it has, whatever was killed before, unless
\* the user has removed the worktree.
BeginsNew ==
  worker.pc = "spawned" /\ worker.agent.kind = "claude-cli" /\ ~worker.resume /\ session => removed

Asks(ls) == {i \in DOMAIN ls : ls[i] \in {"ask", "ask more"}}
Results(ls) == {i \in DOMAIN ls : ls[i] \in {"ok", "bad"}}
Last(S) == CHOOSE i \in S : \A j \in S : j <= i

\* The verdict follows from all the lines that were read (one that is not UTF-8 ends the
\* reading): the last question, whatever came after it, or else the last result, or else
\* failure (fold_outcome, finalize_outcome).
VerdictOfLines ==
  [][ \A p \in Procs : Settles(p) =>
        LET ls == worker.printed
        IN /\ status' = "needs_input" <=> Asks(ls) # {}
           /\ status' = "completed" <=> Asks(ls) = {} /\ Results(ls) # {} /\ ls[Last(Results(ls))] = "ok"
           /\ status' = "needs_input" => question' = ls[Last(Asks(ls))] ]_vars
=============================================================================
