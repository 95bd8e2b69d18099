----------------------------- MODULE Chronicle -----------------------------
(***************************************************************************)
(* What luida-brain writes into the vault and the database: the report of  *)
(* a campaign (report_campaign) and the contexts of projects               *)
(* (ingest_project), while runs of the campaign and commands on the        *)
(* projects go on in other processes.                                      *)
(*                                                                         *)
(* A step is a read, a model call, a file or a transaction; a process may  *)
(* die, or an error end its command, between any two.  Of a run there are  *)
(* the quests it takes and settles, the follow-ups it adds and what it     *)
(* writes into campaigns.status; CampaignRun has the rest.  A quest is     *)
(* looked at when it is taken and not when it is settled, so that runs     *)
(* that overlap may settle it twice; sole says that they do not overlap.   *)
(*                                                                         *)
(* Abstracted: the text of reports, contexts and prompts; timestamps.      *)
(* cleared is a history variable.                                          *)
(***************************************************************************)
EXTENDS Naturals, Sequences, FiniteSets

CONSTANTS
  Procs,       \* processes that report or ingest, one command at a time
  Runs,        \* threads that run the campaign or dispatch or resume a quest of it
  Projects,    \* names a user may register
  Files,       \* files of <vault>/projects
  FileName,    \* sanitize_filename: names may share a file
  Planned,     \* number of quests of the plan
  MaxQuests,   \* bound: quests, follow-ups included
  MaxCommands, \* bound: commands begun
  None

ASSUME ChronicleAssumption ==
  /\ FileName \in [Projects -> Files]
  /\ Planned \in Nat \ {0} /\ MaxQuests \in Nat /\ Planned <= MaxQuests
  /\ MaxCommands \in Nat
  /\ None \notin Projects /\ None \notin Files /\ None \notin Nat /\ IsFiniteSet(Procs)

VARIABLES
  quests,       \* statuses, in the order of their ids
  runs,         \* of each run: None, or the quest it is at, 0 between two
  sole,         \* whether runs come one after the other
  cleared,      \* the n such that all quests were n, and all completed, at one time
  status, report_path,  \* campaigns: status, whether report_path is set
  reported,     \* number of campaign_reported events
  report,       \* the report's file: does it exist
  chronicle,    \* number of lines of chronicle.md
  projects,     \* the registered names
  context_path, \* projects.context_path of each name
  contexts,     \* the project whose context a file holds
  cmd,          \* what each process does
  begun         \* commands begun

campaign == <<quests, runs, sole, cleared, status>>
records  == <<report_path, reported, report, chronicle>>
memory   == <<projects, context_path, contexts>>
vars     == <<campaign, records, memory, cmd, begun>>

Idle == [pc |-> "idle", seen |-> 0, all_completed |-> FALSE, project |-> None]

Init ==
  /\ quests = [i \in 1 .. Planned |-> "pending"] /\ runs = [w \in Runs |-> None]
  /\ sole \in BOOLEAN /\ cleared = {}
  /\ status = "running" /\ report_path = FALSE /\ reported = 0
  /\ report = FALSE /\ chronicle = 0
  /\ projects = {} /\ context_path = [p \in Projects |-> None]
  /\ contexts = [f \in Files |-> None]
  /\ cmd = [r \in Procs |-> Idle] /\ begun = 0

-----------------------------------------------------------------------------
(* The campaign is run.                                                    *)

\* run_campaign says so in campaigns.status, a command on one quest does not.
RunBegins(w) ==
  /\ runs[w] = None /\ (sole => \A v \in Runs : runs[v] = None)
  /\ runs' = [runs EXCEPT ![w] = 0] /\ status' \in {status, "running"}
  /\ UNCHANGED <<quests, sole, cleared, records, memory, cmd, begun>>

\* dispatch_quest or resume_quest looks at a quest; one that is not settled counts as
\* pending here.
Takes(w, i) ==
  /\ runs[w] = 0 /\ quests[i] = "pending"
  /\ runs' = [runs EXCEPT ![w] = i]
  /\ UNCHANGED <<quests, sole, cleared, status, records, memory, cmd, begun>>

AllCompleted(qs) == qs # <<>> /\ \A i \in DOMAIN qs : qs[i] = "completed"

\* Quest i gets status x, whatever it had.
Becomes(i, x) ==
  /\ quests' = [quests EXCEPT ![i] = x]
  /\ cleared' = IF AllCompleted(quests') THEN cleared \cup {Len(quests)} ELSE cleared

\* settle_outcome: pending stands for a question and an interruption as well.
Settles(w) ==
  /\ runs[w] \in DOMAIN quests
  /\ \E x \in {"completed", "failed", "pending"} : Becomes(runs[w], x)
  /\ runs' = [runs EXCEPT ![w] = 0]
  /\ UNCHANGED <<sole, status, records, memory, cmd, begun>>

\* reconcile_interrupted_quests of a boot that had listed the quest as running: unless
\* runs overlap it still is, which is pending here.
Recovers(i) ==
  /\ ~sole /\ Becomes(i, "pending")
  /\ UNCHANGED <<runs, sole, status, records, memory, cmd, begun>>

\* fire_quest_completed.
FollowUp ==
  /\ \E w \in Runs : runs[w] # None
  /\ \E i \in DOMAIN quests : quests[i] = "completed"
  /\ Len(quests) < MaxQuests /\ quests' = Append(quests, "pending")
  /\ UNCHANGED <<runs, sole, cleared, status, records, memory, cmd, begun>>

\* The verdict of a run is never "completed"; a run that dies, and a command on one quest,
\* leave none.
RunEnds(w) ==
  /\ runs[w] # None /\ runs' = [runs EXCEPT ![w] = None]
  /\ status' \in {status, "running", "needs_input", "failed"}
  /\ UNCHANGED <<quests, sole, cleared, records, memory, cmd, begun>>

-----------------------------------------------------------------------------
(* A command.                                                              *)

Begins(r) == cmd[r] = Idle /\ begun < MaxCommands /\ begun' = begun + 1

\* The process is killed, or the agent, a file or a transaction fails.
Ends(r) ==
  /\ cmd[r] # Idle /\ cmd' = [cmd EXCEPT ![r] = Idle]
  /\ UNCHANGED <<campaign, records, memory, begun>>

-----------------------------------------------------------------------------
(* The vault.                                                              *)

WriteCampaignReport == report' = TRUE

AppendChronicle == chronicle' = chronicle + 1

\* The file's name is sanitized: whoever writes last has it.
WriteProjectContext(p) == contexts' = [contexts EXCEPT ![FileName[p]] = p]

-----------------------------------------------------------------------------
(* report_campaign.                                                        *)

\* Bug: failed quests count as done.
ReportReadsSettled(r) ==
  /\ Begins(r)
  /\ cmd' = [cmd EXCEPT ![r] = [Idle EXCEPT !.pc = "reporting", !.seen = Len(quests),
       !.all_completed = \A i \in DOMAIN quests : quests[i] # "pending"]]
  /\ UNCHANGED <<campaign, records, memory>>

ReportReads(r) ==
  /\ Begins(r)
  /\ cmd' = [cmd EXCEPT ![r] = [Idle EXCEPT !.pc = "reporting", !.seen = Len(quests),
       !.all_completed = AllCompleted(quests)]]
  /\ UNCHANGED <<campaign, records, memory>>

\* The agent's report, or fallback_report, is written: one file per campaign.
ReportWrites(r) ==
  /\ cmd[r].pc = "reporting"
  /\ WriteCampaignReport /\ cmd' = [cmd EXCEPT ![r].pc = "written"]
  /\ UNCHANGED <<campaign, report_path, reported, chronicle, memory, begun>>

ReportChronicles(r) ==
  /\ cmd[r].pc = "written"
  /\ AppendChronicle /\ cmd' = [cmd EXCEPT ![r].pc = "chronicled"]
  /\ UNCHANGED <<campaign, report_path, reported, report, memory, begun>>

\* mark_completed, or set_report_path, and the event: what had completed when the
\* quests were read decides.
ReportCommits(r) ==
  /\ cmd[r].pc = "chronicled"
  /\ status' = IF cmd[r].all_completed THEN "completed" ELSE status
  /\ report_path' = TRUE /\ reported' = reported + 1
  /\ cmd' = [cmd EXCEPT ![r] = Idle]
  /\ UNCHANGED <<quests, runs, sole, cleared, report, chronicle, memory, begun>>

-----------------------------------------------------------------------------
(* Projects, and ingest_project.                                           *)

\* luida project add: a name that is registered keeps its context.
Register(p) ==
  /\ projects' = projects \cup {p}
  /\ UNCHANGED <<campaign, records, context_path, contexts, cmd, begun>>

\* luida project remove: the row goes, the file stays.
Unregister(p) ==
  /\ p \in projects /\ projects' = projects \ {p}
  /\ context_path' = [context_path EXCEPT ![p] = None]
  /\ UNCHANGED <<campaign, records, contexts, cmd, begun>>

IngestReads(r, p) ==
  /\ Begins(r) /\ p \in projects
  /\ cmd' = [cmd EXCEPT ![r] = [Idle EXCEPT !.pc = "ingesting", !.project = p]]
  /\ UNCHANGED <<campaign, records, memory>>

\* Bug: the row is marked first.
IngestMarksFirst(r) ==
  /\ cmd[r].pc = "ingesting"
  /\ context_path' = [p \in Projects |-> IF p = cmd[r].project /\ p \in projects
                                         THEN FileName[p] ELSE context_path[p]]
  /\ cmd' = [cmd EXCEPT ![r].pc = "contexted"]
  /\ UNCHANGED <<campaign, records, projects, contexts, begun>>

\* The agent has answered: write_project_context.
IngestWrites(r) ==
  /\ cmd[r].pc = "ingesting"
  /\ WriteProjectContext(cmd[r].project)
  /\ cmd' = [cmd EXCEPT ![r].pc = "contexted"]
  /\ UNCHANGED <<campaign, records, projects, context_path, begun>>

\* mark_ingested: no row, no mark, and no error.
IngestMarks(r) ==
  /\ cmd[r].pc = "contexted"
  /\ context_path' = [p \in Projects |-> IF p = cmd[r].project /\ p \in projects
                                         THEN FileName[p] ELSE context_path[p]]
  /\ cmd' = [cmd EXCEPT ![r] = Idle]
  /\ UNCHANGED <<campaign, records, projects, contexts, begun>>

-----------------------------------------------------------------------------

Next ==
  \/ FollowUp \/ \E i \in DOMAIN quests : Recovers(i)
  \/ \E w \in Runs :
       \/ RunBegins(w) \/ Settles(w) \/ RunEnds(w)
       \/ \E i \in DOMAIN quests : Takes(w, i)
  \/ \E r \in Procs :
       \/ Ends(r)
       \/ ReportReads(r) \/ ReportWrites(r) \/ ReportChronicles(r) \/ ReportCommits(r)
       \/ IngestWrites(r) \/ IngestMarks(r)
       \/ \E p \in Projects : IngestReads(r, p)
  \/ \E p \in Projects : Register(p) \/ Unregister(p)

Spec == Init /\ [][Next]_vars

-----------------------------------------------------------------------------
(* Properties.                                                             *)

\* Every variable stays within its type; only a registered name has a context_path.
TypeOK ==
  /\ quests \in Seq({"pending", "completed", "failed"}) /\ sole \in BOOLEAN
  /\ \A w \in Runs : runs[w] # None => runs[w] = 0 \/ runs[w] \in DOMAIN quests
  /\ cleared \subseteq 1 .. Len(quests)
  /\ status \in {"running", "needs_input", "failed", "completed"}
  /\ report_path \in BOOLEAN /\ report \in BOOLEAN
  /\ reported \in Nat /\ chronicle \in Nat /\ begun \in Nat
  /\ projects \subseteq Projects
  /\ context_path \in [Projects -> Files \cup {None}]
  /\ \A p \in Projects : context_path[p] # None => p \in projects
  /\ contexts \in [Files -> Projects \cup {None}]
  /\ \A r \in Procs :
       /\ cmd[r].pc \in {"idle", "reporting", "written", "chronicled", "ingesting", "contexted"}
       /\ cmd[r].seen \in Nat /\ cmd[r].all_completed \in BOOLEAN
       /\ cmd[r].pc \in {"ingesting", "contexted"} => cmd[r].project \in Projects

\* What the database says of a report is so: its file exists, and every reported
\* campaign has its line in the chronicle, whichever process died where.
ReportOnFile ==
  /\ report_path \/ status = "completed" => report
  /\ reported <= chronicle

\* A report that closes the campaign has seen quests, and at one time all of them were
\* completed, whatever the agent took to write and whatever was run meanwhile; as long as
\* runs do not overlap they still are.  Follow-ups that were added since it does not know.
ClosesSeen ==
  [][ \A r \in Procs : ReportCommits(r) /\ status' # status =>
        /\ cmd[r].seen \in cleared
        /\ sole => \A i \in 1 .. cmd[r].seen : quests[i] = "completed" ]_vars

\* A context_path names a file that exists, and that holds the context of its own project
\* unless another name shares the file, whatever is registered and removed meanwhile.
ContextOnFile ==
  \A p \in Projects : context_path[p] # None =>
    /\ contexts[context_path[p]] # None
    /\ (\A q \in Projects \ {p} : FileName[q] # FileName[p]) => contexts[context_path[p]] = p

\* Every path the tables name leads to what they say it is.
OnFile == TypeOK /\ ReportOnFile /\ ContextOnFile
=============================================================================
