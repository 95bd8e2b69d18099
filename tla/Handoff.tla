------------------------------ MODULE Handoff ------------------------------
(***************************************************************************)
(* A campaign that is carried from one machine to another as a bundle      *)
(* (suspend_campaign, resume_bundle), while it goes on being run.  Every   *)
(* machine has a database of its own; each import makes a copy of the      *)
(* campaign, whose quests are numbered as in the bundle.                   *)
(*                                                                         *)
(* A step is a statement, a transaction or a file written.  Commands work  *)
(* on a copy as the code has it: what is ready is listed once, a quest is  *)
(* looked at before the transaction that starts it, settled whatever it    *)
(* has become, and taken back by boots that list once and do not look      *)
(* again.  alone says whether commands on one copy overlap.                *)
(*                                                                         *)
(* Abstracted: titles, briefs, branches, progress, the campaign's status,  *)
(* triage.  achieved is a history variable.                                *)
(***************************************************************************)
EXTENDS Naturals, Sequences, FiniteSets

CONSTANTS
  Machines,   \* what machine_id may return
  Threads,    \* commands, each given once
  MaxCopies,  \* bound: the campaign and its imports
  Planned,    \* number of quests of the plan
  Needs,      \* its dependencies: pairs of positions
  MaxPlaces,  \* bound: quests of a copy, follow-ups included
  MaxSuspends,  \* bound: suspends begun
  Outcomes,   \* how a worker may end: a set of statuses
  Nobody, Gone

Copies == 1 .. MaxCopies

ASSUME HandoffAssumption ==
  /\ MaxCopies \in Nat \ {0}
  /\ Planned \in Nat /\ MaxPlaces \in Nat /\ Planned <= MaxPlaces
  /\ MaxSuspends \in Nat
  /\ Outcomes \subseteq {"completed", "failed", "needs_input", "pending"}
  /\ Needs \subseteq (1 .. Planned) \X (1 .. Planned)
  /\ Nobody \notin Machines /\ Nobody \notin Threads /\ Gone \notin Threads /\ Gone # Nobody

VARIABLES
  last,      \* the copies 1 .. last have been made
  handoff, owner,  \* campaigns.handoff_state, owner_machine of each copy
  statuses, deps,  \* of each copy: quests by position, pairs of positions
  lease,     \* of each copy and position: who runs it, Nobody if unrecorded, Gone if dead
  at,        \* of each thread: where it is, and what it has read
  achieved,  \* of each copy: the quests that have completed in it or where it comes from
  alone,     \* whether commands on one copy come one after the other
  sus, suspends,  \* the suspend_campaign in progress, and what it has read; suspends begun
  bundle     \* the file written last (its name is the user's to choose)

campaign  == <<last, handoff, owner>>
work      == <<statuses, deps, lease, at, achieved>>
carryVars == <<campaign, work, alone, sus, suspends, bundle>>

NoSuspend == [pc |-> "idle", of |-> Nobody, machine |-> Nobody, quests |-> <<>>]
NoCommand == [pc |-> "idle", copy |-> 1, quest |-> 1, rows |-> {}]
Ended == [NoCommand EXCEPT !.pc = "ended"]

\* plan_campaign has stored the campaign.
CarryInit ==
  /\ last = 1
  /\ handoff = [c \in Copies |-> "none"] /\ owner = [c \in Copies |-> Nobody]
  /\ statuses = [c \in Copies |-> IF c = 1 THEN [i \in 1 .. Planned |-> "pending"] ELSE <<>>]
  /\ deps = [c \in Copies |-> IF c = 1 THEN Needs ELSE {}]
  /\ lease = [c \in Copies |-> [i \in 1 .. MaxPlaces |-> Nobody]]
  /\ at = [t \in Threads |-> NoCommand]
  /\ achieved = [c \in Copies |-> {}] /\ alone \in BOOLEAN
  /\ sus = NoSuspend /\ suspends = 0 /\ bundle = Nobody

Made(c) == c <= last

QuestStatuses == {"pending", "running", "needs_input", "completed", "failed"}
Terminal == {"completed", "failed"}

\* A bundle has the quests by position, and their dependencies as pairs of positions.
HandoffBundle ==
  [of : Copies, quests : Seq(QuestStatuses), deps : SUBSET ((1 .. MaxPlaces) \X (1 .. MaxPlaces))]

-----------------------------------------------------------------------------
(* Commands that work on a copy.                                           *)

\* dependencies, of a quest.
Dependencies(c, i) == {d \in DOMAIN statuses[c] : <<i, d>> \in deps[c]}

\* ready_in_campaign.
ReadyInCampaign(c) ==
  {i \in DOMAIN statuses[c] : statuses[c][i] = "pending" /\ \A d \in Dependencies(c, i) : statuses[c][d] = "completed"}

\* What reconcile_interrupted_quests lists: a runner that was not recorded is left alone.
Orphans(c) == {i \in DOMAIN statuses[c] : statuses[c][i] = "running" /\ lease[c][i] = Gone}

Status(t) == statuses[at[t].copy][at[t].quest]
Least(S) == {i \in S : \A j \in S : i <= j}
Goes(t, place) == at' = [at EXCEPT ![t] = place]

\* open_ready, of a command or a TUI.
Boots(t, c) ==
  /\ at[t].pc = "idle" /\ Made(c)
  /\ alone => \A o \in Threads : at[o].pc \in {"idle", "ended"} \/ at[o].copy # c
  /\ Goes(t, [NoCommand EXCEPT !.pc = "recover", !.copy = c, !.rows = Orphans(c)])
  /\ UNCHANGED <<campaign, statuses, deps, lease, achieved, alone, sus, suspends, bundle>>

\* One row of what was listed, without a second look.
Recovers(t) ==
  /\ at[t].pc = "recover"
  /\ \E i \in Least(at[t].rows) :
       /\ statuses' = [statuses EXCEPT ![at[t].copy][i] = "pending"]
       /\ Goes(t, [at[t] EXCEPT !.rows = @ \ {i}])
  /\ UNCHANGED <<campaign, deps, lease, achieved, alone, sus, suspends, bundle>>

\* What is ready is listed, first and when the last list is done.
Lists(t) ==
  /\ at[t].pc \in {"recover", "loop"} /\ at[t].rows = {}
  /\ Goes(t, [at[t] EXCEPT !.pc = "loop", !.rows = ReadyInCampaign(at[t].copy)])
  /\ UNCHANGED <<campaign, statuses, deps, lease, achieved, alone, sus, suspends, bundle>>

\* dispatch_quest looks at the next one on the list, which must not be terminal.
LooksToDispatch(t) ==
  /\ at[t].pc = "loop"
  /\ \E i \in Least(at[t].rows) :
       /\ statuses[at[t].copy][i] \notin Terminal
       /\ Goes(t, [at[t] EXCEPT !.pc = "seen", !.quest = i, !.rows = @ \ {i}])
  /\ UNCHANGED <<campaign, statuses, deps, lease, achieved, alone, sus, suspends, bundle>>

\* resume_quest looks at a quest, for the user or for the loop.
LooksToResume(t) ==
  /\ at[t].pc = "loop"
  /\ \E i \in DOMAIN statuses[at[t].copy] :
       /\ statuses[at[t].copy][i] = "needs_input"
       /\ Goes(t, [at[t] EXCEPT !.pc = "seen", !.quest = i])
  /\ UNCHANGED <<campaign, statuses, deps, lease, achieved, alone, sus, suspends, bundle>>

\* The transaction of dispatch_quest or resume_quest.
Starts(t) ==
  /\ at[t].pc = "seen"
  /\ statuses' = [statuses EXCEPT ![at[t].copy][at[t].quest] = "running"]
  /\ lease' = [lease EXCEPT ![at[t].copy][at[t].quest] = t]
  /\ Goes(t, [at[t] EXCEPT !.pc = "works"])
  /\ UNCHANGED <<campaign, deps, achieved, alone, sus, suspends, bundle>>

\* settle_outcome, whatever the quest has become.
Settles(t) ==
  /\ at[t].pc = "works"
  /\ \E s \in Outcomes :
       /\ statuses' = [statuses EXCEPT ![at[t].copy][at[t].quest] = s]
       /\ achieved' = IF s = "completed" THEN [achieved EXCEPT ![at[t].copy] = @ \cup {at[t].quest}] ELSE achieved
       /\ Goes(t, [at[t] EXCEPT !.pc = IF s = "completed" THEN "fires" ELSE "loop", !.quest = 1])
  /\ UNCHANGED <<campaign, deps, lease, alone, sus, suspends, bundle>>

\* fire_quest_completed adds a quest, or has no more to add.
FollowUp(t) ==
  /\ at[t].pc = "fires" /\ Len(statuses[at[t].copy]) < MaxPlaces
  /\ statuses' = [statuses EXCEPT ![at[t].copy] = Append(@, "pending")]
  /\ UNCHANGED <<campaign, deps, lease, at, achieved, alone, sus, suspends, bundle>>

Fired(t) ==
  /\ at[t].pc = "fires" /\ Goes(t, [at[t] EXCEPT !.pc = "loop"])
  /\ UNCHANGED <<campaign, statuses, deps, lease, achieved, alone, sus, suspends, bundle>>

\* The command is done, an error ends it, or it dies where no agent is at work.
CommandEnds(t) ==
  /\ at[t].pc \in {"recover", "loop", "seen", "fires"} /\ Goes(t, Ended)
  /\ UNCHANGED <<campaign, statuses, deps, lease, achieved, alone, sus, suspends, bundle>>

\* It dies while its agent is at work.
Dies(t) ==
  /\ at[t].pc = "works" /\ Goes(t, Ended)
  /\ lease' = [lease EXCEPT ![at[t].copy] = [i \in 1 .. MaxPlaces |-> IF @[i] = t THEN Gone ELSE @[i]]]
  /\ UNCHANGED <<campaign, statuses, deps, achieved, alone, sus, suspends, bundle>>

-----------------------------------------------------------------------------
(* suspend_campaign, under any id the machine goes by.                     *)

\* Refused when another machine has suspended it, unless forced.
SuspendChecks(c, m, force) ==
  /\ Made(c) /\ sus = NoSuspend /\ suspends < MaxSuspends /\ suspends' = suspends + 1
  /\ force \/ handoff[c] # "suspended" \/ owner[c] = m
  /\ sus' = [NoSuspend EXCEPT !.pc = "checked", !.of = c, !.machine = m]
  /\ UNCHANGED <<campaign, work, alone, bundle>>

\* Bug: the first quest is read now, the others later.
SuspendReadsOneByOne ==
  \/ /\ sus.pc = "checked"
     /\ sus' = [sus EXCEPT !.pc = "part", !.quests = SubSeq(statuses[sus.of], 1, 1)]
     /\ UNCHANGED <<campaign, work, alone, suspends, bundle>>
  \/ /\ sus.pc = "part"
     /\ sus' = [sus EXCEPT !.pc = "read", !.quests = @ \o SubSeq(statuses[sus.of], 2, Len(statuses[sus.of]))]
     /\ UNCHANGED <<campaign, work, alone, suspends, bundle>>

\* list_for_campaign, one statement.
SuspendReads ==
  /\ sus.pc = "checked"
  /\ sus' = [sus EXCEPT !.pc = "read", !.quests = statuses[sus.of]]
  /\ UNCHANGED <<campaign, work, alone, suspends, bundle>>

\* set_handoff.
SuspendMarks ==
  /\ sus.pc = "read"
  /\ handoff' = [handoff EXCEPT ![sus.of] = "suspended"]
  /\ owner' = [owner EXCEPT ![sus.of] = sus.machine]
  /\ sus' = [sus EXCEPT !.pc = "marked"]
  /\ UNCHANGED <<last, work, alone, suspends, bundle>>

\* luida adventure suspend writes the file; the dependencies of the quests it has read
\* are read one by one, but never change.
SuspendWrites ==
  /\ sus.pc = "marked"
  /\ bundle' = [of |-> sus.of, quests |-> sus.quests,
                deps |-> {p \in (DOMAIN sus.quests) \X (DOMAIN sus.quests) : p[2] \in Dependencies(sus.of, p[1])}]
  /\ sus' = NoSuspend
  /\ UNCHANGED <<campaign, work, alone, suspends>>

\* The process dies, or an error ends it, with or without the mark.
SuspendDies ==
  /\ sus.pc # "idle" /\ sus' = NoSuspend
  /\ UNCHANGED <<campaign, work, alone, suspends, bundle>>

-----------------------------------------------------------------------------
(* resume_bundle: one transaction, as often as one likes.                  *)

\* resume_status.
ResumeStatus(s) == IF s \in {"completed", "failed"} THEN s ELSE "pending"

\* Bug: a dependency on a quest that has completed is left out.
KeepDeps(b) == {p \in b.deps : b.quests[p[2]] # "completed"}

\* add_dependency, for every pair of the bundle.
CarriedDeps(b) == b.deps

Resume(m) ==
  /\ bundle # Nobody
  /\ last < MaxCopies /\ last' = last + 1
  /\ handoff' = [handoff EXCEPT ![last'] = "resumed"] /\ owner' = [owner EXCEPT ![last'] = m]
  /\ statuses' = [statuses EXCEPT ![last'] = [i \in DOMAIN bundle.quests |-> ResumeStatus(bundle.quests[i])]]
  /\ deps' = [deps EXCEPT ![last'] = CarriedDeps(bundle)]
  /\ achieved' = [achieved EXCEPT ![last'] = achieved[bundle.of]]
  /\ UNCHANGED <<lease, at, alone, sus, suspends, bundle>>

-----------------------------------------------------------------------------

CarryNext ==
  \/ \E t \in Threads :
       \/ Recovers(t) \/ Lists(t) \/ LooksToDispatch(t) \/ LooksToResume(t) \/ Starts(t) \/ Settles(t)
       \/ FollowUp(t) \/ Fired(t) \/ CommandEnds(t) \/ Dies(t)
       \/ \E c \in Copies : Boots(t, c)
  \/ \E c \in Copies, m \in Machines, force \in BOOLEAN : SuspendChecks(c, m, force)
  \/ SuspendReads \/ SuspendMarks \/ SuspendWrites \/ SuspendDies
  \/ \E m \in Machines : Resume(m)

CarrySpec == CarryInit /\ [][CarryNext]_carryVars

-----------------------------------------------------------------------------
(* Properties.                                                             *)

\* Every variable stays within its type.
CarryTypes ==
  /\ last \in Copies /\ alone \in BOOLEAN
  /\ handoff \in [Copies -> {"none", "suspended", "resumed"}]
  /\ owner \in [Copies -> Machines \cup {Nobody}]
  /\ statuses \in [Copies -> Seq(QuestStatuses)]
  /\ \A c \in Copies : deps[c] \subseteq (DOMAIN statuses[c]) \X (DOMAIN statuses[c])
  /\ lease \in [Copies -> [1 .. MaxPlaces -> Threads \cup {Nobody, Gone}]]
  /\ at \in [Threads -> [pc: {"idle", "recover", "loop", "seen", "works", "fires", "ended"}, copy: Copies,
                        quest: Nat, rows: SUBSET Nat]]
  /\ sus.pc \in {"idle", "checked", "read", "marked"} /\ sus.quests \in Seq(QuestStatuses)
  /\ sus # NoSuspend => sus.of \in Copies /\ sus.machine \in Machines
  /\ bundle # Nobody => bundle \in HandoffBundle

\* A quest is beyond pending only if what it depends on has completed once, in this copy
\* or where it comes from: whatever overlaps, and however often the campaign is carried on.
BegunInOrder ==
  \A c \in Copies : Made(c) => \A p \in deps[c] : statuses[c][p[1]] # "pending" => p[2] \in achieved[c]

\* A quest of qs is beyond pending only if what it depends on is completed.
InOrder(qs, ds) ==
  \A p \in ds : qs[p[1]] # "pending" => qs[p[2]] = "completed"

\* As long as commands on one copy do not overlap, dependencies come first in every copy,
\* whatever was going on when the bundle was read: run_campaign can go on with it.
OrderCarried == alone => \A c \in Copies : Made(c) => InOrder(statuses[c], deps[c])

\* Whether thread t is at work on quest i of copy c.
WorksOn(t, c, i) == at[t].pc = "works" /\ at[t].copy = c /\ at[t].quest = i

\* A running quest is run by a thread of this copy or is one that the next boot takes back:
\* none is imported in flight, for no reconcile would ever see to it (resume_status).
InFlightHasWorker ==
  \A c \in Copies : \A i \in DOMAIN statuses[c] :
    statuses[c][i] = "running" => i \in Orphans(c) \/ \E t \in Threads : lease[c][i] = t /\ WorksOn(t, c, i)

\* As long as commands on one copy do not overlap, the quest at work is still running.
WorkStands == alone => \A t \in Threads : at[t].pc = "works" => Status(t) = "running" /\ lease[at[t].copy][at[t].quest] = t

\* Whichever copy is gone on with, run_campaign and reconcile find what they rely on.
CanGoOn == CarryTypes /\ BegunInOrder /\ OrderCarried /\ InFlightHasWorker /\ WorkStands

\* The plan arrives whole, and what a bundle says has completed did complete where it comes
\* from, and still has as long as commands on one copy do not overlap: nothing is lost, and
\* nothing is claimed that is not so (suspend_campaign, resume_bundle).
NothingLost ==
  /\ \A c \in Copies : Made(c) => Len(statuses[c]) >= Planned /\ deps[c] = Needs
  /\ bundle # Nobody => \A i \in DOMAIN bundle.quests : bundle.quests[i] = "completed" =>
       /\ i \in achieved[bundle.of]
       /\ alone => statuses[bundle.of][i] = "completed"
=============================================================================
