------------------------------ MODULE Queries ------------------------------
(***************************************************************************)
(* What the screens, triage and the report read from the tables: the       *)
(* newest events of a quest or a campaign (EventRepo), the question a      *)
(* quest waits with, and the counts over the quests of a campaign.         *)
(*                                                                         *)
(* Threads and processes record events: each takes the time first and gets *)
(* the write lock later, so that rows may be inserted in another order     *)
(* than they are stamped in.  Quests are inserted and moved in any order.  *)
(* The clock may stand still, but is not set back; seen is a history.      *)
(* Abstracted: payloads, which their rows stand for.                       *)
(***************************************************************************)
EXTENDS Naturals, Sequences, FiniteSets

CONSTANTS
  Limits,       \* values of LIMIT
  QuestIds,     \* quests, in the order of their ids
  CampaignIds,  \* campaigns
  Kinds,        \* kinds of events
  Writers,      \* threads that record events
  LastInstant,  \* bound: instants of the clock, from 0
  MaxRows,      \* bound: events and quests
  NoRow

ASSUME QueriesAssumption == Limits \subseteq Nat /\ LastInstant \in Nat

VARIABLES
  events,       \* the events table, in the order of the ids: quest, campaign, kind, occurred_at,
                \* and how many rows there were when the row was stamped
  statuses,     \* the quests of a campaign: the status of each
  clock,        \* what now_ms returns
  stamped       \* of each writer: the row it is about to insert, NoRow for none

tables == <<events, statuses, clock, stamped>>

QUEST_STATUSES == {"pending", "running", "reviewing", "needs_input", "needs_approval",
                   "pr_ready", "completed", "failed", "aborted"}
QUEST_TERMINAL == {"completed", "failed", "aborted"}

-----------------------------------------------------------------------------
(* What is written.                                                        *)

TablesInit ==
  events = <<>> /\ statuses = <<>> /\ clock = 0 /\ stamped = [w \in Writers |-> NoRow]

RoomLeft == Len(events) + Cardinality(DOMAIN statuses) < MaxRows

Row == [quest : QuestIds, campaign : CampaignIds, kind : Kinds, at : 0 .. LastInstant, seen : Nat]

\* EventRepo::record takes the time of now_ms, ...
Stamp(w, q, c, k) ==
  /\ stamped[w] = NoRow
  /\ clock' \in clock .. LastInstant
  /\ stamped' = [stamped EXCEPT ![w] =
                   [quest |-> q, campaign |-> c, kind |-> k, at |-> clock', seen |-> Len(events)]]
  /\ UNCHANGED <<events, statuses>>

\* ... then the INSERT gets the write lock, ...
InsertRow(w) ==
  /\ stamped[w] # NoRow /\ RoomLeft
  /\ events' = Append(events, stamped[w]) /\ stamped' = [stamped EXCEPT ![w] = NoRow]
  /\ UNCHANGED <<statuses, clock>>

\* ... or it does not within the busy_timeout, or its transaction is rolled back.
DropRow(w) ==
  /\ stamped[w] # NoRow /\ stamped' = [stamped EXCEPT ![w] = NoRow]
  /\ UNCHANGED <<events, statuses, clock>>

\* QuestRepo::insert, which is given the status; one campaign's quests have rising ids.
Insert(q, s) ==
  /\ RoomLeft /\ \A r \in DOMAIN statuses : r < q
  /\ statuses' = [r \in DOMAIN statuses \cup {q} |-> IF r = q THEN s ELSE statuses[r]]
  /\ UNCHANGED <<events, clock, stamped>>

\* QuestRepo::set_status, which looks at nothing.
SetStatus(q, s) ==
  /\ q \in DOMAIN statuses /\ statuses' = [statuses EXCEPT ![q] = s]
  /\ UNCHANGED <<events, clock, stamped>>

RowsNext ==
  \E w \in Writers :
    \/ InsertRow(w) \/ DropRow(w)
    \/ \E q \in QuestIds, c \in CampaignIds, k \in Kinds : Stamp(w, q, c, k)

QuestsNext ==
  \E q \in QuestIds, s \in QUEST_STATUSES : Insert(q, s) \/ SetStatus(q, s)

TablesNext == RowsNext \/ QuestsNext

TablesSpec == TablesInit /\ [][TablesNext]_tables

-----------------------------------------------------------------------------
(* EventRepo.                                                              *)

\* ORDER BY occurred_at, id.
Older(log, i, j) == log[i].at < log[j].at \/ (log[i].at = log[j].at /\ i < j)

\* Rows by their ids, oldest first.
InOrder(log, ids) ==
  [k \in 1 .. Cardinality(ids) |->
     CHOOSE i \in ids : Cardinality({j \in ids : Older(log, j, i)}) = k - 1]

\* Bug: the limit is put on the oldest rows.
OldestRows(log, ids, limit) ==
  InOrder(log, {i \in ids : Cardinality({j \in ids : Older(log, j, i)}) < limit})

\* The newest rows, at most limit, oldest first.
NewestRows(log, ids, limit) ==
  InOrder(log, {i \in ids : Cardinality({j \in ids : Older(log, i, j)}) < limit})

ForQuest(log, q, limit) == NewestRows(log, {i \in DOMAIN log : log[i].quest = q}, limit)

ForCampaign(log, c, limit) == NewestRows(log, {i \in DOMAIN log : log[i].campaign = c}, limit)

LatestPayload(log, q, kind) ==
  LET newest == NewestRows(log, {i \in DOMAIN log : log[i].quest = q /\ log[i].kind = kind}, 1)
  IN IF newest = <<>> THEN NoRow ELSE newest[1]

\* The question triage works on.
LatestEscalation(log, q) == LatestPayload(log, q, "quest_needs_input")

-----------------------------------------------------------------------------
(* The quests of a campaign, by status.                                    *)

IsWaiting(s) == s \in {"needs_input", "needs_approval"}

ListActive(status) == {q \in DOMAIN status : status[q] \notin QUEST_TERMINAL}

ComputeProgress(status) ==
  LET Count(P(_)) == Cardinality({q \in DOMAIN status : P(status[q])})
  IN [total       |-> Cardinality(DOMAIN status),
      completed   |-> Count(LAMBDA s : s = "completed"),
      running     |-> Count(LAMBDA s : s \in {"running", "reviewing"}),
      needs_input |-> Count(LAMBDA s : IsWaiting(s)),
      failed      |-> Count(LAMBDA s : s \in {"failed", "aborted"})]

\* Whether the TUI lets the user report the campaign.
ReportTarget(status) ==
  LET total == Cardinality(DOMAIN status)
      done  == Cardinality({q \in DOMAIN status : status[q] = "completed"})
  IN total > 0 /\ done = total

\* Whether report_campaign would close it.
AllCompleted(status) == DOMAIN status # {} /\ \A q \in DOMAIN status : status[q] = "completed"

-----------------------------------------------------------------------------
(* Properties.                                                             *)

\* The row i was recorded after j was: it was stamped when j was in the table.  Of two rows
\* that are recorded at the same time neither is the later one.
After(log, i, j) == log[i].seen >= j

\* The timeline t has n of the rows ids, or all, no row twice, and what was recorded after
\* one of its rows comes after that row in it.
Newest(log, t, ids, n) ==
  /\ Len(t) = IF Cardinality(ids) < n THEN Cardinality(ids) ELSE n
  /\ \A k \in DOMAIN t :
       /\ t[k] \in ids /\ \A l \in DOMAIN t : t[l] = t[k] => l = k
       /\ \A i \in ids : After(log, i, t[k]) => \E l \in k + 1 .. Len(t) : t[l] = i

\* As long as the clock is not set back, a timeline keeps the order in which things happened
\* and leaves out nothing that happened after what it shows, whatever the writers race for:
\* the pane that follows the tail shows the newest events, however long the log
\* (for_quest, for_campaign).
TailFollows ==
  \A n \in Limits :
    /\ \A q \in QuestIds :
         Newest(events, ForQuest(events, q, n), {i \in DOMAIN events : events[i].quest = q}, n)
    /\ \A c \in CampaignIds :
         Newest(events, ForCampaign(events, c, n), {i \in DOMAIN events : events[i].campaign = c}, n)

\* Triage answers a question that no other was asked after, not one of an earlier round
\* (latest_escalation).
LatestAsked ==
  \A q \in QuestIds :
    LET asked == {i \in DOMAIN events : events[i].quest = q /\ events[i].kind = "quest_needs_input"}
        latest == LatestEscalation(events, q)
    IN IF asked = {} THEN latest = NoRow
       ELSE latest \in asked /\ \A i \in asked : ~After(events, i, latest)

\* The screen and the report agree: the TUI offers a report exactly when it would close the
\* campaign, its bar counts no quest twice, is full exactly then, and counts none as running
\* or waiting that the list of quests does not show.
ScreenAgrees ==
  LET p == ComputeProgress(statuses)
  IN /\ ReportTarget(statuses) <=> AllCompleted(statuses)
     /\ ReportTarget(statuses) <=> p.total > 0 /\ p.completed = p.total
     /\ p.completed + p.running + p.needs_input + p.failed <= p.total
     /\ p.running + p.needs_input <= Cardinality(ListActive(statuses))
     /\ p.completed + p.failed + Cardinality(ListActive(statuses)) = p.total

\* What the screen, triage and the report make of the tables is what the rows say.
ReadRight == TailFollows /\ LatestAsked /\ ScreenAgrees
=============================================================================
