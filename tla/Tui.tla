-------------------------------- MODULE Tui --------------------------------
(***************************************************************************)
(* The terminal UI: run_loop, handle_key and what they keep in App.        *)
(*                                                                         *)
(* Other processes write the database between any two reads, so that a     *)
(* read may return any of Views: the lists as Dashboard::load orders them, *)
(* the quests that wait, the campaigns whose quests have all completed.    *)
(* A timeline may have any of Lengths lines, the terminal any of Heights.  *)
(*                                                                         *)
(* Abstracted: the text of toasts, labels, forms and timelines; colours    *)
(* and layout; the 1.2 s between two reloads (due at any turn).            *)
(***************************************************************************)
EXTENDS Naturals, Sequences, FiniteSetsExt

CONSTANTS
  Projects, Campaigns, Quests,  \* what the lists may hold
  Views,       \* what Dashboard::load may return
  Lengths,     \* lines of a timeline
  Heights,     \* lines the detail pane shows
  Forms,       \* what the user submits: sequences of words
  Tokens,      \* CancelTokens, numbered; one per worker thread
  QuitLimit,   \* bound: turns of the loop in 3 s
  None

View == [projects: Seq(Projects), campaigns: Seq(Campaigns), quests: Seq(Quests),
         waiting: SUBSET Quests, done: SUBSET Campaigns]

ASSUME TuiAssumption ==
  /\ Views \subseteq View
  /\ None \notin Projects \cup Campaigns \cup Quests /\ Campaigns \cap Quests = {}
  /\ Tokens \subseteq Nat \ {0}
  /\ Lengths \subseteq Nat /\ Heights \subseteq Nat \ {0} /\ QuitLimit \in Nat

VARIABLES
  pc,        \* where run_loop is
  dash,      \* the last snapshot
  tab, sel,  \* the tab, and the selected row (0 for none)
  mode, form, answering,      \* Mode, InputKind, the quest of ResumeAnswer
  detail, lines,              \* what the detail pane shows, None when closed; its lines
  scroll, follow, rows,       \* detail_scroll, detail_follow, detail_rows
  help,
  progress,                   \* the campaign of the progress bar
  rx, token,                  \* the worker whose result is awaited, the one q cancels
  quitting, waited,
  worker, task, cancelled     \* threads: their state, command, and cancelled tokens

list    == <<dash, tab, sel>>
modal   == <<mode, form, answering>>
pane    == <<detail, lines, scroll, follow>>
thread == <<rx, token, worker, task, cancelled>>
ending  == <<quitting, waited>>
vars    == <<pc, list, modal, pane, rows, help, progress, thread, ending>>

Commands   == {"Plan", "Run", "Resume", "Triage", "Report"}
InputKinds == {"PlanPrompt", "ResumeAnswer", "AddProject"}
Modes      == {"Normal", "Input", "Running"}

Tabs == {"projects", "campaigns", "quests"}

\* Tab::next and Tab::prev.
TabAfter(t)  == CASE t = "projects" -> "campaigns" [] t = "campaigns" -> "quests" [] t = "quests" -> "projects"
TabBefore(t) == CHOOSE u \in Tabs : TabAfter(u) = t

-----------------------------------------------------------------------------
(* The selection.                                                          *)

\* The row's item: selected_campaign, selected_quest, selected_key.
Item(d, t, i) == IF i \in DOMAIN d[t] THEN d[t][i] ELSE None
Highlighted == Item(dash, tab, sel)

\* reset_selection.
FirstRow(d, t) == IF d[t] = <<>> THEN 0 ELSE 1

\* select_key: the item if it is still listed, else the old row or the last one.
SelectKey(d, t, key, old) ==
  CASE d[t] = <<>> -> 0
    [] d[t] # <<>> /\ \E i \in DOMAIN d[t] : d[t][i] = key -> CHOOSE i \in DOMAIN d[t] : d[t][i] = key
    [] OTHER -> Max({1, Min({old, Len(d[t])})})

\* reload: it may fail, and then nothing changes.
Reload ==
  \/ \E v \in Views : dash' = v /\ sel' = SelectKey(v, tab, Highlighted, sel) /\ UNCHANGED tab
  \/ UNCHANGED list

-----------------------------------------------------------------------------
(* The detail pane.                                                        *)

\* target_for_selection: projects have no timeline.
Target(d, t, i) == IF t = "projects" THEN None ELSE Item(d, t, i)

Close == detail' = None /\ lines' = 0 /\ UNCHANGED <<scroll, follow>>

\* The pane on x, whose timeline refresh_detail reads, or fails to.
Show(x) == detail' = x /\ lines' \in Lengths \cup {0}

ToTail == scroll' = 0 /\ follow' = TRUE

\* toggle_detail.
ToggleDetail ==
  CASE detail # None -> Close
    [] detail = None /\ Target(dash, tab, sel) # None -> Show(Target(dash, tab, sel)) /\ ToTail
    [] OTHER -> UNCHANGED pane

\* sync_detail_to_selection, when the selection has become x.
SyncDetail(x) ==
  CASE detail = None -> UNCHANGED pane
    [] detail # None /\ x = None -> Close
    [] OTHER -> Show(x) /\ IF x = detail THEN UNCHANGED <<scroll, follow>> ELSE ToTail

MaxScroll == IF lines > rows THEN lines - rows ELSE 0

\* page_detail.
PageDown ==
  IF detail = None \/ MaxScroll = 0 \/ follow THEN UNCHANGED pane
  ELSE /\ scroll' = Min({scroll + rows, MaxScroll})
       /\ follow' = (scroll + rows >= MaxScroll)
       /\ UNCHANGED <<detail, lines>>

Up(from) == IF from > rows THEN from - rows ELSE 0

PageUp ==
  IF detail = None \/ MaxScroll = 0 THEN UNCHANGED pane
  ELSE /\ scroll' = Up(IF follow THEN MaxScroll ELSE scroll)
       /\ follow' = FALSE
       /\ UNCHANGED <<detail, lines>>

-----------------------------------------------------------------------------
(* The worker thread.                                                      *)

\* spawn_worker: dispatch runs on a thread of its own, with a token of its own.
SpawnWorker(name, target) ==
  /\ mode # "Running"
  /\ \E n \in Tokens :
       /\ worker[n] = "none" /\ \A m \in Tokens : m < n => worker[m] # "none"
       /\ worker' = [worker EXCEPT ![n] = "busy"]
       /\ task' = [task EXCEPT ![n] = <<name, target>>]
       /\ rx' = n /\ token' = n
  /\ mode' = "Running" /\ form' = "none" /\ answering' = None
  /\ UNCHANGED cancelled

\* dispatch returns, or panics.
WorkerEnds(n) ==
  /\ worker[n] = "busy"
  /\ \E s \in {"sent", "panicked"} : worker' = [worker EXCEPT ![n] = s]
  /\ UNCHANGED <<pc, list, modal, pane, rows, help, progress, rx, token, task, cancelled, ending>>

\* try_recv has found the message, or the channel closed.
Collected ==
  /\ worker' = [worker EXCEPT ![rx] = "none"]
  /\ task' = [task EXCEPT ![rx] = <<"none", None>>]
  /\ cancelled' = cancelled \ {rx}
  /\ mode' = "Normal" /\ rx' = 0 /\ token' = 0
  /\ UNCHANGED <<form, answering>>

\* running_campaign: that of a run in progress.
RunningCampaign == IF rx # 0 /\ task[rx][1] = "Run" THEN task[rx][2] ELSE None

-----------------------------------------------------------------------------
(* run and run_loop.                                                       *)

Init ==
  /\ pc = "top" /\ dash \in Views
  /\ tab = "projects" /\ sel = FirstRow(dash, "projects")
  /\ mode = "Normal" /\ form = "none" /\ answering = None
  /\ detail = None /\ lines = 0 /\ scroll = 0 /\ follow = TRUE /\ rows = 0
  /\ help = FALSE /\ progress = None /\ rx = 0 /\ token = 0
  /\ quitting = FALSE /\ waited = 0
  /\ worker = [n \in Tokens |-> "none"] /\ task = [n \in Tokens |-> <<"none", None>>]
  /\ cancelled = {}

\* draw measures the pane.
Draw == pc = "top" /\ IF detail = None THEN UNCHANGED rows ELSE rows' \in Heights

NoResult ==
  /\ Draw /\ pc' = "quit"
  /\ rx # 0 => worker[rx] = "busy"
  /\ UNCHANGED <<list, modal, pane, help, progress, thread, ending>>

\* The toast is not shown while quitting.
RecvResult ==
  /\ Draw /\ pc' = "quit"
  /\ rx # 0 /\ worker[rx] = "sent"
  /\ Collected /\ Reload
  /\ UNCHANGED <<pane, help, progress, ending>>

\* Bug: a worker that panicked is waited for.
RecvDisconnectedWaits ==
  /\ Draw /\ pc' = "quit"
  /\ rx # 0 /\ worker[rx] = "panicked"
  /\ UNCHANGED <<list, modal, pane, help, progress, thread, ending>>

RecvDisconnected ==
  /\ Draw /\ pc' = "quit"
  /\ rx # 0 /\ worker[rx] = "panicked"
  /\ Collected
  /\ UNCHANGED <<list, pane, help, progress, ending>>

\* Bug: the process waits for its worker, however long that takes.
MayQuitOnlyIdle == rx = 0

MayQuit == rx = 0 \/ waited = QuitLimit

Quit ==
  /\ pc = "quit" /\ quitting /\ MayQuit /\ pc' = "exited"
  /\ UNCHANGED <<list, modal, pane, rows, help, progress, thread, ending>>

GoesOn ==
  /\ pc = "quit" /\ ~(quitting /\ MayQuit) /\ pc' = "refresh"
  /\ waited' = IF quitting /\ waited < QuitLimit THEN waited + 1 ELSE waited
  /\ UNCHANGED <<modal, pane, rows, help, progress, thread, quitting>>

\* Bug: the lists are read again under an open form.
AutoReloadAlways == GoesOn /\ Reload

\* Not while a form is open.
AutoReload == GoesOn /\ IF mode = "Input" THEN UNCHANGED list ELSE Reload

\* refresh_detail and compute_progress, each of which may fail.
Refresh ==
  /\ pc = "refresh" /\ pc' = "poll"
  /\ IF detail = None THEN UNCHANGED lines ELSE lines' \in Lengths \cup {lines}
  /\ progress' \in IF mode = "Running" THEN {RunningCampaign, None} ELSE {None}
  /\ UNCHANGED <<list, modal, detail, scroll, follow, rows, help, thread, ending>>

-----------------------------------------------------------------------------
(* handle_key.                                                             *)

\* poll times out.
NoKey ==
  /\ pc = "poll" /\ pc' = "top"
  /\ UNCHANGED <<list, modal, pane, rows, help, progress, thread, ending>>

\* terminal.draw, event::poll or event::read fails: run_loop returns at once, and run with
\* it; nobody cancels the worker.
LoopFails ==
  /\ pc \in {"top", "poll"} /\ pc' = "failed"
  /\ UNCHANGED <<list, modal, pane, rows, help, progress, thread, ending>>

Key(m) == pc = "poll" /\ mode = m /\ ~help /\ UNCHANGED <<rows, progress, ending>>

\* Any key closes the help.
KeyHelp ==
  /\ pc = "poll" /\ pc' = "top" /\ help /\ help' = FALSE
  /\ UNCHANGED <<list, modal, pane, rows, progress, thread, ending>>

\* Bug: the loop ends by itself, and the agent is left running.
KeyQuitForgets ==
  /\ pc = "poll" /\ pc' = "top" /\ mode = "Running" /\ ~help /\ ~quitting
  /\ quitting' = TRUE
  /\ UNCHANGED <<list, modal, pane, rows, help, progress, thread, waited>>

\* q, Esc and Ctrl-C while a worker runs; other keys do nothing.
KeyQuitRunning ==
  /\ pc = "poll" /\ pc' = "top" /\ mode = "Running" /\ ~help /\ ~quitting
  /\ quitting' = TRUE
  /\ cancelled' = IF token = 0 THEN cancelled ELSE cancelled \cup {token}
  /\ UNCHANGED <<list, modal, pane, rows, help, progress, rx, token, worker, task, waited>>

\* The forms.  Typing changes nothing but the text, and blank text is not submitted.
KeyEscForm ==
  /\ Key("Input") /\ pc' = "top"
  /\ mode' = "Normal" /\ form' = "none" /\ answering' = None
  /\ UNCHANGED <<list, pane, help, thread>>

KeySubmit ==
  /\ Key("Input") /\ pc' = "top" /\ form \in {"PlanPrompt", "ResumeAnswer"}
  /\ IF form = "PlanPrompt" THEN SpawnWorker("Plan", None) ELSE SpawnWorker("Resume", answering)
  /\ UNCHANGED <<list, pane, help>>

\* parse_project_form: a name and a path at least.
FormName(words) == IF Len(words) >= 2 THEN words[1] ELSE None

\* add_project_inline: registered and read again, then the new project is selected;
\* or one of the two fails, or the form has no path, and the lists stay.
Registered(name) ==
  /\ tab' = "projects"
  /\ \E v \in Views :
       LET reloaded == SelectKey(v, tab, Highlighted, sel)
       IN dash' = v /\ sel' = SelectKey(v, "projects", name, reloaded)

KeySubmitProject ==
  /\ Key("Input") /\ pc' = "top" /\ form = "AddProject"
  /\ \E words \in Forms \ {<<>>} :
       \/ FormName(words) # None /\ Registered(FormName(words))
       \/ UNCHANGED list
  /\ mode' = "Normal" /\ form' = "none" /\ answering' = None
  /\ UNCHANGED <<pane, help, thread>>

\* q, Ctrl-C, and Esc when nothing is open.
KeyQuit ==
  /\ Key("Normal") /\ pc' = "exited"
  /\ UNCHANGED <<list, modal, pane, help, thread>>

\* Esc.
KeyClose ==
  /\ Key("Normal") /\ pc' = "top" /\ detail # None /\ Close
  /\ UNCHANGED <<list, modal, help, thread>>

\* Bug: the pane stays open under another tab.
KeyTabKeepsPane ==
  /\ Key("Normal") /\ pc' = "top"
  /\ tab' \in {TabAfter(tab), TabBefore(tab)}
  /\ sel' = FirstRow(dash, tab')
  /\ UNCHANGED <<dash, modal, pane, help, thread>>

KeyTab ==
  /\ Key("Normal") /\ pc' = "top" /\ Close
  /\ tab' \in {TabAfter(tab), TabBefore(tab)}
  /\ sel' = FirstRow(dash, tab')
  /\ UNCHANGED <<dash, modal, help, thread>>

\* Home, End, PageUp, PageDown.
KeyScroll ==
  /\ Key("Normal") /\ pc' = "top" /\ detail # None
  /\ \/ PageDown
     \/ PageUp
     \/ ToTail /\ UNCHANGED <<detail, lines>>
     \/ scroll' = 0 /\ follow' = FALSE /\ UNCHANGED <<detail, lines>>
  /\ UNCHANGED <<list, modal, help, thread>>

\* j and k.
KeyMove ==
  /\ Key("Normal") /\ pc' = "top"
  /\ IF dash[tab] = <<>> THEN UNCHANGED sel
     ELSE sel' \in {Min({sel + 1, Len(dash[tab])}), Max({sel, 2}) - 1}
  /\ SyncDetail(Target(dash, tab, sel'))
  /\ UNCHANGED <<dash, tab, modal, help, thread>>

KeyToggle ==
  /\ Key("Normal") /\ pc' = "top" /\ ToggleDetail
  /\ UNCHANGED <<list, modal, help, thread>>

\* n: the first quest that waits.
KeyJump ==
  /\ Key("Normal") /\ pc' = "top"
  /\ \E i \in DOMAIN dash.quests :
       /\ dash.quests[i] \in dash.waiting
       /\ \A k \in 1..(i - 1) : dash.quests[k] \notin dash.waiting
       /\ tab' = "quests" /\ sel' = i
       /\ SyncDetail(dash.quests[i])
  /\ UNCHANGED <<dash, modal, help, thread>>

KeyHelpOpens ==
  /\ Key("Normal") /\ pc' = "top" /\ help' = TRUE
  /\ UNCHANGED <<list, modal, pane, thread>>

\* x on a campaign, c on one whose quests have all completed, t on a quest.
KeyCommand ==
  /\ Key("Normal") /\ pc' = "top" /\ Highlighted # None
  /\ \/ tab = "campaigns" /\ SpawnWorker("Run", Highlighted)
     \/ tab = "campaigns" /\ Highlighted \in dash.done /\ SpawnWorker("Report", Highlighted)
     \/ tab = "quests" /\ SpawnWorker("Triage", Highlighted)
  /\ UNCHANGED <<list, pane, help>>

\* a and p, and r on a quest.
KeyForm ==
  /\ Key("Normal") /\ pc' = "top" /\ mode' = "Input"
  /\ \/ form' \in {"AddProject", "PlanPrompt"} /\ answering' = None
     \/ tab = "quests" /\ Highlighted # None /\ form' = "ResumeAnswer" /\ answering' = Highlighted
  /\ UNCHANGED <<list, pane, help, thread>>

-----------------------------------------------------------------------------

Loop == NoResult \/ RecvResult \/ RecvDisconnected \/ Quit \/ AutoReload \/ Refresh

Keys ==
  \/ KeyHelp \/ KeyQuitRunning \/ KeyEscForm \/ KeySubmit \/ KeySubmitProject \/ KeyQuit
  \/ KeyClose \/ KeyTab \/ KeyScroll \/ KeyMove \/ KeyToggle \/ KeyJump \/ KeyHelpOpens
  \/ KeyCommand \/ KeyForm

Next == Loop \/ NoKey \/ LoopFails \/ Keys \/ \E n \in Tokens : WorkerEnds(n)

Spec == Init /\ [][Next]_vars

\* The loop goes on, since its poll times out; a worker may never end.
FairSpec == Spec /\ WF_vars(Loop) /\ WF_vars(NoKey)

-----------------------------------------------------------------------------
(* Properties.                                                             *)

Ids == Campaigns \cup Quests

\* run_loop has returned.
Ended == pc \in {"exited", "failed"}

\* Every variable stays within its type; there is a selected row exactly when the
\* tab's list has rows, and it is one of them (reset_selection, select_key).
TypeOK ==
  /\ pc \in {"top", "quit", "refresh", "poll", "exited", "failed"}
  /\ dash \in Views /\ tab \in Tabs
  /\ sel \in 0 .. Len(dash[tab]) /\ (sel = 0 <=> dash[tab] = <<>>)
  /\ mode \in Modes /\ form \in InputKinds \cup {"none"} /\ (form # "none" <=> mode = "Input")
  /\ answering \in Quests \cup {None}
  /\ detail \in Ids \cup {None} /\ lines \in Nat /\ scroll \in Nat /\ follow \in BOOLEAN
  /\ rows \in Nat /\ help \in BOOLEAN /\ quitting \in BOOLEAN /\ waited \in 0 .. QuitLimit
  /\ progress \in Campaigns \cup {None}
  /\ rx \in Tokens \cup {0} /\ token \in Tokens \cup {0}
  /\ worker \in [Tokens -> {"none", "busy", "sent", "panicked"}]
  /\ \A n \in Tokens : worker[n] # "none" => task[n][1] \in Commands
  /\ cancelled \subseteq Tokens

\* There is a worker thread exactly while the mode says so, and it is the one whose
\* result is awaited and whose token q would cancel: never a second one, and none
\* that is forgotten (spawn_worker: "Running 중이면 무시 — 동시 1개").
OneWorker ==
  /\ rx = token /\ (rx # 0 <=> mode = "Running")
  /\ \A n \in Tokens : worker[n] # "none" <=> rx = n

\* Every worker that is still at work is cancelled, so that its agent CLI is killed.
NobodyLeft == \A n \in Tokens : worker[n] = "busy" => n \in cancelled

\* Whoever leaves by a key, at once or after a wait, leaves behind only a worker that has
\* been cancelled (run_loop).
LeavesNobody == pc = "exited" => NobodyLeft

\* "TUI 종료 시 이 런타임의 자식을 즉시 정리" (with_cancel): however the loop ends, also when
\* the terminal fails, no agent is left to itself.
EndsClean == Ended => NobodyLeft

\* From spawn to collection a worker is in the hands of the loop, and a user who leaves
\* leaves none to itself.
WorkerInHand == OneWorker /\ LeavesNobody

\* The progress bar is of the campaign the worker runs.
BarOfRun ==
  pc = "poll" /\ progress # None => rx # 0 /\ task[rx] = <<"Run", progress>>

\* The pane shows an item of the tab's kind, or is a leftover next to the projects.
PaneFits == detail # None => tab = "projects" \/ (tab = "campaigns" <=> detail \in Campaigns)

\* What the screen shows beside the lists belongs to them, whatever was pressed and
\* whatever other processes have done to the rows.
ScreenHonest == TypeOK /\ BarOfRun /\ PaneFits

\* The user acts on the item that the highlight was put on, and on no other: when the lists
\* are read again, the highlight stays on its item if that is still listed, although rows
\* move with updated_at (SelKey); and a command goes to the item that is highlighted when
\* the key is pressed, also the answer that took its user a while to type.
HighlightMeant ==
  [][/\ (/\ pc # "poll" /\ Highlighted # None
         /\ \E i \in DOMAIN dash'[tab] : dash'[tab][i] = Highlighted)
        => Item(dash', tab', sel') = Highlighted
     /\ \A n \in Tokens : worker[n] = "none" /\ worker'[n] = "busy" =>
          task'[n][1] = "Plan" \/ task'[n][2] = Highlighted]_vars

\* A worker's result is collected, also when it panicked, as long as the loop runs.
ResultCollected ==
  \A n \in Tokens : worker[n] \in {"sent", "panicked"} ~> worker[n] = "none" \/ Ended

\* Once the user has quit, the process ends, whatever its worker does.
QuitEnds == quitting ~> Ended

\* The loop never waits for a worker: what it sends is collected, and q leads out.
LoopGoesOn == ResultCollected /\ QuitEnds
=============================================================================
