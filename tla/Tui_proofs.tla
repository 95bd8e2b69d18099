----------------------------- MODULE Tui_proofs -----------------------------
(***************************************************************************)
(* Theorems about Tui and their proofs: for any lists, timelines and       *)
(* terminals, any number of tokens and any patience when quitting; and     *)
(* about the Queries behind the screen, for tables of any length.          *)
(***************************************************************************)
EXTENDS Tui, Queries, FiniteSetTheorems, TLAPS

\* The loop has a worker in hand exactly while the mode says so, and once the user has
\* quit it is cancelled, and the loop takes no more keys that would start another.
HandInv ==
  /\ worker \in [Tokens -> {"none", "busy", "sent", "panicked"}] /\ DOMAIN task = Tokens
  /\ rx \in Tokens \cup {0} /\ OneWorker /\ LeavesNobody
  /\ quitting => rx = 0 \/ rx \in cancelled
  /\ quitting => rx # 0 \/ pc \in {"quit", "exited", "failed"}

\* An answer is to the highlighted quest, as long as its form is open.
AnswerInv ==
  /\ form \in InputKinds \cup {"none"} /\ (form # "none" <=> mode = "Input")
  /\ form = "ResumeAnswer" => answering = Highlighted

IInv == HandInv /\ AnswerInv

LEMMA NoToken == 0 \notin Tokens
BY TuiAssumption


-----------------------------------------------------------------------------
(* Steps of the parts.                                                     *)

\* The loop goes on to its next turn, with nobody new in hand.
LEMMA StillInHand ==
  ASSUME HandInv, UNCHANGED <<mode, rx, token, worker, task, cancelled, quitting>>, pc # "exited",
         pc' # "exited", pc' = "quit" \/ (quitting => rx # 0)
  PROVE  HandInv'
BY DEF HandInv, OneWorker, LeavesNobody, NobodyLeft

LEMMA StillAnswering ==
  ASSUME AnswerInv, UNCHANGED modal, form = "none" \/ UNCHANGED list
  PROVE  AnswerInv'
BY DEF AnswerInv, modal, list, Highlighted

LEMMA Spawns ==
  ASSUME IInv, NEW name, NEW target, SpawnWorker(name, target), UNCHANGED quitting, pc = "poll", pc' = "top"
  PROVE  IInv'
<1>1. PICK n \in Tokens :
        /\ worker[n] = "none" /\ worker' = [worker EXCEPT ![n] = "busy"]
        /\ task' = [task EXCEPT ![n] = <<name, target>>] /\ rx' = n /\ token' = n
  BY DEF SpawnWorker
<1>2. mode # "Running" /\ mode' = "Running" /\ form' = "none" /\ UNCHANGED cancelled
  BY DEF SpawnWorker
<1>3. rx = 0 /\ ~quitting /\ \A m \in Tokens : worker[m] = "none"
  BY <1>2, NoToken DEF IInv, HandInv, OneWorker
<1>4. HandInv'
  BY <1>1, <1>2, <1>3, NoToken DEF IInv, HandInv, OneWorker, LeavesNobody, NobodyLeft
<1>5. AnswerInv'
  BY <1>2 DEF AnswerInv, InputKinds
<1> QED
  BY <1>4, <1>5 DEF IInv

LEMMA Collects ==
  ASSUME HandInv, Collected, UNCHANGED quitting, pc' = "quit", rx # 0 PROVE HandInv'
<1>1. rx \in Tokens /\ \A m \in Tokens : m # rx => worker[m] = "none"
  BY DEF HandInv, OneWorker
<1>2. /\ worker' = [worker EXCEPT ![rx] = "none"] /\ DOMAIN task' = Tokens
      /\ mode' = "Normal" /\ rx' = 0 /\ token' = 0
  BY DEF Collected, HandInv
<1>3. \A m \in Tokens : worker'[m] = "none"
  BY <1>1, <1>2 DEF HandInv
<1> QED
  BY <1>2, <1>3, NoToken DEF HandInv, OneWorker, LeavesNobody, NobodyLeft


LEMMA Step == IInv /\ [Next]_vars => IInv'
<1> SUFFICES ASSUME IInv, [Next]_vars PROVE IInv'
  OBVIOUS
<1>0. HandInv /\ AnswerInv
  BY DEF IInv
<1>1. ASSUME NEW n \in Tokens, WorkerEnds(n) PROVE IInv'
  <2>1. PICK s \in {"sent", "panicked"} : worker' = [worker EXCEPT ![n] = s]
    BY <1>1 DEF WorkerEnds
  <2>2. worker[n] = "busy" /\ UNCHANGED <<pc, list, modal, mode, rx, token, task, cancelled, quitting>>
    BY <1>1 DEF WorkerEnds, modal, ending
  <2>3. HandInv'
    BY <1>0, <2>1, <2>2 DEF HandInv, OneWorker, LeavesNobody, NobodyLeft
  <2> QED
    BY <1>0, <2>2, <2>3, StillAnswering DEF IInv
<1>2. CASE NoResult
  <2>1. pc = "top" /\ pc' = "quit" /\ UNCHANGED <<list, modal, mode, rx, token, worker, task, cancelled, quitting>>
    BY <1>2 DEF NoResult, Draw, modal, thread, ending
  <2> QED
    BY <1>0, <2>1, StillInHand, StillAnswering DEF IInv
<1>3. CASE RecvResult \/ RecvDisconnected
  <2>1. rx # 0 /\ pc' = "quit" /\ Collected /\ UNCHANGED quitting
    BY <1>3 DEF RecvResult, RecvDisconnected, ending
  <2>2. form = "none"
    BY <1>0, <2>1 DEF HandInv, AnswerInv, OneWorker
  <2>3. AnswerInv'
    BY <2>1, <2>2 DEF Collected, AnswerInv
  <2> QED
    BY <1>0, <2>1, <2>3, Collects DEF IInv
<1>4. CASE Quit
  <2>1. /\ pc = "quit" /\ pc' = "exited" /\ quitting
        /\ UNCHANGED <<list, modal, mode, rx, token, worker, task, cancelled, quitting>>
    BY <1>4 DEF Quit, modal, thread, ending
  <2>2. HandInv'
    BY <1>0, <2>1, NoToken DEF HandInv, OneWorker, LeavesNobody, NobodyLeft
  <2> QED
    BY <1>0, <2>1, <2>2, StillAnswering DEF IInv
<1>5. CASE AutoReload
  <2>1. /\ pc = "quit" /\ pc' = "refresh" /\ ~(quitting /\ MayQuit)
        /\ UNCHANGED <<modal, mode, rx, token, worker, task, cancelled, quitting>>
    BY <1>5 DEF AutoReload, GoesOn, modal, thread
  <2>2. quitting => rx # 0
    BY <2>1 DEF MayQuit
  <2>3. form = "none" \/ UNCHANGED list
    BY <1>0, <1>5 DEF AutoReload, AnswerInv
  <2> QED
    BY <1>0, <2>1, <2>2, <2>3, StillInHand, StillAnswering DEF IInv
<1>6. CASE Refresh \/ NoKey \/ LoopFails \/ KeyHelp
  <2>1. /\ pc \in {"top", "refresh", "poll"} /\ pc' \in {"poll", "top", "failed"}
        /\ UNCHANGED <<list, modal, mode, rx, token, worker, task, cancelled, quitting>>
    BY <1>6 DEF Refresh, NoKey, LoopFails, KeyHelp, modal, thread, ending
  <2>2. quitting => rx # 0
    BY <1>0, <2>1 DEF HandInv
  <2> QED
    BY <1>0, <2>1, <2>2, StillInHand, StillAnswering DEF IInv
<1>7. CASE KeyQuitRunning
  <2>1. /\ pc = "poll" /\ pc' = "top" /\ mode = "Running" /\ quitting'
        /\ cancelled' = (IF token = 0 THEN cancelled ELSE cancelled \cup {token})
        /\ UNCHANGED <<list, modal, mode, rx, token, worker, task>>
    BY <1>7 DEF KeyQuitRunning, modal
  <2>2. HandInv'
    BY <1>0, <2>1 DEF HandInv, OneWorker, LeavesNobody, NobodyLeft
  <2> QED
    BY <1>0, <2>1, <2>2, StillAnswering DEF IInv
\* A form that is opened or closed, with no worker in hand.
<1>8. ASSUME pc = "poll", pc' \in {"top", "exited"}, mode # "Running", mode' # "Running",
             UNCHANGED <<rx, token, worker, task, cancelled, quitting>>
      PROVE  HandInv'
  BY <1>0, <1>8, NoToken DEF HandInv, OneWorker, LeavesNobody, NobodyLeft
<1>9. CASE KeyEscForm \/ KeySubmitProject
  <2>1. /\ pc = "poll" /\ pc' = "top" /\ mode = "Input" /\ mode' = "Normal" /\ form' = "none"
        /\ UNCHANGED <<rx, token, worker, task, cancelled, quitting>>
    BY <1>9 DEF KeyEscForm, KeySubmitProject, Key, thread, ending
  <2> QED
    BY <1>8, <2>1 DEF IInv, AnswerInv
<1>10. CASE KeySubmit
  BY <1>10, Spawns DEF KeySubmit, Key, ending
<1>11. CASE KeyCommand
  BY <1>11, Spawns DEF KeyCommand, Key, ending
<1>12. CASE KeyForm
  <2>1. /\ pc = "poll" /\ pc' = "top" /\ mode = "Normal" /\ mode' = "Input"
        /\ UNCHANGED <<list, rx, token, worker, task, cancelled, quitting>>
        /\ \/ form' \in {"AddProject", "PlanPrompt"}
           \/ form' = "ResumeAnswer" /\ answering' = Highlighted
    BY <1>12 DEF KeyForm, Key, thread, ending
  <2>2. AnswerInv'
    BY <2>1 DEF AnswerInv, InputKinds, Highlighted, list
  <2> QED
    BY <1>8, <2>1, <2>2 DEF IInv
\* The other keys move the highlight or the pane.
<1>13. CASE KeyQuit \/ KeyClose \/ KeyTab \/ KeyScroll \/ KeyMove \/ KeyToggle \/ KeyJump \/ KeyHelpOpens
  <2>1. /\ pc = "poll" /\ pc' \in {"top", "exited"} /\ mode = "Normal" /\ mode' = "Normal"
        /\ UNCHANGED <<modal, rx, token, worker, task, cancelled, quitting>>
    BY <1>13 DEF KeyQuit, KeyClose, KeyTab, KeyScroll, KeyMove, KeyToggle, KeyJump, KeyHelpOpens, Key,
                 modal, thread, ending
  <2>2. form = "none"
    BY <1>0, <2>1 DEF AnswerInv
  <2> QED
    BY <1>0, <1>8, <2>1, <2>2, StillAnswering DEF IInv
<1>14. CASE UNCHANGED vars
  <2>1. UNCHANGED <<pc, list, modal, mode, rx, token, worker, task, cancelled, quitting>>
    BY <1>14 DEF vars, modal, thread, ending
  <2>2. HandInv'
    BY <1>0, <2>1 DEF HandInv, OneWorker, LeavesNobody, NobodyLeft
  <2> QED
    BY <1>0, <2>1, <2>2, StillAnswering DEF IInv
<1> QED
  BY <1>1, <1>2, <1>3, <1>4, <1>5, <1>6, <1>7, <1>9, <1>10, <1>11, <1>12, <1>13, <1>14
  DEF Next, Loop, Keys

LEMMA Start == Init => IInv
BY NoToken DEF Init, IInv, HandInv, AnswerInv, OneWorker, LeavesNobody, NobodyLeft, InputKinds

LEMMA Holds == Spec => []IInv
BY Start, Step, PTL DEF Spec

\* However keys, results and panics follow each other, there is one worker at most, the
\* loop awaits its result and q cancels it, and who leaves by a key leaves none running
\* that is not cancelled; a failing terminal does (spawn_worker, run_loop).
THEOREM InHand == Spec => []WorkerInHand
<1>1. IInv => WorkerInHand
  BY DEF IInv, HandInv, WorkerInHand
<1> QED
  BY <1>1, Holds, PTL

\* select_key finds the item again.
LEMMA SelectsKey ==
  ASSUME NEW d, NEW t, NEW key, NEW old, NEW i \in DOMAIN d[t], d[t][i] = key
  PROVE  Item(d, t, SelectKey(d, t, key, old)) = key
<1> DEFINE k == CHOOSE j \in DOMAIN d[t] : d[t][j] = key
<1>1. k \in DOMAIN d[t] /\ d[t][k] = key
  OBVIOUS
<1>2. d[t] # <<>>
  OBVIOUS
<1>3. SelectKey(d, t, key, old) = k
  BY <1>2 DEF SelectKey
<1> HIDE DEF k
<1> QED
  BY <1>1, <1>3 DEF Item

\* Whatever other processes do to the rows, a reload leaves the highlight on its item, and
\* each command goes to the item that is highlighted when its key is pressed (reload,
\* handle_key).
THEOREM HighlightKept == Spec => HighlightMeant
<1> DEFINE Stays == (/\ pc # "poll" /\ Highlighted # None
                     /\ \E i \in DOMAIN dash'[tab] : dash'[tab][i] = Highlighted)
                    => Item(dash', tab', sel') = Highlighted
           Meant == \A n \in Tokens : worker[n] = "none" /\ worker'[n] = "busy" =>
                      task'[n][1] = "Plan" \/ task'[n][2] = Highlighted
<1>1. [Next]_vars => Stays
  <2> SUFFICES ASSUME [Next]_vars, pc # "poll", NEW i \in DOMAIN dash'[tab], dash'[tab][i] = Highlighted
               PROVE  Item(dash', tab', sel') = Highlighted
    OBVIOUS
  <2>1. ASSUME UNCHANGED list PROVE Item(dash', tab', sel') = Highlighted
    BY <2>1 DEF list, Highlighted
  <2>2. ASSUME Reload PROVE Item(dash', tab', sel') = Highlighted
    <3>1. CASE UNCHANGED list
      BY <2>1, <3>1
    <3>2. CASE UNCHANGED tab /\ sel' = SelectKey(dash', tab, Highlighted, sel)
      BY <3>2, SelectsKey
    <3> QED
      BY <2>2, <3>1, <3>2 DEF Reload
  <2>3. UNCHANGED list \/ Reload
    <3>1. CASE Loop
      BY <3>1 DEF Loop, NoResult, RecvResult, RecvDisconnected, Quit, AutoReload, Refresh
    <3>2. CASE Keys \/ NoKey \/ LoopFails
      BY <3>2 DEF Keys, NoKey, LoopFails, KeyHelp, KeyQuitRunning, KeyEscForm, KeySubmit, KeySubmitProject, KeyQuit, KeyClose,
                  KeyTab, KeyScroll, KeyMove, KeyToggle, KeyJump, KeyHelpOpens, KeyCommand, KeyForm, Key
    <3>3. CASE (\E n \in Tokens : WorkerEnds(n)) \/ UNCHANGED vars
      BY <3>3 DEF WorkerEnds, vars, list
    <3> QED
      BY <3>1, <3>2, <3>3 DEF Next
  <2> QED
    BY <2>1, <2>2, <2>3
<1>2. IInv /\ [Next]_vars => Meant
  <2> SUFFICES ASSUME IInv, [Next]_vars, NEW n \in Tokens, worker[n] = "none", worker'[n] = "busy"
               PROVE  task'[n][1] = "Plan" \/ task'[n][2] = Highlighted
    OBVIOUS
  <2>1. ASSUME NEW name, NEW target, SpawnWorker(name, target)
        PROVE  task'[n] = <<name, target>>
    BY <2>1 DEF SpawnWorker, IInv, HandInv
  <2>2. CASE KeySubmit
    <3>1. SpawnWorker("Plan", None) \/ (form = "ResumeAnswer" /\ SpawnWorker("Resume", answering))
      BY <2>2 DEF KeySubmit
    <3> QED
      BY <2>1, <3>1 DEF IInv, AnswerInv
  <2>3. CASE KeyCommand
    BY <2>1, <2>3 DEF KeyCommand
  <2>4. CASE RecvResult \/ RecvDisconnected
    BY <2>4 DEF RecvResult, RecvDisconnected, Collected, IInv, HandInv
  <2>5. ASSUME NEW m \in Tokens, WorkerEnds(m) PROVE FALSE
    BY <2>5 DEF WorkerEnds, IInv, HandInv
  <2>6. ASSUME UNCHANGED worker PROVE FALSE
    BY <2>6
  <2>7. CASE NoResult \/ Quit \/ AutoReload \/ Refresh \/ NoKey \/ LoopFails
    BY <2>6, <2>7 DEF NoResult, Quit, AutoReload, GoesOn, Refresh, NoKey, LoopFails, thread
  <2>8. CASE KeyHelp \/ KeyQuitRunning \/ KeyEscForm \/ KeySubmitProject \/ KeyQuit \/ KeyClose \/ KeyTab \/ KeyScroll
             \/ KeyMove \/ KeyToggle \/ KeyJump \/ KeyHelpOpens \/ KeyForm
    BY <2>6, <2>8 DEF KeyHelp, KeyQuitRunning, KeyEscForm, KeySubmitProject, KeyQuit, KeyClose, KeyTab, KeyScroll,
                      KeyMove, KeyToggle, KeyJump, KeyHelpOpens, KeyForm, thread
  <2>9. CASE UNCHANGED vars
    BY <2>6, <2>9 DEF vars, thread
  <2> QED
    BY <2>2, <2>3, <2>4, <2>5, <2>7, <2>8, <2>9 DEF Next, Loop, Keys
<1>3. IInv /\ [Next]_vars => [Stays /\ Meant]_vars
  BY <1>1, <1>2
<1> QED
  BY <1>3, Holds, PTL DEF Spec, HighlightMeant

-----------------------------------------------------------------------------
(* The screen.                                                             *)

\* The lists and the row that is selected.
ListOK == dash \in Views /\ tab \in Tabs /\ sel \in 0 .. Len(dash[tab]) /\ (sel = 0 <=> dash[tab] = <<>>)

\* The pane, and the item it shows.
PaneOK ==
  /\ detail \in Ids \cup {None} /\ lines \in Nat /\ scroll \in Nat /\ follow \in BOOLEAN /\ rows \in Nat
  /\ PaneFits

\* What the worker was given: a run has a campaign.
Given(x) == x[1] \in Commands /\ x = <<x[1], x[2]>> /\ (x[1] = "Run" => x[2] \in Campaigns)

\* The worker and the bar, the form and the loop.
RestOK ==
  /\ pc \in {"top", "quit", "refresh", "poll", "exited", "failed"}
  /\ mode \in Modes /\ answering \in Quests \cup {None}
  /\ help \in BOOLEAN /\ quitting \in BOOLEAN /\ waited \in 0 .. QuitLimit
  /\ progress \in Campaigns \cup {None} /\ cancelled \subseteq Tokens
  /\ \A n \in Tokens : worker[n] # "none" => Given(task[n])
  /\ BarOfRun

ScreenInv == ListOK /\ PaneOK /\ RestOK

\* The larger and the smaller of two numbers.
LEMMA OfTwo ==
  ASSUME NEW a \in Int, NEW b \in Int
  PROVE  /\ Max({a, b}) = IF a >= b THEN a ELSE b
         /\ Min({a, b}) = IF a <= b THEN a ELSE b
<1>1. \E x \in {a, b} : \A y \in {a, b} : x >= y
  OBVIOUS
<1>2. \E x \in {a, b} : \A y \in {a, b} : x <= y
  OBVIOUS
<1>3. Max({a, b}) \in {a, b} /\ \A y \in {a, b} : Max({a, b}) >= y
  BY <1>1 DEF Max
<1>4. Min({a, b}) \in {a, b} /\ \A y \in {a, b} : Min({a, b}) <= y
  BY <1>2 DEF Min
<1> QED BY <1>3, <1>4

\* The lists of a snapshot.
LEMMA Rows ==
  ASSUME NEW d \in Views, NEW t \in Tabs
  PROVE  /\ Len(d[t]) \in Nat /\ DOMAIN d[t] = 1 .. Len(d[t]) /\ (d[t] = <<>> <=> Len(d[t]) = 0)
         /\ \A i \in DOMAIN d[t] : d[t][i] \in CASE t = "projects" -> Projects
                                               [] t = "campaigns" -> Campaigns
                                               [] t = "quests" -> Quests
<1>1. d \in View
  BY TuiAssumption
<1>2. d["projects"] \in Seq(Projects) /\ d["campaigns"] \in Seq(Campaigns) /\ d["quests"] \in Seq(Quests)
  BY <1>1 DEF View
<1>3. ASSUME NEW S, NEW q \in Seq(S)
      PROVE  /\ Len(q) \in Nat /\ DOMAIN q = 1 .. Len(q) /\ (q = <<>> <=> Len(q) = 0)
             /\ \A i \in DOMAIN q : q[i] \in S
  OBVIOUS
<1>4. CASE t = "projects"
  BY <1>2, <1>3, <1>4
<1>5. CASE t = "campaigns"
  BY <1>2, <1>3, <1>5
<1>6. CASE t = "quests"
  BY <1>2, <1>3, <1>6
<1> QED BY <1>4, <1>5, <1>6 DEF Tabs

\* select_key answers a row of the list, when there is one.
LEMMA SelectsRow ==
  ASSUME NEW d \in Views, NEW t \in Tabs, NEW key, NEW old \in Nat
  PROVE  /\ SelectKey(d, t, key, old) \in 0 .. Len(d[t])
         /\ SelectKey(d, t, key, old) = 0 <=> d[t] = <<>>
<1>1. /\ Len(d[t]) \in Nat /\ DOMAIN d[t] = 1 .. Len(d[t]) /\ (d[t] = <<>> <=> Len(d[t]) = 0)
  BY Rows
<1>2. CASE d[t] = <<>>
  BY <1>1, <1>2 DEF SelectKey
<1>3. CASE d[t] # <<>> /\ \E i \in DOMAIN d[t] : d[t][i] = key
  <2> DEFINE k == CHOOSE j \in DOMAIN d[t] : d[t][j] = key
  <2>1. k \in DOMAIN d[t]
    BY <1>3
  <2>2. SelectKey(d, t, key, old) = k
    BY <1>3 DEF SelectKey
  <2> HIDE DEF k
  <2> QED BY <1>1, <1>3, <2>1, <2>2
<1>4. CASE d[t] # <<>> /\ ~\E i \in DOMAIN d[t] : d[t][i] = key
  <2>1. SelectKey(d, t, key, old) = Max({1, Min({old, Len(d[t])})})
    BY <1>4 DEF SelectKey
  <2>2. ASSUME NEW n \in Nat \ {0} PROVE Max({1, Min({old, n})}) \in 1 .. n
    <3>1. Min({old, n}) = IF old <= n THEN old ELSE n
      BY OfTwo
    <3>2. \A m \in Int : Max({1, m}) = IF 1 >= m THEN 1 ELSE m
      BY OfTwo
    <3> QED BY <3>1, <3>2
  <2>3. Max({1, Min({old, Len(d[t])})}) \in 1 .. Len(d[t])
    BY <1>1, <1>4, <2>2
  <2> QED BY <1>1, <1>4, <2>1, <2>3
<1> QED BY <1>2, <1>3, <1>4

\* So a reload leaves a row selected.
LEMMA Reloads ==
  ASSUME ListOK, Reload
  PROVE  ListOK' /\ UNCHANGED tab
<1>1. CASE UNCHANGED list
  BY <1>1 DEF ListOK, list
<1>2. CASE \E v \in Views : dash' = v /\ sel' = SelectKey(v, tab, Highlighted, sel) /\ UNCHANGED tab
  <2>1. sel \in Nat
    BY Rows DEF ListOK
  <2> QED BY <1>2, <2>1, SelectsRow DEF ListOK
<1> QED BY <1>1, <1>2 DEF Reload

\* What the highlighted item is.
LEMMA Kind ==
  ASSUME NEW d \in Views, NEW t \in Tabs, NEW i
  PROVE  /\ t = "campaigns" => Item(d, t, i) \in Campaigns \cup {None}
         /\ t = "quests" => Item(d, t, i) \in Quests \cup {None}
         /\ t = "projects" => Target(d, t, i) = None
         /\ t # "projects" => Target(d, t, i) = Item(d, t, i)
<1>1. i \in DOMAIN d[t] => d[t][i] \in CASE t = "projects" -> Projects [] t = "campaigns" -> Campaigns
                                            [] t = "quests" -> Quests
  BY Rows
<1> QED BY <1>1 DEF Item, Target

\* The pane on an item of the tab.
LEMMA Shows ==
  ASSUME tab' \in Tabs, NEW x, tab' = "campaigns" => x \in Campaigns \cup {None},
         tab' = "quests" => x \in Quests \cup {None}, tab' = "projects" => x = None,
         Show(x), scroll' \in Nat, follow' \in BOOLEAN, rows' \in Nat
  PROVE  PaneOK'
BY TuiAssumption DEF PaneOK, PaneFits, Show, Ids, Tabs

\* The selection goes to x.
LEMMA Syncs ==
  ASSUME PaneOK, tab' \in Tabs, NEW x, tab' = "campaigns" => x \in Campaigns \cup {None},
         tab' = "quests" => x \in Quests \cup {None}, tab' = "projects" => x = None,
         SyncDetail(x), UNCHANGED rows
  PROVE  PaneOK'
<1>1. CASE detail = None
  BY <1>1 DEF SyncDetail, pane, PaneOK, PaneFits
<1>2. CASE detail # None /\ x = None
  BY <1>2 DEF SyncDetail, Close, PaneOK, PaneFits
<1>3. CASE detail # None /\ x # None
  <2>1. Show(x) /\ (UNCHANGED <<scroll, follow>> \/ ToTail)
    BY <1>3 DEF SyncDetail
  <2>2. scroll' \in Nat /\ rows' \in Nat
    BY <2>1 DEF PaneOK, ToTail
  <2>3. follow' \in BOOLEAN
    BY <2>1, Zenon DEF PaneOK, ToTail
  <2> QED BY <2>1, <2>2, <2>3, Shows
<1> QED BY <1>1, <1>2, <1>3

\* Scrolling stays above the top.
LEMMA Scrolls ==
  ASSUME PaneOK, PageDown \/ PageUp
  PROVE  scroll' \in Nat /\ follow' \in BOOLEAN /\ UNCHANGED <<detail, lines>>
<1>1. MaxScroll \in Nat /\ scroll \in Nat /\ rows \in Nat /\ follow \in BOOLEAN
  BY DEF MaxScroll, PaneOK
<1>2. CASE UNCHANGED pane
  BY <1>1, <1>2 DEF pane
<1>3. CASE PageDown /\ ~UNCHANGED pane
  <2>1. /\ scroll' = Min({scroll + rows, MaxScroll}) /\ follow' = (scroll + rows >= MaxScroll)
        /\ UNCHANGED <<detail, lines>>
    BY <1>3 DEF PageDown
  <2>2. ASSUME NEW a \in Nat, NEW b \in Nat PROVE Min({a, b}) \in Nat
    BY OfTwo
  <2>3. scroll' \in Nat
    BY <1>1, <2>1, <2>2
  <2>4. (scroll + rows >= MaxScroll) \in BOOLEAN
    OBVIOUS
  <2>5. follow' \in BOOLEAN
    BY <2>1, <2>4, Zenon
  <2> QED BY <2>1, <2>3, <2>5
<1>4. CASE PageUp /\ ~UNCHANGED pane
  <2>1. /\ scroll' = Up(IF follow THEN MaxScroll ELSE scroll)
        /\ follow' = FALSE /\ UNCHANGED <<detail, lines>>
    BY <1>4 DEF PageUp
  <2>2. \A n \in Nat : Up(n) \in Nat
    BY <1>1 DEF Up
  <2>3. (IF follow THEN MaxScroll ELSE scroll) \in Nat
    BY <1>1, Zenon
  <2> QED BY <2>1, <2>2, <2>3
<1> QED BY <1>2, <1>3, <1>4

\* The pane when nothing but lines and rows changes, and the tab is left or a project's.
LEMMA PaneStays ==
  ASSUME PaneOK, UNCHANGED <<detail, scroll, follow>>, lines' \in Nat, rows' \in Nat,
         UNCHANGED tab \/ tab' = "projects"
  PROVE  PaneOK'
BY DEF PaneOK, PaneFits

\* The lists and the row, after each step.
LEMMA ListStep ==
  ASSUME ListOK, [Next]_vars
  PROVE  ListOK'
<1>1. CASE UNCHANGED list
  BY <1>1 DEF list, ListOK
<1>2. CASE RecvResult \/ AutoReload
  BY <1>1, <1>2, Reloads DEF RecvResult, AutoReload
<1>3. CASE KeySubmitProject
  <2>1. ASSUME NEW name, Registered(name) PROVE ListOK'
    <3>1. PICK v \in Views :
            LET reloaded == SelectKey(v, tab, Highlighted, sel)
            IN  dash' = v /\ sel' = SelectKey(v, "projects", name, reloaded)
      BY <2>1 DEF Registered
    <3>2. sel \in Nat
      BY Rows DEF ListOK
    <3>3. SelectKey(v, tab, Highlighted, sel) \in Nat
      BY <3>2, SelectsRow, Rows DEF ListOK
    <3> QED BY <2>1, <3>1, <3>3, SelectsRow DEF Registered, ListOK, Tabs
  <2> QED BY <1>1, <1>3, <2>1 DEF KeySubmitProject
<1>4. CASE KeyTab
  <2>1. \A t \in Tabs : TabAfter(t) \in Tabs /\ TabBefore(t) \in Tabs
    <3>1. \A t \in Tabs : TabAfter(t) \in Tabs /\ \E u \in Tabs : TabAfter(u) = t
      BY DEF Tabs, TabAfter
    <3> QED BY <3>1 DEF TabBefore
  <2>2. dash' = dash /\ tab' \in Tabs /\ sel' = FirstRow(dash, tab')
    BY <1>4, <2>1 DEF KeyTab, ListOK
  <2>3. Len(dash[tab']) \in Nat /\ (dash[tab'] = <<>> <=> Len(dash[tab']) = 0)
    BY <2>2, Rows DEF ListOK
  <2> QED BY <2>2, <2>3 DEF ListOK, FirstRow
<1>5. CASE KeyMove
  <2>1. Len(dash[tab]) \in Nat /\ (dash[tab] = <<>> <=> Len(dash[tab]) = 0)
    BY Rows DEF ListOK
  <2>2. ASSUME NEW n \in Nat \ {0}, NEW i \in 1 .. n
        PROVE  Min({i + 1, n}) \in 1 .. n /\ Max({i, 2}) - 1 \in 1 .. n
    <3>1. \A k \in Int : Min({k, n}) = (IF k <= n THEN k ELSE n) /\ Max({i, 2}) = IF i >= 2 THEN i ELSE 2
      BY OfTwo
    <3> QED BY <3>1
  <2>3. CASE dash[tab] = <<>>
    BY <1>1, <1>5, <2>3 DEF KeyMove, list
  <2>4. CASE dash[tab] # <<>>
    <3>1. sel \in 1 .. Len(dash[tab])
      BY <2>1, <2>4 DEF ListOK
    <3>2. UNCHANGED <<dash, tab>> /\ sel' \in {Min({sel + 1, Len(dash[tab])}), Max({sel, 2}) - 1}
      BY <1>5, <2>4 DEF KeyMove
    <3>3. sel' \in 1 .. Len(dash[tab])
      BY <2>1, <2>2, <2>4, <3>1, <3>2
    <3> QED BY <2>1, <2>4, <3>2, <3>3 DEF ListOK
  <2> QED BY <2>3, <2>4
<1>6. CASE KeyJump
  <2>1. PICK i \in DOMAIN dash.quests : tab' = "quests" /\ sel' = i /\ dash' = dash
    BY <1>6 DEF KeyJump
  <2>2. /\ Len(dash["quests"]) \in Nat /\ DOMAIN dash["quests"] = 1 .. Len(dash["quests"])
        /\ (dash["quests"] = <<>> <=> Len(dash["quests"]) = 0)
    BY Rows DEF ListOK, Tabs
  <2> QED BY <2>1, <2>2 DEF ListOK, Tabs
<1>7. CASE NoResult \/ RecvDisconnected \/ Quit \/ Refresh \/ NoKey \/ LoopFails \/ (\E n \in Tokens : WorkerEnds(n))
  BY <1>1, <1>7 DEF NoResult, RecvDisconnected, Quit, Refresh, NoKey, LoopFails, WorkerEnds
<1>8. CASE KeyHelp \/ KeyQuitRunning \/ KeyEscForm \/ KeySubmit \/ KeyQuit \/ KeyClose \/ KeyScroll
           \/ KeyToggle \/ KeyHelpOpens \/ KeyCommand \/ KeyForm
  BY <1>1, <1>8
  DEF KeyHelp, KeyQuitRunning, KeyEscForm, KeySubmit, KeyQuit, KeyClose, KeyScroll, KeyToggle, KeyHelpOpens,
      KeyCommand, KeyForm
<1>9. CASE UNCHANGED vars
  BY <1>1, <1>9 DEF vars
<1> QED BY <1>2, <1>3, <1>4, <1>5, <1>6, <1>7, <1>8, <1>9 DEF Next, Loop, Keys

\* The pane, after each step.
LEMMA PaneStep ==
  ASSUME ListOK, ListOK', PaneOK, [Next]_vars
  PROVE  PaneOK'
<1>0. Lengths \subseteq Nat /\ Heights \subseteq Nat /\ lines \in Nat /\ rows \in Nat /\ scroll \in Nat
      /\ 0 \in Nat /\ dash \in Views /\ tab \in Tabs /\ dash' \in Views /\ tab' \in Tabs
  BY TuiAssumption DEF PaneOK, ListOK
<1>1. ASSUME UNCHANGED <<pane, tab>> \/ (UNCHANGED pane /\ tab' = "projects"), rows' \in Nat
      PROVE  PaneOK'
  BY <1>0, <1>1, PaneStays DEF pane
<1>2. Draw => rows' \in Nat
  BY <1>0 DEF Draw
<1>3. CASE NoResult \/ RecvDisconnected \/ RecvResult
  <2>1. Draw /\ UNCHANGED pane
    BY <1>3 DEF NoResult, RecvDisconnected, RecvResult
  <2>2. UNCHANGED tab
    BY <1>3, Reloads DEF NoResult, RecvDisconnected, RecvResult, list
  <2> QED BY <1>1, <1>2, <2>1, <2>2
<1>4. CASE Quit \/ NoKey \/ LoopFails \/ (\E n \in Tokens : WorkerEnds(n)) \/ UNCHANGED vars
  BY <1>0, <1>1, <1>4 DEF Quit, NoKey, LoopFails, WorkerEnds, vars, list
<1>5. CASE AutoReload
  <2>1. UNCHANGED <<pane, rows, tab>>
    BY <1>5, Reloads DEF AutoReload, GoesOn, list
  <2> QED BY <1>0, <1>1, <2>1
<1>6. CASE Refresh
  <2>1. UNCHANGED <<detail, scroll, follow, rows, tab>> /\ lines' \in Lengths \cup {lines}
    BY <1>6 DEF Refresh, list
  <2> QED BY <1>0, <2>1, PaneStays
<1>7. CASE KeyHelp \/ KeyQuitRunning \/ KeyEscForm \/ KeySubmit \/ KeyQuit \/ KeyHelpOpens \/ KeyCommand
           \/ KeyForm
  <2>1. UNCHANGED <<pane, rows, tab>>
    BY <1>7
    DEF KeyHelp, KeyQuitRunning, KeyEscForm, KeySubmit, KeyQuit, KeyHelpOpens, KeyCommand, KeyForm, Key, list
  <2> QED BY <1>0, <1>1, <2>1
<1>8. CASE KeySubmitProject
  <2>1. UNCHANGED <<pane, rows>> /\ (tab' = "projects" \/ UNCHANGED tab)
    BY <1>8 DEF KeySubmitProject, Registered, Key, list
  <2> QED BY <1>0, <1>1, <2>1
<1>9. CASE KeyClose \/ KeyTab
  <2>1. Close /\ UNCHANGED rows
    BY <1>9 DEF KeyClose, KeyTab, Key
  <2> QED BY <2>1 DEF Close, PaneOK, PaneFits
<1>10. CASE KeyScroll
  <2>1. UNCHANGED <<detail, lines, tab, rows>>
    BY <1>10, Scrolls DEF KeyScroll, Key, ToTail, list
  <2>2. scroll' \in Nat /\ follow' \in BOOLEAN
    <3>1. CASE PageDown \/ PageUp
      BY <3>1, Scrolls
    <3>2. CASE scroll' = 0 /\ follow' \in {TRUE, FALSE}
      BY <1>0, <3>2, Zenon
    <3> QED BY <1>10, <3>1, <3>2 DEF KeyScroll, ToTail
  <2> QED BY <1>0, <2>1, <2>2 DEF PaneOK, PaneFits
<1>11. CASE KeyMove
  <2>1. SyncDetail(Target(dash, tab, sel')) /\ UNCHANGED <<rows, tab>>
    BY <1>11 DEF KeyMove, Key
  <2> QED BY <1>0, <2>1, Syncs, Kind
<1>12. CASE KeyToggle
  <2>1. UNCHANGED <<rows, tab>> /\ ToggleDetail
    BY <1>12 DEF KeyToggle, Key, list
  <2>2. CASE Close
    BY <2>1, <2>2 DEF Close, PaneOK, PaneFits
  <2>3. CASE Show(Target(dash, tab, sel)) /\ ToTail
    <3>1. scroll' \in Nat /\ rows' \in Nat
      BY <1>0, <2>1, <2>3 DEF ToTail
    <3>2. follow' \in BOOLEAN
      BY <2>3, Zenon DEF ToTail
    <3> QED BY <1>0, <2>1, <2>3, <3>1, <3>2, Shows, Kind
  <2>4. CASE UNCHANGED pane
    BY <1>0, <1>1, <2>1, <2>4
  <2> QED BY <2>1, <2>2, <2>3, <2>4 DEF ToggleDetail
<1>13. CASE KeyJump
  <2>1. PICK i \in DOMAIN dash.quests : tab' = "quests" /\ SyncDetail(dash.quests[i]) /\ UNCHANGED rows
    BY <1>13 DEF KeyJump, Key
  <2>2. dash.quests[i] \in Quests
    BY <1>0, <2>1, Rows DEF Tabs
  <2> QED BY <1>0, <2>1, <2>2, Syncs
<1> QED BY <1>3, <1>4, <1>5, <1>6, <1>7, <1>8, <1>9, <1>10, <1>11, <1>12, <1>13 DEF Next, Loop, Keys

\* A worker is spawned with what a key gives it.
LEMMA SpawnedRest ==
  ASSUME IInv, RestOK, NEW name \in Commands, NEW target, name = "Run" => target \in Campaigns,
         SpawnWorker(name, target), pc = "poll", pc' = "top", UNCHANGED <<progress, quitting, waited, help>>
  PROVE  RestOK'
<1>1. PICK n \in Tokens :
        /\ worker[n] = "none" /\ worker' = [worker EXCEPT ![n] = "busy"]
        /\ task' = [task EXCEPT ![n] = <<name, target>>]
  BY DEF SpawnWorker
<1>2. mode' = "Running" /\ answering' = None /\ UNCHANGED cancelled
  BY DEF SpawnWorker
<1>3. Given(task'[n])
  BY <1>1 DEF Given, IInv, HandInv
<1>4. \A m \in Tokens : worker'[m] # "none" => Given(task'[m])
  BY <1>1, <1>3 DEF RestOK, IInv, HandInv
<1> QED BY <1>2, <1>4 DEF RestOK, BarOfRun, Modes

\* When the worker's result is collected, there is none.
LEMMA CollectedRest ==
  ASSUME IInv, RestOK, Collected, pc' = "quit", UNCHANGED <<progress, quitting, waited, help>>
  PROVE  RestOK'
<1>1. /\ worker' = [worker EXCEPT ![rx] = "none"] /\ task' = [task EXCEPT ![rx] = <<"none", None>>]
      /\ cancelled' = cancelled \ {rx} /\ mode' = "Normal" /\ UNCHANGED answering
  BY DEF Collected
<1>2. \A m \in Tokens : worker'[m] # "none" => Given(task'[m])
  BY <1>1 DEF RestOK, IInv, HandInv
<1> QED BY <1>1, <1>2 DEF RestOK, BarOfRun, Modes

\* The rest of the screen, after each step.
LEMMA RestStep ==
  ASSUME IInv, ListOK, RestOK, [Next]_vars
  PROVE  RestOK'
<1>0. dash \in Views /\ tab \in Tabs
  BY DEF ListOK
<1>1. ASSUME UNCHANGED <<worker, task, cancelled, help, progress, quitting>>, waited' \in 0 .. QuitLimit,
             pc' \in {"top", "quit", "refresh", "exited", "failed"}, mode' \in Modes, answering' \in Quests \cup {None}
      PROVE  RestOK'
  BY <1>1 DEF RestOK, BarOfRun
<1>2. CASE NoResult \/ Quit \/ NoKey \/ LoopFails
  <2>1. /\ UNCHANGED <<worker, task, cancelled, help, progress, quitting, waited, mode, answering>>
        /\ pc' \in {"top", "quit", "exited", "failed"}
    BY <1>2 DEF NoResult, Quit, NoKey, LoopFails, modal, thread, ending
  <2> QED BY <1>1, <2>1 DEF RestOK
<1>3. CASE RecvResult \/ RecvDisconnected
  BY <1>3, CollectedRest DEF RecvResult, RecvDisconnected, ending
<1>4. CASE AutoReload
  <2>1. /\ UNCHANGED <<worker, task, cancelled, help, progress, quitting, mode, answering>> /\ pc' = "refresh"
        /\ waited' = IF quitting /\ waited < QuitLimit THEN waited + 1 ELSE waited
    BY <1>4 DEF AutoReload, GoesOn, modal, thread
  <2>2. waited \in 0 .. QuitLimit /\ QuitLimit \in Nat
    BY TuiAssumption DEF RestOK
  <2>3. \A w \in 0 .. QuitLimit : w < QuitLimit => w + 1 \in 0 .. QuitLimit
    BY <2>2
  <2>4. waited' \in 0 .. QuitLimit
    BY <2>1, <2>2, <2>3
  <2> QED BY <1>1, <2>1, <2>4 DEF RestOK
<1>5. CASE Refresh
  <2>1. /\ UNCHANGED <<rx, worker, task, cancelled, help, quitting, waited, mode, answering>> /\ pc' = "poll"
        /\ progress' \in IF mode = "Running" THEN {RunningCampaign, None} ELSE {None}
    BY <1>5 DEF Refresh, modal, thread, ending
  <2>2. CASE progress' = None
    BY <2>1, <2>2 DEF RestOK, BarOfRun
  <2>3. CASE progress' # None
    <3>1. mode = "Running" /\ progress' = RunningCampaign /\ rx # 0 /\ task[rx][1] = "Run"
          /\ progress' = task[rx][2]
      BY <2>1, <2>3 DEF RunningCampaign
    <3>2. rx \in Tokens
      BY <3>1 DEF IInv, HandInv
    <3>3. worker[rx] # "none"
      BY <1>0, <3>1, <3>2 DEF IInv, HandInv, OneWorker
    <3>4. Given(task[rx])
      BY <3>2, <3>3 DEF RestOK
    <3>5. task[rx] = <<"Run", progress'>> /\ progress' \in Campaigns
      BY <3>1, <3>4 DEF Given
    <3> QED BY <2>1, <3>1, <3>5 DEF RestOK, BarOfRun
  <2> QED BY <2>2, <2>3
<1>6. ASSUME NEW n \in Tokens, WorkerEnds(n) PROVE RestOK'
  <2>1. worker[n] = "busy" /\ \E s \in {"sent", "panicked"} : worker' = [worker EXCEPT ![n] = s]
    BY <1>6 DEF WorkerEnds
  <2>2. UNCHANGED <<pc, rx, task, cancelled, help, progress, quitting, waited, mode, answering>>
    BY <1>6 DEF WorkerEnds, modal, ending
  <2>3. \A m \in Tokens : worker'[m] # "none" => worker[m] # "none"
    BY <2>1 DEF IInv, HandInv
  <2> QED BY <2>2, <2>3 DEF RestOK, BarOfRun
<1>7. CASE KeyHelp
  <2>1. /\ UNCHANGED <<worker, task, cancelled, progress, quitting, waited, mode, answering>>
        /\ pc' = "top" /\ help' = FALSE
    BY <1>7 DEF KeyHelp, modal, thread, ending
  <2> QED BY <2>1 DEF RestOK, BarOfRun
<1>8. CASE KeyQuitRunning
  <2>1. /\ UNCHANGED <<worker, task, help, progress, waited, mode, answering>> /\ pc' = "top" /\ quitting' = TRUE
        /\ cancelled' = IF token = 0 THEN cancelled ELSE cancelled \cup {token}
    BY <1>8 DEF KeyQuitRunning, modal
  <2>2. cancelled' \subseteq Tokens
    BY <2>1 DEF RestOK, IInv, HandInv, OneWorker
  <2> QED BY <2>1, <2>2 DEF RestOK, BarOfRun
<1>9. CASE KeyEscForm \/ KeySubmitProject
  <2>1. /\ UNCHANGED <<worker, task, cancelled, help, progress, quitting, waited>>
        /\ pc' = "top" /\ mode' = "Normal" /\ answering' = None
    BY <1>9 DEF KeyEscForm, KeySubmitProject, Key, thread, ending
  <2> QED BY <1>1, <2>1 DEF RestOK, Modes
<1>10. CASE KeySubmit
  <2>1. pc = "poll" /\ pc' = "top" /\ UNCHANGED <<progress, quitting, waited, help>>
        /\ (SpawnWorker("Plan", None) \/ SpawnWorker("Resume", answering))
    BY <1>10 DEF KeySubmit, Key, ending
  <2> QED BY <2>1, SpawnedRest DEF Commands
<1>11. CASE KeyCommand
  <2>1. pc = "poll" /\ pc' = "top" /\ UNCHANGED <<progress, quitting, waited, help>> /\ Highlighted # None
        /\ \/ tab = "campaigns" /\ SpawnWorker("Run", Highlighted)
           \/ SpawnWorker("Report", Highlighted)
           \/ SpawnWorker("Triage", Highlighted)
    BY <1>11 DEF KeyCommand, Key, ending
  <2>2. tab = "campaigns" => Highlighted \in Campaigns
    BY <1>0, <2>1, Kind DEF Highlighted
  <2> QED BY <2>1, <2>2, SpawnedRest DEF Commands
<1>12. CASE KeyForm
  <2>1. /\ UNCHANGED <<worker, task, cancelled, help, progress, quitting, waited>> /\ pc' = "top" /\ mode' = "Input"
        /\ answering' = None \/ (tab = "quests" /\ answering' = Highlighted)
    BY <1>12 DEF KeyForm, Key, thread, ending
  <2>2. answering' \in Quests \cup {None}
    BY <1>0, <2>1, Kind DEF Highlighted
  <2> QED BY <1>1, <2>1, <2>2 DEF RestOK, Modes
<1>13. CASE KeyQuit \/ KeyClose \/ KeyTab \/ KeyScroll \/ KeyMove \/ KeyToggle \/ KeyJump
  <2>1. /\ UNCHANGED <<worker, task, cancelled, help, progress, quitting, waited, mode, answering>>
        /\ pc' \in {"top", "exited"}
    BY <1>13 DEF KeyQuit, KeyClose, KeyTab, KeyScroll, KeyMove, KeyToggle, KeyJump, Key, modal, thread, ending
  <2> QED BY <1>1, <2>1 DEF RestOK
<1>14. CASE KeyHelpOpens
  <2>1. /\ UNCHANGED <<worker, task, cancelled, progress, quitting, waited, mode, answering>>
        /\ pc' = "top" /\ help' = TRUE
    BY <1>14 DEF KeyHelpOpens, Key, modal, thread, ending
  <2> QED BY <2>1 DEF RestOK, BarOfRun
<1>15. CASE UNCHANGED vars
  BY <1>15 DEF vars, modal, thread, ending, RestOK, BarOfRun
<1> QED BY <1>2, <1>3, <1>4, <1>5, <1>6, <1>7, <1>8, <1>9, <1>10, <1>11, <1>12, <1>13, <1>14, <1>15
  DEF Next, Loop, Keys

\* What the loop starts with.
LEMMA ScreenStart == Init => ScreenInv
<1> SUFFICES ASSUME Init PROVE ScreenInv
  OBVIOUS
<1>1. ListOK
  BY Rows DEF Init, ListOK, FirstRow, Tabs
<1>2. PaneOK
  BY DEF Init, PaneOK, PaneFits, Ids
<1>3. RestOK
  <2>1. \A n \in Tokens : worker[n] = "none"
    BY DEF Init
  <2>2. 0 \in 0 .. QuitLimit
    BY TuiAssumption
  <2>3. help \in BOOLEAN /\ quitting \in BOOLEAN
    BY Zenon DEF Init
  <2> QED BY <2>1, <2>2, <2>3 DEF Init, RestOK, BarOfRun, Modes
<1> QED BY <1>1, <1>2, <1>3 DEF ScreenInv

\* Whatever keys, panics and rows of other processes come, the selected row is one of the
\* list, the pane shows an item of the tab's kind or a leftover next to the projects, and
\* the progress bar is of the campaign the worker runs (reload, handle_key, run_loop).
THEOREM HonestScreen == Spec => []ScreenHonest
<1>1. IInv /\ ScreenInv /\ [Next]_vars => ScreenInv'
  BY ListStep, PaneStep, RestStep DEF ScreenInv
<1>2. IInv /\ ScreenInv => ScreenHonest
  <2> SUFFICES ASSUME IInv, ScreenInv PROVE TypeOK
    BY DEF ScreenHonest, ScreenInv, PaneOK, RestOK
  <2>1. \A n \in Tokens : worker[n] # "none" => task[n][1] \in Commands
    BY DEF ScreenInv, RestOK, Given
  <2>2. rx \in Tokens \cup {0} /\ token \in Tokens \cup {0}
    BY DEF IInv, HandInv, OneWorker
  <2> QED BY <2>1, <2>2 DEF TypeOK, ScreenInv, ListOK, PaneOK, RestOK, IInv, HandInv, AnswerInv
<1> QED BY <1>1, <1>2, ScreenStart, Holds, PTL DEF Spec

-----------------------------------------------------------------------------
(* What the screen, triage and the report read (Queries).                  *)

\* In a finite set that below orders, each element has a rank of its own, and every rank
\* is taken.
LEMMA Ranks ==
  ASSUME NEW S, IsFiniteSet(S), NEW below \in [S -> SUBSET S],
         \A i \in S : i \notin below[i],
         \A i, k \in S : i # k => \/ i \in below[k] /\ below[i] \subseteq below[k]
                                  \/ k \in below[i] /\ below[k] \subseteq below[i]
  PROVE  /\ Cardinality(S) \in Nat
         /\ \A i \in S : Cardinality(below[i]) \in 0 .. Cardinality(S) - 1
         /\ \A i, k \in S : i \in below[k] <=> Cardinality(below[i]) < Cardinality(below[k])
         /\ \A n \in 0 .. Cardinality(S) - 1 : \E i \in S : Cardinality(below[i]) = n
<1> DEFINE rank == [i \in S |-> Cardinality(below[i])]
           n == Cardinality(S)
<1>1. n \in Nat
  BY FS_CardinalityType
<1>2. \A i \in S : IsFiniteSet(below[i]) /\ Cardinality(below[i]) \in Nat
  BY FS_Subset, FS_CardinalityType
<1>3. ASSUME NEW A, NEW B, IsFiniteSet(B), A \subseteq B, NEW x \in B, x \notin A
      PROVE  Cardinality(A) < Cardinality(B)
  <2>1. IsFiniteSet(A) /\ Cardinality(A) <= Cardinality(B) /\ Cardinality(A) # Cardinality(B)
    BY <1>3, FS_Subset
  <2>2. Cardinality(A) \in Nat /\ Cardinality(B) \in Nat
    BY <1>3, <2>1, FS_CardinalityType
  <2> QED BY <2>1, <2>2
<1>4. \A i \in S : Cardinality(below[i]) \in 0 .. n - 1
  <2> SUFFICES ASSUME NEW i \in S PROVE Cardinality(below[i]) \in 0 .. n - 1
    OBVIOUS
  <2>1. Cardinality(below[i]) < n
    BY <1>3
  <2> QED BY <1>1, <1>2, <2>1
<1>5. \A i, k \in S : i \in below[k] => Cardinality(below[i]) < Cardinality(below[k])
  <2> SUFFICES ASSUME NEW i \in S, NEW k \in S, i \in below[k]
               PROVE  Cardinality(below[i]) < Cardinality(below[k])
    OBVIOUS
  <2>1. below[i] \subseteq below[k]
    OBVIOUS
  <2> QED BY <1>2, <1>3, <2>1
<1>6. \A i, k \in S : i \in below[k] <=> Cardinality(below[i]) < Cardinality(below[k])
  <2> SUFFICES ASSUME NEW i \in S, NEW k \in S, Cardinality(below[i]) < Cardinality(below[k])
               PROVE  i \in below[k]
    BY <1>5
  <2>1. i # k
    BY <1>2
  <2>2. ~(k \in below[i])
    BY <1>2, <1>5
  <2> QED BY <2>1, <2>2
<1>7. \A i, k \in S : rank[i] = rank[k] => i = k
  BY <1>2, <1>5
<1>8. rank \in [S -> 0 .. n - 1]
  BY <1>4
<1>9. rank \in Injection(S, 0 .. n - 1)
  BY <1>7, <1>8 DEF Injection, IsInjective
<1>10. IsFiniteSet(0 .. n - 1) /\ Cardinality(0 .. n - 1) = n
  BY <1>1, FS_Interval
<1>11. rank \in Surjection(S, 0 .. n - 1)
  BY <1>9, <1>10, FS_Injection
<1>12. \A m \in 0 .. n - 1 : \E i \in S : Cardinality(below[i]) = m
  BY <1>11 DEF Surjection
<1> QED BY <1>1, <1>4, <1>6, <1>12

\* A log of events: what was recorded after a row has a later id and no earlier time.
IsLog(log) ==
  /\ DOMAIN log \subseteq Nat /\ IsFiniteSet(DOMAIN log)
  /\ \A i \in DOMAIN log : log[i].at \in Nat
  /\ \A i, j \in DOMAIN log : After(log, i, j) => j < i /\ log[j].at <= log[i].at

\* Its rows are in one order.
LEMMA OlderOrders ==
  ASSUME NEW log, IsLog(log), NEW i \in DOMAIN log, NEW j \in DOMAIN log
  PROVE  /\ ~Older(log, i, i)
         /\ i # j => (Older(log, i, j) <=> ~Older(log, j, i))
         /\ \A k \in DOMAIN log : Older(log, i, j) /\ Older(log, j, k) => Older(log, i, k)
         /\ After(log, i, j) => Older(log, j, i)
<1>1. i \in Nat /\ j \in Nat /\ log[i].at \in Nat /\ log[j].at \in Nat
  BY DEF IsLog
<1>2. ~Older(log, i, i)
  BY <1>1 DEF Older
<1>3. i # j => (Older(log, i, j) <=> ~Older(log, j, i))
  BY <1>1 DEF Older
<1>4. ASSUME NEW k \in DOMAIN log, Older(log, i, j), Older(log, j, k) PROVE Older(log, i, k)
  <2>1. k \in Nat /\ log[k].at \in Nat
    BY DEF IsLog
  <2> QED BY <1>1, <1>4, <2>1 DEF Older
<1>5. ASSUME After(log, i, j) PROVE Older(log, j, i)
  <2>1. j < i /\ log[j].at <= log[i].at
    BY <1>5 DEF IsLog
  <2> QED BY <1>1, <2>1 DEF Older
<1> QED BY <1>2, <1>3, <1>4, <1>5

\* How many rows of S are older, or newer, than i.
Below(log, S, i) == Cardinality({j \in S : Older(log, j, i)})
Above(log, S, i) == Cardinality({j \in S : Older(log, i, j)})

\* They are its rank.
LEMMA RowRanks ==
  ASSUME NEW log, IsLog(log), NEW S \in SUBSET DOMAIN log
  PROVE  /\ Cardinality(S) \in Nat
         /\ \A i \in S : Below(log, S, i) \in 0 .. Cardinality(S) - 1
         /\ \A i \in S : Above(log, S, i) \in 0 .. Cardinality(S) - 1
         /\ \A i, k \in S : Older(log, i, k) <=> Below(log, S, i) < Below(log, S, k)
         /\ \A i, k \in S : Older(log, i, k) <=> Above(log, S, k) < Above(log, S, i)
         /\ \A n \in 0 .. Cardinality(S) - 1 : \E i \in S : Below(log, S, i) = n
         /\ \A n \in 0 .. Cardinality(S) - 1 : \E i \in S : Above(log, S, i) = n
<1> DEFINE older == [i \in S |-> {j \in S : Older(log, j, i)}]
           newer == [i \in S |-> {j \in S : Older(log, i, j)}]
<1>0. /\ IsFiniteSet(S)
      /\ \A i \in S : ~Older(log, i, i)
      /\ \A i, j \in S : i # j => (Older(log, i, j) <=> ~Older(log, j, i))
      /\ \A i, j, k \in S : Older(log, i, j) /\ Older(log, j, k) => Older(log, i, k)
  <2>1. \A i \in S : i \in DOMAIN log
    OBVIOUS
  <2>2. IsFiniteSet(S)
    BY FS_Subset DEF IsLog
  <2> QED BY <2>1, <2>2, OlderOrders
<1>1. /\ older \in [S -> SUBSET S] /\ newer \in [S -> SUBSET S]
      /\ \A i \in S : i \notin older[i] /\ i \notin newer[i]
  BY <1>0
<1>2. \A i, k \in S : i # k => \/ i \in older[k] /\ older[i] \subseteq older[k]
                               \/ k \in older[i] /\ older[k] \subseteq older[i]
  BY <1>0
<1>3. \A i, k \in S : i # k => \/ i \in newer[k] /\ newer[i] \subseteq newer[k]
                               \/ k \in newer[i] /\ newer[k] \subseteq newer[i]
  BY <1>0
<1>4. \A i \in S : older[i] = {j \in S : Older(log, j, i)} /\ newer[i] = {j \in S : Older(log, i, j)}
  OBVIOUS
<1>5. \A i, k \in S : (i \in older[k] <=> Older(log, i, k)) /\ (k \in newer[i] <=> Older(log, i, k))
  OBVIOUS
<1> HIDE DEF older, newer
<1>6. /\ Cardinality(S) \in Nat
      /\ \A i \in S : Cardinality(older[i]) \in 0 .. Cardinality(S) - 1
      /\ \A i, k \in S : i \in older[k] <=> Cardinality(older[i]) < Cardinality(older[k])
      /\ \A n \in 0 .. Cardinality(S) - 1 : \E i \in S : Cardinality(older[i]) = n
  BY <1>0, <1>1, <1>2, Ranks
<1>7. /\ \A i \in S : Cardinality(newer[i]) \in 0 .. Cardinality(S) - 1
      /\ \A i, k \in S : i \in newer[k] <=> Cardinality(newer[i]) < Cardinality(newer[k])
      /\ \A n \in 0 .. Cardinality(S) - 1 : \E i \in S : Cardinality(newer[i]) = n
  BY <1>0, <1>1, <1>3, Ranks
<1>8. \A i \in S : Below(log, S, i) = Cardinality(older[i]) /\ Above(log, S, i) = Cardinality(newer[i])
  BY <1>4 DEF Below, Above
<1>9. /\ \A i \in S : Below(log, S, i) \in 0 .. Cardinality(S) - 1
      /\ \A i, k \in S : Older(log, i, k) <=> Below(log, S, i) < Below(log, S, k)
      /\ \A n \in 0 .. Cardinality(S) - 1 : \E i \in S : Below(log, S, i) = n
  BY <1>5, <1>6, <1>8
<1>10. /\ \A i \in S : Above(log, S, i) \in 0 .. Cardinality(S) - 1
       /\ \A i, k \in S : Older(log, i, k) <=> Above(log, S, k) < Above(log, S, i)
       /\ \A n \in 0 .. Cardinality(S) - 1 : \E i \in S : Above(log, S, i) = n
  BY <1>5, <1>7, <1>8
<1> QED BY <1>6, <1>9, <1>10

\* In order, the row of each position has as many rows before it.
LEMMA Ordered ==
  ASSUME NEW log, IsLog(log), NEW ids \in SUBSET DOMAIN log
  PROVE  /\ Len(InOrder(log, ids)) = Cardinality(ids)
         /\ DOMAIN InOrder(log, ids) = 1 .. Cardinality(ids)
         /\ \A k \in DOMAIN InOrder(log, ids) :
              /\ InOrder(log, ids)[k] \in ids
              /\ Below(log, ids, InOrder(log, ids)[k]) = k - 1
         /\ \A i \in ids : /\ InOrder(log, ids)[Below(log, ids, i) + 1] = i
                           /\ Below(log, ids, i) + 1 \in DOMAIN InOrder(log, ids)
<1> DEFINE t == InOrder(log, ids)
           n == Cardinality(ids)
           rank(i) == Below(log, ids, i)
<1>1. \A i \in ids : rank(i) \in 0 .. n - 1
  BY RowRanks
<1>2. n \in Nat /\ \A i, k \in ids : Older(log, i, k) <=> rank(i) < rank(k)
  BY RowRanks
<1>3. \A m \in 0 .. n - 1 : \E i \in ids : rank(i) = m
  BY RowRanks
<1>4. \A i, j \in ids : i = j \/ Older(log, i, j) \/ Older(log, j, i)
  <2>1. \A i \in ids : i \in DOMAIN log
    OBVIOUS
  <2> QED BY <2>1, OlderOrders
<1>5. t = [k \in 1 .. n |-> CHOOSE i \in ids : rank(i) = k - 1]
  BY DEF InOrder, Below
<1> HIDE DEF rank, t, n
<1>6. \A k \in 1 .. n : t[k] \in ids /\ rank(t[k]) = k - 1
  <2> SUFFICES ASSUME NEW k \in 1 .. n PROVE t[k] \in ids /\ rank(t[k]) = k - 1
    OBVIOUS
  <2>1. \E i \in ids : rank(i) = k - 1
    BY <1>1, <1>2, <1>3
  <2>2. t[k] = CHOOSE i \in ids : rank(i) = k - 1
    BY <1>5
  <2> QED BY <2>1, <2>2
<1>7. \A i \in ids : rank(i) + 1 \in 1 .. n /\ t[rank(i) + 1] = i
  <2> SUFFICES ASSUME NEW i \in ids PROVE rank(i) + 1 \in 1 .. n /\ t[rank(i) + 1] = i
    OBVIOUS
  <2>1. rank(i) + 1 \in 1 .. n /\ rank(i) \in Nat
    BY <1>1, <1>2, <1>3
  <2>2. t[rank(i) + 1] \in ids /\ rank(t[rank(i) + 1]) = rank(i)
    BY <1>6, <2>1
  <2>4. ~Older(log, i, t[rank(i) + 1]) /\ ~Older(log, t[rank(i) + 1], i)
    BY <1>1, <1>2, <1>3, <2>1, <2>2
  <2> QED BY <1>4, <2>1, <2>2, <2>4
<1>8. t \in [1 .. n -> ids]
  BY <1>5, <1>6
<1>9. Len(t) = n /\ DOMAIN t = 1 .. n
  BY <1>2, <1>8
<1> QED BY <1>2, <1>6, <1>7, <1>9 DEF t, n, rank

\* The newest rows are the tail of all of them.
LEMMA KeepsTail ==
  ASSUME NEW log, IsLog(log), NEW ids \in SUBSET DOMAIN log, NEW limit \in Nat,
         NEW t, t = NewestRows(log, ids, limit)
  PROVE  /\ Cardinality(ids) \in Nat /\ Len(t) = IF Cardinality(ids) < limit THEN Cardinality(ids) ELSE limit
         /\ DOMAIN t = 1 .. Len(t)
         /\ \A k \in DOMAIN t : t[k] \in ids
         /\ \A k, l \in DOMAIN t : k < l => Older(log, t[k], t[l])
         /\ \A k \in DOMAIN t : \A i \in ids : Older(log, t[k], i) => \E l \in k + 1 .. Len(t) : t[l] = i
<1> DEFINE n == Cardinality(ids)
           least == IF n < limit THEN n ELSE limit
           after(i) == Above(log, ids, i)
           top == {i \in ids : after(i) < limit}
           rank(i) == Below(log, top, i)
<1>1. top \in SUBSET DOMAIN log /\ top \subseteq ids /\ IsFiniteSet(top)
  BY FS_Subset DEF IsLog
<1>2. n \in Nat /\ least \in Nat /\ Cardinality(top) \in Nat
  BY <1>1, RowRanks
<1>3. /\ \A i \in ids : after(i) \in 0 .. n - 1
      /\ \A i, k \in ids : Older(log, i, k) <=> after(k) < after(i)
      /\ \A m \in 0 .. n - 1 : \E i \in ids : after(i) = m
  <2>1. \A i \in ids : after(i) \in 0 .. n - 1
    BY RowRanks
  <2>2. \A i, k \in ids : Older(log, i, k) <=> after(k) < after(i)
    BY RowRanks
  <2>3. \A m \in 0 .. n - 1 : \E i \in ids : after(i) = m
    BY RowRanks
  <2> QED BY <2>1, <2>2, <2>3
<1>4. t = InOrder(log, top)
  BY DEF NewestRows, Above
<1>5. /\ Len(t) = Cardinality(top) /\ DOMAIN t = 1 .. Cardinality(top)
      /\ \A k \in DOMAIN t : t[k] \in top /\ rank(t[k]) = k - 1
      /\ \A i \in top : t[rank(i) + 1] = i /\ rank(i) + 1 \in DOMAIN t
  <2> HIDE DEF top
  <2> QED BY <1>1, <1>4, Ordered
<1>6. \A i, k \in top : Older(log, i, k) <=> rank(i) < rank(k)
  <2> HIDE DEF top
  <2> QED BY <1>1, RowRanks
<1>7. \A i \in top : i \in ids /\ after(i) < limit
  BY <1>1
<1>8. \A i \in ids : after(i) < limit => i \in top
  OBVIOUS
<1>0. \A i, j \in ids : i = j \/ Older(log, i, j) \/ Older(log, j, i)
  <2>1. \A i \in ids : i \in DOMAIN log
    OBVIOUS
  <2> QED BY <2>1, OlderOrders
<1> HIDE DEF n, after, top, rank
<1>9. Cardinality(top) = least
  <2> DEFINE f == [i \in top |-> after(i)]
  <2>1. \A i \in top : after(i) \in 0 .. least - 1
    BY <1>2, <1>3, <1>7
  <2>2. \A i, k \in top : after(i) = after(k) => i = k
    <3> SUFFICES ASSUME NEW i \in top, NEW k \in top, after(i) = after(k) PROVE i = k
      OBVIOUS
    <3>1. ~Older(log, i, k) /\ ~Older(log, k, i)
      BY <1>2, <1>3, <1>7
    <3> QED BY <1>0, <1>7, <3>1
  <2>3. \A m \in 0 .. least - 1 : \E i \in top : after(i) = m
    <3> SUFFICES ASSUME NEW m \in 0 .. least - 1 PROVE \E i \in top : after(i) = m
      OBVIOUS
    <3>1. m \in 0 .. n - 1 /\ m < limit
      BY <1>2
    <3> QED BY <1>3, <1>8, <3>1
  <2>4. f \in Bijection(top, 0 .. least - 1)
    <3>1. f \in [top -> 0 .. least - 1]
      BY <2>1
    <3>2. \A a, b \in top : f[a] = f[b] => a = b
      BY <2>2
    <3>3. \A m \in 0 .. least - 1 : \E i \in top : f[i] = m
      BY <2>3
    <3> HIDE DEF f
    <3> QED BY <3>1, <3>2, <3>3 DEF Bijection, Injection, IsInjective, Surjection
  <2>5. Cardinality(0 .. least - 1) = Cardinality(top)
    BY <1>1, <2>4, FS_Bijection DEF ExistsBijection
  <2>6. Cardinality(0 .. least - 1) = least
    <3>1. ASSUME NEW m \in Nat PROVE Cardinality(0 .. m - 1) = m
      BY <3>1, FS_Interval
    <3> QED BY <1>2, <3>1
  <2> QED BY <2>5, <2>6
<1>10. ASSUME NEW k \in DOMAIN t, NEW i \in ids, Older(log, t[k], i)
       PROVE  \E l \in k + 1 .. Len(t) : t[l] = i
  <2>1. t[k] \in top /\ t[k] \in ids /\ rank(t[k]) = k - 1 /\ k \in Nat
    BY <1>2, <1>5, <1>7
  <2>2. after(i) < after(t[k]) /\ after(t[k]) < limit
    BY <1>3, <1>7, <1>10, <2>1
  <2>3. i \in top
    BY <1>2, <1>3, <1>8, <2>1, <2>2
  <2>4. rank(t[k]) < rank(i) /\ t[rank(i) + 1] = i /\ rank(i) + 1 \in 1 .. Len(t)
    BY <1>5, <1>6, <1>10, <2>1, <2>3
  <2>5. rank(i) + 1 \in k + 1 .. Len(t)
    BY <1>2, <1>5, <2>1, <2>4
  <2> QED BY <2>4, <2>5
<1>12. ASSUME NEW k \in DOMAIN t, NEW l \in DOMAIN t, k < l PROVE Older(log, t[k], t[l])
  <2>1. k \in Nat /\ l \in Nat /\ t[k] \in top /\ t[l] \in top /\ rank(t[k]) = k - 1 /\ rank(t[l]) = l - 1
    BY <1>2, <1>5
  <2> QED BY <1>6, <1>12, <2>1
<1>13. \A k \in DOMAIN t : t[k] \in ids
  BY <1>5, <1>7
<1>11. Len(t) = least /\ DOMAIN t = 1 .. Len(t)
  BY <1>5, <1>9
<1> QED BY <1>2, <1>10, <1>11, <1>12, <1>13 DEF n

\* What was recorded after a row is newer than it.
LEMMA NewestAreTail ==
  ASSUME NEW log, IsLog(log), NEW ids \in SUBSET DOMAIN log, NEW limit \in Nat
  PROVE  Newest(log, NewestRows(log, ids, limit), ids, limit)
<1>1. PICK t : t = NewestRows(log, ids, limit)
  OBVIOUS
<1>2. /\ Cardinality(ids) \in Nat /\ Len(t) = IF Cardinality(ids) < limit THEN Cardinality(ids) ELSE limit
      /\ DOMAIN t = 1 .. Len(t)
      /\ \A k \in DOMAIN t : t[k] \in ids
      /\ \A k, l \in DOMAIN t : k < l => Older(log, t[k], t[l])
      /\ \A k \in DOMAIN t : \A i \in ids : Older(log, t[k], i) => \E l \in k + 1 .. Len(t) : t[l] = i
  BY <1>1, KeepsTail
<1>3. ASSUME NEW k \in DOMAIN t, NEW l \in DOMAIN t, t[l] = t[k], k < l PROVE FALSE
  <2>1. Older(log, t[k], t[k]) /\ t[k] \in DOMAIN log
    BY <1>2, <1>3
  <2> QED BY <2>1, OlderOrders
<1>4. ASSUME NEW k \in DOMAIN t, NEW l \in DOMAIN t, t[l] = t[k] PROVE l = k
  <2>1. ~(k < l) /\ ~(l < k)
    BY <1>3, <1>4
  <2>2. k \in Nat /\ l \in Nat
    BY <1>2
  <2> QED BY <2>1, <2>2
<1>5. ASSUME NEW k \in DOMAIN t, NEW i \in ids, After(log, i, t[k])
      PROVE  \E l \in k + 1 .. Len(t) : t[l] = i
  <2>1. t[k] \in ids /\ t[k] \in DOMAIN log /\ i \in DOMAIN log
    BY <1>2
  <2>2. Older(log, t[k], i)
    BY <1>5, <2>1, OlderOrders
  <2> QED BY <1>2, <2>2
<1> QED BY <1>1, <1>2, <1>4, <1>5 DEF Newest

\* No row of its kind was recorded after the newest one.
LEMMA LatestIsLast ==
  ASSUME NEW log, IsLog(log), NEW q, NEW kind
  PROVE  LET asked == {i \in DOMAIN log : log[i].quest = q /\ log[i].kind = kind}
             latest == LatestPayload(log, q, kind)
         IN  IF asked = {} THEN latest = NoRow ELSE latest \in asked /\ \A i \in asked : ~After(log, i, latest)
<1> DEFINE asked == {i \in DOMAIN log : log[i].quest = q /\ log[i].kind = kind}
<1>1. PICK t : t = NewestRows(log, asked, 1)
  OBVIOUS
<1>0. asked \in SUBSET DOMAIN log /\ 1 \in Nat
  OBVIOUS
<1>2. /\ Cardinality(asked) \in Nat /\ Len(t) = IF Cardinality(asked) < 1 THEN Cardinality(asked) ELSE 1
      /\ DOMAIN t = 1 .. Len(t)
      /\ \A k \in DOMAIN t : t[k] \in asked
  <2>1. PICK one \in Nat : one = 1
    OBVIOUS
  <2>2. PICK ids \in SUBSET DOMAIN log : ids = asked
    BY <1>0
  <2>3. t = NewestRows(log, ids, one)
    BY <1>1, <2>1, <2>2
  <2>4. /\ Cardinality(ids) \in Nat /\ Len(t) = IF Cardinality(ids) < one THEN Cardinality(ids) ELSE one
        /\ DOMAIN t = 1 .. Len(t)
        /\ \A k \in DOMAIN t : t[k] \in ids
    BY <2>3, KeepsTail
  <2> QED BY <2>1, <2>2, <2>4
<1>3. Newest(log, t, asked, 1)
  BY <1>1, NewestAreTail
<1>4. LatestPayload(log, q, kind) = IF t = <<>> THEN NoRow ELSE t[1]
  BY <1>1 DEF LatestPayload
<1>5. IsFiniteSet(asked) /\ (Cardinality(asked) = 0 <=> asked = {})
  BY FS_Subset, FS_EmptySet DEF IsLog
<1>6. asked = {} => t = <<>>
  <2> SUFFICES ASSUME asked = {} PROVE t = <<>>
    OBVIOUS
  <2>1. {i \in asked : Cardinality({j \in asked : Older(log, i, j)}) < 1} = {}
    OBVIOUS
  <2>2. t = InOrder(log, {})
    BY <1>1, <2>1 DEF NewestRows
  <2>3. InOrder(log, {}) = [k \in 1 .. 0 |-> CHOOSE i \in {} : Cardinality({j \in {} : Older(log, j, i)}) = k - 1]
    BY FS_EmptySet DEF InOrder
  <2> HIDE DEF asked
  <2> QED BY <2>2, <2>3
<1> HIDE DEF asked
<1>7. CASE asked = {}
  BY <1>4, <1>6, <1>7 DEF asked
<1>8. CASE asked # {}
  <2>1. Len(t) = 1 /\ 1 \in DOMAIN t
    BY <1>2, <1>5, <1>8
  <2>2. t[1] \in asked /\ t # <<>>
    BY <1>2, <2>1
  <2>3. \A i \in asked : After(log, i, t[1]) => \E l \in 2 .. 1 : t[l] = i
    BY <1>3, <2>1 DEF Newest
  <2>4. \A i \in asked : ~After(log, i, t[1])
    BY <2>3
  <2> QED BY <1>4, <1>8, <2>2, <2>4 DEF asked
<1> QED BY <1>7, <1>8

\* Sets that do not meet.
LEMMA Apart ==
  ASSUME NEW S, NEW T, IsFiniteSet(S), IsFiniteSet(T), S \cap T = {}
  PROVE  /\ IsFiniteSet(S \cup T) /\ Cardinality(S \cup T) = Cardinality(S) + Cardinality(T)
         /\ Cardinality(S) \in Nat /\ Cardinality(T) \in Nat
BY FS_Union, FS_EmptySet, FS_CardinalityType

\* The bar, the offer of a report and the list, for the quests of any table.
LEMMA BarAgrees ==
  ASSUME IsFiniteSet(DOMAIN statuses), \A q \in DOMAIN statuses : statuses[q] \in QUEST_STATUSES
  PROVE  ScreenAgrees
<1> DEFINE D == DOMAIN statuses
           Of(S) == {q \in D : statuses[q] \in S}
           A == {q \in D : statuses[q] = "completed"}
           B == {q \in D : statuses[q] \in {"running", "reviewing"}}
           C == {q \in D : IsWaiting(statuses[q])}
           E == {q \in D : statuses[q] \in {"failed", "aborted"}}
           L == ListActive(statuses)
           p == ComputeProgress(statuses)
<1>1. /\ p.total = Cardinality(D) /\ p.completed = Cardinality(A) /\ p.running = Cardinality(B)
      /\ p.needs_input = Cardinality(C) /\ p.failed = Cardinality(E)
  BY DEF ComputeProgress
<1>2. A \subseteq D /\ B \subseteq D /\ C \subseteq D /\ E \subseteq D /\ L \subseteq D
  BY DEF ListActive
<1>3. /\ A \cap B = {} /\ (A \cup B) \cap C = {} /\ (A \cup B \cup C) \cap E = {} /\ B \cap C = {}
      /\ A \cap E = {} /\ (A \cup E) \cap L = {}
      /\ B \cup C \subseteq L /\ D = A \cup E \cup L
  BY DEF IsWaiting, ListActive, QUEST_TERMINAL, QUEST_STATUSES
<1>4. (A = D <=> \A q \in D : statuses[q] = "completed") /\ (ReportTarget(statuses) <=> Cardinality(D) > 0 /\ Cardinality(A) = Cardinality(D))
  BY DEF ReportTarget
<1> HIDE DEF A, B, C, E, L, D, p
<1>5. IsFiniteSet(A) /\ IsFiniteSet(B) /\ IsFiniteSet(C) /\ IsFiniteSet(E) /\ IsFiniteSet(L) /\ IsFiniteSet(D)
  BY <1>2, FS_Subset DEF D
<1>6. Cardinality(A \cup B \cup C \cup E) = Cardinality(A) + Cardinality(B) + Cardinality(C) + Cardinality(E)
  <2>1. Cardinality(A \cup B) = Cardinality(A) + Cardinality(B) /\ IsFiniteSet(A \cup B)
    BY <1>3, <1>5, Apart
  <2>2. Cardinality(A \cup B \cup C) = Cardinality(A \cup B) + Cardinality(C) /\ IsFiniteSet(A \cup B \cup C)
    BY <1>3, <1>5, <2>1, Apart
  <2>3. Cardinality(A \cup B \cup C \cup E) = Cardinality(A \cup B \cup C) + Cardinality(E)
    BY <1>3, <1>5, <2>2, Apart
  <2> QED BY <2>1, <2>2, <2>3
<1>7. Cardinality(A \cup B \cup C \cup E) <= Cardinality(D)
  BY <1>2, <1>5, FS_Subset
<1>8. Cardinality(B) + Cardinality(C) <= Cardinality(L)
  <2>1. Cardinality(B \cup C) = Cardinality(B) + Cardinality(C)
    BY <1>3, <1>5, Apart
  <2>2. Cardinality(B \cup C) <= Cardinality(L)
    BY <1>3, <1>5, FS_Subset
  <2> QED BY <2>1, <2>2
<1>9. Cardinality(A) + Cardinality(E) + Cardinality(L) = Cardinality(D)
  <2>1. Cardinality(A \cup E) = Cardinality(A) + Cardinality(E) /\ IsFiniteSet(A \cup E)
    BY <1>3, <1>5, Apart
  <2>2. Cardinality(A \cup E \cup L) = Cardinality(A \cup E) + Cardinality(L)
    BY <1>3, <1>5, <2>1, Apart
  <2> QED BY <1>3, <2>1, <2>2
<1>10. Cardinality(D) \in Nat /\ (Cardinality(D) = 0 <=> D = {}) /\ (Cardinality(A) = Cardinality(D) <=> A = D)
  BY <1>2, <1>5, FS_CardinalityType, FS_EmptySet, FS_Subset
<1>11. ReportTarget(statuses) <=> AllCompleted(statuses)
  BY <1>4, <1>10 DEF AllCompleted, D
<1>12. ReportTarget(statuses) <=> p.total > 0 /\ p.completed = p.total
  BY <1>1, <1>4
<1> QED BY <1>1, <1>6, <1>7, <1>8, <1>9, <1>11, <1>12 DEF ScreenAgrees, p, L

\* A row, stamped when the log was shorter, or as it is: no row it has seen is later.
Stamped(log, now, e) ==
  /\ e \in Row /\ e.seen <= Len(log) /\ e.at <= now
  /\ \A i \in DOMAIN log : i <= e.seen => log[i].at <= e.at

\* The tables, as the program writes them.
TablesInv ==
  /\ events \in Seq(Row) /\ clock \in Nat
  /\ \A i \in DOMAIN events : events[i].at <= clock
  /\ \A i, j \in DOMAIN events : After(events, i, j) => j < i /\ events[j].at <= events[i].at
  /\ \A w \in Writers : stamped[w] = NoRow \/ Stamped(events, clock, stamped[w])
  /\ DOMAIN stamped = Writers
  /\ IsFiniteSet(DOMAIN statuses) /\ \A q \in DOMAIN statuses : statuses[q] \in QUEST_STATUSES

\* What a row is made of.
LEMMA RowIs ==
  ASSUME events \in Seq(Row)
  PROVE  /\ Len(events) \in Nat /\ DOMAIN events = 1 .. Len(events)
         /\ \A i \in DOMAIN events : events[i] \in Row
         /\ \A e \in Row : e.at \in Nat /\ e.seen \in Nat
<1>1. \A e \in Row : e.at \in Nat /\ e.seen \in Nat
  BY QueriesAssumption DEF Row
<1> QED BY <1>1

\* Rows are appended with an earlier time, quests inserted and moved.
LEMMA TablesStep == TablesInv /\ [TablesNext]_tables => TablesInv'
<1> SUFFICES ASSUME TablesInv, [TablesNext]_tables PROVE TablesInv'
  OBVIOUS
<1>0. /\ events \in Seq(Row) /\ Len(events) \in Nat /\ DOMAIN events = 1 .. Len(events)
      /\ \A i \in DOMAIN events : events[i] \in Row
      /\ \A e \in Row : e.at \in Nat /\ e.seen \in Nat
  BY RowIs DEF TablesInv
<1>1. ASSUME NEW w \in Writers, NEW q \in QuestIds, NEW c \in CampaignIds, NEW k \in Kinds, Stamp(w, q, c, k)
      PROVE  TablesInv'
  <2> DEFINE e == [quest |-> q, campaign |-> c, kind |-> k, at |-> clock', seen |-> Len(events)]
  <2>1. /\ clock' \in clock .. LastInstant /\ stamped' = [stamped EXCEPT ![w] = e]
        /\ UNCHANGED <<events, statuses>>
    BY <1>1 DEF Stamp
  <2>2. clock' \in Nat /\ clock' \in 0 .. LastInstant /\ clock <= clock' /\ clock \in Nat
    BY <2>1, QueriesAssumption DEF TablesInv
  <2>3. \A i \in DOMAIN events : events[i].at <= clock'
    BY <1>0, <2>2 DEF TablesInv
  <2>4. e \in Row /\ e.seen <= Len(events) /\ e.at <= clock'
    BY <1>0, <2>2 DEF Row
  <2>5. \A i \in DOMAIN events : i <= e.seen => events[i].at <= e.at
    BY <2>3
  <2> HIDE DEF e
  <2>6. ASSUME NEW v \in Writers PROVE stamped'[v] = NoRow \/ Stamped(events', clock', stamped'[v])
    <3>1. CASE v = w
      BY <2>1, <2>4, <2>5, <3>1 DEF Stamped, TablesInv
    <3>2. CASE v # w
      <4>1. stamped'[v] = stamped[v]
        BY <2>1, <3>2
      <4>2. Stamped(events, clock, stamped[v]) => stamped[v] \in Row /\ stamped[v].at <= clock
        BY DEF Stamped
      <4>3. Stamped(events, clock, stamped[v]) => stamped[v].at <= clock'
        BY <1>0, <2>2, <4>2
      <4> QED BY <2>1, <4>1, <4>3 DEF Stamped, TablesInv
    <3> QED BY <3>1, <3>2
  <2> QED BY <2>1, <2>2, <2>3, <2>6 DEF TablesInv, After
<1>2. ASSUME NEW w \in Writers, InsertRow(w) PROVE TablesInv'
  <2>0. PICK e : e = stamped[w]
    OBVIOUS
  <2>1. /\ events' = Append(events, e) /\ stamped' = [stamped EXCEPT ![w] = NoRow]
        /\ UNCHANGED <<statuses, clock>> /\ Stamped(events, clock, e)
    BY <1>2, <2>0 DEF InsertRow, TablesInv
  <2>2. /\ e \in Row /\ e.seen \in Nat /\ e.at \in Nat /\ e.seen <= Len(events) /\ e.at <= clock
        /\ \A i \in DOMAIN events : i <= e.seen => events[i].at <= e.at
    BY <1>0, <2>1 DEF Stamped
  <2>3. /\ events' \in Seq(Row) /\ Len(events') = Len(events) + 1
        /\ DOMAIN events' = 1 .. Len(events) + 1 /\ events'[Len(events) + 1] = e
        /\ \A i \in 1 .. Len(events) : events'[i] = events[i]
    BY <1>0, <2>1, <2>2
  <2>4. \A i \in DOMAIN events' : events'[i].at <= clock'
    BY <1>0, <2>1, <2>2, <2>3 DEF TablesInv
  <2>5. ASSUME NEW i \in DOMAIN events', NEW j \in DOMAIN events', events'[i].seen >= j
        PROVE  j < i /\ events'[j].at <= events'[i].at
    <3>1. CASE i \in 1 .. Len(events)
      <4>1. /\ \A h \in DOMAIN events : events[i].seen >= h => h < i /\ events[h].at <= events[i].at
            /\ events[i].seen \in Nat /\ events'[i] = events[i] /\ events[i].seen >= j
        BY <1>0, <2>3, <2>5, <3>1 DEF TablesInv, After
      <4>2. CASE j \in 1 .. Len(events)
        BY <1>0, <2>3, <4>1, <4>2
      <4>3. CASE j = Len(events) + 1
        <5>1. i \in DOMAIN events /\ events[i].seen >= i
          BY <1>0, <3>1, <4>1, <4>3
        <5>2. i < i
          BY <4>1, <5>1
        <5> QED BY <1>0, <3>1, <5>2
      <4> QED BY <2>3, <4>2, <4>3
    <3>2. CASE i = Len(events) + 1
      <4>1. events'[i] = e /\ j <= e.seen
        BY <2>3, <2>5, <3>2
      <4>2. j \in 1 .. Len(events) /\ j \in DOMAIN events /\ j < i
        BY <1>0, <2>2, <2>3, <3>2, <4>1
      <4> QED BY <2>2, <2>3, <4>1, <4>2
    <3> QED BY <2>3, <3>1, <3>2
  <2>6. ASSUME NEW v \in Writers PROVE stamped'[v] = NoRow \/ Stamped(events', clock', stamped'[v])
    <3>1. CASE v = w
      BY <2>1, <3>1 DEF TablesInv
    <3>2. CASE v # w /\ stamped[v] # NoRow
      <4>0. PICK d : d = stamped[v]
        OBVIOUS
      <4>1. stamped'[v] = d /\ Stamped(events, clock, d)
        BY <2>1, <3>2, <4>0 DEF TablesInv
      <4>2. /\ d \in Row /\ d.seen \in Nat /\ d.seen <= Len(events) /\ d.at <= clock
            /\ \A i \in DOMAIN events : i <= d.seen => events[i].at <= d.at
        BY <1>0, <4>1 DEF Stamped
      <4>3. d.seen <= Len(events') /\ d.at <= clock'
        BY <1>0, <2>1, <2>3, <4>2
      <4>4. ASSUME NEW i \in DOMAIN events', i <= d.seen PROVE events'[i].at <= d.at
        <5>1. i \in 1 .. Len(events)
          BY <1>0, <2>3, <4>2, <4>4
        <5> QED BY <1>0, <2>3, <4>2, <4>4, <5>1
      <4> QED BY <4>1, <4>2, <4>3, <4>4 DEF Stamped
    <3>3. CASE v # w /\ stamped[v] = NoRow
      BY <2>1, <3>3
    <3> QED BY <3>1, <3>2, <3>3
  <2> QED BY <2>1, <2>3, <2>4, <2>5, <2>6 DEF TablesInv, After
<1>3. ASSUME NEW w \in Writers, DropRow(w) PROVE TablesInv'
  <2>1. UNCHANGED <<events, statuses, clock>> /\ stamped' = [stamped EXCEPT ![w] = NoRow]
    BY <1>3 DEF DropRow
  <2>2. \A v \in Writers : stamped'[v] = NoRow \/ Stamped(events', clock', stamped'[v])
    BY <2>1 DEF TablesInv, Stamped
  <2> QED BY <2>1, <2>2 DEF TablesInv, After
<1>4. ASSUME NEW q \in QuestIds, NEW s \in QUEST_STATUSES, Insert(q, s) \/ SetStatus(q, s) PROVE TablesInv'
  <2>1. UNCHANGED <<events, clock, stamped>> /\ DOMAIN statuses' \in {DOMAIN statuses, DOMAIN statuses \cup {q}}
    BY <1>4 DEF Insert, SetStatus
  <2>2. \A r \in DOMAIN statuses' : statuses'[r] \in QUEST_STATUSES
    BY <1>4 DEF Insert, SetStatus, TablesInv
  <2>3. IsFiniteSet(DOMAIN statuses')
    BY <2>1, FS_AddElement DEF TablesInv
  <2> QED BY <2>1, <2>2, <2>3 DEF TablesInv, After, Stamped
<1>5. CASE UNCHANGED tables
  BY <1>5 DEF tables, TablesInv, After, Stamped
<1> QED BY <1>1, <1>2, <1>3, <1>4, <1>5 DEF TablesNext, RowsNext, QuestsNext

\* However many writers stamp and insert events at once, and however the quests move: what
\* was recorded after a row of a timeline comes after it there, triage answers a question
\* that no other was asked after, and the screen and the report agree on when a campaign is
\* done (EventRepo, compute_progress, report_target).
THEOREM ReadsRight == TablesSpec => []ReadRight
<1>1. TablesInit => TablesInv
  <2> SUFFICES ASSUME TablesInit PROVE TablesInv
    OBVIOUS
  <2>1. /\ events \in Seq(Row) /\ DOMAIN events = {} /\ DOMAIN statuses = {} /\ clock = 0
        /\ stamped = [w \in Writers |-> NoRow]
    BY DEF TablesInit
  <2> QED BY <2>1, FS_EmptySet DEF TablesInv
<1>2. TablesInv => ReadRight
  <2> SUFFICES ASSUME TablesInv PROVE ReadRight
    OBVIOUS
  <2>1. IsLog(events)
    <3>1. /\ DOMAIN events = 1 .. Len(events) /\ Len(events) \in Nat
          /\ \A i \in DOMAIN events : events[i] \in Row
          /\ \A e \in Row : e.at \in Nat
      BY RowIs DEF TablesInv
    <3>2. IsFiniteSet(DOMAIN events) /\ DOMAIN events \subseteq Nat
      BY <3>1, FS_Interval
    <3> QED BY <3>1, <3>2 DEF IsLog, TablesInv
  <2>2. TailFollows
    <3>1. ASSUME NEW n \in Limits, NEW ids \in SUBSET DOMAIN events
          PROVE  Newest(events, NewestRows(events, ids, n), ids, n)
      BY <2>1, <3>1, NewestAreTail, QueriesAssumption
    <3> QED BY <3>1 DEF TailFollows, ForQuest, ForCampaign
  <2>3. LatestAsked
    BY <2>1, LatestIsLast DEF LatestAsked, LatestEscalation
  <2>4. ScreenAgrees
    BY BarAgrees DEF TablesInv
  <2> QED BY <2>2, <2>3, <2>4 DEF ReadRight
<1> QED BY <1>1, <1>2, TablesStep, PTL DEF TablesSpec
=============================================================================
