---------------------------- MODULE Memory_proofs ----------------------------
(***************************************************************************)
(* Theorems about Chronicle, for any finite number of processes, projects  *)
(* and files and any number of quests and commands, and about MemTree, for *)
(* documents of any length, any budget, fan-out and number of builds, and  *)
(* about TokenJuice, for any texts and budgets, and their proofs.  The     *)
(* three share nothing.                                                    *)
(***************************************************************************)
EXTENDS Chronicle, MemTree, TokenJuice, FiniteSetTheorems, SequenceTheorems, WellFoundedInduction, TLAPS

-----------------------------------------------------------------------------
(* Chronicle.                                                              *)

\* What a quest may be, here.
Statuses == {"pending", "completed", "failed"}

\* A command of a process.
Commands == [pc: {"idle", "reporting", "written", "chronicled", "ingesting", "contexted"},
             seen: Nat, all_completed: BOOLEAN, project: Projects \cup {None}]

\* Every variable is within its type.
Typed ==
  /\ quests \in Seq(Statuses) /\ sole \in BOOLEAN /\ cleared \subseteq 1 .. Len(quests)
  /\ runs \in [Runs -> {None} \cup Nat]
  /\ \A w \in Runs : runs[w] # None => runs[w] = 0 \/ runs[w] \in DOMAIN quests
  /\ status \in {"running", "needs_input", "failed", "completed"}
  /\ report_path \in BOOLEAN /\ report \in BOOLEAN
  /\ reported \in Nat /\ chronicle \in Nat /\ begun \in Nat
  /\ projects \subseteq Projects
  /\ context_path \in [Projects -> Files \cup {None}]
  /\ contexts \in [Files -> Projects \cup {None}]
  /\ cmd \in [Procs -> Commands]
  /\ \A r \in Procs : cmd[r].pc \in {"ingesting", "contexted"} => cmd[r].project \in Projects

\* A command that is past the file has left one, and one that is past the chronicle has
\* left a line that no event answers for yet.
Chronicled == {r \in Procs : cmd[r].pc = "chronicled"}

\* A report that the tables, or a command past the file, know of is on file.
Filed ==
  /\ report_path \/ status = "completed" => report
  /\ \A r \in Procs : cmd[r].pc \in {"written", "chronicled"} => report

\* No event answers for a line of the chronicle that is not there.
Counted == reported + Cardinality(Chronicled) <= chronicle

\* In the files c that of p holds a context, its own unless it is shared.
Holds(c, p) ==
  /\ c[FileName[p]] # None
  /\ (\A q \in Projects \ {p} : FileName[q] # FileName[p]) => c[FileName[p]] = p

\* A project whose path is set has its context on file.
Contexted ==
  /\ \A p \in Projects :
       context_path[p] # None => p \in projects /\ context_path[p] = FileName[p] /\ Holds(contexts, p)
  /\ \A r \in Procs : cmd[r].pc = "contexted" => Holds(contexts, cmd[r].project)

\* What a command has seen completed was, and stays so unless runs overlap.
SawCompleted ==
  \A r \in Procs : cmd[r].all_completed =>
    /\ cmd[r].seen \in cleared
    /\ sole => \A i \in 1 .. cmd[r].seen : quests[i] = "completed"

\* What commands, the vault and the tables say of each other.
Told == Typed /\ Filed /\ Counted /\ Contexted /\ SawCompleted

\* It is recorded when all quests are completed; a run that no other overlaps is at a quest
\* that is not settled.
Ran ==
  /\ AllCompleted(quests) => Len(quests) \in cleared
  /\ sole => /\ \A v, w \in Runs : runs[v] # None /\ runs[w] # None => v = w
             /\ \A w \in Runs : runs[w] \in DOMAIN quests => quests[runs[w]] = "pending"

\* The invariant of Chronicle.
Inv == Told /\ Ran

\* What the assumption says of the constants.
LEMMA Constants ==
  /\ FileName \in [Projects -> Files] /\ Planned \in Nat \ {0} /\ IsFiniteSet(Procs)
  /\ None \notin Projects /\ None \notin Files /\ None \notin Nat
BY ChronicleAssumption

\* A process that does nothing.
LEMMA IdleTyped == Idle \in Commands /\ Idle.pc = "idle" /\ ~Idle.all_completed
BY DEF Idle, Commands

\* Nothing is on file, and nothing is said to be.
LEMMA InitInv == Init => Inv
<1> SUFFICES ASSUME Init PROVE Inv
  OBVIOUS
<1>1. \A r \in Procs : cmd[r] = Idle
  BY DEF Init
<1>2. quests \in Seq(Statuses) /\ Len(quests) = Planned /\ DOMAIN quests = 1 .. Planned /\ quests[1] = "pending" /\ 1 \in DOMAIN quests
  BY Constants DEF Init, Statuses
<1>3. Typed
  <2>1. cmd \in [Procs -> Commands]
    BY IdleTyped DEF Init
  <2>2. runs \in [Runs -> {None} \cup Nat] /\ \A w \in Runs : runs[w] = None
    BY DEF Init
  <2> QED
    BY <1>1, <1>2, <2>1, <2>2, IdleTyped DEF Init, Typed
<1>4. Counted
  <2>1. Chronicled = {}
    BY <1>1, IdleTyped DEF Chronicled
  <2> QED
    BY <2>1, FS_EmptySet DEF Counted, Init
<1>5. Filed /\ Contexted /\ SawCompleted
  BY <1>1, IdleTyped DEF Init, Filed, Contexted, SawCompleted
<1>6. Ran
  <2>1. ~AllCompleted(quests)
    BY <1>2 DEF AllCompleted
  <2>2. \A w \in Runs : runs[w] = None /\ runs[w] \notin DOMAIN quests
    BY <1>2, Constants DEF Init
  <2> QED
    BY <2>1, <2>2 DEF Ran
<1> QED
  BY <1>3, <1>4, <1>5, <1>6 DEF Inv, Told

\* A step of the campaign, or of the user, that leaves the commands alone.
LEMMA CountedKept ==
  ASSUME Inv, UNCHANGED <<reported, chronicle, cmd>>
  PROVE  Counted'
BY DEF Inv, Told, Counted, Chronicled

\* A command goes on from c to d.
LEMMA CommandMoves ==
  ASSUME Inv, NEW r \in Procs, NEW d \in Commands, cmd' = [cmd EXCEPT ![r] = d]
  PROVE  /\ cmd' \in [Procs -> Commands]
         /\ cmd'[r] = d /\ \A t \in Procs \ {r} : cmd'[t] = cmd[t]
         /\ d.pc # "chronicled" /\ UNCHANGED <<reported, chronicle>> => Counted'
<1>1. cmd' \in [Procs -> Commands] /\ cmd'[r] = d /\ \A t \in Procs \ {r} : cmd'[t] = cmd[t]
  BY DEF Inv, Told, Typed
<1>2. ASSUME d.pc # "chronicled", UNCHANGED <<reported, chronicle>> PROVE Counted'
  <2>1. Chronicled' \subseteq Chronicled /\ IsFiniteSet(Chronicled)
    BY <1>1, <1>2, Constants, FS_Subset DEF Chronicled
  <2>2. Cardinality(Chronicled') <= Cardinality(Chronicled) /\ Cardinality(Chronicled) \in Nat /\ Cardinality(Chronicled') \in Nat
    BY <2>1, FS_Subset, FS_CardinalityType
  <2> QED
    BY <1>2, <2>2 DEF Inv, Told, Typed, Counted
<1> QED
  BY <1>1, <1>2

\* Quest i gets status x: it stays recorded what was, and what commands have seen unless
\* runs do not overlap and the quest had completed.
LEMMA BecomesKept ==
  ASSUME Inv, NEW i \in DOMAIN quests, NEW x \in Statuses, Becomes(i, x), sole' = sole, cmd' = cmd,
         sole => quests[i] = "pending"
  PROVE  /\ quests' \in Seq(Statuses) /\ DOMAIN quests' = DOMAIN quests /\ cleared' \subseteq 1 .. Len(quests')
         /\ \A j \in DOMAIN quests : quests'[j] = IF j = i THEN x ELSE quests[j]
         /\ AllCompleted(quests') => Len(quests') \in cleared'
         /\ SawCompleted'
<1>1. /\ quests \in Seq(Statuses) /\ Len(quests) \in Nat /\ DOMAIN quests = 1 .. Len(quests) /\ cleared \subseteq 1 .. Len(quests)
      /\ quests' = [quests EXCEPT ![i] = x]
  BY DEF Inv, Told, Typed, Becomes
<1>2. /\ quests' \in Seq(Statuses) /\ Len(quests') = Len(quests) /\ DOMAIN quests' = DOMAIN quests
      /\ \A j \in DOMAIN quests : quests'[j] = IF j = i THEN x ELSE quests[j]
  BY <1>1
<1>3. cleared' = IF AllCompleted(quests') THEN cleared \cup {Len(quests)} ELSE cleared
  BY DEF Becomes
<1>4. cleared' \subseteq 1 .. Len(quests') /\ cleared \subseteq cleared' /\ (AllCompleted(quests') => Len(quests') \in cleared')
  BY <1>1, <1>2, <1>3 DEF AllCompleted
<1>5. SawCompleted'
  <2> SUFFICES ASSUME NEW r \in Procs, cmd[r].all_completed
               PROVE  cmd[r].seen \in cleared' /\ (sole => \A j \in 1 .. cmd[r].seen : quests'[j] = "completed")
    BY DEF SawCompleted
  <2>1. cmd[r].seen \in cleared /\ (sole => \A j \in 1 .. cmd[r].seen : quests[j] = "completed")
    BY DEF Inv, Told, SawCompleted
  <2>2. cmd[r].seen \in 1 .. Len(quests)
    BY <1>1, <2>1
  <2>3. ASSUME sole, NEW j \in 1 .. cmd[r].seen PROVE quests'[j] = "completed"
    BY <1>1, <1>2, <2>1, <2>2, <2>3
  <2> QED
    BY <1>4, <2>1, <2>3
<1> QED
  BY <1>2, <1>4, <1>5

\* Every step of a command, a run or a user keeps what is told.
LEMMA ToldStep == Inv /\ [Next]_vars => Told'
<1> SUFFICES ASSUME Inv, [Next]_vars PROVE Told'
  OBVIOUS
<1> USE DEF Inv, Told
<1> USE DEF campaign, records, memory
<1>1. CASE UNCHANGED vars
  BY <1>1, CountedKept DEF vars, Typed, Filed, Contexted, Holds, SawCompleted
<1>2. ASSUME NEW w \in Runs, RunBegins(w) PROVE Told'
  <2>1. Typed'
    BY <1>2 DEF RunBegins, Typed
  <2> QED
    BY <1>2, <2>1, CountedKept DEF RunBegins, Filed, Contexted, Holds, SawCompleted
<1>3. ASSUME NEW w \in Runs, RunEnds(w) PROVE Told'
  <2>1. Typed'
    BY <1>3 DEF RunEnds, Typed
  <2> QED
    BY <1>3, <2>1, CountedKept DEF RunEnds, Filed, Contexted, Holds, SawCompleted
<1>4. CASE FollowUp
  <2>1. /\ quests' \in Seq(Statuses) /\ Len(quests') = Len(quests) + 1 /\ Len(quests) \in Nat
        /\ DOMAIN quests = 1 .. Len(quests) /\ DOMAIN quests' = 1 .. (Len(quests) + 1)
        /\ \A i \in 1 .. Len(quests) : quests'[i] = quests[i]
    BY <1>4 DEF FollowUp, Typed, Statuses
  <2>2. Typed'
    <3>1. DOMAIN quests \subseteq DOMAIN quests' /\ cleared' \subseteq 1 .. Len(quests')
      BY <1>4, <2>1 DEF FollowUp, Typed
    <3> QED
      BY <1>4, <2>1, <3>1 DEF FollowUp, Typed
  <2>3. SawCompleted'
    <3>1. cleared' = cleared /\ sole' = sole /\ cmd' = cmd /\ cleared \subseteq 1 .. Len(quests)
      BY <1>4 DEF FollowUp, Typed
    <3> QED
      BY <2>1, <3>1 DEF SawCompleted
  <2> QED
    BY <1>4, <2>2, <2>3, CountedKept DEF FollowUp, Filed, Contexted, Holds
<1>5. ASSUME NEW w \in Runs, Settles(w) PROVE Told'
  <2>1. PICK x \in Statuses : Becomes(runs[w], x)
    BY <1>5 DEF Settles, Statuses
  <2>2. runs[w] \in DOMAIN quests /\ (sole => quests[runs[w]] = "pending")
    BY <1>5 DEF Settles, Ran
  <2>3. /\ quests' \in Seq(Statuses) /\ DOMAIN quests' = DOMAIN quests /\ cleared' \subseteq 1 .. Len(quests')
        /\ SawCompleted'
    BY <1>5, <2>1, <2>2, BecomesKept DEF Settles
  <2>4. Typed'
    BY <1>5, <2>3 DEF Settles, Typed
  <2> QED
    BY <1>5, <2>3, <2>4, CountedKept DEF Settles, Filed, Contexted, Holds
<1>16. ASSUME NEW i \in DOMAIN quests, Recovers(i) PROVE Told'
  <2>1. Becomes(i, "pending") /\ "pending" \in Statuses /\ ~sole
    BY <1>16 DEF Recovers, Statuses
  <2>2. /\ quests' \in Seq(Statuses) /\ DOMAIN quests' = DOMAIN quests /\ cleared' \subseteq 1 .. Len(quests')
        /\ SawCompleted'
    BY <1>16, <2>1, BecomesKept DEF Recovers
  <2>3. Typed'
    BY <1>16, <2>2 DEF Recovers, Typed
  <2> QED
    BY <1>16, <2>2, <2>3, CountedKept DEF Recovers, Filed, Contexted, Holds
<1>17. ASSUME NEW w \in Runs, NEW i \in DOMAIN quests, Takes(w, i) PROVE Told'
  <2>1. Typed'
    BY <1>17 DEF Takes, Typed
  <2> QED
    BY <1>17, <2>1, CountedKept DEF Takes, Filed, Contexted, Holds, SawCompleted
<1>6. ASSUME NEW p \in Projects, Register(p) PROVE Told'
  BY <1>6, CountedKept DEF Register, Typed, Filed, Contexted, Holds, SawCompleted
<1>7. ASSUME NEW p \in Projects, Unregister(p) PROVE Told'
  BY <1>7, CountedKept DEF Unregister, Typed, Filed, Contexted, Holds, SawCompleted
<1>8. ASSUME NEW r \in Procs, Ends(r) PROVE Told'
  <2>1. cmd' = [cmd EXCEPT ![r] = Idle] /\ UNCHANGED <<campaign, records, memory, begun>>
    BY <1>8 DEF Ends
  <2>2. Counted' /\ cmd' \in [Procs -> Commands] /\ \A t \in Procs : cmd'[t] = IF t = r THEN Idle ELSE cmd[t]
    BY <2>1, CommandMoves, IdleTyped
  <2>3. Typed'
    BY <2>1, <2>2, IdleTyped DEF Typed
  <2>4. Filed' /\ SawCompleted'
    BY <2>1, <2>2, IdleTyped DEF Filed, SawCompleted
  <2>5. Contexted'
    BY <2>1, <2>2, IdleTyped DEF Contexted, Holds
  <2> QED
    BY <2>2, <2>3, <2>4, <2>5
<1>9. ASSUME NEW r \in Procs, ReportReads(r) PROVE Told'
  <2> DEFINE all == AllCompleted(quests)
             d == [Idle EXCEPT !.pc = "reporting", !.seen = Len(quests), !.all_completed = all]
  <2>1. all \in BOOLEAN /\ Len(quests) \in Nat /\ DOMAIN quests = 1 .. Len(quests)
    BY DEF Typed, AllCompleted
  <2>2. d \in Commands /\ d.pc = "reporting" /\ d.seen = Len(quests) /\ d.all_completed = all
    BY <2>1 DEF Idle, Commands
  <2>3. cmd' = [cmd EXCEPT ![r] = d]
    BY <1>9 DEF ReportReads
  <2>4. d.all_completed => d.seen \in cleared /\ \A i \in 1 .. d.seen : quests[i] = "completed"
    BY <2>1, <2>2 DEF Ran, AllCompleted
  <2>5. begun' \in Nat
    BY <1>9 DEF ReportReads, Begins, Typed
  <2> HIDE DEF d
  <2>6. UNCHANGED <<campaign, records, memory>>
    BY <1>9 DEF ReportReads
  <2>7. Counted' /\ cmd' \in [Procs -> Commands] /\ \A t \in Procs : cmd'[t] = IF t = r THEN d ELSE cmd[t]
    BY <2>2, <2>3, <2>6, CommandMoves
  <2>8. SawCompleted'
    BY <2>1, <2>2, <2>4, <2>6, <2>7 DEF SawCompleted
  <2>9. Typed'
    BY <2>2, <2>5, <2>6, <2>7 DEF Typed
  <2>10. Filed'
    BY <2>2, <2>6, <2>7 DEF Filed
  <2>11. Contexted'
    BY <2>2, <2>6, <2>7 DEF Contexted, Holds
  <2> QED
    BY <2>7, <2>8, <2>9, <2>10, <2>11
<1>10. ASSUME NEW r \in Procs, NEW p \in Projects, IngestReads(r, p) PROVE Told'
  <2> DEFINE d == [Idle EXCEPT !.pc = "ingesting", !.project = p]
  <2>1. d \in Commands /\ d.pc = "ingesting" /\ d.project = p /\ ~d.all_completed
    BY DEF Idle, Commands
  <2>2. cmd' = [cmd EXCEPT ![r] = d] /\ UNCHANGED <<campaign, records, memory>>
    BY <1>10 DEF IngestReads
  <2>3. begun' \in Nat
    BY <1>10 DEF IngestReads, Begins, Typed
  <2> HIDE DEF d
  <2>4. Counted' /\ cmd' \in [Procs -> Commands] /\ \A t \in Procs : cmd'[t] = IF t = r THEN d ELSE cmd[t]
    BY <2>1, <2>2, CommandMoves
  <2>5. SawCompleted'
    BY <2>1, <2>2, <2>4 DEF SawCompleted
  <2>6. Typed'
    BY <2>1, <2>2, <2>3, <2>4 DEF Typed
  <2>7. Filed'
    BY <2>1, <2>2, <2>4 DEF Filed
  <2>8. Contexted'
    BY <2>1, <2>2, <2>4 DEF Contexted, Holds
  <2> QED
    BY <2>4, <2>5, <2>6, <2>7, <2>8
<1>11. ASSUME NEW r \in Procs, ReportWrites(r) PROVE Told'
  <2> DEFINE d == [cmd[r] EXCEPT !.pc = "written"]
  <2>1. d \in Commands /\ d.pc = "written" /\ d.seen = cmd[r].seen /\ d.all_completed = cmd[r].all_completed
    BY DEF Commands, Typed
  <2>2. cmd' = [cmd EXCEPT ![r] = d] /\ report' = TRUE
    BY <1>11 DEF ReportWrites, WriteCampaignReport
  <2>3. UNCHANGED <<campaign, report_path, reported, chronicle, memory, begun>>
    BY <1>11 DEF ReportWrites
  <2> HIDE DEF d
  <2>4. Counted' /\ cmd' \in [Procs -> Commands] /\ \A t \in Procs : cmd'[t] = IF t = r THEN d ELSE cmd[t]
    BY <2>1, <2>2, <2>3, CommandMoves
  <2>5. Typed'
    BY <2>1, <2>2, <2>3, <2>4 DEF Typed
  <2>6. Filed' /\ SawCompleted'
    BY <2>1, <2>2, <2>3, <2>4 DEF Filed, SawCompleted
  <2>7. Contexted'
    BY <2>1, <2>3, <2>4 DEF Contexted, Holds
  <2> QED
    BY <2>4, <2>5, <2>6, <2>7
<1>12. ASSUME NEW r \in Procs, ReportChronicles(r) PROVE Told'
  <2> DEFINE d == [cmd[r] EXCEPT !.pc = "chronicled"]
  <2>1. d \in Commands /\ d.pc = "chronicled" /\ d.seen = cmd[r].seen /\ d.all_completed = cmd[r].all_completed
    BY DEF Commands, Typed
  <2>2. cmd' = [cmd EXCEPT ![r] = d] /\ chronicle' = chronicle + 1 /\ cmd[r].pc = "written"
    BY <1>12 DEF ReportChronicles, AppendChronicle
  <2>3. UNCHANGED <<campaign, report_path, reported, report, memory, begun>>
    BY <1>12 DEF ReportChronicles
  <2> HIDE DEF d
  <2>4. Counted'
    <3>1. Chronicled' = Chronicled \cup {r} /\ r \notin Chronicled
      BY <2>1, <2>2, CommandMoves DEF Chronicled
    <3>2. IsFiniteSet(Chronicled)
      BY Constants, FS_Subset DEF Chronicled
    <3>3. Cardinality(Chronicled') = Cardinality(Chronicled) + 1 /\ Cardinality(Chronicled) \in Nat
      BY <3>1, <3>2, FS_AddElement, FS_CardinalityType
    <3> QED
      BY <2>2, <2>3, <3>3 DEF Counted, Typed
  <2> QED
    BY <2>1, <2>2, <2>3, <2>4, CommandMoves DEF Typed, Filed, Contexted, Holds, SawCompleted
<1>13. ASSUME NEW r \in Procs, ReportCommits(r) PROVE Told'
  <2>1. /\ cmd[r].pc = "chronicled" /\ cmd' = [cmd EXCEPT ![r] = Idle] /\ reported' = reported + 1
        /\ report_path' = TRUE /\ status' \in {status, "completed"} /\ report
        /\ UNCHANGED <<quests, runs, sole, cleared, report, chronicle, memory, begun>>
    BY <1>13 DEF ReportCommits, Filed
  <2>2. Counted'
    <3>1. Chronicled' = Chronicled \ {r} /\ r \in Chronicled
      BY <2>1, CommandMoves, IdleTyped DEF Chronicled
    <3>2. IsFiniteSet(Chronicled)
      BY Constants, FS_Subset DEF Chronicled
    <3>3. Cardinality(Chronicled') = Cardinality(Chronicled) - 1 /\ Cardinality(Chronicled) \in Nat
      BY <3>1, <3>2, FS_RemoveElement, FS_CardinalityType
    <3> QED
      BY <2>1, <3>3 DEF Counted, Typed
  <2> QED
    BY <2>1, <2>2, CommandMoves, IdleTyped DEF Typed, Filed, Contexted, Holds, SawCompleted
<1>14. ASSUME NEW r \in Procs, IngestWrites(r) PROVE Told'
  <2> DEFINE d == [cmd[r] EXCEPT !.pc = "contexted"]
             p == cmd[r].project
  <2>1. d \in Commands /\ d.pc = "contexted" /\ d.project = p /\ p \in Projects
        /\ d.seen = cmd[r].seen /\ d.all_completed = cmd[r].all_completed
    BY <1>14 DEF Commands, Typed, IngestWrites
  <2>2. cmd' = [cmd EXCEPT ![r] = d] /\ contexts' = [contexts EXCEPT ![FileName[p]] = p]
    BY <1>14 DEF IngestWrites, WriteProjectContext
  <2>3. UNCHANGED <<campaign, records, projects, context_path, begun>>
    BY <1>14 DEF IngestWrites
  <2> HIDE DEF d, p
  <2>4. contexts' \in [Files -> Projects \cup {None}]
    BY <2>1, <2>2 DEF Typed
  <2>5. ASSUME NEW q \in Projects, Holds(contexts, q) \/ q = p PROVE Holds(contexts', q)
    <3>1. CASE FileName[q] = FileName[p]
      BY <2>1, <2>2, <2>5, <3>1, Constants DEF Holds, Typed
    <3>2. CASE FileName[q] # FileName[p]
      BY <2>1, <2>2, <2>5, <3>2, Constants DEF Holds, Typed
    <3> QED
      BY <3>1, <3>2
  <2>6. Counted' /\ cmd' \in [Procs -> Commands] /\ \A t \in Procs : cmd'[t] = IF t = r THEN d ELSE cmd[t]
    BY <2>1, <2>2, <2>3, CommandMoves
  <2>7. Contexted'
    <3>1. \A q \in Projects : context_path'[q] # None => q \in projects' /\ context_path'[q] = FileName[q] /\ Holds(contexts', q)
      BY <2>3, <2>5 DEF Contexted
    <3>2. ASSUME NEW u \in Procs, cmd'[u].pc = "contexted" PROVE Holds(contexts', cmd'[u].project)
      <4>1. cmd'[u].project \in Projects /\ (Holds(contexts, cmd'[u].project) \/ cmd'[u].project = p)
        BY <2>1, <2>6, <3>2 DEF Contexted, Typed
      <4> QED
        BY <2>5, <4>1
    <3> QED
      BY <3>1, <3>2 DEF Contexted
  <2>8. Typed'
    BY <2>1, <2>3, <2>4, <2>6 DEF Typed
  <2>9. Filed' /\ SawCompleted'
    BY <2>1, <2>3, <2>6 DEF Filed, SawCompleted
  <2> QED
    BY <2>6, <2>7, <2>8, <2>9
<1>15. ASSUME NEW r \in Procs, IngestMarks(r) PROVE Told'
  <2>1. /\ cmd[r].pc = "contexted" /\ cmd[r].project \in Projects /\ cmd' = [cmd EXCEPT ![r] = Idle]
        /\ context_path' = [p \in Projects |-> IF p = cmd[r].project /\ p \in projects
                                               THEN FileName[p] ELSE context_path[p]]
        /\ UNCHANGED <<campaign, records, projects, contexts, begun>>
    BY <1>15 DEF IngestMarks, Typed
  <2>2. context_path' \in [Projects -> Files \cup {None}]
    BY <2>1, Constants DEF Typed
  <2>3. Contexted'
    BY <2>1, CommandMoves, IdleTyped DEF Contexted, Holds
  <2> QED
    BY <2>1, <2>2, <2>3, CommandMoves, IdleTyped DEF Typed, Filed, SawCompleted
<1> QED
  BY <1>1, <1>2, <1>3, <1>4, <1>5, <1>16, <1>17, <1>6, <1>7, <1>8, <1>9, <1>10, <1>11, <1>12, <1>13, <1>14, <1>15 DEF Next

\* A run is at a quest that is not settled, whatever steps are taken.
LEMMA RanStep == Inv /\ [Next]_vars => Ran'
<1> SUFFICES ASSUME Inv, [Next]_vars PROVE Ran'
  OBVIOUS
<1>0. Typed /\ Ran /\ quests \in Seq(Statuses) /\ Len(quests) \in Nat /\ DOMAIN quests = 1 .. Len(quests) /\ None \notin DOMAIN quests
      /\ 0 \notin DOMAIN quests
  BY Constants DEF Inv, Told, Typed
<1>1. ASSUME UNCHANGED <<quests, runs, sole, cleared>> PROVE Ran'
  BY <1>0, <1>1 DEF Ran
<1>2. ASSUME NEW w \in Runs, RunBegins(w) PROVE Ran'
  <2>1. /\ \A v \in Runs : runs'[v] = IF v = w THEN 0 ELSE runs[v]
        /\ sole => \A v \in Runs : runs[v] = None
        /\ UNCHANGED <<quests, sole, cleared>>
    BY <1>0, <1>2 DEF RunBegins, Typed
  <2> QED
    BY <1>0, <2>1 DEF Ran
<1>3. ASSUME NEW w \in Runs, RunEnds(w) PROVE Ran'
  <2>1. (\A v \in Runs : runs'[v] = IF v = w THEN None ELSE runs[v]) /\ UNCHANGED <<quests, sole, cleared>>
    BY <1>0, <1>3 DEF RunEnds, Typed
  <2> QED
    BY <1>0, <2>1 DEF Ran
<1>4. CASE FollowUp
  <2>1. /\ DOMAIN quests' = 1 .. (Len(quests) + 1) /\ quests'[Len(quests) + 1] = "pending" /\ Len(quests) + 1 \in DOMAIN quests'
        /\ \A j \in DOMAIN quests : quests'[j] = quests[j]
        /\ UNCHANGED <<runs, sole, cleared>>
    BY <1>0, <1>4 DEF FollowUp
  <2>2. ~AllCompleted(quests')
    BY <2>1 DEF AllCompleted
  <2>3. \A w \in Runs : runs[w] \in DOMAIN quests' => runs[w] \in DOMAIN quests
    BY <1>0, <2>1, Constants DEF Typed
  <2> QED
    BY <1>0, <2>1, <2>2, <2>3 DEF Ran
<1>5. ASSUME NEW w \in Runs, Settles(w) PROVE Ran'
  <2>1. PICK x \in Statuses : Becomes(runs[w], x)
    BY <1>5 DEF Settles, Statuses
  <2>2. /\ runs[w] \in DOMAIN quests /\ (sole => quests[runs[w]] = "pending") /\ runs[w] # None
        /\ sole' = sole /\ cmd' = cmd /\ \A v \in Runs : runs'[v] = IF v = w THEN 0 ELSE runs[v]
    BY <1>0, <1>5 DEF Settles, Ran, Typed
  <2>3. DOMAIN quests' = DOMAIN quests /\ (AllCompleted(quests') => Len(quests') \in cleared')
    BY <2>1, <2>2, BecomesKept
  <2>4. sole => \A v \in Runs : v # w => runs[v] = None
    BY <1>0, <2>2 DEF Ran
  <2> QED
    BY <1>0, <2>2, <2>3, <2>4 DEF Ran
<1>6. ASSUME NEW i \in DOMAIN quests, Recovers(i) PROVE Ran'
  <2>1. Becomes(i, "pending") /\ "pending" \in Statuses /\ ~sole /\ sole' = sole /\ cmd' = cmd
    BY <1>6 DEF Recovers, Statuses
  <2>2. AllCompleted(quests') => Len(quests') \in cleared'
    BY <2>1, BecomesKept
  <2> QED
    BY <2>1, <2>2 DEF Ran
<1>7. ASSUME NEW w \in Runs, NEW i \in DOMAIN quests, Takes(w, i) PROVE Ran'
  <2>1. /\ quests[i] = "pending" /\ runs[w] = 0 /\ runs[w] # None /\ UNCHANGED <<quests, sole, cleared>>
        /\ \A v \in Runs : runs'[v] = IF v = w THEN i ELSE runs[v]
    BY <1>0, <1>7, Constants DEF Takes, Typed
  <2> QED
    BY <1>0, <2>1 DEF Ran
<1>8. CASE UNCHANGED vars
  BY <1>1, <1>8 DEF vars, campaign
<1>9. ASSUME NEW r \in Procs,
             \/ Ends(r) \/ ReportReads(r) \/ ReportWrites(r) \/ ReportChronicles(r) \/ ReportCommits(r)
             \/ IngestWrites(r) \/ IngestMarks(r) \/ \E p \in Projects : IngestReads(r, p)
      PROVE  Ran'
  BY <1>1, <1>9 DEF campaign, Ends, ReportReads, ReportWrites, ReportChronicles, ReportCommits, IngestWrites, IngestMarks, IngestReads
<1>10. ASSUME NEW p \in Projects, Register(p) \/ Unregister(p) PROVE Ran'
  BY <1>1, <1>10 DEF campaign, Register, Unregister
<1> QED
  BY <1>2, <1>3, <1>4, <1>5, <1>6, <1>7, <1>8, <1>9, <1>10 DEF Next

\* So the invariant holds in every state of Chronicle.
LEMMA InvHolds == Spec => []Inv
<1>1. Inv /\ [Next]_vars => Inv'
  BY ToldStep, RanStep DEF Inv
<1> QED
  BY <1>1, InitInv, PTL DEF Spec

\* Whatever process dies where, the tables name no report, no line of the chronicle and no
\* context that is not on file (report_campaign, ingest_project).
THEOREM TablesOnFile == Spec => []OnFile
<1> SUFFICES ASSUME Inv PROVE OnFile
  BY InvHolds, PTL
<1>1. TypeOK
  BY DEF Inv, Told, Typed, Contexted, TypeOK, Commands, Statuses
<1>2. ReportOnFile
  <2>1. Cardinality(Chronicled) \in Nat
    BY Constants, FS_Subset, FS_CardinalityType DEF Chronicled
  <2> QED
    BY <2>1 DEF Inv, Told, Filed, Counted, Typed, ReportOnFile
<1>3. ContextOnFile
  BY DEF Inv, Told, Contexted, Holds, ContextOnFile
<1> QED
  BY <1>1, <1>2, <1>3 DEF OnFile

\* A report closes the campaign only when at one time all the quests it has seen were
\* completed, however runs overlap and whatever is run while the agent writes; they still
\* are, if runs do not overlap (report_campaign).
THEOREM ClosesWhatItSaw == Spec => ClosesSeen
<1> DEFINE Seen == \A r \in Procs : ReportCommits(r) /\ status' # status =>
                      /\ cmd[r].seen \in cleared
                      /\ sole => \A i \in 1 .. cmd[r].seen : quests[i] = "completed"
<1>1. Inv => Seen
  BY DEF Inv, Told, SawCompleted, ReportCommits
<1> QED
  BY <1>1, InvHolds, PTL DEF ClosesSeen

-----------------------------------------------------------------------------
(* Recursion over the naturals up to a bound.                              *)

\* A nonempty set of naturals has a least element.
LEMMA Least ==
  ASSUME NEW S \in SUBSET Nat, S # {}
  PROVE  \E n \in S : \A m \in S : ~(m < n)
<1>1. \E x \in S : \A y \in S : ~(<<y, x>> \in OpToRel(<, Nat))
  BY NatLessThanWellFounded, WFMin, Zenon
<1>2. \A x \in S : \A y \in S : y < x => <<y, x>> \in OpToRel(<, Nat)
  BY Zenon DEF OpToRel
<1> QED
  BY <1>1, <1>2, Zenon

\* A set of naturals with 0, and with n + 1 whenever with n < b, has all up to b.
LEMMA UpTo ==
  ASSUME NEW b \in Nat, NEW S, 0 \in S, \A n \in 0 .. b : n > 0 /\ n - 1 \in S => n \in S
  PROVE  0 .. b \subseteq S
<1> SUFFICES ASSUME (0 .. b) \ S # {} PROVE FALSE
  OBVIOUS
<1>1. PICK n \in (0 .. b) \ S : \A m \in (0 .. b) \ S : ~(m < n)
  <2>1. (0 .. b) \ S \in SUBSET Nat
    OBVIOUS
  <2> QED
    BY <2>1, Least, Zenon
<1>2. n > 0 /\ n - 1 \in 0 .. b /\ n - 1 < n
  BY <1>1
<1> QED
  BY <1>1, <1>2

\* f begins with a and goes on by step, up to b.
Goes(f, b, a, step) == f[0] = a /\ \A i \in 1 .. b : f[i] = step[i][f[i - 1]]

\* There is a function that does.
LEMMA Recursion ==
  ASSUME NEW b \in Nat, NEW A, NEW a \in A, NEW step \in [1 .. b -> [A -> A]]
  PROVE  \E f \in [0 .. b -> A] : Goes(f, b, a, step)
<1> DEFINE G(n, f) == f \in [0 .. n -> A] /\ f[0] = a /\ \A i \in 1 .. n : f[i] = step[i][f[i - 1]]
           S == {n \in 0 .. b : \E f : G(n, f)}
<1>1. 0 \in S
  <2>1. G(0, [i \in 0 .. 0 |-> a])
    OBVIOUS
  <2>2. \E f : G(0, f)
    BY <2>1, Zenon
  <2>3. 0 \in 0 .. b
    OBVIOUS
  <2> QED BY <2>2, <2>3, Zenon
<1>2. ASSUME NEW n \in 0 .. b, n > 0, n - 1 \in S
      PROVE  n \in S
  <2>1. PICK f : G(n - 1, f)
    BY <1>2
  <2> DEFINE g == [i \in 0 .. n |-> IF i = n THEN step[n][f[n - 1]] ELSE f[i]]
  <2>2. n - 1 \in 0 .. n - 1 /\ f[n - 1] \in A /\ n \in 1 .. b
    BY <1>2, <2>1
  <2>3. step[n][f[n - 1]] \in A
    BY <2>2
  <2>4. g \in [0 .. n -> A]
    BY <2>1, <2>3
  <2>5. g[0] = a
    BY <1>2, <2>1
  <2>6. ASSUME NEW i \in 1 .. n PROVE g[i] = step[i][g[i - 1]]
    <3>1. i - 1 \in 0 .. n /\ i - 1 # n /\ i \in 0 .. n
      OBVIOUS
    <3>2. g[i - 1] = f[i - 1]
      BY <3>1
    <3>3. CASE i = n
      <4>1. g[i] = step[n][f[n - 1]]
        BY <3>1, <3>3
      <4> QED BY <4>1, <3>2, <3>3
    <3>4. CASE i # n
      <4>1. i \in 1 .. n - 1 /\ g[i] = f[i]
        BY <3>1, <3>4
      <4> QED BY <4>1, <3>2, <2>1
    <3> QED BY <3>3, <3>4
  <2>7. G(n, g)
    BY <2>4, <2>5, <2>6, Zenon
  <2> QED BY <2>7
<1>3. b \in S
  <2> HIDE DEF S
  <2>1. 0 .. b \subseteq S
    BY <1>1, <1>2, UpTo, Zenon
  <2> QED BY <2>1
<1> QED BY <1>3 DEF Goes

\* Functions that begin alike and go on alike are alike.
GoAlike(f, g, b) == f[0] = g[0] /\ \A i \in 1 .. b : f[i - 1] = g[i - 1] => f[i] = g[i]

\* They are, up to b.
LEMMA Alike ==
  ASSUME NEW b \in Nat, NEW f, NEW g, GoAlike(f, g, b)
  PROVE  \A i \in 0 .. b : f[i] = g[i]
<1> DEFINE S == {i \in 0 .. b : f[i] = g[i]}
<1>1. 0 \in S /\ \A n \in 0 .. b : n > 0 /\ n - 1 \in S => n \in S
  BY DEF GoAlike
<1> HIDE DEF S
<1>2. 0 .. b \subseteq S
  BY <1>1, UpTo, Zenon
<1> QED BY <1>2 DEF S

\* So a function that goes on like g, which is known, is g.
LEMMA Same ==
  ASSUME NEW b \in Nat, NEW A, NEW g \in [0 .. b -> A], NEW f, f = [k \in 0 .. b |-> f[k]],
         GoAlike(f, g, b)
  PROVE  f = g
<1>1. \A k \in 0 .. b : f[k] = g[k]
  BY Alike
<1>2. g = [k \in 0 .. b |-> g[k]]
  BY Zenon
<1> QED BY <1>1, <1>2, Zenon

-----------------------------------------------------------------------------
(* What the recursive definitions of MemTree compute.                      *)

\* Flat, step by step.
LEMMA FlatSteps ==
  ASSUME NEW S, NEW cs \in Seq(Seq(S))
  PROVE  \E f \in [0 .. Len(cs) -> Seq(S)] :
           /\ f[0] = <<>> /\ \A k \in 1 .. Len(cs) : f[k] = f[k - 1] \o cs[k]
           /\ Flat(cs) = f[Len(cs)]
<1> DEFINE A == Seq(S)  b == Len(cs)
           F == LET f[k \in 0 .. Len(cs)] == IF k = 0 THEN <<>> ELSE f[k - 1] \o cs[k] IN f
           step == [i \in 1 .. b |-> [s \in A |-> s \o cs[i]]]
<1>1. /\ b \in Nat /\ 0 \in 0 .. b
      /\ \A k \in 1 .. b : k - 1 \in 0 .. b /\ k \in 0 .. b /\ k # 0
      /\ \A k \in 0 .. b : k # 0 => k \in 1 .. b
  OBVIOUS
<1>2. step \in [1 .. b -> [A -> A]] /\ <<>> \in A
  <2>1. \A i \in 1 .. b : \A s \in A : s \o cs[i] \in A
    OBVIOUS
  <2>2. <<>> \in A
    OBVIOUS
  <2> HIDE DEF A, b
  <2> QED BY <2>1, <2>2
<1>3. PICK g \in [0 .. b -> A] : Goes(g, b, <<>>, step)
  <2> HIDE DEF step, A, b
  <2> QED BY <1>1, <1>2, Recursion
<1>4. g[0] = <<>> /\ \A k \in 1 .. b : g[k] = g[k - 1] \o cs[k]
  <2>1. \A k \in 1 .. b : g[k - 1] \in A
    BY <1>1, Zenon
  <2> QED BY <2>1, <1>3, Zenon DEF Goes
<1>5. g = [k \in 0 .. b |-> IF k = 0 THEN <<>> ELSE g[k - 1] \o cs[k]]
  <2>1. \A k \in 0 .. b : g[k] = IF k = 0 THEN <<>> ELSE g[k - 1] \o cs[k]
    BY <1>1, <1>4, Zenon
  <2>2. g = [k \in 0 .. b |-> g[k]]
    BY Zenon
  <2> QED BY <2>1, <2>2, Zenon
<1>6. F = [k \in 0 .. b |-> IF k = 0 THEN <<>> ELSE F[k - 1] \o cs[k]]
  BY <1>5, Zenon
<1>7. Flat(cs) = F[b]
  BY DEF Flat
<1> HIDE DEF F
<1>8. F = g
  <2>1. GoAlike(F, g, b) /\ F = [k \in 0 .. b |-> F[k]]
    BY <1>1, <1>4, <1>6, Zenon DEF GoAlike
  <2>2. b \in Nat
    BY <1>1
  <2> HIDE DEF A, b, step
  <2> QED BY <2>1, <2>2, Same
<1> QED BY <1>4, <1>7, <1>8, Zenon

\* Flat is typed, and goes along with Append.
LEMMA FlatAppend ==
  ASSUME NEW S, NEW cs \in Seq(Seq(S)), NEW c \in Seq(S)
  PROVE  /\ Flat(<<>>) = <<>> /\ Flat(cs) \in Seq(S)
         /\ Flat(Append(cs, c)) = Flat(cs) \o c
<1> DEFINE d == Append(cs, c)  b == Len(cs)
<1>1. d \in Seq(Seq(S)) /\ Len(d) = b + 1 /\ d[b + 1] = c /\ \A k \in 1 .. b : d[k] = cs[k]
  OBVIOUS
<1>2. PICK f \in [0 .. Len(cs) -> Seq(S)] :
           /\ f[0] = <<>> /\ \A k \in 1 .. Len(cs) : f[k] = f[k - 1] \o cs[k]
           /\ Flat(cs) = f[Len(cs)]
  BY FlatSteps
<1>3. PICK g \in [0 .. Len(d) -> Seq(S)] :
           /\ g[0] = <<>> /\ \A k \in 1 .. Len(d) : g[k] = g[k - 1] \o d[k]
           /\ Flat(d) = g[Len(d)]
  <2> HIDE DEF d
  <2> QED BY <1>1, FlatSteps
<1>4. GoAlike(f, g, b)
  <2>1. \A k \in 1 .. b : k \in 1 .. Len(d)
    BY <1>1
  <2> HIDE DEF d
  <2> QED BY <2>1, <1>1, <1>2, <1>3, Zenon DEF GoAlike
<1>5. b \in Nat
  OBVIOUS
<1>6. \A k \in 0 .. b : f[k] = g[k]
  <2> HIDE DEF b
  <2> QED BY <1>4, <1>5, Alike
<1>7. f[b] = g[b]
  BY <1>5, <1>6
<1>8. g[b + 1] = g[b] \o c
  <2>1. b + 1 \in 1 .. Len(d) /\ (b + 1) - 1 = b
    BY <1>1, <1>5
  <2> HIDE DEF d, b
  <2> QED BY <2>1, <1>1, <1>3
<1>9. Flat(<<>>) = <<>>
  <2>1. <<>> \in Seq(Seq(S)) /\ Len(<<>>) = 0
    OBVIOUS
  <2> QED BY <2>1, FlatSteps
<1>10. f[b] \in Seq(S)
  <2>1. b \in 0 .. Len(cs)
    BY <1>5
  <2> QED BY <2>1, Zenon
<1> QED BY <1>1, <1>2, <1>3, <1>7, <1>8, <1>9, <1>10

\* The blocks of the document.
Blocks == 1 .. Len(text)

\* Chars, step by step.
LEMMA CharsSteps ==
  ASSUME text \in Seq(Nat), NEW c \in Seq(Blocks)
  PROVE  \E f \in [0 .. Len(c) -> Nat] :
           /\ f[0] = 0 /\ \A k \in 1 .. Len(c) : f[k] = Joined(f[k - 1], text[c[k]])
           /\ Chars(c) = f[Len(c)]
<1> DEFINE b == Len(c)
           F == LET n[k \in 0 .. Len(c)] ==
                      IF k = 0 THEN 0 ELSE LET before == n[k - 1] IN Joined(before, text[c[k]])
                IN n
           step == [i \in 1 .. b |-> [m \in Nat |-> Joined(m, text[c[i]])]]
<1>1. /\ b \in Nat /\ 0 \in 0 .. b
      /\ \A k \in 1 .. b : k - 1 \in 0 .. b /\ k \in 0 .. b /\ k # 0
      /\ \A k \in 0 .. b : k # 0 => k \in 1 .. b
  OBVIOUS
<1>2. step \in [1 .. b -> [Nat -> Nat]] /\ 0 \in Nat
  <2>1. \A i \in 1 .. b : c[i] \in Blocks
    OBVIOUS
  <2>2. \A j \in Blocks : text[j] \in Nat
    BY DEF Blocks
  <2>3. \A i \in 1 .. b : \A m \in Nat : Joined(m, text[c[i]]) \in Nat
    BY <2>1, <2>2 DEF Joined
  <2> HIDE DEF b
  <2> QED BY <2>3
<1>3. PICK g \in [0 .. b -> Nat] : Goes(g, b, 0, step)
  <2> HIDE DEF step, b
  <2> QED BY <1>1, <1>2, Recursion
<1>4. g[0] = 0 /\ \A k \in 1 .. b : g[k] = Joined(g[k - 1], text[c[k]])
  <2>1. \A k \in 1 .. b : g[k - 1] \in Nat
    BY <1>1, Zenon
  <2> QED BY <2>1, <1>3, Zenon DEF Goes
<1>5. g = [k \in 0 .. b |-> IF k = 0 THEN 0 ELSE Joined(g[k - 1], text[c[k]])]
  <2>1. \A k \in 0 .. b : g[k] = IF k = 0 THEN 0 ELSE Joined(g[k - 1], text[c[k]])
    BY <1>1, <1>4, Zenon
  <2>2. g = [k \in 0 .. b |-> g[k]]
    BY Zenon
  <2> QED BY <2>1, <2>2, Zenon
<1>6. F = [k \in 0 .. b |-> IF k = 0 THEN 0 ELSE Joined(F[k - 1], text[c[k]])]
  BY <1>5, Zenon
<1>7. Chars(c) = F[b]
  BY DEF Chars
<1> HIDE DEF F
<1>8. F = g
  <2>1. GoAlike(F, g, b) /\ F = [k \in 0 .. b |-> F[k]]
    BY <1>1, <1>4, <1>6, Zenon DEF GoAlike
  <2>2. b \in Nat
    BY <1>1
  <2> HIDE DEF b, step
  <2> QED BY <2>1, <2>2, Same
<1> QED BY <1>4, <1>7, <1>8, Zenon

\* Chars goes along with Append.
LEMMA CharsAppend ==
  ASSUME text \in Seq(Nat), NEW c \in Seq(Blocks), NEW i \in Blocks
  PROVE  /\ Chars(<<>>) = 0 /\ Chars(c) \in Nat
         /\ Chars(Append(c, i)) = Joined(Chars(c), text[i])
<1> DEFINE d == Append(c, i)  b == Len(c)
<1>1. d \in Seq(Blocks) /\ Len(d) = b + 1 /\ d[b + 1] = i /\ \A k \in 1 .. b : d[k] = c[k]
  OBVIOUS
<1>2. PICK f \in [0 .. Len(c) -> Nat] :
           /\ f[0] = 0 /\ \A k \in 1 .. Len(c) : f[k] = Joined(f[k - 1], text[c[k]])
           /\ Chars(c) = f[Len(c)]
  BY CharsSteps
<1>3. PICK g \in [0 .. Len(d) -> Nat] :
           /\ g[0] = 0 /\ \A k \in 1 .. Len(d) : g[k] = Joined(g[k - 1], text[d[k]])
           /\ Chars(d) = g[Len(d)]
  <2> HIDE DEF d
  <2> QED BY <1>1, CharsSteps
<1>4. GoAlike(f, g, b)
  <2>1. \A k \in 1 .. b : k \in 1 .. Len(d)
    BY <1>1
  <2> HIDE DEF d
  <2> QED BY <2>1, <1>1, <1>2, <1>3, Zenon DEF GoAlike
<1>5. b \in Nat
  OBVIOUS
<1>6. \A k \in 0 .. b : f[k] = g[k]
  <2> HIDE DEF b
  <2> QED BY <1>4, <1>5, Alike
<1>7. f[b] = g[b]
  BY <1>5, <1>6
<1>8. g[b + 1] = Joined(g[b], text[i])
  <2>1. b + 1 \in 1 .. Len(d) /\ (b + 1) - 1 = b
    BY <1>1, <1>5
  <2> HIDE DEF d, b
  <2> QED BY <2>1, <1>1, <1>3
<1>9. Chars(<<>>) = 0
  <2>1. <<>> \in Seq(Blocks) /\ Len(<<>>) = 0
    OBVIOUS
  <2> QED BY <2>1, CharsSteps
<1>10. f[b] \in Nat
  <2>1. b \in 0 .. Len(c)
    BY <1>5
  <2> QED BY <2>1, Zenon
<1> QED BY <1>1, <1>2, <1>3, <1>7, <1>8, <1>9, <1>10

\* What chunk_markdown has after a block.
Cutting == Seq(Seq(Blocks)) \X Seq(Blocks) \X Nat

\* Another block leaves it within its type.
LEMMA OneMoreTyped ==
  ASSUME text \in Seq(Nat), NEW s \in Cutting, NEW i \in Blocks
  PROVE  OneMore(text, s, i) \in Cutting
<1>1. s[1] \in Seq(Seq(Blocks)) /\ s[2] \in Seq(Blocks) /\ s[3] \in Nat
  BY DEF Cutting
<1>2. text[i] \in Nat
  BY DEF Blocks
<1>3. Joined(s[3], text[i]) \in Nat
  BY <1>1, <1>2 DEF Joined
<1>4. Append(s[2], i) \in Seq(Blocks) /\ <<i>> \in Seq(Blocks) /\ Append(s[1], s[2]) \in Seq(Seq(Blocks))
  BY <1>1
<1> QED BY <1>1, <1>2, <1>3, <1>4 DEF OneMore, Cutting

\* Cut does OneMore, block by block.
LEMMA CutSteps ==
  ASSUME text \in Seq(Nat)
  PROVE  /\ Cut(text) \in [0 .. Len(text) -> Cutting] /\ Cut(text)[0] = <<<<>>, <<>>, 0>>
         /\ \A k \in Blocks : Cut(text)[k] = OneMore(text, Cut(text)[k - 1], k)
<1> DEFINE b == Len(text)
           F == LET cut[i \in 0 .. Len(text)] ==
                      IF i = 0 THEN <<<<>>, <<>>, 0>> ELSE OneMore(text, cut[i - 1], i)
                IN cut
           step == [i \in 1 .. b |-> [s \in Cutting |-> OneMore(text, s, i)]]
<1>1. /\ b \in Nat /\ 0 \in 0 .. b
      /\ \A k \in 1 .. b : k - 1 \in 0 .. b /\ k \in 0 .. b /\ k # 0
      /\ \A k \in 0 .. b : k # 0 => k \in 1 .. b
  OBVIOUS
<1>2. step \in [1 .. b -> [Cutting -> Cutting]] /\ <<<<>>, <<>>, 0>> \in Cutting
  <2>1. \A i \in 1 .. b : \A s \in Cutting : OneMore(text, s, i) \in Cutting
    BY OneMoreTyped DEF Blocks
  <2>2. <<<<>>, <<>>, 0>> \in Cutting
    <3>1. <<>> \in Seq(Seq(Blocks)) /\ <<>> \in Seq(Blocks) /\ 0 \in Nat
      OBVIOUS
    <3> QED BY <3>1 DEF Cutting
  <2> HIDE DEF b
  <2> QED BY <2>1, <2>2
<1>3. PICK g \in [0 .. b -> Cutting] : Goes(g, b, <<<<>>, <<>>, 0>>, step)
  <2> HIDE DEF step, b
  <2> QED BY <1>1, <1>2, Recursion
<1>4. g[0] = <<<<>>, <<>>, 0>> /\ \A k \in 1 .. b : g[k] = OneMore(text, g[k - 1], k)
  <2>1. \A k \in 1 .. b : g[k - 1] \in Cutting
    BY <1>1, Zenon
  <2> QED BY <2>1, <1>3, Zenon DEF Goes
<1>5. g = [k \in 0 .. b |-> IF k = 0 THEN <<<<>>, <<>>, 0>> ELSE OneMore(text, g[k - 1], k)]
  <2>1. \A k \in 0 .. b : g[k] = IF k = 0 THEN <<<<>>, <<>>, 0>> ELSE OneMore(text, g[k - 1], k)
    BY <1>1, <1>4, Zenon
  <2>2. g = [k \in 0 .. b |-> g[k]]
    BY Zenon
  <2> QED BY <2>1, <2>2, Zenon
<1>6. F = [k \in 0 .. b |-> IF k = 0 THEN <<<<>>, <<>>, 0>> ELSE OneMore(text, F[k - 1], k)]
  BY <1>5, Zenon
<1>7. Cut(text) = F
  BY DEF Cut
<1> HIDE DEF F
<1>8. F = g
  <2>1. GoAlike(F, g, b) /\ F = [k \in 0 .. b |-> F[k]]
    BY <1>1, <1>4, <1>6, Zenon DEF GoAlike
  <2>2. b \in Nat
    BY <1>1
  <2> HIDE DEF b, step
  <2> QED BY <2>1, <2>2, Same
<1> QED BY <1>4, <1>7, <1>8, Zenon DEF Blocks

-----------------------------------------------------------------------------
(* The chunks.                                                             *)

\* Block d[1] would not fit into c, and a chunk c of several is within its budget.
Paired(c, d) == Tokens(Chars(c)) + Tokens(text[d[1]]) > Budget
Within(c) == c # <<>> /\ (Len(c) > 1 => Tokens(Chars(c)) <= Budget + 1)

\* They hold the blocks up to i once and in order, each as large as it may be.
Right(cs, i) ==
  /\ Flat(cs) = [j \in 1 .. i |-> j]
  /\ \A k \in 1 .. Len(cs) : Within(cs[k])
  /\ \A k \in 2 .. Len(cs) : Paired(cs[k - 1], cs[k])

\* The chunks so far, the one in hand included.
SoFar(s) == IF s[2] = <<>> THEN s[1] ELSE Append(s[1], s[2])

\* The invariant of the loop of chunk_markdown, after block i.
CutOK(s, i) ==
  /\ s \in Cutting /\ (s[2] = <<>> <=> i = 0) /\ (i = 0 => s[1] = <<>>)
  /\ s[3] = Chars(s[2]) /\ (s[2] # <<>> => s[3] > 0)
  /\ Right(SoFar(s), i)

\* Two texts joined by a blank line have one token more at most.
LEMMA TokensJoined ==
  ASSUME NEW n \in Nat, NEW m \in Nat, n > 0, m > 0
  PROVE  Tokens(n) \in Nat /\ Tokens(Joined(n, m)) <= Tokens(n) + Tokens(m) + 1
BY DEF Tokens, Joined

\* A chunk more.
LEMMA RightAppend ==
  ASSUME text \in Seq(Nat), NEW cs \in Seq(Seq(Blocks)), NEW c \in Seq(Blocks), NEW i \in Nat,
         \A k \in 1 .. Len(cs) : Within(cs[k]),
         \A k \in 2 .. Len(cs) : Paired(cs[k - 1], cs[k]),
         Flat(cs) \o c = [j \in 1 .. i |-> j],
         Within(c), cs # <<>> => Paired(cs[Len(cs)], c)
  PROVE  Right(Append(cs, c), i)
<1> DEFINE d == Append(cs, c)  b == Len(cs)
<1>1. b \in Nat /\ Len(d) = b + 1 /\ d[b + 1] = c /\ \A k \in 1 .. b : d[k] = cs[k]
  OBVIOUS
<1>2. Flat(d) = [j \in 1 .. i |-> j]
  BY FlatAppend
<1>3. ASSUME NEW k \in 1 .. b + 1 PROVE Within(d[k])
  <2>1. k = b + 1 \/ k \in 1 .. b
    BY <1>1
  <2> HIDE DEF d
  <2> QED BY <2>1, <1>1
<1>4. ASSUME NEW k \in 2 .. b + 1 PROVE Paired(d[k - 1], d[k])
  <2>1. CASE k = b + 1
    <3>1. cs # <<>> /\ k - 1 = b /\ b \in 1 .. b
      BY <2>1, <1>1
    <3>2. d[k - 1] = cs[b] /\ d[k] = c
      <4> HIDE DEF d
      <4> QED BY <3>1, <2>1, <1>1
    <3> QED BY <3>1, <3>2
  <2>2. CASE k # b + 1
    <3>1. k \in 2 .. b /\ k \in 1 .. b /\ k - 1 \in 1 .. b
      BY <2>2, <1>1
    <3>2. d[k - 1] = cs[k - 1] /\ d[k] = cs[k]
      <4> HIDE DEF d, b
      <4> QED BY <3>1, <1>1
    <3> QED BY <3>1, <3>2
  <2> QED BY <2>1, <2>2
<1>5. Right(d, i)
  <2> HIDE DEF d, b
  <2> QED BY <1>1, <1>2, <1>3, <1>4 DEF Right
<1> QED BY <1>5

\* The chunk in hand, and what comes before it.
LEMMA RightParts ==
  ASSUME text \in Seq(Nat), NEW cs \in Seq(Seq(Blocks)), NEW c \in Seq(Blocks), NEW i \in Nat,
         Right(Append(cs, c), i)
  PROVE  /\ \A k \in 1 .. Len(cs) : Within(cs[k])
         /\ \A k \in 2 .. Len(cs) : Paired(cs[k - 1], cs[k])
         /\ Flat(cs) \o c = [j \in 1 .. i |-> j]
         /\ Within(c) /\ (cs # <<>> => Paired(cs[Len(cs)], c))
<1> DEFINE d == Append(cs, c)  b == Len(cs)
<1>1. b \in Nat /\ Len(d) = b + 1 /\ d[b + 1] = c /\ \A k \in 1 .. b : d[k] = cs[k]
  OBVIOUS
<1>2. Flat(d) = Flat(cs) \o c
  BY FlatAppend
<1>3. ASSUME NEW k \in 1 .. b + 1 PROVE Within(d[k])
  BY <1>1 DEF Right
<1>4. ASSUME NEW k \in 2 .. b + 1 PROVE Paired(d[k - 1], d[k])
  BY <1>1 DEF Right
<1>5. Flat(d) = [j \in 1 .. i |-> j]
  BY DEF Right
<1> HIDE DEF d
<1>6. ASSUME NEW k \in 2 .. b PROVE Paired(cs[k - 1], cs[k])
  <2>1. k \in 1 .. b /\ k - 1 \in 1 .. b /\ k \in 2 .. b + 1
    BY <1>1
  <2>2. d[k - 1] = cs[k - 1] /\ d[k] = cs[k]
    <3> HIDE DEF b
    <3> QED BY <2>1, <1>1
  <2> QED BY <2>1, <2>2, <1>4
<1>7. cs # <<>> => Paired(cs[b], c)
  <2> SUFFICES ASSUME cs # <<>> PROVE Paired(cs[b], c)
    OBVIOUS
  <2>1. b \in 1 .. b /\ b + 1 \in 2 .. b + 1 /\ (b + 1) - 1 = b
    BY <1>1
  <2> HIDE DEF b
  <2> QED BY <2>1, <1>1, <1>4
<1> QED BY <1>1, <1>2, <1>3, <1>5, <1>6, <1>7

\* The numbers up to i, one by one.
LEMMA UpToAppend ==
  ASSUME NEW i \in Nat, i > 0
  PROVE  Append([j \in 1 .. i - 1 |-> j], i) = [j \in 1 .. i |-> j]
<1> DEFINE s == [j \in 1 .. i - 1 |-> j]  t == [j \in 1 .. i |-> j]
<1>1. s \in Seq(Nat) /\ Len(s) = i - 1 /\ t \in Seq(Nat) /\ Len(t) = i
  OBVIOUS
<1>2. Append(s, i) \in Seq(Nat) /\ Len(Append(s, i)) = i
  BY <1>1
<1>3. ASSUME NEW j \in 1 .. i PROVE Append(s, i)[j] = t[j]
  BY <1>1
<1> HIDE DEF s, t
<1> QED BY <1>1, <1>2, <1>3, SeqEqual

\* To append is to concatenate.
LEMMA ConcatAppend ==
  ASSUME NEW S, NEW s \in Seq(S), NEW c \in Seq(S), NEW x \in S
  PROVE  s \o Append(c, x) = Append(s \o c, x) /\ s \o <<x>> = Append(s, x)
<1>1. s \o Append(c, x) = Append(s \o c, x)
  <2> DEFINE l == s \o Append(c, x)  r == Append(s \o c, x)
  <2>1. l \in Seq(S) /\ r \in Seq(S) /\ Len(l) = Len(s) + Len(c) + 1 /\ Len(r) = Len(s) + Len(c) + 1
    OBVIOUS
  <2>2. \A k \in 1 .. Len(s) + Len(c) + 1 : l[k] = r[k]
    OBVIOUS
  <2> HIDE DEF l, r
  <2> QED BY <2>1, <2>2, SeqEqual
<1>2. s \o <<x>> = Append(s, x)
  <2> DEFINE l == s \o <<x>>  r == Append(s, x)
  <2>1. l \in Seq(S) /\ r \in Seq(S) /\ Len(l) = Len(s) + 1 /\ Len(r) = Len(s) + 1
    OBVIOUS
  <2>2. \A k \in 1 .. Len(s) + 1 : l[k] = r[k]
    OBVIOUS
  <2> HIDE DEF l, r
  <2> QED BY <2>1, <2>2, SeqEqual
<1> QED BY <1>1, <1>2

\* What is at the places of a sequence with an element more.
LEMMA AppendAt ==
  ASSUME NEW S, NEW s \in Seq(S), NEW x \in S
  PROVE  /\ Append(s, x) \in Seq(S) /\ Append(s, x) # <<>> /\ Len(Append(s, x)) = Len(s) + 1
         /\ Append(s, x)[1] = IF s = <<>> THEN x ELSE s[1]
<1> DEFINE a == Append(s, x)  n == Len(s)
<1>1. /\ a \in Seq(S) /\ Len(a) = n + 1 /\ n \in Nat /\ a[n + 1] = x /\ (s = <<>> <=> n = 0)
      /\ \A k \in 1 .. n : a[k] = s[k]
  OBVIOUS
<1> HIDE DEF a, n
<1>2. a # <<>>
  BY <1>1
<1>3. n = 0 => a[1] = x
  BY <1>1
<1>4. n # 0 => a[1] = s[1]
  BY <1>1
<1> QED BY <1>1, <1>2, <1>3, <1>4 DEF a, n

\* A block more.
LEMMA CutKeepsOK ==
  ASSUME text \in Seq(Nat \ {0}), budget \in Nat, NEW s, NEW i \in Blocks, CutOK(s, i - 1)
  PROVE  CutOK(OneMore(text, s, i), i)
<1> DEFINE D == s[1]  C == s[2]  n == s[3]  m == text[i]  t == OneMore(text, s, i)
           E == Append(C, i)
<1>1. text \in Seq(Nat)
  OBVIOUS
<1>2. m \in Nat /\ m > 0 /\ i \in Nat /\ i > 0 /\ Budget \in Nat
  BY DEF Blocks, Budget
<1>3. D \in Seq(Seq(Blocks)) /\ C \in Seq(Blocks) /\ n \in Nat
  BY DEF CutOK, Cutting
<1>4. n = Chars(C) /\ (C # <<>> => n > 0) /\ (C = <<>> <=> i = 1) /\ (i = 1 => D = <<>>)
  BY <1>2 DEF CutOK
<1>5. t \in Cutting
  BY <1>1, OneMoreTyped DEF CutOK
<1>6. E \in Seq(Blocks) /\ E # <<>> /\ Len(E) = Len(C) + 1 /\ E[1] = IF C = <<>> THEN i ELSE C[1]
  <2> HIDE DEF C, E
  <2>1. E \in Seq(Blocks) /\ E # <<>>
    BY <1>3, AppendAt DEF E
  <2>2. Len(E) = Len(C) + 1
    BY <1>3, AppendAt DEF E
  <2>3. E[1] = IF C = <<>> THEN i ELSE C[1]
    BY <1>3, AppendAt DEF E
  <2> QED BY <2>1, <2>2, <2>3
<1>7. Chars(E) = Joined(n, m) /\ Chars(<<>>) = 0
  BY <1>1, <1>3, <1>4, CharsAppend
<1>8. Joined(n, m) > 0
  BY <1>2, <1>3 DEF Joined
<1>9. n = 0 => C = <<>>
  BY <1>4
<1>10. ASSUME C = <<>> PROVE CutOK(t, i)
  <2>1. n = 0 /\ D = <<>> /\ i = 1
    BY <1>4, <1>7, <1>10
  <2>2. t[1] = <<>> /\ t[2] = <<1>> /\ t[3] = m /\ E = <<1>>
    <3>1. t = <<<<>>, <<1>>, m>> /\ E = <<1>>
      BY <2>1, <1>10 DEF OneMore, Fits, Joined
    <3> QED BY <3>1
  <2> HIDE DEF t
  <2>3. Chars(<<1>>) = m
    BY <2>1, <2>2, <1>7 DEF Joined
  <2>4. SoFar(t) = Append(<<>>, <<1>>)
    BY <2>2 DEF SoFar
  <2>5. Flat(<<>>) \o <<1>> = [j \in 1 .. 1 |-> j]
    <3>1. <<>> \in Seq(Seq(Nat)) /\ <<1>> \in Seq(Nat) /\ <<1>> = [j \in 1 .. 1 |-> j]
      OBVIOUS
    <3>2. Flat(<<>>) = <<>>
      BY <3>1, FlatAppend
    <3>3. <<>> \o <<1>> = <<1>>
      OBVIOUS
    <3> QED BY <3>1, <3>2, <3>3
  <2>6. Within(<<1>>)
    BY DEF Within
  <2>7. <<>> \in Seq(Seq(Blocks)) /\ <<1>> \in Seq(Blocks) /\ Len(<<>>) = 0
    BY <2>2, <1>6
  <2>8. Right(Append(<<>>, <<1>>), 1)
    <3> DEFINE none == <<>>
    <3>1. none \in Seq(Seq(Blocks)) /\ 1 \in Nat /\ none = <<>>
      BY <2>7
    <3>2. (\A k \in 1 .. Len(none) : Within(none[k])) /\ (\A k \in 2 .. Len(none) : Paired(none[k - 1], none[k]))
      BY <2>7
    <3>3. Flat(none) \o <<1>> = [j \in 1 .. 1 |-> j] /\ (none # <<>> => Paired(none[Len(none)], <<1>>))
      BY <2>5
    <3> HIDE DEF none
    <3>4. Right(Append(none, <<1>>), 1)
      BY <3>1, <3>2, <3>3, <2>6, <2>7, <1>1, RightAppend
    <3> QED BY <3>1, <3>4
  <2>9. <<1>> # <<>> /\ i # 0
    BY <1>2
  <2> QED BY <2>1, <2>2, <2>3, <2>4, <2>8, <2>9, <1>2, <1>5 DEF CutOK
<1>11. ASSUME C # <<>> PROVE CutOK(t, i)
  <2>1. i > 1 /\ i - 1 \in Nat /\ n > 0
    BY <1>2, <1>4, <1>11
  <2>2. Right(Append(D, C), i - 1)
    BY <1>11 DEF CutOK, SoFar
  <2>3. /\ \A k \in 1 .. Len(D) : Within(D[k])
        /\ \A k \in 2 .. Len(D) : Paired(D[k - 1], D[k])
        /\ Flat(D) \o C = [j \in 1 .. i - 1 |-> j]
        /\ Within(C) /\ (D # <<>> => Paired(D[Len(D)], C))
    BY <2>1, <2>2, <1>1, <1>3, RightParts
  <2>4. Flat(D) \in Seq(Blocks)
    BY <1>3, FlatAppend
  <2>5. CASE Fits(n, m)
    <3>1. t[1] = D /\ t[2] = E /\ t[3] = Joined(n, m)
      <4>1. t = <<D, E, Joined(n, m)>>
        BY <2>5 DEF OneMore
      <4> QED BY <4>1
    <3> HIDE DEF t
    <3>2. SoFar(t) = Append(D, E)
      BY <3>1, <1>6 DEF SoFar
    <3>3. Flat(D) \o E = [j \in 1 .. i |-> j]
      <4>1. Flat(D) \o E = Append(Flat(D) \o C, i)
        <5>1. C \in Seq(Blocks) /\ i \in Blocks
          BY <1>3
        <5> HIDE DEF C, D
        <5> QED BY <2>4, <5>1, ConcatAppend
      <4> QED BY <4>1, <2>3, <1>2, UpToAppend
    <3>4. Within(E)
      <4>1. Tokens(n) + Tokens(m) <= Budget
        BY <2>5, <2>1 DEF Fits
      <4>2. Tokens(Joined(n, m)) <= Tokens(n) + Tokens(m) + 1 /\ Tokens(n) \in Nat /\ Tokens(m) \in Nat
        BY <2>1, <1>2, <1>3, TokensJoined
      <4>3. Tokens(Joined(n, m)) \in Nat
        <5>1. Joined(n, m) \in Nat
          BY <1>2, <1>3 DEF Joined
        <5> QED BY <5>1 DEF Tokens
      <4>4. Tokens(Joined(n, m)) <= Budget + 1
        BY <4>1, <4>2, <4>3, <1>2
      <4> QED BY <4>4, <1>6, <1>7 DEF Within
    <3>5. D # <<>> => Paired(D[Len(D)], E)
      BY <2>3, <1>6, <1>11 DEF Paired
    <3>6. Right(Append(D, E), i)
      BY <2>3, <3>3, <3>4, <3>5, <1>1, <1>2, <1>3, <1>6, RightAppend
    <3>7. i # 0
      BY <1>2
    <3> QED BY <3>1, <3>2, <3>6, <3>7, <1>5, <1>6, <1>7, <1>8 DEF CutOK
  <2>6. CASE ~Fits(n, m)
    <3> DEFINE B == Append(D, C)
    <3>1. t[1] = B /\ t[2] = <<i>> /\ t[3] = m /\ B \in Seq(Seq(Blocks)) /\ B # <<>> /\ <<i>> \in Seq(Blocks)
      <4>1. t = <<B, <<i>>, m>>
        BY <2>6 DEF OneMore
      <4>2. B \in Seq(Seq(Blocks)) /\ B # <<>> /\ <<i>> \in Seq(Blocks)
        BY <1>3
      <4> HIDE DEF t
      <4> QED BY <4>1, <4>2
    <3> HIDE DEF t
    <3>2. SoFar(t) = Append(B, <<i>>)
      BY <3>1 DEF SoFar
    <3>3. Flat(B) \o <<i>> = [j \in 1 .. i |-> j]
      <4>1. Flat(B) = [j \in 1 .. i - 1 |-> j] /\ Flat(B) \in Seq(Blocks)
        BY <2>2, <3>1, FlatAppend DEF Right
      <4>2. Flat(B) \o <<i>> = Append(Flat(B), i)
        <5>1. <<>> \in Seq(Blocks) /\ i \in Blocks
          OBVIOUS
        <5> HIDE DEF B
        <5> QED BY <4>1, <5>1, ConcatAppend
      <4> QED BY <4>1, <4>2, <1>2, UpToAppend
    <3>4. Within(<<i>>)
      BY DEF Within
    <3>5. B[Len(B)] = C
      BY <1>3
    <3>6. Paired(C, <<i>>)
      <4>1. Tokens(n) \in Nat /\ Tokens(m) \in Nat
        BY <2>1, <1>2, <1>3, TokensJoined
      <4>2. Tokens(n) + Tokens(m) > Budget
        BY <4>1, <2>6, <1>2 DEF Fits
      <4> QED BY <4>2, <1>4 DEF Paired
    <3>7. Chars(<<i>>) = m
      <4>1. <<i>> = Append(<<>>, i) /\ <<>> \in Seq(Blocks)
        OBVIOUS
      <4> QED BY <4>1, <1>1, <1>7, CharsAppend DEF Joined
    <3>8. (\A k \in 1 .. Len(B) : Within(B[k])) /\ (\A k \in 2 .. Len(B) : Paired(B[k - 1], B[k]))
      BY <2>2 DEF Right
    <3>9. Right(Append(B, <<i>>), i)
      <4> HIDE DEF B
      <4> QED BY <3>1, <3>3, <3>4, <3>5, <3>6, <3>8, <1>1, <1>2, RightAppend
    <3>10. <<i>> # <<>> /\ i # 0
      BY <1>2
    <3> QED BY <3>1, <3>2, <3>7, <3>9, <3>10, <1>2, <1>5 DEF CutOK
  <2> QED BY <2>5, <2>6
<1> QED BY <1>10, <1>11

\* Before the first block nothing is cut.
LEMMA CutBeginsOK ==
  ASSUME text \in Seq(Nat \ {0})
  PROVE  CutOK(<<<<>>, <<>>, 0>>, 0)
<1> DEFINE s == <<<<>>, <<>>, 0>>
<1>1. s \in Cutting /\ s[1] = <<>> /\ s[2] = <<>> /\ s[3] = 0
  <2>1. <<>> \in Seq(Seq(Blocks)) /\ <<>> \in Seq(Blocks) /\ 0 \in Nat
    OBVIOUS
  <2> QED BY <2>1 DEF Cutting
<1>2. Flat(<<>>) = <<>>
  <2>1. <<>> \in Seq(Seq(Blocks)) /\ <<>> \in Seq(Blocks)
    OBVIOUS
  <2> QED BY <2>1, FlatAppend
<1>3. Chars(<<>>) = 0
  <2>1. <<>> \in Seq(Blocks) /\ Len(<<>>) = 0 /\ text \in Seq(Nat)
    OBVIOUS
  <2> QED BY <2>1, CharsSteps
<1>4. [j \in 1 .. 0 |-> j] = <<>> /\ Len(<<>>) = 0
  OBVIOUS
<1>5. Right(<<>>, 0)
  BY <1>2, <1>4 DEF Right
<1> HIDE DEF s
<1>6. CutOK(s, 0)
  BY <1>1, <1>3, <1>5 DEF CutOK, SoFar
<1> QED BY <1>6 DEF s

\* So it holds after the last one.
LEMMA CutAllOK ==
  ASSUME text \in Seq(Nat \ {0}), budget \in Nat
  PROVE  CutOK(Cut(text)[Len(text)], Len(text))
<1> DEFINE b == Len(text)  S == {k \in 0 .. b : CutOK(Cut(text)[k], k)}
<1>1. b \in Nat /\ text \in Seq(Nat) /\ 0 \in 0 .. b /\ b \in 0 .. b
  OBVIOUS
<1>2. Cut(text)[0] = <<<<>>, <<>>, 0>> /\ \A k \in Blocks : Cut(text)[k] = OneMore(text, Cut(text)[k - 1], k)
  BY <1>1, CutSteps
<1>3. 0 \in S
  BY <1>1, <1>2, CutBeginsOK
<1>4. ASSUME NEW k \in 0 .. b, k > 0, k - 1 \in S PROVE k \in S
  <2>1. k \in Blocks
    BY <1>4 DEF Blocks
  <2>2. CutOK(Cut(text)[k - 1], k - 1)
    BY <1>4
  <2>3. CutOK(Cut(text)[k], k)
    BY <2>1, <2>2, <1>2, CutKeepsOK
  <2> QED BY <2>3
<1>5. b \in S
  <2> HIDE DEF S, b
  <2>1. 0 .. b \subseteq S
    BY <1>1, <1>3, <1>4, UpTo, Zenon
  <2> QED BY <2>1, <1>1
<1> QED BY <1>5

\* chunk_markdown does what it should with any document and budget.
LEMMA ChunksRight ==
  ASSUME text \in Seq(Nat \ {0}), budget \in Nat
  PROVE  ChunkedRight /\ Chunks(text) \in Seq(Seq(Blocks)) /\ Len(Chunks(text)) \in Nat
<1> DEFINE cs == Chunks(text)  s == Cut(text)[Len(text)]
<1>1. CutOK(s, Len(text)) /\ cs = SoFar(s)
  BY CutAllOK DEF Chunks, SoFar
<1>2. s[1] \in Seq(Seq(Blocks)) /\ s[2] \in Seq(Blocks)
  BY <1>1 DEF CutOK, Cutting
<1>3. Right(cs, Len(text))
  BY <1>1 DEF CutOK
<1> HIDE DEF s
<1>4. cs \in Seq(Seq(Blocks))
  <2> HIDE DEF cs
  <2> QED BY <1>1, <1>2 DEF SoFar
<1> HIDE DEF cs
<1>5. DOMAIN cs = 1 .. Len(cs) /\ Len(cs) \in Nat
  BY <1>4
<1>6. /\ Flat(cs) = [i \in 1 .. Len(text) |-> i]
      /\ \A k \in DOMAIN cs : Len(cs[k]) > 1 => Tokens(Chars(cs[k])) <= Budget + 1
      /\ \A k \in DOMAIN cs : k > 1 => Tokens(Chars(cs[k - 1])) + Tokens(text[cs[k][1]]) > Budget
  <2>1. \A k \in DOMAIN cs : Within(cs[k])
    BY <1>3, <1>5 DEF Right
  <2>2. \A k \in DOMAIN cs : k > 1 => k \in 2 .. Len(cs)
    BY <1>5
  <2>3. \A k \in DOMAIN cs : k > 1 => Paired(cs[k - 1], cs[k])
    BY <2>2, <1>3 DEF Right
  <2>4. Flat(cs) = [i \in 1 .. Len(text) |-> i]
    BY <1>3 DEF Right
  <2> QED BY <2>1, <2>3, <2>4 DEF Within, Paired
<1>7. ChunkedRight
  BY <1>6 DEF cs, ChunkedRight
<1> QED BY <1>4, <1>5, <1>7 DEF cs

\* chunk_markdown cuts any document, within any budget, into chunks that hold every block
\* once and in order, are cut only where the next block would not fit, and exceed the budget
\* by the blank lines' one token at most.
THEOREM ChunksHold == TreeSpec => []ChunkedRight
<1> DEFINE I == text \in Documents /\ budget \in Budgets
<1>1. TreeInit => I
  BY DEF TreeInit
<1>2. I /\ [TreeNext]_tree => I'
  BY DEF TreeNext, Ingest, TreeBegins, Group, Ascend, Commits, Fails, tree, input
<1>3. I => ChunkedRight
  <2> SUFFICES ASSUME I PROVE ChunkedRight
    OBVIOUS
  <2>1. text \in Seq(Nat \ {0}) /\ budget \in Nat
    BY MemTreeAssumption
  <2> QED BY <2>1, ChunksRight
<1> QED BY <1>1, <1>2, <1>3, PTL DEF TreeSpec

-----------------------------------------------------------------------------
(* The trees.                                                              *)

\* Flat goes along with concatenation.
LEMMA FlatConcat ==
  ASSUME NEW S, NEW cs \in Seq(Seq(S)), NEW ds \in Seq(Seq(S))
  PROVE  Flat(cs \o ds) = Flat(cs) \o Flat(ds)
<1> DEFINE b == Len(ds)  P(k) == SubSeq(ds, 1, k)
           H == {k \in 0 .. b : P(k) \in Seq(Seq(S)) /\ Flat(cs \o P(k)) = Flat(cs) \o Flat(P(k))}
<1>1. b \in Nat /\ 0 \in 0 .. b /\ b \in 0 .. b
  OBVIOUS
<1>2. 0 \in H
  <2>1. P(0) = <<>> /\ <<>> \in Seq(Seq(S)) /\ <<>> \in Seq(S) /\ cs \o <<>> = cs
    OBVIOUS
  <2>2. Flat(cs) \in Seq(S) /\ Flat(<<>>) = <<>>
    BY <2>1, FlatAppend
  <2>3. Flat(cs) \o <<>> = Flat(cs)
    BY <2>2
  <2> QED BY <1>1, <2>1, <2>2, <2>3
<1>3. ASSUME NEW k \in 0 .. b, k > 0, k - 1 \in H PROVE k \in H
  <2>1. k \in 1 .. b /\ ds[k] \in Seq(S) /\ P(k - 1) \in Seq(Seq(S))
    BY <1>3
  <2>2. P(k) = Append(P(k - 1), ds[k])
    <3>1. P(k) \in Seq(Seq(S)) /\ Len(P(k)) = k /\ \A j \in 1 .. k : P(k)[j] = ds[j]
      BY <2>1
    <3>2. Len(P(k - 1)) = k - 1 /\ \A j \in 1 .. k - 1 : P(k - 1)[j] = ds[j]
      BY <2>1
    <3> DEFINE a == Append(P(k - 1), ds[k])
    <3>3. a \in Seq(Seq(S)) /\ Len(a) = k /\ \A j \in 1 .. k : a[j] = ds[j]
      <4> HIDE DEF P
      <4> QED BY <2>1, <3>2
    <3> HIDE DEF P, a
    <3>4. P(k) = a
      BY <3>1, <3>3, SeqEqual
    <3> QED BY <3>4 DEF a
  <2> DEFINE p == P(k - 1)  d == ds[k]
  <2>3. p \in Seq(Seq(S)) /\ d \in Seq(S) /\ Flat(cs \o p) = Flat(cs) \o Flat(p) /\ P(k) = Append(p, d)
    BY <2>1, <2>2, <1>3
  <2> HIDE DEF p, d, P
  <2>4. cs \o Append(p, d) = Append(cs \o p, d)
    <3> DEFINE T == Seq(S)
    <3>1. cs \in Seq(T) /\ p \in Seq(T) /\ d \in T
      BY <2>3
    <3> HIDE DEF T
    <3> QED BY <3>1, ConcatAppend
  <2>5. cs \o p \in Seq(Seq(S)) /\ Append(p, d) \in Seq(Seq(S))
    BY <2>3
  <2>6. Flat(Append(cs \o p, d)) = Flat(cs \o p) \o d /\ Flat(Append(p, d)) = Flat(p) \o d
        /\ Flat(cs) \in Seq(S) /\ Flat(p) \in Seq(S)
    BY <2>3, <2>5, FlatAppend
  <2>7. (Flat(cs) \o Flat(p)) \o d = Flat(cs) \o (Flat(p) \o d)
    <3>1. \A u, v, w \in Seq(S) : (u \o v) \o w = u \o (v \o w)
      BY ConcatAssociative
    <3> QED BY <3>1, <2>3, <2>6, Zenon
  <2> QED BY <2>3, <2>4, <2>5, <2>6, <2>7
<1>4. b \in H
  <2> HIDE DEF H, b
  <2>1. 0 .. b \subseteq H
    BY <1>1, <1>2, <1>3, UpTo, Zenon
  <2> QED BY <2>1, <1>1
<1>5. P(b) = ds
  BY SubSeqFull
<1> QED BY <1>4, <1>5

\* Flat of single numbers.
LEMMA FlatSingles ==
  ASSUME NEW n \in Nat
  PROVE  Flat([k \in 1 .. n |-> <<k>>]) = [k \in 1 .. n |-> k]
<1> DEFINE C(m) == [k \in 1 .. m |-> <<k>>]  N(m) == [k \in 1 .. m |-> k]
           H == {m \in 0 .. n : Flat(C(m)) = N(m)}
<1>1. 0 \in 0 .. n /\ n \in 0 .. n
  OBVIOUS
<1>2. 0 \in H
  <2>1. C(0) = <<>> /\ N(0) = <<>> /\ <<>> \in Seq(Seq(Nat)) /\ <<>> \in Seq(Nat)
    OBVIOUS
  <2>2. Flat(<<>>) = <<>>
    BY <2>1, FlatAppend
  <2> QED BY <1>1, <2>1, <2>2
<1>3. ASSUME NEW m \in 0 .. n, m > 0, m - 1 \in H PROVE m \in H
  <2>1. m \in Nat /\ m - 1 \in Nat /\ C(m - 1) \in Seq(Seq(Nat)) /\ <<m>> \in Seq(Nat) /\ C(m) \in Seq(Seq(Nat))
        /\ N(m - 1) \in Seq(Nat)
    BY <1>3
  <2>2. C(m) = Append(C(m - 1), <<m>>)
    <3> DEFINE a == Append(C(m - 1), <<m>>)
    <3>1. Len(C(m)) = m /\ \A j \in 1 .. m : C(m)[j] = <<j>>
      BY <2>1
    <3>2. Len(C(m - 1)) = m - 1 /\ \A j \in 1 .. m - 1 : C(m - 1)[j] = <<j>>
      BY <2>1
    <3>3. a \in Seq(Seq(Nat)) /\ Len(a) = m /\ \A j \in 1 .. m : a[j] = <<j>>
      <4> HIDE DEF C
      <4> QED BY <2>1, <3>2
    <3> DEFINE T == Seq(Nat)
    <3>4. C(m) \in Seq(T) /\ a \in Seq(T) /\ Len(C(m)) = Len(a) /\ \A j \in 1 .. Len(a) : C(m)[j] = a[j]
      <4> HIDE DEF C, a
      <4> QED BY <2>1, <3>1, <3>3
    <3> HIDE DEF C, a, T
    <3>5. C(m) = a
      BY <3>4, SeqEqual
    <3> QED BY <3>5 DEF a
  <2>3. Flat(C(m - 1)) = N(m - 1)
    BY <1>3
  <2>4. Append(N(m - 1), m) = N(m)
    BY <2>1, <1>3, UpToAppend
  <2>5. N(m - 1) \o <<m>> = Append(N(m - 1), m)
    <3> HIDE DEF N
    <3>1. <<>> \in Seq(Nat)
      OBVIOUS
    <3> QED BY <2>1, <3>1, ConcatAppend
  <2>6. Flat(C(m)) = Flat(C(m - 1)) \o <<m>>
    <3> HIDE DEF C
    <3> QED BY <2>1, <2>2, FlatAppend
  <2>7. Flat(C(m)) = N(m)
    <3> HIDE DEF C, N
    <3> QED BY <2>3, <2>4, <2>5, <2>6
  <2> QED BY <2>7
<1>4. n \in H
  <2> HIDE DEF H
  <2>1. 0 .. n \subseteq H
    BY <1>2, <1>3, UpTo, Zenon
  <2> QED BY <2>1, <1>1
<1> QED BY <1>4

\* The number of leaves, and the rows of memory_chunks.
L == Len(leaves)
Rows == [parent : Nat \cup {NoNode}, level : Nat, summary : Seq(1 .. L)]

\* The summaries of the nodes in s.
Gist(t, s) == [k \in 1 .. Len(s) |-> t[s[k]].summary]

\* A summary for each node of s.
LEMMA GistTyped ==
  ASSUME NEW t \in Seq(Rows), NEW s \in Seq(DOMAIN t)
  PROVE  Gist(t, s) \in Seq(Seq(1 .. L)) /\ Len(Gist(t, s)) = Len(s)
<1>1. \A k \in 1 .. Len(s) : s[k] \in DOMAIN t
  OBVIOUS
<1>2. \A i \in DOMAIN t : t[i] \in Rows
  OBVIOUS
<1>3. \A k \in 1 .. Len(s) : t[s[k]].summary \in Seq(1 .. L)
  BY <1>1, <1>2 DEF Rows
<1>4. Len(s) \in Nat
  OBVIOUS
<1> DEFINE T == Seq(1 .. L)
<1>5. \A k \in 1 .. Len(s) : t[s[k]].summary \in T
  BY <1>3
<1>6. Gist(t, s) \in Seq(T) /\ Len(Gist(t, s)) = Len(s)
  <2> HIDE DEF T
  <2> QED BY <1>4, <1>5 DEF Gist
<1> QED BY <1>6

\* What summarize is given is the summaries, one after the other.
LEMMA SummaryFlat ==
  ASSUME tx \in Seq(Rows), NEW ids \in Seq(DOMAIN tx)
  PROVE  Summary(ids) = Flat(Gist(tx, ids)) /\ Summary(ids) \in Seq(1 .. L)
<1> DEFINE A == Seq(1 .. L)  b == Len(ids)  cs == Gist(tx, ids)
           F == LET made[k \in 0 .. Len(ids)] ==
                      IF k = 0 THEN <<>> ELSE made[k - 1] \o tx[ids[k]].summary
                IN made
<1>1. /\ b \in Nat /\ 0 \in 0 .. b
      /\ \A k \in 1 .. b : k - 1 \in 0 .. b /\ k \in 0 .. b /\ k # 0
      /\ \A k \in 0 .. b : k # 0 => k \in 1 .. b
  OBVIOUS
<1>2. cs \in Seq(A) /\ Len(cs) = b
  BY GistTyped
<1>3. \A k \in 1 .. b : cs[k] = tx[ids[k]].summary
  BY DEF Gist
<1>4. PICK g \in [0 .. b -> A] :
        g[0] = <<>> /\ (\A k \in 1 .. b : g[k] = g[k - 1] \o cs[k]) /\ Flat(cs) = g[b]
  <2> HIDE DEF cs
  <2>1. \E g \in [0 .. Len(cs) -> Seq(1 .. L)] :
          /\ g[0] = <<>> /\ \A k \in 1 .. Len(cs) : g[k] = g[k - 1] \o cs[k]
          /\ Flat(cs) = g[Len(cs)]
    BY <1>2, FlatSteps
  <2> QED BY <2>1, <1>2
<1>5. g[0] = <<>> /\ \A k \in 1 .. b : g[k] = g[k - 1] \o tx[ids[k]].summary
  <2> HIDE DEF cs
  <2> QED BY <1>3, <1>4
<1>6. g = [k \in 0 .. b |-> IF k = 0 THEN <<>> ELSE g[k - 1] \o tx[ids[k]].summary]
  <2>1. \A k \in 0 .. b : g[k] = IF k = 0 THEN <<>> ELSE g[k - 1] \o tx[ids[k]].summary
    BY <1>1, <1>5, Zenon
  <2>2. g = [k \in 0 .. b |-> g[k]]
    BY Zenon
  <2> QED BY <2>1, <2>2, Zenon
<1>7. F = [k \in 0 .. b |-> IF k = 0 THEN <<>> ELSE F[k - 1] \o tx[ids[k]].summary]
  BY <1>6, Zenon
<1>8. Summary(ids) = F[b]
  BY DEF Summary
<1> HIDE DEF F
<1>9. F = g
  <2>1. GoAlike(F, g, b) /\ F = [k \in 0 .. b |-> F[k]]
    BY <1>1, <1>5, <1>7, Zenon DEF GoAlike
  <2>2. b \in Nat
    BY <1>1
  <2> HIDE DEF b, A
  <2> QED BY <2>1, <2>2, Same
<1>10. g[b] \in A
  BY <1>1
<1> QED BY <1>4, <1>8, <1>9, <1>10

\* A node's parent is one level up.
Upward(t) ==
  \A i \in DOMAIN t :
    /\ t[i].parent # NoNode => t[i].parent \in DOMAIN t /\ t[t[i].parent].level = t[i].level + 1
    /\ t[i].level < L

\* So the way up ends, and in T if no parent leads out of T.
LEMMA TopEnds ==
  ASSUME L \in Nat, NEW t \in Seq(Rows), Upward(t), NEW T \in SUBSET DOMAIN t, NEW i \in T,
         \A j \in T : t[j].parent # NoNode => t[j].parent \in T
  PROVE  /\ Top(t, i) \in T /\ t[Top(t, i)].parent = NoNode
         /\ t[Top(t, i)].level >= t[i].level
<1> DEFINE Up(j) == IF t[j].parent = NoNode THEN j ELSE t[j].parent
           F == LET up[n \in 0 .. Len(leaves)] ==
                      IF n = 0 THEN i
                      ELSE LET j == up[n - 1] IN IF t[j].parent = NoNode THEN j ELSE t[j].parent
                IN up
           step == [n \in 1 .. L |-> [j \in T |-> Up(j)]]
<1>1. /\ 0 \in 0 .. L /\ L \in 0 .. L
      /\ \A k \in 1 .. L : k - 1 \in 0 .. L /\ k \in 0 .. L /\ k # 0
      /\ \A k \in 0 .. L : k # 0 => k \in 1 .. L
  OBVIOUS
<1>2. step \in [1 .. L -> [T -> T]]
  <2>1. \A j \in T : Up(j) \in T
    OBVIOUS
  <2> HIDE DEF Up
  <2> QED BY <2>1
<1>3. PICK g \in [0 .. L -> T] : Goes(g, L, i, step)
  <2> HIDE DEF step
  <2> QED BY <1>2, Recursion
<1>4. g[0] = i /\ \A k \in 1 .. L : g[k - 1] \in T /\ g[k] = Up(g[k - 1])
  <2>1. \A k \in 1 .. L : g[k - 1] \in T
    BY <1>1, Zenon
  <2> HIDE DEF Up
  <2> QED BY <2>1, <1>3, Zenon DEF Goes
<1>5. g = [k \in 0 .. L |-> IF k = 0 THEN i ELSE Up(g[k - 1])]
  <2> HIDE DEF Up
  <2>1. \A k \in 0 .. L : g[k] = IF k = 0 THEN i ELSE Up(g[k - 1])
    BY <1>1, <1>4, Zenon
  <2>2. g = [k \in 0 .. L |-> g[k]]
    BY Zenon
  <2> QED BY <2>1, <2>2, Zenon
<1>6. F = [k \in 0 .. L |-> IF k = 0 THEN i ELSE Up(F[k - 1])]
  BY <1>5, Zenon DEF L
<1>7. Top(t, i) = F[L]
  BY DEF Top, L
<1> HIDE DEF F
<1>8. F = g
  <2> HIDE DEF Up
  <2>1. GoAlike(F, g, L) /\ F = [k \in 0 .. L |-> F[k]]
    BY <1>1, <1>4, <1>6, Zenon DEF GoAlike
  <2> HIDE DEF step
  <2> QED BY <2>1, Same
<1>9. \A j \in T : /\ t[j].level \in Nat /\ t[j].level <= L
                   /\ t[j].parent # NoNode => t[t[j].parent].level = t[j].level + 1
  <2>1. \A j \in DOMAIN t : t[j] \in Rows
    OBVIOUS
  <2>2. \A j \in DOMAIN t : t[j].level \in Nat
    BY <2>1 DEF Rows
  <2> QED BY <2>2 DEF Upward
<1> DEFINE H == {n \in 0 .. L : /\ t[g[n]].level >= t[i].level
                                /\ t[g[n]].parent = NoNode \/ t[g[n]].level >= n}
<1>10. 0 \in H
  BY <1>1, <1>4, <1>9
<1>11. ASSUME NEW n \in 0 .. L, n > 0, n - 1 \in H PROVE n \in H
  <2> DEFINE p == g[n - 1]
  <2>1. n \in 1 .. L /\ p \in T /\ g[n] = Up(p) /\ g[n] \in T
    BY <1>4, <1>11
  <2>2. t[p].level >= t[i].level /\ (t[p].parent = NoNode \/ t[p].level >= n - 1)
    BY <1>11
  <2> HIDE DEF p
  <2>3. CASE t[p].parent = NoNode
    BY <2>1, <2>2, <2>3
  <2>4. CASE t[p].parent # NoNode
    <3>1. g[n] = t[p].parent /\ t[g[n]].level = t[p].level + 1 /\ t[p].level \in Nat /\ t[i].level \in Nat
      BY <2>1, <2>4, <1>9
    <3>2. t[p].level >= n - 1
      BY <2>2, <2>4
    <3>3. t[g[n]].level >= t[i].level /\ t[g[n]].level >= n
      <4> DEFINE x == t[p].level  y == t[g[n]].level  z == t[i].level
      <4>1. y = x + 1 /\ x \in Nat /\ z \in Nat /\ x >= z /\ x >= n - 1 /\ n \in Nat
        BY <3>1, <3>2, <2>2
      <4> HIDE DEF x, y, z
      <4>2. y >= z /\ y >= n
        BY <4>1
      <4> QED BY <4>2 DEF y, z
    <3> QED BY <3>3
  <2> QED BY <2>3, <2>4
<1>12. L \in H
  <2> HIDE DEF H
  <2>1. 0 .. L \subseteq H
    BY <1>10, <1>11, UpTo, Zenon
  <2> QED BY <2>1, <1>1
<1>13. g[L] \in T
  BY <1>1
<1>14. t[g[L]].parent = NoNode
  <2> SUFFICES ASSUME t[g[L]].parent # NoNode PROVE FALSE
    OBVIOUS
  <2>1. t[g[L]].level >= L /\ t[t[g[L]].parent].level = t[g[L]].level + 1
    BY <1>12, <1>13, <1>9
  <2>2. t[g[L]].parent \in T
    BY <1>13
  <2> QED BY <2>1, <2>2, <1>9, <1>13
<1> QED BY <1>7, <1>8, <1>12, <1>13, <1>14

\* The leaves are the first rows, on the lowest level.
Leafy(t) ==
  \A i \in DOMAIN t :
    /\ i <= L => t[i].level = 0 /\ t[i].summary = <<i>>
    /\ i > L => t[i].level > 0

\* The children of p; none has more than fanout.
Kids(t, p) == {i \in DOMAIN t : t[i].parent = p}
Narrow(t) == \A p \in DOMAIN t : Cardinality(Kids(t, p)) <= fanout

\* What holds for the rows at any time.
Table(t) == t \in Seq(Rows) /\ Upward(t) /\ Leafy(t) /\ Narrow(t)

\* Every node up to b that has no parent, and is no leaf, is a root.
RootsWhole(t, b) == \A i \in 1 .. b : i > L /\ t[i].parent = NoNode => t[i].summary = leaves

\* The leaves and the nodes above b lead to r, and only to r.
New(t, b) == b + 1 .. Len(t)
Nodes(t, b) == 1 .. L \cup New(t, b)
LeadTo(t, b, r) ==
  /\ r \in Nodes(t, b) /\ t[r].parent = NoNode /\ t[r].summary = leaves
  /\ \A i \in Nodes(t, b) : i = r \/ t[i].parent \in New(t, b)

\* The nodes of a level are in the order in which they were inserted.
Rising(s) == \A j, k \in 1 .. Len(s) : j < k => s[j] < s[k]
Elems(s) == {s[k] : k \in 1 .. Len(s)}

\* The nodes that are still to get a parent.
Frontier == Elems(current) \cup Elems(next)

\* A build leaves what other builds have left as it was.
Grows ==
  /\ fanout >= 2 /\ L > 0 /\ level >= 1 /\ Len(tx) >= Len(memory_chunks)
  /\ \A i \in 1 .. Len(memory_chunks) : i > L => tx[i] = memory_chunks[i]

\* The frontier is of two levels, and has no parents yet.
FrontierOK ==
  /\ current \in Seq(DOMAIN tx) /\ next \in Seq(DOMAIN tx) /\ Rising(current) /\ Rising(next)
  /\ \A i \in Elems(current) : tx[i].level + 1 = level
  /\ \A i \in Elems(next) : tx[i].level = level
  /\ \A i \in Frontier : i > L => i > Len(memory_chunks) /\ tx[i].parent = NoNode

\* Every node of this build that is not in the frontier has a parent of this build.
BelowOK ==
  \A i \in Nodes(tx, Len(memory_chunks)) \ Frontier : tx[i].parent \in New(tx, Len(memory_chunks))

\* The summaries of the frontier are all the leaves, in their order.
WholeOK == Flat(Gist(tx, next)) \o Flat(Gist(tx, current)) = leaves

\* The levels shrink.
ShrinkOK ==
  /\ current # <<>> => Len(current) + 2 * Len(next) + level <= L + 1
  /\ current = <<>> => 2 * Len(next) + level <= L + 2
  /\ next # <<>> => level < L
  /\ current # <<>> \/ next # <<>>

\* The invariant of the loop of build_summary_tree.
Building == Grows /\ FrontierOK /\ BelowOK /\ WholeOK /\ ShrinkOK

\* The arguments, and the leaves.
Basics ==
  /\ text \in Documents /\ budget \in Budgets /\ fanout \in Fanouts
  /\ pc \in {"new", "stored", "building"} /\ builds \in 0 .. MaxBuilds /\ level \in Nat
  /\ L \in Nat /\ leaves = [i \in 1 .. L |-> i]
  /\ pc = "new" => memory_chunks = <<>> /\ tx = <<>> /\ leaves = <<>> /\ root = NoNode

\* The invariant of MemTree: what is stored is whole trees, whatever is being built.
TreeInv ==
  /\ Basics
  /\ Table(memory_chunks) /\ Table(tx)
  /\ Len(memory_chunks) >= L /\ RootsWhole(memory_chunks, Len(memory_chunks))
  /\ root # NoNode => \E b \in 0 .. Len(memory_chunks) : LeadTo(memory_chunks, b, root)
  /\ pc = "building" => Building

\* The invariant says that the table holds whole trees.
LEMMA InvWhole == TreeInv => BuildsWhole
<1> SUFFICES ASSUME TreeInv PROVE BuildsWhole
  OBVIOUS
<1> DEFINE mc == memory_chunks
<1>1. L \in Nat /\ leaves = [i \in 1 .. L |-> i] /\ DOMAIN leaves = 1 .. L /\ Len(leaves) = L /\ NoNode \notin Nat
      /\ fanout \in Nat
  BY MemTreeAssumption DEF TreeInv, Basics, L
<1>2. mc \in Seq(Rows) /\ Upward(mc) /\ Leafy(mc) /\ Narrow(mc) /\ Len(mc) \in Nat /\ DOMAIN mc = 1 .. Len(mc)
      /\ Len(mc) >= L
  BY DEF TreeInv, Table
<1>3. ASSUME NEW t, Table(t), NEW i \in DOMAIN t
      PROVE  /\ t[i].parent # NoNode => t[i].parent \in DOMAIN t /\ t[i].level < t[t[i].parent].level
             /\ t[i].level \in Nat /\ \A k \in DOMAIN t[i].summary : t[i].summary[k] \in DOMAIN leaves
  <2>1. t[i] \in Rows
    BY <1>3 DEF Table
  <2>2. t[i].level \in Nat /\ t[i].summary \in Seq(1 .. L)
    BY <2>1 DEF Rows
  <2>3. \A k \in DOMAIN t[i].summary : t[i].summary[k] \in DOMAIN leaves
    BY <2>2, <1>1
  <2>4. t[i].parent # NoNode => t[i].parent \in DOMAIN t /\ t[t[i].parent].level = t[i].level + 1
    BY <1>3 DEF Table, Upward
  <2>5. t[i].parent # NoNode => t[i].level < t[t[i].parent].level
    BY <2>2, <2>4
  <2> QED BY <2>2, <2>3, <2>4, <2>5
<1>4. root = NoNode \/ root \in DOMAIN mc
  <2> SUFFICES ASSUME root # NoNode PROVE root \in DOMAIN mc
    OBVIOUS
  <2>1. PICK b \in 0 .. Len(mc) : LeadTo(mc, b, root)
    BY DEF TreeInv
  <2>2. root \in 1 .. L \cup b + 1 .. Len(mc)
    BY <2>1 DEF LeadTo, Nodes, New
  <2> QED BY <2>2, <1>1, <1>2
<1>5. TreeTypeOK
  <2>1. Table(memory_chunks) /\ Table(tx)
    BY DEF TreeInv
  <2> QED BY <2>1, <1>3, <1>4 DEF TreeInv, Basics, TreeTypeOK
<1>6. TreeWhole
  <2> SUFFICES ASSUME pc = "stored", root # NoNode
               PROVE  /\ mc[root].summary = leaves
                      /\ \A i \in DOMAIN leaves : Top(mc, leaves[i]) = root
                      /\ \A p \in DOMAIN mc :
                           LET kids == {i \in DOMAIN mc : mc[i].parent = p}
                           IN /\ Cardinality(kids) <= fanout
                              /\ \A i \in kids : mc[i].level + 1 = mc[p].level
    BY DEF TreeWhole
  <2>1. PICK b \in 0 .. Len(mc) : LeadTo(mc, b, root)
    BY DEF TreeInv
  <2>2. ASSUME NEW i \in DOMAIN leaves PROVE Top(mc, leaves[i]) = root
    <3> DEFINE T == Nodes(mc, b)
    <3>1. leaves[i] = i /\ i \in T
      BY <1>1 DEF Nodes
    <3>2. T \in SUBSET DOMAIN mc
      BY <1>1, <1>2 DEF Nodes, New
    <3>3. \A j \in T : mc[j].parent # NoNode => mc[j].parent \in T
      BY <2>1 DEF LeadTo, Nodes
    <3> HIDE DEF T
    <3>4. Top(mc, i) \in T /\ mc[Top(mc, i)].parent = NoNode
      BY <3>1, <3>2, <3>3, <1>1, <1>2, TopEnds
    <3>5. \A j \in T : j = root \/ mc[j].parent \in Nat
      BY <2>1, <1>2 DEF LeadTo, T, New
    <3> QED BY <3>1, <3>4, <3>5, <1>1
  <2>3. ASSUME NEW p \in DOMAIN mc
        PROVE  /\ Cardinality({i \in DOMAIN mc : mc[i].parent = p}) <= fanout
               /\ \A i \in {i \in DOMAIN mc : mc[i].parent = p} : mc[i].level + 1 = mc[p].level
    <3>1. Cardinality({i \in DOMAIN mc : mc[i].parent = p}) <= fanout
      BY <1>2 DEF Narrow, Kids
    <3>2. p # NoNode
      BY <1>1, <1>2
    <3>3. ASSUME NEW i \in DOMAIN mc, mc[i].parent = p PROVE mc[i].level + 1 = mc[p].level
      BY <3>2, <3>3, <1>2 DEF Upward
    <3> QED BY <3>1, <3>3
  <2> QED BY <2>1, <2>2, <2>3 DEF LeadTo
<1>7. NothingHalf
  <2> SUFFICES ASSUME NEW i \in DOMAIN mc, mc[i].level > 0
               PROVE  mc[Top(mc, i)].summary = leaves
    BY DEF NothingHalf
  <2> DEFINE T == DOMAIN mc  r == Top(mc, i)
  <2>1. \A j \in T : mc[j].parent # NoNode => mc[j].parent \in T
    BY <1>2 DEF Upward
  <2>2. r \in T /\ mc[r].parent = NoNode /\ mc[r].level >= mc[i].level
    <3>1. T \in SUBSET DOMAIN mc /\ i \in T
      OBVIOUS
    <3> HIDE DEF T
    <3> QED BY <3>1, <2>1, <1>1, <1>2, TopEnds
  <2> HIDE DEF r
  <2>3. mc[r].level \in Nat /\ mc[i].level \in Nat
    <3>1. mc[r] \in Rows /\ mc[i] \in Rows
      BY <2>2, <1>2
    <3> QED BY <3>1 DEF Rows
  <2>4. mc[r].level > 0
    BY <2>2, <2>3
  <2>5. r > L
    BY <2>2, <2>4, <1>1, <1>2 DEF Leafy
  <2>6. mc[r].summary = leaves
    BY <2>2, <2>5, <1>2 DEF TreeInv, RootsWhole
  <2> QED BY <2>6 DEF r
<1> QED BY <1>5, <1>6, <1>7 DEF BuildsWhole

\* A group gets a parent: what becomes of the rows.
Grown(ids) == Append(Adopted(ids, Len(tx) + 1), Node(level, Summary(ids)))

\* The group's rows have a new parent, the others stay.
LEMMA GrownRows ==
  ASSUME tx \in Seq(Rows), level \in Nat, NEW ids \in Seq(DOMAIN tx)
  PROVE  /\ Grown(ids) \in Seq(Rows) /\ Len(Grown(ids)) = Len(tx) + 1
         /\ Grown(ids)[Len(tx) + 1] = Node(level, Summary(ids))
         /\ \A i \in 1 .. Len(tx) :
              /\ Grown(ids)[i].level = tx[i].level /\ Grown(ids)[i].summary = tx[i].summary
              /\ i \in Elems(ids) => Grown(ids)[i].parent = Len(tx) + 1
              /\ i \notin Elems(ids) => Grown(ids)[i] = tx[i]
<1> DEFINE n == Len(tx)  a == Adopted(ids, n + 1)  r == Node(level, Summary(ids))
<1>1. n \in Nat /\ DOMAIN tx = 1 .. n /\ DOMAIN ids = 1 .. Len(ids)
  OBVIOUS
<1>2. \A i \in 1 .. n : tx[i] \in Rows
  OBVIOUS
<1>3. r \in Rows
  <2>1. Summary(ids) \in Seq(1 .. L)
    BY SummaryFlat
  <2> QED BY <2>1 DEF Node, Rows
<1>4. a = [i \in 1 .. n |-> IF i \in Elems(ids) THEN [tx[i] EXCEPT !.parent = n + 1] ELSE tx[i]]
  BY <1>1 DEF Adopted, Elems
<1>5. ASSUME NEW i \in 1 .. n
      PROVE  /\ a[i] \in Rows /\ a[i].level = tx[i].level /\ a[i].summary = tx[i].summary
             /\ i \in Elems(ids) => a[i].parent = n + 1
             /\ i \notin Elems(ids) => a[i] = tx[i]
  <2>1. tx[i] = [parent |-> tx[i].parent, level |-> tx[i].level, summary |-> tx[i].summary]
        /\ tx[i].level \in Nat /\ tx[i].summary \in Seq(1 .. L)
    BY <1>2 DEF Rows
  <2> DEFINE e == [tx[i] EXCEPT !.parent = n + 1]
  <2>2. e = [parent |-> n + 1, level |-> tx[i].level, summary |-> tx[i].summary]
    BY <2>1
  <2>3. e \in Rows /\ e.level = tx[i].level /\ e.summary = tx[i].summary /\ e.parent = n + 1
    BY <2>1, <2>2, <1>1 DEF Rows
  <2>4. a[i] = IF i \in Elems(ids) THEN e ELSE tx[i]
    BY <1>4
  <2> HIDE DEF a, e
  <2> QED BY <2>3, <2>4, <1>2
<1>6. a \in Seq(Rows) /\ Len(a) = n
  <2>1. \A i \in 1 .. n : a[i] \in Rows
    BY <1>5
  <2>2. a = [i \in 1 .. n |-> a[i]]
    BY <1>4
  <2> HIDE DEF a
  <2>3. [i \in 1 .. n |-> a[i]] \in Seq(Rows) /\ Len([i \in 1 .. n |-> a[i]]) = n
    BY <2>1, <1>1
  <2> QED BY <2>2, <2>3
<1>7. Grown(ids) = Append(a, r)
  BY DEF Grown
<1> HIDE DEF a, r
<1>8. Append(a, r) \in Seq(Rows) /\ Len(Append(a, r)) = n + 1 /\ Append(a, r)[n + 1] = r
      /\ \A i \in 1 .. n : Append(a, r)[i] = a[i]
  <2> HIDE DEF n
  <2> QED BY <1>1, <1>3, <1>6
<1> QED BY <1>5, <1>7, <1>8 DEF r

\* The group is not larger than it is long.
LEMMA ElemsCounted ==
  ASSUME NEW S, NEW s \in Seq(S)
  PROVE  IsFiniteSet(Elems(s)) /\ Cardinality(Elems(s)) <= Len(s) /\ Cardinality(Elems(s)) \in Nat
<1> DEFINE f == [k \in 1 .. Len(s) |-> s[k]]
<1>1. f \in Surjection(1 .. Len(s), Elems(s))
  BY DEF Surjection, Elems
<1>2. Len(s) \in Nat /\ Len(s) \in Int /\ 1 \in Int
  OBVIOUS
<1>3. IsFiniteSet(1 .. Len(s)) /\ Cardinality(1 .. Len(s)) = Len(s)
  <2>1. Cardinality(1 .. Len(s)) = (IF 1 > Len(s) THEN 0 ELSE Len(s) - 1 + 1) /\ IsFiniteSet(1 .. Len(s))
    BY <1>2, FS_Interval
  <2> QED BY <2>1, <1>2
<1>4. IsFiniteSet(Elems(s)) /\ Cardinality(Elems(s)) <= Cardinality(1 .. Len(s))
  <2> HIDE DEF f
  <2> QED BY <1>1, <1>3, FS_Surjection
<1> QED BY <1>3, <1>4, FS_CardinalityType

\* The table stays one when a group on the level below gets a parent.
LEMMA GrownTable ==
  ASSUME Table(tx), level \in Nat, level > 0, level < L, L \in Nat, L <= Len(tx), fanout \in Nat,
         NEW ids \in Seq(DOMAIN tx), Len(ids) <= fanout,
         \A i \in Elems(ids) : tx[i].level + 1 = level, NoNode \notin Nat
  PROVE  Table(Grown(ids))
<1> DEFINE n == Len(tx)  t == Grown(ids)
<1>1. tx \in Seq(Rows) /\ n \in Nat /\ DOMAIN tx = 1 .. n
  BY DEF Table
<1>2. /\ t \in Seq(Rows) /\ Len(t) = n + 1 /\ t[n + 1] = Node(level, Summary(ids))
      /\ \A i \in 1 .. n :
              /\ t[i].level = tx[i].level /\ t[i].summary = tx[i].summary
              /\ i \in Elems(ids) => t[i].parent = n + 1
              /\ i \notin Elems(ids) => t[i] = tx[i]
  BY <1>1, GrownRows
<1> HIDE DEF t
<1>3. DOMAIN t = 1 .. n + 1 /\ t[n + 1].parent = NoNode /\ t[n + 1].level = level
  BY <1>2 DEF Node
<1>4. Elems(ids) \subseteq 1 .. n
  BY <1>1 DEF Elems
<1>5. \A i \in 1 .. n + 1 : i = n + 1 \/ i \in 1 .. n
  BY <1>1
<1>6. \A i \in 1 .. n : i \in 1 .. n + 1 /\ i # n + 1
  BY <1>1
<1>7. Upward(t)
  <2> SUFFICES ASSUME NEW i \in 1 .. n + 1
               PROVE  /\ t[i].parent # NoNode => t[i].parent \in 1 .. n + 1 /\ t[t[i].parent].level = t[i].level + 1
                      /\ t[i].level < L
    BY <1>3 DEF Upward
  <2>1. CASE i = n + 1
    BY <2>1, <1>3
  <2>2. CASE i \in Elems(ids)
    <3>1. t[i].parent = n + 1 /\ t[i].level = tx[i].level /\ tx[i].level + 1 = level /\ tx[i].level < L
      BY <2>2, <1>1, <1>2, <1>4 DEF Table, Upward
    <3> QED BY <3>1, <1>1, <1>3
  <2>3. CASE i \in 1 .. n /\ i \notin Elems(ids)
    <3>1. t[i] = tx[i]
      BY <2>3, <1>2
    <3>2. tx[i].parent # NoNode => tx[i].parent \in 1 .. n /\ tx[tx[i].parent].level = tx[i].level + 1
      BY <2>3, <1>1 DEF Table, Upward
    <3>3. tx[i].level < L
      BY <2>3, <1>1 DEF Table, Upward
    <3> QED BY <3>1, <3>2, <3>3, <1>2, <1>6
  <2> QED BY <2>1, <2>2, <2>3, <1>5
<1>8. Leafy(t)
  <2> SUFFICES ASSUME NEW i \in 1 .. n + 1
               PROVE  /\ i <= L => t[i].level = 0 /\ t[i].summary = <<i>>
                      /\ i > L => t[i].level > 0
    BY <1>3 DEF Leafy
  <2>1. CASE i = n + 1
    BY <2>1, <1>1, <1>3
  <2>2. CASE i \in 1 .. n
    BY <2>2, <1>1, <1>2 DEF Table, Leafy
  <2> QED BY <2>1, <2>2, <1>5
<1>9. Narrow(t)
  <2> SUFFICES ASSUME NEW p \in 1 .. n + 1
               PROVE  Cardinality(Kids(t, p)) <= fanout
    BY <1>3 DEF Narrow
  <2>1. CASE p = n + 1
    <3>1. \A i \in 1 .. n : tx[i].parent # n + 1
      BY <1>1 DEF Table, Upward
    <3>2. Kids(t, p) \subseteq Elems(ids)
      <4> SUFFICES ASSUME NEW i \in 1 .. n + 1, t[i].parent = n + 1 PROVE i \in Elems(ids)
        BY <2>1, <1>3 DEF Kids
      <4>1. i \in 1 .. n
        BY <1>1, <1>3, <1>5
      <4> QED BY <4>1, <3>1, <1>2
    <3>3. IsFiniteSet(Elems(ids)) /\ Cardinality(Elems(ids)) <= Len(ids) /\ Cardinality(Elems(ids)) \in Nat
      BY ElemsCounted
    <3>4. Cardinality(Kids(t, p)) <= Cardinality(Elems(ids)) /\ IsFiniteSet(Kids(t, p))
      BY <3>2, <3>3, FS_Subset
    <3>5. Cardinality(Kids(t, p)) \in Nat /\ Len(ids) \in Nat
      BY <3>4, FS_CardinalityType
    <3> QED BY <3>3, <3>4, <3>5
  <2>2. CASE p \in 1 .. n
    <3>1. Kids(t, p) \subseteq Kids(tx, p)
      <4> SUFFICES ASSUME NEW i \in 1 .. n + 1, t[i].parent = p PROVE i \in 1 .. n /\ tx[i].parent = p
        BY <1>1, <1>3 DEF Kids
      <4>1. p # n + 1 /\ p # NoNode
        BY <2>2, <1>1
      <4>2. i \in 1 .. n
        BY <4>1, <1>3, <1>5
      <4> QED BY <4>1, <4>2, <1>2
    <3>2. IsFiniteSet(Kids(tx, p))
      <4>1. IsFiniteSet(1 .. n) /\ Kids(tx, p) \in SUBSET (1 .. n)
        BY <1>1, FS_Interval DEF Kids
      <4> QED BY <4>1, FS_Subset
    <3>3. Cardinality(Kids(t, p)) <= Cardinality(Kids(tx, p)) /\ IsFiniteSet(Kids(t, p))
      BY <3>1, <3>2, FS_Subset
    <3>4. Cardinality(Kids(tx, p)) <= fanout
      BY <2>2, <1>1 DEF Table, Narrow
    <3>5. Cardinality(Kids(t, p)) \in Nat /\ Cardinality(Kids(tx, p)) \in Nat
      BY <3>2, <3>3, FS_CardinalityType
    <3> QED BY <3>3, <3>4, <3>5
  <2> QED BY <2>1, <2>2, <1>5
<1>10. t \in Seq(Rows)
  BY <1>2
<1> QED BY <1>7, <1>8, <1>9, <1>10 DEF Table, t

\* What a group leaves of its level.
Rest(s) == SubSeq(s, Len(Take(s)) + 1, Len(s))

\* A group is the first fanout elements, or all that are left.
LEMMA TakeRest ==
  ASSUME NEW S, NEW s \in Seq(S), s # <<>>, fanout \in Nat, fanout >= 2
  PROVE  /\ Take(s) \in Seq(S) /\ Rest(s) \in Seq(S) /\ s = Take(s) \o Rest(s)
         /\ Len(Take(s)) \in 1 .. Len(s) /\ Len(Take(s)) <= fanout /\ (Len(s) > 1 => Len(Take(s)) > 1)
         /\ Len(Rest(s)) = Len(s) - Len(Take(s))
         /\ \A k \in 1 .. Len(Take(s)) : Take(s)[k] = s[k]
         /\ \A k \in 1 .. Len(Rest(s)) : Rest(s)[k] = s[Len(Take(s)) + k]
<1> DEFINE g == IF Len(s) < fanout THEN Len(s) ELSE fanout  u == Take(s)  v == SubSeq(s, g + 1, Len(s))
<1>1. Len(s) \in Nat /\ Len(s) > 0 /\ g \in 1 .. Len(s) /\ g <= fanout /\ (Len(s) > 1 => g > 1)
  OBVIOUS
<1> HIDE DEF g
<1>2. u \in Seq(S) /\ Len(u) = g /\ \A k \in 1 .. g : u[k] = s[k]
  <2>1. u = SubSeq(s, 1, g)
    BY DEF Take, g
  <2> HIDE DEF u
  <2> QED BY <2>1, <1>1
<1>3. v \in Seq(S) /\ Len(v) = Len(s) - g /\ \A k \in 1 .. Len(s) - g : v[k] = s[g + k]
  BY <1>1
<1>4. Rest(s) = v
  BY <1>2 DEF Rest
<1> HIDE DEF u, v
<1>5. u \o v \in Seq(S) /\ Len(u \o v) = Len(s)
  BY <1>1, <1>2, <1>3
<1>6. ASSUME NEW k \in 1 .. Len(s) PROVE (u \o v)[k] = s[k]
  <2>0. k <= g \/ k > g
    BY <1>1
  <2>1. CASE k <= g
    BY <2>1, <1>1, <1>2, <1>3
  <2>2. CASE k > g
    <3>1. k - g \in 1 .. Len(s) - g /\ g + (k - g) = k
      BY <2>2, <1>1
    <3>2. (u \o v)[k] = v[k - g]
      BY <2>2, <3>1, <1>1, <1>2, <1>3
    <3> QED BY <3>1, <3>2, <1>3
  <2> QED BY <2>0, <2>1, <2>2
<1>7. s = u \o v
  <2> DEFINE w == u \o v
  <2>1. w \in Seq(S) /\ Len(w) = Len(s) /\ \A k \in 1 .. Len(s) : w[k] = s[k]
    BY <1>5, <1>6
  <2> HIDE DEF w
  <2>2. w = s
    BY <2>1, SeqEqual
  <2> QED BY <2>2 DEF w
<1> QED BY <1>1, <1>2, <1>3, <1>4, <1>7 DEF u

\* What is at each place of two sequences, one after the other.
LEMMA ConcatAt ==
  ASSUME NEW S, NEW c \in Seq(S), NEW d \in Seq(S)
  PROVE  /\ c \o d \in Seq(S) /\ Len(c \o d) = Len(c) + Len(d)
         /\ \A k \in 1 .. Len(c) + Len(d) : (c \o d)[k] = IF k <= Len(c) THEN c[k] ELSE d[k - Len(c)]
OBVIOUS

\* The summaries of two groups.
LEMMA GistConcat ==
  ASSUME NEW t \in Seq(Rows), NEW u \in Seq(DOMAIN t), NEW v \in Seq(DOMAIN t)
  PROVE  Flat(Gist(t, u \o v)) = Flat(Gist(t, u)) \o Flat(Gist(t, v))
<1> DEFINE w == u \o v  T == Seq(1 .. L)  l == Gist(t, w)  r == Gist(t, u) \o Gist(t, v)
<1>1. w \in Seq(DOMAIN t) /\ Len(w) = Len(u) + Len(v) /\ Len(u) \in Nat /\ Len(v) \in Nat
      /\ \A k \in 1 .. Len(u) + Len(v) : w[k] = IF k <= Len(u) THEN u[k] ELSE v[k - Len(u)]
  OBVIOUS
<1>2. /\ Gist(t, u) \in Seq(T) /\ Len(Gist(t, u)) = Len(u)
      /\ Gist(t, v) \in Seq(T) /\ Len(Gist(t, v)) = Len(v)
  BY GistTyped
<1>3. l \in Seq(T) /\ Len(l) = Len(w)
  <2> HIDE DEF w
  <2> QED BY <1>1, GistTyped
<1> HIDE DEF w, T
<1> DEFINE c == Gist(t, u)  d == Gist(t, v)
<1>4. /\ r \in Seq(T) /\ Len(r) = Len(u) + Len(v)
      /\ \A k \in 1 .. Len(u) + Len(v) : r[k] = IF k <= Len(u) THEN c[k] ELSE d[k - Len(u)]
  <2> HIDE DEF c, d
  <2>1. c \in Seq(T) /\ Len(c) = Len(u) /\ d \in Seq(T) /\ Len(d) = Len(v)
    BY <1>2 DEF c, d
  <2>2. /\ c \o d \in Seq(T) /\ Len(c \o d) = Len(c) + Len(d)
        /\ \A k \in 1 .. Len(c) + Len(d) : (c \o d)[k] = IF k <= Len(c) THEN c[k] ELSE d[k - Len(c)]
    BY <2>1, ConcatAt
  <2>3. r = c \o d
    BY DEF c, d
  <2> HIDE DEF r
  <2> QED BY <2>1, <2>2, <2>3
<1>5. ASSUME NEW k \in 1 .. Len(u) + Len(v) PROVE l[k] = r[k]
  <2>1. l[k] = t[w[k]].summary
    BY <1>1 DEF Gist
  <2>0. k <= Len(u) \/ k > Len(u)
    BY <1>1
  <2>2. CASE k <= Len(u)
    <3>1. k \in 1 .. Len(u)
      BY <2>2, <1>1
    <3>2. r[k] = Gist(t, u)[k]
      BY <1>4, <2>2
    <3>3. Gist(t, u)[k] = t[u[k]].summary
      BY <3>1 DEF Gist
    <3> QED BY <2>1, <2>2, <3>2, <3>3, <1>1
  <2>3. CASE k > Len(u)
    <3>1. k - Len(u) \in 1 .. Len(v) /\ ~(k <= Len(u))
      BY <2>3, <1>1
    <3>2. r[k] = Gist(t, v)[k - Len(u)]
      BY <3>1, <1>4
    <3>3. Gist(t, v)[k - Len(u)] = t[v[k - Len(u)]].summary
      BY <3>1 DEF Gist
    <3> QED BY <2>1, <3>1, <3>2, <3>3, <1>1
  <2> QED BY <2>0, <2>2, <2>3
<1>6. l = r
  <2> HIDE DEF l, r
  <2> QED BY <1>1, <1>3, <1>4, <1>5, SeqEqual
<1>7. Flat(r) = Flat(Gist(t, u)) \o Flat(Gist(t, v))
  <2>1. Gist(t, u) \in Seq(Seq(1 .. L)) /\ Gist(t, v) \in Seq(Seq(1 .. L))
    BY <1>2 DEF T
  <2> QED BY <2>1, FlatConcat
<1> QED BY <1>6, <1>7 DEF w, l

\* Where summaries stay, so do those of a group.
LEMMA GistSame ==
  ASSUME NEW t, NEW u, NEW s \in Seq(DOMAIN t), \A i \in DOMAIN t : u[i].summary = t[i].summary
  PROVE  Gist(u, s) = Gist(t, s)
<1>1. \A k \in 1 .. Len(s) : s[k] \in DOMAIN t
  OBVIOUS
<1>2. \A k \in 1 .. Len(s) : u[s[k]].summary = t[s[k]].summary
  BY <1>1
<1> QED BY <1>2 DEF Gist

-----------------------------------------------------------------------------
(* A group gets a parent.                                                  *)

\* What a rising sequence has is in one place.
LEMMA RisingParts ==
  ASSUME NEW s \in Seq(Nat), Rising(s), s # <<>>, fanout \in Nat, fanout >= 2
  PROVE  /\ Rising(Rest(s)) /\ Elems(s) = Elems(Take(s)) \cup Elems(Rest(s))
         /\ Elems(Take(s)) \cap Elems(Rest(s)) = {}
<1> DEFINE u == Take(s)  v == Rest(s)  g == Len(u)
<1>1. /\ g \in 1 .. Len(s) /\ Len(s) \in Nat /\ Len(v) = Len(s) - g
      /\ \A k \in 1 .. g : u[k] = s[k]
      /\ \A k \in 1 .. Len(v) : v[k] = s[g + k]
  BY TakeRest
<1> HIDE DEF u, v, g
<1>2. \A k \in 1 .. Len(v) : g + k \in 1 .. Len(s)
  BY <1>1
<1>3. Rising(v)
  <2> SUFFICES ASSUME NEW j \in 1 .. Len(v), NEW k \in 1 .. Len(v), j < k PROVE v[j] < v[k]
    BY DEF Rising
  <2>1. g + j \in 1 .. Len(s) /\ g + k \in 1 .. Len(s) /\ g + j < g + k
    BY <1>1
  <2> QED BY <2>1, <1>1 DEF Rising
<1>4. \A k \in 1 .. Len(s) : k \in 1 .. g \/ (k - g \in 1 .. Len(v) /\ g + (k - g) = k)
  BY <1>1
<1>5. \A k \in 1 .. g : k \in 1 .. Len(s)
  BY <1>1
<1>6. Elems(s) \subseteq Elems(u) \cup Elems(v)
  <2> SUFFICES ASSUME NEW k \in 1 .. Len(s) PROVE s[k] \in Elems(u) \cup Elems(v)
    BY DEF Elems
  <2>1. CASE k \in 1 .. g
    <3>1. s[k] = u[k] /\ k \in 1 .. Len(u)
      BY <2>1, <1>1 DEF g
    <3> QED BY <3>1 DEF Elems
  <2>2. CASE k - g \in 1 .. Len(v) /\ g + (k - g) = k
    <3>1. s[k] = v[k - g]
      BY <2>2, <1>1
    <3> QED BY <2>2, <3>1 DEF Elems
  <2> QED BY <2>1, <2>2, <1>4
<1>7. Elems(u) \cup Elems(v) \subseteq Elems(s)
  <2>1. \A k \in 1 .. Len(u) : u[k] = s[k] /\ k \in 1 .. Len(s)
    BY <1>1, <1>5 DEF g
  <2>2. \A k \in 1 .. Len(v) : v[k] = s[g + k] /\ g + k \in 1 .. Len(s)
    BY <1>1, <1>2
  <2> QED BY <2>1, <2>2 DEF Elems
<1>8. Elems(u) \cap Elems(v) = {}
  <2> SUFFICES ASSUME NEW j \in 1 .. Len(u), NEW k \in 1 .. Len(v), u[j] = v[k] PROVE FALSE
    BY DEF Elems
  <2>1. j \in 1 .. Len(s) /\ g + k \in 1 .. Len(s) /\ j < g + k /\ u[j] = s[j] /\ v[k] = s[g + k]
    <3>1. j \in 1 .. g
      BY DEF g
    <3> QED BY <3>1, <1>1, <1>2, <1>5
  <2>2. s[j] < s[g + k]
    BY <2>1 DEF Rising
  <2>3. s[j] \in Nat /\ s[g + k] \in Nat /\ s[j] = s[g + k]
    <3>1. \A i \in 1 .. Len(s) : s[i] \in Nat
      OBVIOUS
    <3>2. s[j] \in Nat /\ s[g + k] \in Nat
      BY <2>1, <3>1, Zenon
    <3> QED BY <2>1, <3>2
  <2> DEFINE x == s[j]  y == s[g + k]
  <2>4. x < y /\ x \in Nat /\ y \in Nat /\ x = y
    BY <2>2, <2>3
  <2> HIDE DEF x, y
  <2> QED BY <2>4
<1> QED BY <1>3, <1>6, <1>7, <1>8 DEF u, v

\* What an element more does.
LEMMA ElemsAppend ==
  ASSUME NEW S, NEW s \in Seq(S), NEW x \in S
  PROVE  Elems(Append(s, x)) = Elems(s) \cup {x}
<1> DEFINE a == Append(s, x)  n == Len(s)
<1>1. n \in Nat /\ Len(a) = n + 1 /\ a[n + 1] = x /\ \A k \in 1 .. n : a[k] = s[k]
  OBVIOUS
<1> HIDE DEF a, n
<1>2. (\A k \in 1 .. n + 1 : k \in 1 .. n \/ k = n + 1) /\ n + 1 \in 1 .. n + 1 /\ \A k \in 1 .. n : k \in 1 .. n + 1
  BY <1>1
<1>3. Elems(a) \subseteq Elems(s) \cup {x}
  <2> SUFFICES ASSUME NEW k \in 1 .. n + 1 PROVE a[k] \in Elems(s) \cup {x}
    BY <1>1 DEF Elems
  <2>1. CASE k \in 1 .. n
    BY <2>1, <1>1 DEF Elems, n
  <2>2. CASE k = n + 1
    BY <2>2, <1>1
  <2> QED BY <2>1, <2>2, <1>2
<1>4. Elems(s) \subseteq Elems(a)
  <2> SUFFICES ASSUME NEW k \in 1 .. n PROVE s[k] \in Elems(a)
    BY DEF Elems, n
  <2>1. s[k] = a[k] /\ k \in 1 .. Len(a)
    BY <1>1, <1>2
  <2> QED BY <2>1 DEF Elems
<1>5. x \in Elems(a)
  <2>1. x = a[n + 1] /\ n + 1 \in 1 .. Len(a)
    BY <1>1, <1>2
  <2> QED BY <2>1 DEF Elems
<1> QED BY <1>3, <1>4, <1>5 DEF a

\* A greater one at the end.
LEMMA RisingAppend ==
  ASSUME NEW s \in Seq(Nat), NEW x \in Nat, Rising(s), \A i \in Elems(s) : i < x
  PROVE  Rising(Append(s, x))
<1> DEFINE a == Append(s, x)  n == Len(s)
<1>1. n \in Nat /\ Len(a) = n + 1 /\ a[n + 1] = x /\ \A k \in 1 .. n : a[k] = s[k]
  OBVIOUS
<1> HIDE DEF a
<1> SUFFICES ASSUME NEW j \in 1 .. n + 1, NEW k \in 1 .. n + 1, j < k PROVE a[j] < a[k]
  BY <1>1 DEF Rising, a
<1>2. j \in 1 .. n /\ (k = n + 1 \/ k \in 1 .. n)
  BY <1>1
<1>3. s[j] \in Elems(s)
  BY <1>2 DEF Elems
<1> HIDE DEF n
<1>4. CASE k = n + 1
  BY <1>1, <1>2, <1>3, <1>4
<1>5. CASE k \in 1 .. n
  BY <1>1, <1>2, <1>5 DEF Rising, n
<1> QED BY <1>2, <1>4, <1>5

\* A summary more.
LEMMA GistAppend ==
  ASSUME NEW t \in Seq(Rows), NEW s \in Seq(DOMAIN t), NEW x \in DOMAIN t
  PROVE  Flat(Gist(t, Append(s, x))) = Flat(Gist(t, s)) \o t[x].summary
<1> DEFINE a == Append(s, x)  n == Len(s)  y == t[x].summary  T == Seq(1 .. L)
<1>1. a \in Seq(DOMAIN t) /\ n \in Nat /\ Len(a) = n + 1 /\ a[n + 1] = x /\ \A k \in 1 .. n : a[k] = s[k]
  OBVIOUS
<1> HIDE DEF a, T
<1>2. Gist(t, a) \in Seq(T) /\ Len(Gist(t, a)) = n + 1 /\ Gist(t, s) \in Seq(T) /\ Len(Gist(t, s)) = n
  BY <1>1, GistTyped DEF T
<1>3. y \in T
  <2>1. t[x] \in Rows
    OBVIOUS
  <2> QED BY <2>1 DEF Rows, T
<1> HIDE DEF y
<1> DEFINE c == Gist(t, s)
<1>4. \A k \in 1 .. n : Gist(t, a)[k] = c[k]
  <2> TAKE k \in 1 .. n
  <2>1. Gist(t, a)[k] = t[a[k]].summary
    <3>1. k \in 1 .. Len(a)
      BY <1>1
    <3> QED BY <3>1 DEF Gist
  <2>2. c[k] = t[s[k]].summary
    BY DEF Gist
  <2> QED BY <2>1, <2>2, <1>1
<1>5. Gist(t, a)[n + 1] = y
  <2>1. n + 1 \in 1 .. Len(a)
    BY <1>1
  <2> QED BY <2>1, <1>1 DEF Gist, y
<1>6. Append(c, y) \in Seq(T) /\ Len(Append(c, y)) = n + 1 /\ Append(c, y)[n + 1] = y
      /\ \A k \in 1 .. n : Append(c, y)[k] = c[k]
  <2> HIDE DEF c
  <2>1. c \in Seq(T) /\ Len(c) = n
    BY <1>2 DEF c
  <2> HIDE DEF n
  <2> QED BY <2>1, <1>3
<1>7. Gist(t, a) = Append(c, y)
  <2> DEFINE u == Gist(t, a)  v == Append(c, y)
  <2>1. u \in Seq(T) /\ v \in Seq(T) /\ Len(u) = n + 1 /\ Len(v) = n + 1
    BY <1>2, <1>6
  <2>2. \A k \in 1 .. n + 1 : k \in 1 .. n \/ k = n + 1
    BY <1>1
  <2>3. \A k \in 1 .. n + 1 : u[k] = v[k]
    BY <2>2, <1>4, <1>5, <1>6
  <2> HIDE DEF u, v, n
  <2>4. u = v
    BY <2>1, <2>3, SeqEqual
  <2> QED BY <2>4 DEF u, v
<1>8. Flat(Append(c, y)) = Flat(c) \o y
  <2>1. c \in Seq(Seq(1 .. L)) /\ y \in Seq(1 .. L)
    BY <1>2, <1>3 DEF T
  <2> HIDE DEF c
  <2> QED BY <2>1, FlatAppend
<1> QED BY <1>7, <1>8 DEF a, y

-----------------------------------------------------------------------------
(* A group gets a parent.                                                  *)

\* What is known when it does.
LEMMA GroupKnows ==
  ASSUME TreeInv, Group
  PROVE  /\ tx' = Grown(Take(current)) /\ next' = Append(next, Len(tx) + 1) /\ current' = Rest(current)
         /\ UNCHANGED <<text, budget, fanout, pc, memory_chunks, leaves, level, root, builds>>
         /\ pc = "building" /\ Len(current) + Len(next) > 1 /\ current # <<>>
         /\ Building /\ Table(tx) /\ Table(memory_chunks) /\ Len(memory_chunks) >= L
         /\ L \in Nat /\ fanout \in Nat /\ level \in Nat /\ NoNode \notin Nat
         /\ Len(tx) \in Nat /\ Len(memory_chunks) \in Nat /\ DOMAIN tx = 1 .. Len(tx)
<1>1. /\ tx' = Grown(Take(current)) /\ next' = Append(next, Len(tx) + 1) /\ current' = Rest(current)
      /\ UNCHANGED <<text, budget, fanout, pc, memory_chunks, leaves, level, root, builds>>
      /\ pc = "building" /\ Len(current) + Len(next) > 1 /\ current # <<>>
  BY DEF Group, Grown, Rest, input
<1>2. Building /\ Table(tx) /\ Table(memory_chunks) /\ Len(memory_chunks) >= L
  BY <1>1 DEF TreeInv
<1>3. L \in Nat /\ fanout \in Nat /\ level \in Nat /\ NoNode \notin Nat
  BY MemTreeAssumption DEF TreeInv, Basics
<1>4. Len(tx) \in Nat /\ Len(memory_chunks) \in Nat /\ DOMAIN tx = 1 .. Len(tx)
  BY <1>2 DEF Table
<1> QED BY <1>1, <1>2, <1>3, <1>4

\* The level is under the top.
LEMMA GroupBelow ==
  ASSUME TreeInv, Group
  PROVE  level > 0 /\ level < L
<1>1. ShrinkOK /\ level >= 1 /\ Len(current) + Len(next) > 1 /\ current # <<>> /\ L \in Nat /\ level \in Nat
  BY GroupKnows DEF Building, Grows
<1>2. Len(current) \in Nat /\ Len(next) \in Nat
  BY GroupKnows DEF Building, FrontierOK
<1>3. Len(current) + 2 * Len(next) + level <= L + 1
  BY <1>1 DEF ShrinkOK
<1> DEFINE c == Len(current)  m == Len(next)
<1>4. c \in Nat /\ m \in Nat /\ c + m > 1 /\ c + 2 * m + level <= L + 1
  BY <1>1, <1>2, <1>3
<1> HIDE DEF c, m
<1> QED BY <1>1, <1>4

\* The group and the rest.
LEMMA GroupParts ==
  ASSUME TreeInv, Group
  PROVE  LET g == Take(current)  v == Rest(current)
         IN /\ g \in Seq(DOMAIN tx) /\ v \in Seq(DOMAIN tx) /\ current = g \o v
            /\ Len(g) \in 1 .. Len(current) /\ Len(g) <= fanout /\ (Len(current) > 1 => Len(g) > 1)
            /\ Len(v) = Len(current) - Len(g)
            /\ Rising(v) /\ Elems(current) = Elems(g) \cup Elems(v) /\ Elems(g) \cap Elems(v) = {}
            /\ Elems(current) \subseteq DOMAIN tx /\ Elems(next) \subseteq DOMAIN tx
<1>1. current \in Seq(DOMAIN tx) /\ next \in Seq(DOMAIN tx) /\ Rising(current) /\ current # <<>>
      /\ fanout \in Nat /\ fanout >= 2 /\ DOMAIN tx = 1 .. Len(tx) /\ Len(tx) \in Nat
  BY GroupKnows DEF Building, FrontierOK, Grows
<1>2. current \in Seq(Nat)
  BY <1>1
<1> DEFINE S == DOMAIN tx
<1>3. current \in Seq(S)
  BY <1>1
<1>4. Elems(current) \subseteq S /\ Elems(next) \subseteq S
  BY <1>1 DEF Elems
<1> HIDE DEF S
<1>5. /\ Take(current) \in Seq(S) /\ Rest(current) \in Seq(S) /\ current = Take(current) \o Rest(current)
      /\ Len(Take(current)) \in 1 .. Len(current) /\ Len(Take(current)) <= fanout
      /\ (Len(current) > 1 => Len(Take(current)) > 1)
      /\ Len(Rest(current)) = Len(current) - Len(Take(current))
  BY <1>1, <1>3, TakeRest
<1>6. /\ Rising(Rest(current)) /\ Elems(current) = Elems(Take(current)) \cup Elems(Rest(current))
      /\ Elems(Take(current)) \cap Elems(Rest(current)) = {}
  BY <1>1, <1>2, RisingParts
<1> QED BY <1>4, <1>5, <1>6 DEF S

\* What the step does to the rows.
LEMMA GroupRows ==
  ASSUME TreeInv, Group
  PROVE  LET g == Take(current)  n == Len(tx)
         IN /\ tx' \in Seq(Rows) /\ Len(tx') = n + 1 /\ DOMAIN tx' = 1 .. n + 1
            /\ tx'[n + 1] = Node(level, Summary(g))
            /\ \A i \in 1 .. n :
                 /\ tx'[i].level = tx[i].level /\ tx'[i].summary = tx[i].summary
                 /\ i \in Elems(g) => tx'[i].parent = n + 1
                 /\ i \notin Elems(g) => tx'[i] = tx[i]
<1>1. Take(current) \in Seq(DOMAIN tx)
  BY GroupParts
<1>2. tx \in Seq(Rows) /\ level \in Nat /\ tx' = Grown(Take(current))
  BY GroupKnows DEF Table
<1> DEFINE t == Grown(Take(current))  n == Len(tx)
<1>3. /\ t \in Seq(Rows) /\ Len(t) = n + 1 /\ t[n + 1] = Node(level, Summary(Take(current)))
      /\ \A i \in 1 .. n :
           /\ t[i].level = tx[i].level /\ t[i].summary = tx[i].summary
           /\ i \in Elems(Take(current)) => t[i].parent = n + 1
           /\ i \notin Elems(Take(current)) => t[i] = tx[i]
  BY <1>1, <1>2, GrownRows
<1> HIDE DEF t
<1>4. DOMAIN t = 1 .. n + 1
  BY <1>3
<1>5. tx' = t
  BY <1>2 DEF t
<1> QED BY <1>3, <1>4, <1>5

\* The rows stay a table.
LEMMA GroupTable ==
  ASSUME TreeInv, Group
  PROVE  Table(tx)'
<1> DEFINE t == Grown(Take(current))
<1>1. Take(current) \in Seq(DOMAIN tx) /\ Len(Take(current)) <= fanout
      /\ \A i \in Elems(Take(current)) : i \in Elems(current)
  BY GroupParts
<1>2. \A i \in Elems(current) : tx[i].level + 1 = level
  BY GroupKnows DEF Building, FrontierOK
<1>3. L <= Len(tx)
  BY GroupKnows DEF Building, Grows
<1>4. Table(t)
  BY <1>1, <1>2, <1>3, GroupKnows, GroupBelow, GrownTable
<1> HIDE DEF t
<1>5. tx' = t /\ leaves' = leaves /\ fanout' = fanout
  BY GroupKnows DEF t
<1> QED BY <1>4, <1>5 DEF Table, Upward, Leafy, Narrow, Kids, Rows, L

\* The parent takes the place of the group in the frontier.
LEMMA GroupFrontier ==
  ASSUME TreeInv, Group
  PROVE  Grows' /\ FrontierOK' /\ BelowOK'
<1> DEFINE g == Take(current)  v == Rest(current)  n == Len(tx)  M == Len(memory_chunks)  x == n + 1
<1>1. /\ next' = Append(next, x) /\ current' = v
      /\ memory_chunks' = memory_chunks /\ leaves' = leaves /\ level' = level /\ fanout' = fanout
      /\ L' = L /\ L \in Nat /\ level \in Nat /\ n \in Nat /\ M \in Nat /\ M >= L /\ n >= M /\ NoNode \notin Nat
  BY GroupKnows DEF L, Building, Grows
<1>2. /\ g \in Seq(1 .. n) /\ v \in Seq(1 .. n) /\ Rising(v) /\ next \in Seq(1 .. n) /\ Rising(next)
      /\ Elems(current) = Elems(g) \cup Elems(v) /\ Elems(g) \cap Elems(v) = {}
      /\ Elems(current) \subseteq 1 .. n /\ Elems(next) \subseteq 1 .. n
  BY GroupParts, GroupKnows DEF Building, FrontierOK
<1>3. /\ tx' \in Seq(Rows) /\ Len(tx') = x /\ DOMAIN tx' = 1 .. x /\ tx'[x].parent = NoNode /\ tx'[x].level = level
      /\ \A i \in 1 .. n :
           /\ tx'[i].level = tx[i].level
           /\ i \in Elems(g) => tx'[i].parent = x
           /\ i \notin Elems(g) => tx'[i] = tx[i]
  BY GroupRows DEF Node
<1>4. /\ \A i \in Elems(current) : tx[i].level + 1 = level
      /\ \A i \in Elems(next) : tx[i].level = level
      /\ \A i \in Frontier : i > L => i > M /\ tx[i].parent = NoNode
      /\ \A i \in 1 .. M : i > L => tx[i] = memory_chunks[i]
      /\ \A i \in Nodes(tx, M) \ Frontier : tx[i].parent \in New(tx, M)
      /\ fanout >= 2 /\ L > 0 /\ level >= 1
  BY GroupKnows DEF Building, FrontierOK, Grows, BelowOK
<1>5. Elems(next') = Elems(next) \cup {x}
  <2>1. next \in Seq(Nat) /\ x \in Nat
    BY <1>1, <1>2
  <2> HIDE DEF x
  <2> QED BY <2>1, <1>1, ElemsAppend
<1>6. /\ \A i \in Elems(v) : i \in Elems(current) /\ i \in 1 .. n /\ i \notin Elems(g)
      /\ \A i \in Elems(g) : i \in Elems(current) /\ i \in 1 .. n
  BY <1>2
<1>7. \A i \in Elems(next) : i \in 1 .. n /\ i \notin Elems(g)
  <2> TAKE i \in Elems(next)
  <2>1. i \in 1 .. n /\ tx[i].level = level
    BY <1>2, <1>4
  <2>2. level + 1 # level
    BY <1>1
  <2> QED BY <2>1, <2>2, <1>4, <1>6
<1>8. \A i \in 1 .. x : i \in 1 .. n \/ i = x
  BY <1>1
<1>9. /\ x \in 1 .. x /\ x > M /\ x > n /\ x \in Nat
      /\ \A i \in 1 .. n : i \in 1 .. x /\ i < x
  BY <1>1
<1>10. Frontier' = Elems(v) \cup Elems(next) \cup {x}
  BY <1>1, <1>5 DEF Frontier, Elems
<1>11. Grows'
  <2>1. \A i \in 1 .. M : i > L => tx'[i] = memory_chunks[i]
    <3> SUFFICES ASSUME NEW i \in 1 .. M, i > L PROVE tx'[i] = memory_chunks[i]
      OBVIOUS
    <3>1. i \in 1 .. n /\ ~(i > M)
      BY <1>1
    <3>2. i \notin Elems(g)
      BY <3>1, <1>4, <1>6 DEF Frontier
    <3> QED BY <3>1, <3>2, <1>3, <1>4
  <2>2. Len(tx') >= M
    BY <1>1, <1>3
  <2> QED BY <2>1, <2>2, <1>1, <1>4 DEF Grows
<1>12. FrontierOK'
  <2>1. current' \in Seq(DOMAIN tx')
    BY <1>1, <1>2, <1>3
  <2>2. next' \in Seq(DOMAIN tx')
    BY <1>1, <1>2, <1>3
  <2>3. Rising(current)'
    BY <1>1, <1>2 DEF Rising
  <2>4. Rising(next)'
    <3>1. next \in Seq(Nat) /\ x \in Nat /\ \A i \in Elems(next) : i < x
      BY <1>2, <1>9
    <3> HIDE DEF x
    <3>2. Rising(Append(next, x))
      BY <3>1, <1>2, RisingAppend
    <3> QED BY <3>2, <1>1 DEF Rising
  <2>5. \A i \in Elems(v) : tx'[i].level + 1 = level
    BY <1>3, <1>4, <1>6
  <2>6. \A i \in Elems(next) \cup {x} : tx'[i].level = level
    BY <1>3, <1>4, <1>7
  <2>7. \A i \in Elems(v) \cup Elems(next) \cup {x} : i > L => i > M /\ tx'[i].parent = NoNode
    <3> SUFFICES ASSUME NEW i \in Elems(v) \cup Elems(next) \cup {x}, i > L
                 PROVE  i > M /\ tx'[i].parent = NoNode
      OBVIOUS
    <3>1. CASE i = x
      BY <3>1, <1>3, <1>9
    <3>2. CASE i \in Elems(v)
      BY <3>2, <1>3, <1>4, <1>6 DEF Frontier
    <3>3. CASE i \in Elems(next)
      BY <3>3, <1>3, <1>4, <1>7 DEF Frontier
    <3> QED BY <3>1, <3>2, <3>3
  <2>8. Elems(current)' = Elems(v) /\ Elems(next)' = Elems(next) \cup {x}
    BY <1>1, <1>5 DEF Elems
  <2> HIDE DEF v, x
  <2> QED BY <2>1, <2>2, <2>3, <2>4, <2>5, <2>6, <2>7, <2>8, <1>1, <1>10 DEF FrontierOK, M
<1>13. BelowOK'
  <2>1. \A i \in (1 .. L \cup M + 1 .. x) \ (Elems(v) \cup Elems(next) \cup {x}) : tx'[i].parent \in M + 1 .. x
    <3> SUFFICES ASSUME NEW i \in 1 .. L \cup M + 1 .. x, i \notin Elems(v), i \notin Elems(next), i # x
                 PROVE  tx'[i].parent \in M + 1 .. x
      OBVIOUS
    <3>1. i \in 1 .. L \cup M + 1 .. n /\ i \in 1 .. n
      BY <1>1
    <3>2. CASE i \in Elems(g)
      BY <3>1, <3>2, <1>1, <1>3
    <3>3. CASE i \notin Elems(g)
      <4>1. tx[i].parent \in M + 1 .. n
        BY <3>1, <3>3, <1>2, <1>4 DEF Nodes, New, Frontier
      <4> QED BY <4>1, <3>1, <3>3, <1>1, <1>3
    <3> QED BY <3>2, <3>3
  <2>2. Nodes(tx, Len(memory_chunks))' = 1 .. L \cup M + 1 .. x /\ New(tx, Len(memory_chunks))' = M + 1 .. x
    BY <1>1, <1>3 DEF Nodes, New
  <2> HIDE DEF v, x
  <2> QED BY <2>1, <2>2, <1>10 DEF BelowOK
<1> QED BY <1>11, <1>12, <1>13

\* The frontier still holds all the leaves in their order: the group's summary is that of its nodes.
LEMMA GroupWhole ==
  ASSUME TreeInv, Group
  PROVE  WholeOK'
<1> DEFINE g == Take(current)  v == Rest(current)  n == Len(tx)  x == n + 1  t == tx'  A == Seq(1 .. L)
<1>1. /\ t \in Seq(Rows) /\ DOMAIN t = 1 .. x /\ t[x].summary = Summary(g)
      /\ \A i \in 1 .. n : t[i].summary = tx[i].summary
  BY GroupRows DEF Node
<1>2. tx \in Seq(Rows) /\ DOMAIN tx = 1 .. n /\ n \in Nat /\ next' = Append(next, x) /\ current' = v /\ leaves' = leaves
  BY GroupKnows DEF Table
<1>3. g \in Seq(1 .. n) /\ v \in Seq(1 .. n) /\ current = g \o v /\ next \in Seq(1 .. n)
  BY <1>2, GroupParts, GroupKnows DEF Building, FrontierOK
<1>4. x \in 1 .. x /\ v \in Seq(1 .. x) /\ next \in Seq(1 .. x)
  BY <1>2, <1>3
<1>5. Gist(t, v) = Gist(tx, v) /\ Gist(t, next) = Gist(tx, next)
  <2>1. \A i \in DOMAIN tx : t[i].summary = tx[i].summary
    BY <1>1, <1>2
  <2>2. v \in Seq(DOMAIN tx) /\ next \in Seq(DOMAIN tx)
    BY <1>2, <1>3
  <2> HIDE DEF t, v
  <2> QED BY <2>1, <2>2, GistSame
<1>6. Flat(Gist(t, Append(next, x))) = Flat(Gist(tx, next)) \o Summary(g)
  <2>1. next \in Seq(DOMAIN t) /\ x \in DOMAIN t
    BY <1>1, <1>4
  <2> HIDE DEF t, x, g
  <2>2. Flat(Gist(t, Append(next, x))) = Flat(Gist(t, next)) \o t[x].summary
    BY <2>1, <1>1, GistAppend
  <2> QED BY <2>2, <1>1, <1>5
<1>7. Summary(g) = Flat(Gist(tx, g)) /\ Summary(g) \in A
  <2> HIDE DEF g
  <2> QED BY <1>2, <1>3, SummaryFlat
<1>8. Flat(Gist(tx, current)) = Summary(g) \o Flat(Gist(tx, v))
  <2>1. g \in Seq(DOMAIN tx) /\ v \in Seq(DOMAIN tx)
    BY <1>2, <1>3
  <2> HIDE DEF g, v
  <2> QED BY <2>1, <1>2, <1>3, <1>7, GistConcat
<1>9. Flat(Gist(tx, next)) \in A /\ Flat(Gist(tx, v)) \in A
  <2>1. Gist(tx, next) \in Seq(Seq(1 .. L)) /\ Gist(tx, v) \in Seq(Seq(1 .. L))
    <3>1. next \in Seq(DOMAIN tx) /\ v \in Seq(DOMAIN tx)
      BY <1>2, <1>3
    <3> HIDE DEF v
    <3> QED BY <3>1, <1>2, GistTyped
  <2>2. <<>> \in Seq(1 .. L)
    OBVIOUS
  <2> HIDE DEF v
  <2> QED BY <2>1, <2>2, FlatAppend
<1>10. Flat(Gist(tx, next)) \o Flat(Gist(tx, current)) = leaves
  BY GroupKnows DEF Building, WholeOK
<1> DEFINE a == Flat(Gist(tx, next))  b == Summary(g)  c == Flat(Gist(tx, v))
<1>11. a \o (b \o c) = leaves
  BY <1>8, <1>10
<1>12. (a \o b) \o c = a \o (b \o c)
  <2>1. a \in A /\ b \in A /\ c \in A
    BY <1>7, <1>9
  <2> HIDE DEF a, b, c, A
  <2>2. \A S : \A y1, y2, y3 \in Seq(S) : (y1 \o y2) \o y3 = y1 \o (y2 \o y3)
    BY ConcatAssociative
  <2>3. \A y1, y2, y3 \in A : (y1 \o y2) \o y3 = y1 \o (y2 \o y3)
    BY <2>2 DEF A
  <2> QED BY <2>1, <2>3, Zenon
<1>13. Flat(Gist(t, Append(next, x))) \o Flat(Gist(t, v)) = leaves
  BY <1>5, <1>6, <1>11, <1>12
<1> DEFINE u == Flat(Gist(t, next'))  w == Flat(Gist(t, current'))
<1>14. u \o w = leaves'
  BY <1>2, <1>13
<1>15. Flat(Gist(tx, next))' = u /\ Flat(Gist(tx, current))' = w
  BY DEF Flat, Gist
<1> QED BY <1>14, <1>15 DEF WholeOK

\* Of two nodes or more one is made.
LEMMA GroupShrink ==
  ASSUME TreeInv, Group
  PROVE  ShrinkOK'
<1> DEFINE c == Len(current)  m == Len(next)  k == Len(Take(current))  v == Rest(current)
<1>1. /\ c \in Nat /\ m \in Nat /\ c + m > 1 /\ c + 2 * m + level <= L + 1 /\ L \in Nat /\ level \in Nat
      /\ level < L
  BY GroupKnows, GroupBelow DEF Building, FrontierOK, ShrinkOK
<1>2. k \in 1 .. c /\ (c > 1 => k > 1) /\ Len(v) = c - k /\ v \in Seq(DOMAIN tx) /\ (v = <<>> <=> Len(v) = 0)
  BY GroupParts
<1>3. /\ next' = Append(next, Len(tx) + 1) /\ current' = v /\ level' = level /\ leaves' = leaves
      /\ next \in Seq(DOMAIN tx)
  BY GroupKnows DEF Building, FrontierOK
<1>4. L' = L
  BY <1>3 DEF L
<1>5. Len(next') = m + 1 /\ next' # <<>>
  BY <1>3
<1> HIDE DEF c, m, k, v
<1>6. v # <<>> => (c - k) + 2 * (m + 1) + level <= L + 1
  BY <1>1, <1>2
<1>7. v = <<>> => 2 * (m + 1) + level <= L + 2
  <2> SUFFICES ASSUME v = <<>> PROVE 2 * (m + 1) + level <= L + 2
    OBVIOUS
  <2>1. c = k
    BY <1>1, <1>2
  <2>2. 2 * (m + 1) + level <= L + 2
    BY <2>1, <1>1, <1>2
  <2> QED BY <2>2
<1> QED BY <1>1, <1>2, <1>3, <1>4, <1>5, <1>6, <1>7 DEF ShrinkOK

\* A group that gets its parent keeps the invariant.
LEMMA GroupKeeps ==
  ASSUME TreeInv, Group
  PROVE  TreeInv'
<1>1. UNCHANGED <<text, budget, fanout, pc, memory_chunks, leaves, level, root, builds>> /\ pc = "building"
  BY GroupKnows
<1>2. L' = L /\ Len(memory_chunks)' = Len(memory_chunks)
  BY <1>1 DEF L
<1>3. Basics'
  BY <1>1, <1>2 DEF TreeInv, Basics
<1>4. Table(memory_chunks)'
  BY <1>1, <1>2 DEF TreeInv, Table, Upward, Leafy, Narrow, Kids, Rows
<1>5. Building'
  BY GroupFrontier, GroupWhole, GroupShrink DEF Building
<1>6. RootsWhole(memory_chunks, Len(memory_chunks))'
  BY <1>1, <1>2 DEF TreeInv, RootsWhole
<1>7. (root # NoNode => \E b \in 0 .. Len(memory_chunks) : LeadTo(memory_chunks, b, root))'
  BY <1>1, <1>2 DEF TreeInv, LeadTo, Nodes, New
<1>8. (Len(memory_chunks) >= L)'
  BY <1>1, <1>2 DEF TreeInv
<1> QED BY <1>3, <1>4, <1>5, <1>6, <1>7, <1>8, GroupTable DEF TreeInv

-----------------------------------------------------------------------------
(* The other steps.                                                        *)

\* Before anything is stored.
LEMMA BareTable ==
  ASSUME NEW t, t = <<>>
  PROVE  Table(t)
<1>1. t \in Seq(Rows) /\ DOMAIN t = {}
  OBVIOUS
<1> QED BY <1>1 DEF Table, Upward, Leafy, Narrow

\* It holds at first.
LEMMA TreeBegun ==
  ASSUME TreeInit
  PROVE  TreeInv
<1>1. /\ memory_chunks = <<>> /\ tx = <<>> /\ leaves = <<>> /\ level = 0 /\ builds = 0 /\ pc = "new" /\ root = NoNode
      /\ text \in Documents /\ budget \in Budgets /\ fanout \in Fanouts /\ MaxBuilds \in Nat
  BY MemTreeAssumption DEF TreeInit
<1>2. L = 0 /\ leaves = [i \in 1 .. 0 |-> i] /\ 1 .. 0 = {} /\ Len(memory_chunks) = 0
  BY <1>1 DEF L
<1>3. Basics
  BY <1>1, <1>2 DEF Basics
<1>4. Table(memory_chunks) /\ Table(tx)
  BY <1>1, BareTable
<1>5. RootsWhole(memory_chunks, Len(memory_chunks))
  BY <1>2 DEF RootsWhole
<1> QED BY <1>1, <1>2, <1>3, <1>4, <1>5 DEF TreeInv

\* The leaves are stored, as many as there are chunks.
LEMMA IngestKeeps ==
  ASSUME TreeInv, Ingest
  PROVE  TreeInv'
<1> DEFINE q == Len(Chunks(text))  t == [i \in 1 .. q |-> Node(0, <<i>>)]
<1>1. /\ text \in Seq(Nat \ {0}) /\ budget \in Nat /\ fanout \in Nat /\ NoNode \notin Nat
      /\ pc = "new" /\ tx = <<>> /\ root = NoNode
  BY MemTreeAssumption DEF TreeInv, Basics, Ingest
<1>2. q \in Nat
  BY <1>1, ChunksRight
<1>3. /\ memory_chunks' = t /\ leaves' = [i \in 1 .. q |-> i] /\ pc' = "stored"
      /\ UNCHANGED <<text, budget, fanout, tx, current, next, level, root, builds>>
  BY DEF Ingest, input, build
<1> HIDE DEF q
<1>4. L' = q
  BY <1>2, <1>3 DEF L
<1>5. /\ Len(t) = q /\ DOMAIN t = 1 .. q
      /\ \A i \in 1 .. q : t[i] = [parent |-> NoNode, level |-> 0, summary |-> <<i>>]
  BY <1>2 DEF Node
<1>6. Rows' = [parent : Nat \cup {NoNode}, level : Nat, summary : Seq(1 .. q)]
  BY <1>4 DEF Rows
<1>7. t \in Seq(Rows')
  <2>1. \A i \in 1 .. q : <<i>> \in Seq(1 .. q)
    OBVIOUS
  <2>2. \A i \in 1 .. q : Node(0, <<i>>) \in Rows'
    BY <2>1, <1>6 DEF Node
  <2> QED BY <2>2, <1>2
<1> HIDE DEF t
<1>8. Table(memory_chunks)'
  <2>1. \A i \in 1 .. q : 0 < q /\ i <= q
    BY <1>2
  <2>2. Upward(memory_chunks)'
    BY <2>1, <1>3, <1>4, <1>5 DEF Upward
  <2>3. Leafy(memory_chunks)'
    <3>1. \A i \in 1 .. q : ~(i > q)
      BY <1>2
    <3> QED BY <3>1, <1>3, <1>4, <1>5 DEF Leafy
  <2>4. Narrow(memory_chunks)'
    <3> SUFFICES ASSUME NEW p \in 1 .. q PROVE Cardinality({i \in 1 .. q : t[i].parent = p}) <= fanout
      BY <1>3, <1>5 DEF Narrow, Kids
    <3>1. p # NoNode
      BY <1>1, <1>2
    <3>2. {i \in 1 .. q : t[i].parent = p} = {}
      BY <3>1, <1>5
    <3>3. Cardinality({}) = 0
      BY FS_EmptySet
    <3>4. 0 <= fanout
      BY <1>1
    <3> HIDE DEF q
    <3> QED BY <3>2, <3>3, <3>4
  <2> QED BY <2>2, <2>3, <2>4, <1>3, <1>7 DEF Table
<1>9. Table(tx)'
  <2>1. tx' = <<>> /\ tx' \in Seq(Rows') /\ DOMAIN tx' = {}
    BY <1>1, <1>3
  <2> QED BY <2>1 DEF Table, Upward, Leafy, Narrow
<1>10. Basics'
  BY <1>2, <1>3, <1>4 DEF TreeInv, Basics
<1>11. RootsWhole(memory_chunks, Len(memory_chunks))'
  <2>1. \A i \in 1 .. q : ~(i > q)
    BY <1>2
  <2> QED BY <2>1, <1>3, <1>4, <1>5 DEF RootsWhole
<1>12. Len(memory_chunks') >= L'
  BY <1>2, <1>3, <1>4, <1>5
<1> QED BY <1>1, <1>3, <1>8, <1>9, <1>10, <1>11, <1>12 DEF TreeInv

\* A build begins with the leaves.
LEMMA BeginsKeeps ==
  ASSUME TreeInv, TreeBegins
  PROVE  TreeInv'
<1> DEFINE mc == memory_chunks  M == Len(memory_chunks)
<1>1. /\ pc = "stored" /\ builds < MaxBuilds /\ leaves # <<>> /\ fanout >= 2
      /\ pc' = "building" /\ builds' = builds + 1
      /\ tx' = mc /\ current' = leaves /\ next' = <<>> /\ level' = 1
      /\ UNCHANGED <<text, budget, fanout, memory_chunks, leaves, root>>
  BY DEF TreeBegins, input
<1>2. /\ Table(mc) /\ L \in Nat /\ leaves = [i \in 1 .. L |-> i] /\ M >= L /\ builds \in 0 .. MaxBuilds
      /\ MaxBuilds \in Nat
  BY MemTreeAssumption DEF TreeInv, Basics
<1>3. mc \in Seq(Rows) /\ M \in Nat /\ DOMAIN mc = 1 .. M /\ L > 0
  <2>1. L # 0
    <3> SUFFICES ASSUME L = 0 PROVE FALSE
      OBVIOUS
    <3> QED BY <1>1, <1>2
  <2> QED BY <2>1, <1>2 DEF Table
<1>4. L' = L
  BY <1>1 DEF L
<1>5. Basics'
  BY <1>1, <1>2, <1>4 DEF TreeInv, Basics
<1>6. Table(tx)' /\ Table(memory_chunks)'
  BY <1>1, <1>2, <1>4 DEF Table, Upward, Leafy, Narrow, Kids, Rows
<1>7. leaves \in Seq(1 .. M) /\ Rising(leaves) /\ Elems(leaves) = 1 .. L /\ Len(leaves) = L /\ Elems(<<>>) = {}
      /\ Rising(<<>>) /\ \A k \in 1 .. L : leaves[k] = k
  <2>1. 1 .. L \subseteq 1 .. M /\ Len(leaves) = L /\ \A k \in 1 .. L : leaves[k] = k
    BY <1>2, <1>3
  <2>2. leaves \in Seq(1 .. M)
    BY <2>1, <1>2
  <2>3. Rising(leaves) /\ Elems(leaves) = 1 .. L
    BY <2>1 DEF Rising, Elems
  <2>4. Rising(<<>>) /\ Elems(<<>>) = {}
    BY DEF Rising, Elems
  <2> QED BY <2>1, <2>2, <2>3, <2>4
<1>8. Frontier' = 1 .. L
  BY <1>1, <1>7 DEF Frontier, Elems
<1>9. Grows'
  BY <1>1, <1>3, <1>4 DEF Grows
<1>10. \A i \in 1 .. L : mc[i].level = 0 /\ mc[i].summary = <<i>> /\ ~(i > L)
  BY <1>2, <1>3 DEF Table, Leafy
<1>11. FrontierOK'
  <2>1. current' \in Seq(DOMAIN tx') /\ next' \in Seq(DOMAIN tx')
    BY <1>1, <1>3, <1>7
  <2>2. Rising(current)' /\ Rising(next)'
    BY <1>1, <1>7 DEF Rising
  <2>3. Elems(current)' = 1 .. L /\ Elems(next)' = {}
    BY <1>1, <1>7 DEF Elems
  <2>4. \A i \in 1 .. L : tx'[i].level + 1 = level'
    BY <1>1, <1>10
  <2> QED BY <2>1, <2>2, <2>3, <2>4, <1>4, <1>8, <1>10 DEF FrontierOK
<1>12. BelowOK'
  <2>1. M + 1 .. M = {}
    BY <1>3
  <2>2. Nodes(tx, Len(memory_chunks))' = 1 .. L
    BY <2>1, <1>1, <1>4 DEF Nodes, New
  <2> QED BY <2>2, <1>8 DEF BelowOK
<1>13. WholeOK'
  <2>1. Gist(mc, leaves) = [k \in 1 .. L |-> <<k>>]
    BY <1>7, <1>10 DEF Gist
  <2>2. Flat(Gist(mc, leaves)) = leaves
    BY <2>1, <1>2, FlatSingles
  <2>3. Gist(mc, <<>>) = <<>> /\ <<>> \in Seq(Seq(Nat)) /\ <<>> \in Seq(Nat)
    BY DEF Gist
  <2>4. Flat(Gist(mc, <<>>)) = <<>>
    BY <2>3, FlatAppend
  <2>5. <<>> \o leaves = leaves
    BY <1>7
  <2> DEFINE u == Flat(Gist(tx', next'))  w == Flat(Gist(tx', current'))
  <2>6. u = <<>> /\ w = leaves
    BY <2>2, <2>4, <1>1
  <2>7. Flat(Gist(tx, next))' = u /\ Flat(Gist(tx, current))' = w
    BY DEF Flat, Gist
  <2> HIDE DEF u, w
  <2> QED BY <2>5, <2>6, <2>7, <1>1 DEF WholeOK
<1>14. ShrinkOK'
  <2>1. Len(current') = L /\ Len(next') = 0
    BY <1>1, <1>7
  <2> QED BY <2>1, <1>1, <1>2, <1>4 DEF ShrinkOK
<1>15. Building'
  BY <1>9, <1>11, <1>12, <1>13, <1>14 DEF Building
<1>16. RootsWhole(memory_chunks, Len(memory_chunks))'
  BY <1>1, <1>4 DEF TreeInv, RootsWhole
<1>17. (root # NoNode => \E b \in 0 .. Len(memory_chunks) : LeadTo(memory_chunks, b, root))'
  BY <1>1, <1>4 DEF TreeInv, LeadTo, Nodes, New
<1>18. (Len(memory_chunks) >= L)'
  BY <1>1, <1>2, <1>4
<1> QED BY <1>1, <1>5, <1>6, <1>15, <1>16, <1>17, <1>18 DEF TreeInv

\* The parents take the place of their children.
LEMMA AscendKeeps ==
  ASSUME TreeInv, Ascend
  PROVE  TreeInv'
<1>1. /\ pc = "building" /\ current = <<>> /\ current' = next /\ next' = <<>> /\ level' = level + 1
      /\ UNCHANGED <<text, budget, fanout, pc, memory_chunks, leaves, tx, root, builds>>
  BY DEF Ascend, input
<1>2. Building /\ L \in Nat /\ level \in Nat
  BY <1>1 DEF TreeInv, Basics
<1>3. L' = L /\ Rows' = Rows
  BY <1>1 DEF L, Rows
<1>4. Basics'
  BY <1>1, <1>2, <1>3 DEF TreeInv, Basics
<1>5. Table(tx)' /\ Table(memory_chunks)'
  BY <1>1, <1>3 DEF TreeInv, Table, Upward, Leafy, Narrow, Kids
<1>6. Elems(<<>>) = {} /\ Rising(<<>>)
  BY DEF Elems, Rising
<1>7. Frontier' = Elems(next) /\ Frontier = Elems(next)
  BY <1>1, <1>6 DEF Frontier, Elems
<1>8. Grows'
  BY <1>1, <1>2, <1>3 DEF Building, Grows
<1>9. FrontierOK'
  <2>1. Rising(current)' /\ Rising(next)' /\ current' \in Seq(DOMAIN tx') /\ next' \in Seq(DOMAIN tx')
    BY <1>1, <1>2, <1>6 DEF Building, FrontierOK, Rising
  <2>2. Elems(current)' = Elems(next) /\ Elems(next)' = {}
    BY <1>1, <1>6 DEF Elems
  <2> QED BY <2>1, <2>2, <1>1, <1>2, <1>3, <1>7 DEF Building, FrontierOK
<1>10. BelowOK'
  <2>1. Nodes(tx, Len(memory_chunks))' = Nodes(tx, Len(memory_chunks)) /\ New(tx, Len(memory_chunks))' = New(tx, Len(memory_chunks))
    BY <1>1, <1>3 DEF Nodes, New
  <2> QED BY <2>1, <1>1, <1>2, <1>7 DEF Building, BelowOK
<1>11. WholeOK'
  <2> DEFINE u == Flat(Gist(tx, next))  w == Flat(<<>>)
  <2>1. Gist(tx, <<>>) = <<>> /\ <<>> \in Seq(Seq(1 .. L)) /\ <<>> \in Seq(1 .. L)
    BY DEF Gist
  <2>2. w = <<>>
    BY <2>1, FlatAppend
  <2>3. u \in Seq(1 .. L)
    <3>1. tx \in Seq(Rows) /\ next \in Seq(DOMAIN tx)
      BY <1>2 DEF TreeInv, Table, Building, FrontierOK
    <3>2. Gist(tx, next) \in Seq(Seq(1 .. L))
      BY <3>1, GistTyped
    <3> QED BY <2>1, <3>2, FlatAppend
  <2>4. u \o w = leaves
    BY <1>1, <1>2, <2>1 DEF Building, WholeOK
  <2>5. w \o u = u \o w
    <3> HIDE DEF u, w
    <3> QED BY <2>2, <2>3
  <2>6. Flat(Gist(tx, next))' = w /\ Flat(Gist(tx, current))' = u
    <3>1. Gist(tx, next)' = Gist(tx, <<>>) /\ Gist(tx, current)' = Gist(tx, next)
      BY <1>1 DEF Gist
    <3> QED BY <2>1, <3>1 DEF Flat
  <2> HIDE DEF u, w
  <2> QED BY <2>4, <2>5, <2>6, <1>1 DEF WholeOK
<1>12. ShrinkOK'
  <2> DEFINE m == Len(next)
  <2>1. next # <<>> /\ m \in Nat /\ m > 0 /\ 2 * m + level <= L + 2 /\ level < L
    BY <1>1, <1>2 DEF Building, ShrinkOK, FrontierOK
  <2> HIDE DEF m
  <2>2. m + (level + 1) <= L + 1
    BY <2>1, <1>2
  <2>3. Len(current') = m /\ Len(next') = 0
    BY <1>1 DEF m
  <2>4. m + 2 * 0 + (level + 1) <= L + 1
    BY <2>1, <2>2, <1>2
  <2> QED BY <2>1, <2>3, <2>4, <1>1, <1>3 DEF ShrinkOK
<1>13. Building'
  BY <1>8, <1>9, <1>10, <1>11, <1>12 DEF Building
<1>14. RootsWhole(memory_chunks, Len(memory_chunks))'
  BY <1>1, <1>3 DEF TreeInv, RootsWhole
<1>15. (root # NoNode => \E b \in 0 .. Len(memory_chunks) : LeadTo(memory_chunks, b, root))'
  BY <1>1, <1>3 DEF TreeInv, LeadTo, Nodes, New
<1>16. (Len(memory_chunks) >= L)'
  BY <1>1, <1>3 DEF TreeInv
<1> QED BY <1>4, <1>5, <1>13, <1>14, <1>15, <1>16 DEF TreeInv

\* The last node is the root of all the leaves.
LEMMA LastNode ==
  ASSUME TreeInv, pc = "building", Len(current) = 1, next = <<>>
  PROVE  LeadTo(tx, Len(memory_chunks), current[1]) /\ Frontier = {current[1]}
<1> DEFINE r == current[1]  M == Len(memory_chunks)
<1>1. Building /\ Table(tx) /\ L \in Nat /\ M \in Nat /\ leaves = [i \in 1 .. L |-> i] /\ NoNode \notin Nat
  BY MemTreeAssumption DEF TreeInv, Basics, Table
<1>2. tx \in Seq(Rows) /\ current \in Seq(DOMAIN tx) /\ r \in DOMAIN tx /\ DOMAIN tx = 1 .. Len(tx) /\ Len(tx) \in Nat
  BY <1>1 DEF Building, FrontierOK, Table
<1>3. Frontier = {r}
  <2>1. Elems(current) = {r} /\ Elems(next) = {}
    BY <1>2 DEF Elems
  <2> QED BY <2>1 DEF Frontier
<1>4. tx[r].summary = leaves
  <2> DEFINE s == tx[r].summary
  <2>1. s \in Seq(1 .. L)
    <3>1. tx[r] \in Rows
      BY <1>2
    <3> QED BY <3>1 DEF Rows
  <2>2. Gist(tx, current) = Append(<<>>, s)
    <3>1. current = <<r>> /\ 1 .. 1 = {1}
      BY <1>2
    <3>2. Gist(tx, current) = [k \in 1 .. 1 |-> tx[current[k]].summary]
      BY DEF Gist
    <3>3. \A k \in 1 .. 1 : tx[current[k]].summary = s
      BY <3>1
    <3>4. Gist(tx, current) = [k \in 1 .. 1 |-> s]
      BY <3>2, <3>3
    <3> HIDE DEF s
    <3>5. Append(<<>>, s) = [k \in 1 .. 1 |-> s]
      OBVIOUS
    <3> QED BY <3>4, <3>5
  <2>3. Gist(tx, next) = <<>> /\ <<>> \in Seq(Seq(1 .. L)) /\ <<>> \in Seq(1 .. L)
    BY DEF Gist
  <2> HIDE DEF s
  <2>4. Flat(<<>>) = <<>> /\ Flat(Append(<<>>, s)) = Flat(<<>>) \o s
    BY <2>1, <2>3, FlatAppend
  <2>5. <<>> \o (<<>> \o s) = s
    BY <2>1
  <2>6. Flat(Gist(tx, next)) \o Flat(Gist(tx, current)) = leaves
    BY <1>1 DEF Building, WholeOK
  <2> QED BY <2>2, <2>3, <2>4, <2>5, <2>6 DEF s
<1>5. r \in Nodes(tx, M)
  <2>1. r > L => r > M
    BY <1>1, <1>3 DEF Building, FrontierOK
  <2> QED BY <2>1, <1>1, <1>2 DEF Nodes, New
<1>6. tx[r].parent = NoNode
  <2>1. CASE r > L
    BY <2>1, <1>1, <1>3 DEF Building, FrontierOK
  <2>2. CASE r <= L
    <3>1. tx[r].level = 0 /\ <<r>> = leaves
      BY <2>2, <1>1, <1>2, <1>4 DEF Table, Leafy
    <3>2. L = 1
      BY <3>1 DEF L
    <3> SUFFICES ASSUME tx[r].parent # NoNode PROVE FALSE
      OBVIOUS
    <3>3. tx[r].parent \in DOMAIN tx /\ tx[tx[r].parent].level = 1 /\ tx[tx[r].parent].level < 1
      BY <3>1, <3>2, <1>1, <1>2 DEF Table, Upward
    <3> QED BY <3>3
  <2> QED BY <2>1, <2>2, <1>1, <1>2
<1>7. \A i \in Nodes(tx, M) : i = r \/ tx[i].parent \in New(tx, M)
  BY <1>1, <1>3 DEF Building, BelowOK
<1> QED BY <1>3, <1>4, <1>5, <1>6, <1>7 DEF LeadTo

\* What is committed is one whole tree, and those there were.
LEMMA CommitsKeeps ==
  ASSUME TreeInv, Commits
  PROVE  TreeInv'
<1> DEFINE r == current[1]  M == Len(memory_chunks)
<1>1. /\ pc = "building" /\ Len(current) = 1 /\ next = <<>>
      /\ memory_chunks' = tx /\ root' = r /\ pc' = "stored"
      /\ UNCHANGED <<text, budget, fanout, leaves, tx, current, next, level, builds>>
  BY DEF Commits, input, build
<1>2. LeadTo(tx, M, r) /\ Frontier = {r}
  BY <1>1, LastNode
<1>3. Table(tx) /\ L \in Nat /\ M \in Nat /\ M >= L /\ Len(tx) \in Nat /\ Len(tx) >= M /\ Building /\ NoNode \notin Nat
  BY <1>1, MemTreeAssumption DEF TreeInv, Basics, Table, Building, Grows
<1>4. L' = L /\ Rows' = Rows
  BY <1>1 DEF L, Rows
<1>5. Basics'
  BY <1>1, <1>4 DEF TreeInv, Basics
<1>6. Table(tx)' /\ Table(memory_chunks)'
  BY <1>1, <1>3, <1>4 DEF Table, Upward, Leafy, Narrow, Kids
<1>7. RootsWhole(tx, Len(tx))
  <2> SUFFICES ASSUME NEW i \in 1 .. Len(tx), i > L, tx[i].parent = NoNode PROVE tx[i].summary = leaves
    BY DEF RootsWhole
  <2>1. CASE i <= M
    <3>1. i \in 1 .. M /\ tx[i] = memory_chunks[i]
      BY <2>1, <1>3 DEF Building, Grows
    <3> QED BY <3>1 DEF TreeInv, RootsWhole
  <2>2. CASE i > M
    <3>1. i \in Nodes(tx, M) /\ tx[i].parent \notin New(tx, M)
      BY <2>2, <1>3 DEF Nodes, New
    <3>2. i = r
      BY <3>1, <1>2 DEF LeadTo
    <3> QED BY <3>2, <1>2 DEF LeadTo
  <2> QED BY <2>1, <2>2, <1>3
<1>8. RootsWhole(memory_chunks, Len(memory_chunks))'
  BY <1>1, <1>4, <1>7 DEF RootsWhole
<1>9. (root # NoNode => \E b \in 0 .. Len(memory_chunks) : LeadTo(memory_chunks, b, root))'
  <2>1. M \in 0 .. Len(tx)
    BY <1>3
  <2>2. \E b \in 0 .. Len(tx) : LeadTo(tx, b, r)
    BY <2>1, <1>2
  <2> QED BY <2>2, <1>1, <1>4 DEF LeadTo, Nodes, New
<1>10. (Len(memory_chunks) >= L)'
  BY <1>1, <1>3, <1>4
<1> QED BY <1>1, <1>5, <1>6, <1>8, <1>9, <1>10 DEF TreeInv

\* A build that fails, and a step that changes nothing.
LEMMA FailsKeeps ==
  ASSUME TreeInv, Fails \/ UNCHANGED tree
  PROVE  TreeInv'
<1>1. /\ pc' \in {pc, "stored"} /\ (pc' = "building" \/ pc' = "new" => pc' = pc)
      /\ UNCHANGED <<text, budget, fanout, memory_chunks, leaves, tx, current, next, level, root, builds>>
  BY DEF Fails, tree, input, build
<1>2. L' = L /\ Rows' = Rows
  BY <1>1 DEF L, Rows
<1>3. Basics'
  BY <1>1, <1>2 DEF TreeInv, Basics
<1>4. Table(tx)' /\ Table(memory_chunks)'
  BY <1>1, <1>2 DEF TreeInv, Table, Upward, Leafy, Narrow, Kids
<1>5. (pc = "building" => Building)'
  <2> SUFFICES ASSUME pc' = "building" PROVE Building'
    OBVIOUS
  <2>1. Building
    BY <1>1 DEF TreeInv
  <2>2. Grows'
    BY <2>1, <1>1, <1>2 DEF Building, Grows
  <2>3. FrontierOK'
    BY <2>1, <1>1, <1>2 DEF Building, FrontierOK, Frontier, Rising, Elems
  <2>4. BelowOK'
    BY <2>1, <1>1, <1>2 DEF Building, BelowOK, Nodes, New, Frontier, Elems
  <2>5. WholeOK'
    <3> DEFINE u == Flat(Gist(tx, next))  w == Flat(Gist(tx, current))
    <3>1. Flat(Gist(tx, next))' = u /\ Flat(Gist(tx, current))' = w
      BY <1>1 DEF Flat, Gist
    <3>2. u \o w = leaves
      BY <2>1 DEF Building, WholeOK
    <3> HIDE DEF u, w
    <3> QED BY <3>1, <3>2, <1>1 DEF WholeOK
  <2>6. ShrinkOK'
    BY <2>1, <1>1, <1>2 DEF Building, ShrinkOK
  <2> QED BY <2>2, <2>3, <2>4, <2>5, <2>6 DEF Building
<1>6. RootsWhole(memory_chunks, Len(memory_chunks))'
  BY <1>1, <1>2 DEF TreeInv, RootsWhole
<1>7. (root # NoNode => \E b \in 0 .. Len(memory_chunks) : LeadTo(memory_chunks, b, root))'
  BY <1>1, <1>2 DEF TreeInv, LeadTo, Nodes, New
<1>8. (Len(memory_chunks) >= L)'
  BY <1>1, <1>2 DEF TreeInv
<1> QED BY <1>3, <1>4, <1>5, <1>6, <1>7, <1>8 DEF TreeInv

\* build_summary_tree leaves the whole tree of the last build that committed, over all the
\* leaves, and nothing of one that failed, for any document, fan-out and number of builds.
THEOREM TreesWhole == TreeSpec => []BuildsWhole
<1>1. TreeInit => TreeInv
  BY TreeBegun
<1>2. TreeInv /\ [TreeNext]_tree => TreeInv'
  BY IngestKeeps, BeginsKeeps, GroupKeeps, AscendKeeps, CommitsKeeps, FailsKeeps DEF TreeNext
<1>3. TreeInv => BuildsWhole
  BY InvWhole
<1> QED BY <1>1, <1>2, <1>3, PTL DEF TreeSpec

-----------------------------------------------------------------------------
(* TokenJuice.                                                             *)

\* CountChars, step by step.
LEMMA CountSteps ==
  ASSUME NEW ls \in Seq(Lines)
  PROVE  \E f \in [0 .. Len(ls) -> Nat] :
           /\ f[0] = 0
           /\ \A k \in 1 .. Len(ls) : f[k] = f[k - 1] + ls[k].len + ls[k].pad + IF k > 1 THEN 1 ELSE 0
           /\ CountChars(ls) = f[Len(ls)]
<1> DEFINE b == Len(ls)  W(k) == ls[k].len + ls[k].pad + IF k > 1 THEN 1 ELSE 0
           More(n, k) == n + ls[k].len + ls[k].pad + IF k > 1 THEN 1 ELSE 0
           F == LET n[k \in 0 .. Len(ls)] ==
                      IF k = 0 THEN 0
                      ELSE n[k - 1] + ls[k].len + ls[k].pad + IF k > 1 THEN 1 ELSE 0
                IN n
           step == [k \in 1 .. b |-> [n \in Nat |-> More(n, k)]]
<1>1. /\ b \in Nat /\ 0 \in 0 .. b /\ 0 \in Nat
      /\ \A k \in 1 .. b : k - 1 \in 0 .. b /\ k \in 0 .. b /\ k # 0
      /\ \A k \in 0 .. b : k # 0 => k \in 1 .. b
  OBVIOUS
<1>2. step \in [1 .. b -> [Nat -> Nat]]
  <2>1. \A k \in 1 .. b : ls[k] \in Lines
    OBVIOUS
  <2>2. \A k \in 1 .. b : ls[k].len \in Nat /\ ls[k].pad \in Nat
    BY <2>1 DEF Lines
  <2>3. \A k \in 1 .. b : \A n \in Nat : More(n, k) \in Nat
    BY <2>2
  <2> HIDE DEF b, More
  <2> QED BY <2>3
<1>3. PICK g \in [0 .. b -> Nat] : Goes(g, b, 0, step)
  <2> HIDE DEF step, b
  <2> QED BY <1>1, <1>2, Recursion
<1>4. g[0] = 0 /\ \A k \in 1 .. b : g[k] = More(g[k - 1], k)
  <2>1. \A k \in 1 .. b : g[k - 1] \in Nat
    BY <1>1, Zenon
  <2> HIDE DEF More
  <2> QED BY <2>1, <1>3, Zenon DEF Goes
<1>5. g = [k \in 0 .. b |-> IF k = 0 THEN 0 ELSE More(g[k - 1], k)]
  <2> HIDE DEF More
  <2>1. \A k \in 0 .. b : g[k] = IF k = 0 THEN 0 ELSE More(g[k - 1], k)
    BY <1>1, <1>4, Zenon
  <2>2. g = [k \in 0 .. b |-> g[k]]
    BY Zenon
  <2> QED BY <2>1, <2>2, Zenon
<1>6. F = [k \in 0 .. b |-> IF k = 0 THEN 0 ELSE More(F[k - 1], k)]
  BY <1>5, Zenon
<1>7. CountChars(ls) = F[b]
  BY DEF CountChars
<1> HIDE DEF F
<1>8. F = g
  <2> HIDE DEF More
  <2>1. GoAlike(F, g, b) /\ F = [k \in 0 .. b |-> F[k]]
    BY <1>1, <1>4, <1>6, Zenon DEF GoAlike
  <2>2. b \in Nat
    BY <1>1
  <2> HIDE DEF b, step
  <2> QED BY <2>1, <2>2, Same
<1> QED BY <1>4, <1>7, <1>8, Zenon

\* CountChars goes along with Append.
LEMMA CountAppend ==
  ASSUME NEW ls \in Seq(Lines), NEW l \in Lines
  PROVE  /\ CountChars(ls) \in Nat
         /\ CountChars(Append(ls, l)) = CountChars(ls) + l.len + l.pad + IF ls = <<>> THEN 0 ELSE 1
<1> DEFINE d == Append(ls, l)  b == Len(ls)
<1>1. d \in Seq(Lines) /\ Len(d) = b + 1 /\ d[b + 1] = l /\ \A k \in 1 .. b : d[k] = ls[k]
  OBVIOUS
<1>2. PICK f \in [0 .. Len(ls) -> Nat] :
           /\ f[0] = 0
           /\ \A k \in 1 .. Len(ls) : f[k] = f[k - 1] + ls[k].len + ls[k].pad + IF k > 1 THEN 1 ELSE 0
           /\ CountChars(ls) = f[Len(ls)]
  BY CountSteps
<1>3. PICK g \in [0 .. Len(d) -> Nat] :
           /\ g[0] = 0
           /\ \A k \in 1 .. Len(d) : g[k] = g[k - 1] + d[k].len + d[k].pad + IF k > 1 THEN 1 ELSE 0
           /\ CountChars(d) = g[Len(d)]
  <2> HIDE DEF d
  <2> QED BY <1>1, CountSteps
<1>4. GoAlike(f, g, b)
  <2>1. \A k \in 1 .. b : k \in 1 .. Len(d)
    BY <1>1
  <2> HIDE DEF d
  <2> QED BY <2>1, <1>1, <1>2, <1>3, Zenon DEF GoAlike
<1>5. b \in Nat /\ (b = 0 <=> ls = <<>>)
  OBVIOUS
<1>6. \A k \in 0 .. b : f[k] = g[k]
  <2> HIDE DEF b
  <2> QED BY <1>4, <1>5, Alike
<1>7. f[b] = g[b]
  BY <1>5, <1>6
<1>8. g[b + 1] = g[b] + l.len + l.pad + IF ls = <<>> THEN 0 ELSE 1
  <2>1. b + 1 \in 1 .. Len(d) /\ (b + 1) - 1 = b /\ (b + 1 > 1 <=> ls # <<>>)
    BY <1>1, <1>5
  <2> HIDE DEF d, b
  <2>2. g[b + 1] = g[b] + l.len + l.pad + IF b + 1 > 1 THEN 1 ELSE 0
    BY <2>1, <1>1, <1>3
  <2> QED BY <2>1, <2>2
<1>9. f[b] \in Nat
  <2>1. b \in 0 .. Len(ls)
    BY <1>5
  <2> QED BY <2>1, Zenon
<1> QED BY <1>1, <1>2, <1>3, <1>7, <1>8, <1>9

\* CountChars gives a number.
LEMMA CountSays ==
  ASSUME NEW ls \in Seq(Lines)
  PROVE  CountChars(ls) \in Nat
<1>1. PICK f \in [0 .. Len(ls) -> Nat] : CountChars(ls) = f[Len(ls)]
  BY CountSteps
<1>2. Len(ls) \in 0 .. Len(ls)
  OBVIOUS
<1> QED BY <1>1, <1>2

\* Of no lines it is 0.
LEMMA CountNone == CountChars(<<>>) = 0
<1>1. <<>> \in Seq(Lines) /\ Len(<<>>) = 0
  OBVIOUS
<1> QED BY <1>1, CountSteps

\* The lines from i to k are those to k - 1 and line k.
LEMMA LineMore ==
  ASSUME NEW ls \in Seq(Lines), NEW i \in 1 .. Len(ls), NEW k \in i .. Len(ls)
  PROVE  /\ SubSeq(ls, i, k) \in Seq(Lines) /\ SubSeq(ls, i, k) # <<>>
         /\ SubSeq(ls, i, k - 1) \in Seq(Lines) /\ ls[k] \in Lines
         /\ SubSeq(ls, i, k) = Append(SubSeq(ls, i, k - 1), ls[k])
         /\ (SubSeq(ls, i, k - 1) = <<>> <=> k = i)
<1> DEFINE s == SubSeq(ls, i, k)  r == SubSeq(ls, i, k - 1)  a == Append(r, ls[k])  n == k - i
<1>1. Len(ls) \in Nat /\ i \in Nat /\ k \in Nat /\ n \in Nat /\ k \in 1 .. Len(ls) /\ ls[k] \in Lines
  OBVIOUS
<1>2. s \in Seq(Lines) /\ Len(s) = n + 1 /\ \A j \in 1 .. n + 1 : s[j] = ls[i + j - 1]
  OBVIOUS
<1>3. r \in Seq(Lines) /\ Len(r) = n /\ \A j \in 1 .. n : r[j] = ls[i + j - 1]
  OBVIOUS
<1> HIDE DEF s, r
<1>4. a \in Seq(Lines) /\ Len(a) = n + 1 /\ a[n + 1] = ls[k] /\ \A j \in 1 .. n : a[j] = r[j]
  <2> HIDE DEF n
  <2> QED BY <1>1, <1>3
<1>5. i + (n + 1) - 1 = k /\ \A j \in 1 .. n + 1 : j \in 1 .. n \/ j = n + 1
  BY <1>1
<1> HIDE DEF a, n
<1>6. \A j \in 1 .. n + 1 : a[j] = s[j]
  BY <1>1, <1>2, <1>3, <1>4, <1>5
<1>7. a = s
  BY <1>2, <1>4, <1>6, SeqEqual
<1>8. s # <<>> /\ (r = <<>> <=> n = 0) /\ (n = 0 <=> k = i)
  BY <1>1, <1>2, <1>3 DEF n
<1> QED BY <1>1, <1>2, <1>3, <1>7, <1>8 DEF s, r, a

\* In particular from the first on.
LEMMA FirstLines ==
  ASSUME NEW ls \in Seq(Lines), NEW k \in 1 .. Len(ls)
  PROVE  /\ SubSeq(ls, 1, k) \in Seq(Lines) /\ SubSeq(ls, 1, k) # <<>>
         /\ SubSeq(ls, 1, k - 1) \in Seq(Lines) /\ ls[k] \in Lines
         /\ SubSeq(ls, 1, k) = Append(SubSeq(ls, 1, k - 1), ls[k])
         /\ (SubSeq(ls, 1, k - 1) = <<>> <=> k = 1)
<1> DEFINE i == 1
<1>1. i \in 1 .. Len(ls) /\ k \in i .. Len(ls)
  OBVIOUS
<1> HIDE DEF i
<1>2. /\ SubSeq(ls, i, k) \in Seq(Lines) /\ SubSeq(ls, i, k) # <<>>
      /\ SubSeq(ls, i, k - 1) \in Seq(Lines) /\ ls[k] \in Lines
      /\ SubSeq(ls, i, k) = Append(SubSeq(ls, i, k - 1), ls[k])
      /\ (SubSeq(ls, i, k - 1) = <<>> <=> k = i)
  <2>1. SubSeq(ls, i, k) \in Seq(Lines) /\ SubSeq(ls, i, k) # <<>>
    BY <1>1, LineMore
  <2>2. SubSeq(ls, i, k - 1) \in Seq(Lines) /\ ls[k] \in Lines
    BY <1>1, LineMore
  <2>3. SubSeq(ls, i, k) = Append(SubSeq(ls, i, k - 1), ls[k])
    BY <1>1, LineMore
  <2>4. SubSeq(ls, i, k - 1) = <<>> <=> k = i
    BY <1>1, LineMore
  <2> QED BY <2>1, <2>2, <2>3, <2>4
<1> QED BY <1>2 DEF i

\* Lines from the middle are no longer than all.
LEMMA CountPart ==
  ASSUME NEW ls \in Seq(Lines), NEW i \in 1 .. Len(ls), NEW k \in i .. Len(ls)
  PROVE  CountChars(SubSeq(ls, i, k)) <= CountChars(ls)
<1> DEFINE b == Len(ls)  P(j) == CountChars(SubSeq(ls, 1, j))  Q(j) == CountChars(SubSeq(ls, i, j))
           H == {j \in 0 .. b : /\ P(j) \in Nat /\ Q(j) \in Nat /\ Q(j) <= P(j) /\ (j < i => Q(j) = 0)
                                /\ SubSeq(ls, 1, j) \in Seq(Lines)
                                /\ j >= k => P(j) >= Q(k)}
<1>1. b \in Nat /\ 0 \in 0 .. b /\ b \in 0 .. b /\ i \in Nat /\ k \in Nat /\ 1 <= i /\ i <= k /\ k <= b
  OBVIOUS
<1>2. CountChars(<<>>) = 0 /\ <<>> \in Seq(Lines) /\ \A s \in Seq(Lines) : CountChars(s) \in Nat
  <2>1. <<>> \in Seq(Lines)
    OBVIOUS
  <2> QED BY <2>1, CountNone, CountSays
<1>3. \A j \in 0 .. b : j < i => SubSeq(ls, i, j) = <<>>
  BY <1>1
<1>4. SubSeq(ls, 1, 0) = <<>>
  BY <1>1
<1>5. 0 \in H
  <2>1. P(0) = 0 /\ SubSeq(ls, 1, 0) \in Seq(Lines)
    BY <1>2, <1>4
  <2>2. Q(0) = 0
    <3>1. 0 < i
      BY <1>1
    <3> QED BY <3>1, <1>1, <1>2, <1>3
  <2>3. ~(0 >= k)
    BY <1>1
  <2> HIDE DEF P, Q
  <2> QED BY <2>1, <2>2, <2>3, <1>1
<1>6. ASSUME NEW j \in 0 .. b, j > 0, j - 1 \in H PROVE j \in H
  <2>1. j \in 1 .. b /\ j \in Nat
    BY <1>6, <1>1
  <2> DEFINE w == ls[j].len + ls[j].pad
  <2>2. w \in Nat
    <3>1. ls[j] \in Lines
      BY <2>1
    <3> QED BY <3>1 DEF Lines
  <2>3. P(j) = P(j - 1) + w + (IF j = 1 THEN 0 ELSE 1) /\ SubSeq(ls, 1, j) \in Seq(Lines)
    <3>1. 1 \in 1 .. Len(ls) /\ j \in 1 .. Len(ls)
      BY <2>1
    <3>0. /\ SubSeq(ls, 1, j) \in Seq(Lines) /\ SubSeq(ls, 1, j - 1) \in Seq(Lines) /\ ls[j] \in Lines
          /\ SubSeq(ls, 1, j) = Append(SubSeq(ls, 1, j - 1), ls[j])
          /\ (SubSeq(ls, 1, j - 1) = <<>> <=> j = 1)
      BY <3>1, FirstLines
    <3> DEFINE u == SubSeq(ls, 1, j)  v == SubSeq(ls, 1, j - 1)  l == ls[j]
    <3>2. u \in Seq(Lines) /\ v \in Seq(Lines) /\ l \in Lines /\ u = Append(v, l) /\ (v = <<>> <=> j = 1)
      BY <3>0
    <3> HIDE DEF u, v, l
    <3>3. CountChars(u) = CountChars(v) + l.len + l.pad + IF v = <<>> THEN 0 ELSE 1
      BY <3>2, CountAppend
    <3>4. CountChars(v) \in Nat /\ l.len \in Nat /\ l.pad \in Nat
      BY <3>2, <1>2 DEF Lines
    <3>5. CountChars(u) = CountChars(v) + (l.len + l.pad) + IF j = 1 THEN 0 ELSE 1
      BY <3>2, <3>3, <3>4
    <3> QED BY <3>2, <3>5 DEF u, v, l
  <2>4. P(j - 1) \in Nat /\ Q(j - 1) \in Nat /\ Q(j - 1) <= P(j - 1) /\ (j - 1 < i => Q(j - 1) = 0)
        /\ (j - 1 >= k => P(j - 1) >= Q(k))
    BY <1>6
  <2>5. j < i => Q(j) = 0
    BY <1>2, <1>3
  <2>6. j >= i => Q(j) = Q(j - 1) + w + IF j = i THEN 0 ELSE 1
    <3> SUFFICES ASSUME j >= i PROVE Q(j) = Q(j - 1) + w + IF j = i THEN 0 ELSE 1
      OBVIOUS
    <3>1. j \in i .. Len(ls)
      BY <2>1, <1>1
    <3> DEFINE u == SubSeq(ls, i, j)  v == SubSeq(ls, i, j - 1)  l == ls[j]
    <3>2. u \in Seq(Lines) /\ v \in Seq(Lines) /\ l \in Lines /\ u = Append(v, l) /\ (v = <<>> <=> j = i)
      BY <3>1, LineMore
    <3> HIDE DEF u, v, l
    <3>3. CountChars(u) = CountChars(v) + l.len + l.pad + IF v = <<>> THEN 0 ELSE 1
      BY <3>2, CountAppend
    <3>4. CountChars(v) \in Nat /\ l.len \in Nat /\ l.pad \in Nat
      BY <3>2, <1>2 DEF Lines
    <3>5. CountChars(u) = CountChars(v) + (l.len + l.pad) + IF j = i THEN 0 ELSE 1
      BY <3>2, <3>3, <3>4
    <3> QED BY <3>2, <3>5 DEF u, v, l
  <2> DEFINE p == P(j - 1)  q == Q(j - 1)  pp == P(j)  qq == Q(j)  z == Q(k)
  <2>7. /\ pp = p + w + (IF j = 1 THEN 0 ELSE 1) /\ p \in Nat /\ q \in Nat /\ q <= p /\ (j - 1 < i => q = 0)
        /\ (j - 1 >= k => p >= z) /\ (j < i => qq = 0) /\ (j >= i => qq = q + w + IF j = i THEN 0 ELSE 1)
        /\ (j = k => z = qq)
    BY <2>3, <2>4, <2>5, <2>6
  <2> HIDE DEF p, q, pp, qq, w, P, Q
  <2>8. pp \in Nat /\ qq \in Nat /\ qq <= pp
    BY <2>1, <2>2, <2>7, <1>1
  <2>9. z \in Nat
    <3>1. SubSeq(ls, i, k) \in Seq(Lines)
      BY LineMore
    <3> QED BY <3>1, <1>2 DEF z, Q
  <2>10. j >= k => pp >= z
    <3> HIDE DEF z
    <3> QED BY <2>1, <2>2, <2>7, <2>8, <2>9, <1>1
  <2> QED BY <2>3, <2>5, <2>8, <2>10 DEF pp, qq, z
<1>7. b \in H
  <2> HIDE DEF H
  <2>1. 0 .. b \subseteq H
    BY <1>1, <1>5, <1>6, UpTo, Zenon
  <2> QED BY <2>1, <1>1
<1>8. P(b) >= Q(k) /\ P(b) \in Nat /\ Q(k) \in Nat
  <2>1. P(b) >= Q(k) /\ P(b) \in Nat
    BY <1>1, <1>7
  <2>2. SubSeq(ls, i, k) \in Seq(Lines)
    BY LineMore
  <2> QED BY <2>1, <2>2, <1>2
<1>9. SubSeq(ls, 1, b) = ls
  BY SubSeqFull
<1> QED BY <1>8, <1>9

\* Somewhere in ls a line of the words b comes after one of the words a.
Turns(ls, a, b) == \E i \in 1 .. Len(ls) - 1 : ls[i].words = a /\ ls[i + 1].words = b

\* out is what tidy has made of the lines p so far: no line with blanks after it, none more
\* than in p, and just the changes of p from one line to a different one.
PushOK(p, out) ==
  /\ p \in Seq(Lines) /\ out \in Seq(Lines) /\ (out = <<>> <=> p = <<>>)
  /\ Len(out) <= Len(p) /\ CountChars(out) <= CountChars(p)
  /\ \A i \in 1 .. Len(out) : out[i].pad = 0
  /\ p # <<>> => out[Len(out)].words = p[Len(p)].words
  /\ \A a, b : Turns(out, a, b) <=> Turns(p, a, b) /\ a # b

\* The changes of lines with one more.
LEMMA TurnsMore ==
  ASSUME NEW s \in Seq(Lines), NEW l \in Lines, NEW a, NEW b
  PROVE  Turns(Append(s, l), a, b) <=> Turns(s, a, b) \/ (s # <<>> /\ a = s[Len(s)].words /\ b = l.words)
<1> DEFINE t == Append(s, l)  n == Len(s)
<1>1. t \in Seq(Lines) /\ Len(t) = n + 1 /\ t[n + 1] = l /\ \A k \in 1 .. n : t[k] = s[k]
  OBVIOUS
<1>2. n \in Nat /\ (s = <<>> <=> n = 0)
  OBVIOUS
<1> HIDE DEF t
<1>3. ASSUME Turns(t, a, b) PROVE Turns(s, a, b) \/ (s # <<>> /\ a = s[n].words /\ b = l.words)
  <2>1. PICK i \in 1 .. Len(t) - 1 : t[i].words = a /\ t[i + 1].words = b
    BY <1>3 DEF Turns
  <2>2. i \in 1 .. n /\ n # 0 /\ t[i] = s[i]
    BY <2>1, <1>1, <1>2
  <2>3. CASE i = n
    BY <2>1, <2>2, <2>3, <1>1, <1>2
  <2>4. CASE i # n
    <3>1. i \in 1 .. n - 1 /\ i + 1 \in 1 .. n
      BY <2>2, <2>4, <1>2
    <3>2. s[i].words = a /\ s[i + 1].words = b
      BY <3>1, <2>1, <2>2, <1>1
    <3> QED BY <3>1, <3>2 DEF Turns
  <2> QED BY <2>3, <2>4
<1>4. ASSUME Turns(s, a, b) PROVE Turns(t, a, b)
  <2>1. PICK i \in 1 .. n - 1 : s[i].words = a /\ s[i + 1].words = b
    BY <1>4 DEF Turns
  <2>2. i \in 1 .. n /\ i + 1 \in 1 .. n /\ i \in 1 .. Len(t) - 1
    BY <1>1, <1>2
  <2>3. t[i].words = a /\ t[i + 1].words = b
    BY <2>1, <2>2, <1>1
  <2> QED BY <2>2, <2>3 DEF Turns
<1>5. ASSUME s # <<>>, a = s[n].words, b = l.words PROVE Turns(t, a, b)
  <2>1. n \in 1 .. Len(t) - 1 /\ n \in 1 .. n
    BY <1>1, <1>2, <1>5
  <2>2. t[n].words = a /\ t[n + 1].words = b
    BY <2>1, <1>1, <1>5
  <2> QED BY <2>1, <2>2 DEF Turns
<1> QED BY <1>3, <1>4, <1>5 DEF t

\* The last of lines with one more.
LEMMA LastMore ==
  ASSUME NEW s \in Seq(Lines), NEW l \in Lines
  PROVE  LET t == Append(s, l)
         IN /\ t \in Seq(Lines) /\ t # <<>> /\ Len(t) = Len(s) + 1 /\ t[Len(t)] = l
            /\ \A i \in 1 .. Len(t) : t[i] = IF i = Len(t) THEN l ELSE s[i]
OBVIOUS

\* A line more.
LEMMA PushKeepsOK ==
  ASSUME NEW p, NEW out, NEW l \in Lines, PushOK(p, out)
  PROVE  PushOK(Append(p, l), Push(out, l))
<1> DEFINE q == Append(p, l)  r == Push(out, l)  z == [l EXCEPT !.pad = 0]  s == Append(out, z)
<1>1. /\ p \in Seq(Lines) /\ out \in Seq(Lines) /\ (out = <<>> <=> p = <<>>)
      /\ Len(out) <= Len(p) /\ CountChars(out) <= CountChars(p)
      /\ \A i \in 1 .. Len(out) : out[i].pad = 0
      /\ p # <<>> => out[Len(out)].words = p[Len(p)].words
      /\ \A a, b : Turns(out, a, b) <=> Turns(p, a, b) /\ a # b
  BY DEF PushOK
<1>2. z \in Lines /\ z.words = l.words /\ z.len = l.len /\ z.pad = 0 /\ l.len \in Nat /\ l.pad \in Nat
  BY DEF Lines
<1> HIDE DEF z
<1>3. q \in Seq(Lines) /\ q # <<>> /\ Len(q) = Len(p) + 1 /\ q[Len(q)] = l
  BY <1>1, LastMore
<1>4. /\ s \in Seq(Lines) /\ s # <<>> /\ Len(s) = Len(out) + 1 /\ s[Len(s)] = z
      /\ \A i \in 1 .. Len(s) : s[i] = IF i = Len(s) THEN z ELSE out[i]
  BY <1>1, <1>2, LastMore
<1>5. CountChars(q) = CountChars(p) + l.len + l.pad + IF p = <<>> THEN 0 ELSE 1
  BY <1>1, CountAppend
<1>6. CountChars(s) = CountChars(out) + z.len + z.pad + IF out = <<>> THEN 0 ELSE 1
  BY <1>1, <1>2, CountAppend
<1>7. CountChars(p) \in Nat /\ CountChars(out) \in Nat /\ Len(p) \in Nat /\ Len(out) \in Nat
  <2>1. CountChars(p) \in Nat
    BY <1>1, CountSays
  <2>2. CountChars(out) \in Nat
    BY <1>1, CountSays
  <2>3. Len(p) \in Nat /\ Len(out) \in Nat
    BY <1>1
  <2> QED BY <2>1, <2>2, <2>3
<1>8. \A a, b : Turns(q, a, b) <=> Turns(p, a, b) \/ (p # <<>> /\ a = p[Len(p)].words /\ b = l.words)
  BY <1>1, TurnsMore
<1>9. \A a, b : Turns(s, a, b) <=> Turns(out, a, b) \/ (out # <<>> /\ a = out[Len(out)].words /\ b = z.words)
  BY <1>1, <1>2, TurnsMore
<1> DEFINE again == out # <<>> /\ out[Len(out)].words = l.words
<1>10. r = IF again THEN out ELSE s
  BY DEF Push, z
<1> HIDE DEF q, r, s
<1>11. ASSUME again PROVE PushOK(q, r)
  <2>1. r = out /\ out # <<>> /\ p # <<>> /\ out[Len(out)].words = l.words /\ p[Len(p)].words = l.words
    BY <1>1, <1>10, <1>11
  <2>2. Len(out) <= Len(q) /\ CountChars(out) <= CountChars(q)
    BY <1>1, <1>2, <1>3, <1>5, <1>7
  <2>3. ASSUME NEW a, NEW b PROVE Turns(out, a, b) <=> Turns(q, a, b) /\ a # b
    <3>1. Turns(out, a, b) <=> Turns(p, a, b) /\ a # b
      BY <1>1
    <3>2. Turns(q, a, b) <=> Turns(p, a, b) \/ (a = l.words /\ b = l.words)
      BY <1>8, <2>1
    <3> QED BY <3>1, <3>2
  <2> QED BY <2>1, <2>2, <2>3, <1>1, <1>3, Zenon DEF PushOK
<1>12. ASSUME ~again PROVE PushOK(q, r)
  <2>1. r = s
    BY <1>10, <1>12
  <2>2. Len(s) <= Len(q) /\ CountChars(s) <= CountChars(q)
    BY <1>1, <1>2, <1>3, <1>4, <1>5, <1>6, <1>7
  <2>3. \A i \in 1 .. Len(s) : s[i].pad = 0
    BY <1>1, <1>2, <1>4, <1>7
  <2>4. \A a, b : Turns(s, a, b) <=> Turns(q, a, b) /\ a # b
    <3>1. p # <<>> => p[Len(p)].words # l.words
      BY <1>1, <1>12
    <3>2. \A a, b : Turns(s, a, b) <=> \/ Turns(p, a, b) /\ a # b
                                       \/ p # <<>> /\ a = p[Len(p)].words /\ b = l.words
      BY <1>1, <1>2, <1>9, Zenon
    <3> QED BY <3>1, <3>2, <1>8, Zenon
  <2>5. s[Len(s)].words = q[Len(q)].words
    BY <1>2, <1>3, <1>4, Zenon
  <2> QED BY <2>1, <2>2, <2>3, <2>4, <2>5, <1>3, <1>4, Zenon DEF PushOK
<1> QED BY <1>11, <1>12 DEF q, r

\* Pushed, step by step.
LEMMA PushedSteps ==
  ASSUME NEW ls \in Seq(Lines)
  PROVE  /\ Pushed(ls) \in [0 .. Len(ls) -> Seq(Lines)]
         /\ Pushed(ls)[0] = <<>>
         /\ \A k \in 1 .. Len(ls) : Pushed(ls)[k] = Push(Pushed(ls)[k - 1], ls[k])
<1> DEFINE b == Len(ls)  P == Pushed(ls)
           step == [k \in 1 .. b |-> [o \in Seq(Lines) |-> Push(o, ls[k])]]
<1>1. /\ b \in Nat /\ 0 \in 0 .. b
      /\ \A k \in 1 .. b : k - 1 \in 0 .. b /\ k \in 0 .. b /\ k # 0
      /\ \A k \in 0 .. b : k # 0 => k \in 1 .. b
  OBVIOUS
<1>2. step \in [1 .. b -> [Seq(Lines) -> Seq(Lines)]]
  <2>1. ASSUME NEW k \in 1 .. b, NEW o \in Seq(Lines) PROVE Push(o, ls[k]) \in Seq(Lines)
    <3>1. ls[k] \in Lines
      OBVIOUS
    <3>2. [ls[k] EXCEPT !.pad = 0] \in Lines
      BY <3>1 DEF Lines
    <3>3. Append(o, [ls[k] EXCEPT !.pad = 0]) \in Seq(Lines)
      BY <3>2, LastMore
    <3> QED BY <3>3 DEF Push
  <2> HIDE DEF b
  <2> QED BY <2>1
<1>3. PICK g \in [0 .. b -> Seq(Lines)] : Goes(g, b, <<>>, step)
  <2>1. <<>> \in Seq(Lines)
    OBVIOUS
  <2> HIDE DEF step, b
  <2> QED BY <2>1, <1>1, <1>2, Recursion
<1>4. g[0] = <<>> /\ \A k \in 1 .. b : g[k] = Push(g[k - 1], ls[k])
  <2>1. \A k \in 1 .. b : g[k - 1] \in Seq(Lines)
    BY <1>1, Zenon
  <2> QED BY <2>1, <1>3, Zenon DEF Goes
<1>5. g = [k \in 0 .. b |-> IF k = 0 THEN <<>> ELSE Push(g[k - 1], ls[k])]
  <2>1. \A k \in 0 .. b : g[k] = IF k = 0 THEN <<>> ELSE Push(g[k - 1], ls[k])
    BY <1>1, <1>4, Zenon
  <2>2. g = [k \in 0 .. b |-> g[k]]
    BY Zenon
  <2> QED BY <2>1, <2>2, Zenon
<1>6. P = [k \in 0 .. b |-> IF k = 0 THEN <<>> ELSE Push(P[k - 1], ls[k])]
  BY <1>5, Zenon DEF Pushed
<1> HIDE DEF P
<1>7. P = g
  <2>1. GoAlike(P, g, b) /\ P = [k \in 0 .. b |-> P[k]]
    BY <1>1, <1>4, <1>6, Zenon DEF GoAlike
  <2>2. b \in Nat
    BY <1>1
  <2> HIDE DEF b, step
  <2> QED BY <2>1, <2>2, Same
<1> QED BY <1>4, <1>7, Zenon DEF P

\* What tidy makes of all lines before it cuts the ends.
LEMMA PushedOK ==
  ASSUME NEW ls \in Seq(Lines)
  PROVE  PushOK(ls, Pushed(ls)[Len(ls)])
<1> DEFINE b == Len(ls)  P == Pushed(ls)
           H == {k \in 0 .. b : PushOK(SubSeq(ls, 1, k), P[k])}
<1>1. b \in Nat /\ 0 \in 0 .. b /\ b \in 0 .. b
  OBVIOUS
<1>2. P[0] = <<>> /\ \A k \in 1 .. b : P[k] = Push(P[k - 1], ls[k])
  BY PushedSteps
<1> HIDE DEF P
<1>3. 0 \in H
  <2>1. SubSeq(ls, 1, 0) = <<>> /\ <<>> \in Seq(Lines) /\ Len(<<>>) = 0
    BY <1>1
  <2> DEFINE e == SubSeq(ls, 1, 0)
  <2>2. e = <<>> /\ P[0] = e /\ e \in Seq(Lines) /\ Len(e) = 0 /\ CountChars(e) <= CountChars(e)
    <3>1. CountChars(e) = 0
      BY <2>1, CountNone
    <3> QED BY <3>1, <2>1, <1>2
  <2> HIDE DEF e
  <2>3. \A a, b1 : ~Turns(e, a, b1)
    BY <2>2 DEF Turns
  <2>4. \A i \in 1 .. Len(e) : FALSE
    BY <2>2
  <2>5. PushOK(e, e)
    BY <2>2, <2>3, <2>4 DEF PushOK
  <2> QED BY <2>2, <2>5, <1>1 DEF e
<1>4. ASSUME NEW k \in 0 .. b, k > 0, k - 1 \in H PROVE k \in H
  <2>1. k \in 1 .. b
    BY <1>4
  <2>2. PushOK(SubSeq(ls, 1, k - 1), P[k - 1])
    BY <1>4
  <2>3. ls[k] \in Lines
    BY <2>1
  <2>4. SubSeq(ls, 1, k) = Append(SubSeq(ls, 1, k - 1), ls[k])
    BY <2>1, FirstLines
  <2>5. PushOK(Append(SubSeq(ls, 1, k - 1), ls[k]), Push(P[k - 1], ls[k]))
    BY <2>2, <2>3, PushKeepsOK
  <2> QED BY <2>1, <2>4, <2>5, <1>2
<1>5. b \in H
  <2> HIDE DEF H
  <2>1. 0 .. b \subseteq H
    BY <1>1, <1>3, <1>4, UpTo, Zenon
  <2> QED BY <2>1, <1>1
<1>6. SubSeq(ls, 1, b) = ls
  BY SubSeqFull
<1> QED BY <1>5, <1>6 DEF P

\* The least and the greatest of a nonempty set of numbers up to n.
LEMMA Extremes ==
  ASSUME NEW n \in Nat, NEW S \in SUBSET (1 .. n), S # {}
  PROVE  /\ Min(S) \in S /\ \A y \in S : Min(S) <= y
         /\ Max(S) \in S /\ \A y \in S : Max(S) >= y
<1>1. \E x \in S : \A y \in S : x <= y
  <2>1. S \in SUBSET Nat
    OBVIOUS
  <2>2. PICK x \in S : \A y \in S : ~(y < x)
    BY <2>1, Least, Zenon
  <2> QED BY <2>1, <2>2
<1>2. \E x \in S : \A y \in S : x >= y
  <2> DEFINE T == {k \in 0 .. n : n - k \in S}
  <2>1. T \in SUBSET Nat
    OBVIOUS
  <2>2. \A i \in S : n - i \in T
    <3>1. \A i \in S : i \in Nat /\ i <= n /\ n - (n - i) = i
      OBVIOUS
    <3> QED BY <3>1
  <2>3. T # {}
    <3> HIDE DEF T
    <3> QED BY <2>2
  <2>4. PICK t \in T : \A u \in T : ~(u < t)
    <3> HIDE DEF T
    <3> QED BY <2>1, <2>3, Least, Zenon
  <2>5. n - t \in S /\ t \in 0 .. n
    OBVIOUS
  <2>6. ASSUME NEW y \in S PROVE n - t >= y
    <3>1. ~(n - y < t)
      BY <2>2, <2>4
    <3>2. y \in Nat
      OBVIOUS
    <3> QED BY <3>1, <3>2, <2>5
  <2> QED BY <2>5, <2>6
<1>3. Min(S) \in S /\ \A y \in S : Min(S) <= y
  BY <1>1, Zenon DEF Min
<1>4. Max(S) \in S /\ \A y \in S : Max(S) >= y
  BY <1>2, Zenon DEF Max
<1> QED BY <1>3, <1>4

\* t has the lines of out from the first that says something to the last one.
CutAtEnds(t, out) ==
  \/ t = <<>> /\ \A i \in 1 .. Len(out) : out[i].words = Blank
  \/ \E m \in 1 .. Len(out) : \E n \in m .. Len(out) :
       /\ t = SubSeq(out, m, n)
       /\ out[m].words # Blank /\ out[n].words # Blank
       /\ \A i \in 1 .. Len(out) : i < m \/ i > n => out[i].words = Blank

\* That is what tidy leaves.
LEMMA TidySteps ==
  ASSUME NEW ls \in Seq(Lines), NEW out, out = Pushed(ls)[Len(ls)], out \in Seq(Lines)
  PROVE  CutAtEnds(Tidy(ls), out)
<1> DEFINE said == {i \in DOMAIN out : out[i].words # Blank}
<1>1. DOMAIN out = 1 .. Len(out) /\ Len(out) \in Nat
  OBVIOUS
<1>2. Tidy(ls) = IF said = {} THEN <<>> ELSE SubSeq(out, Min(said), Max(said))
  BY Zenon DEF Tidy
<1>3. CASE said = {}
  BY <1>1, <1>2, <1>3 DEF CutAtEnds
<1>4. CASE said # {}
  <2>1. said \in SUBSET (1 .. Len(out))
    BY <1>1
  <2> DEFINE m == Min(said)  n == Max(said)
  <2>2. m \in said /\ n \in said /\ \A y \in said : m <= y /\ n >= y
    <3> HIDE DEF said
    <3> QED BY <2>1, <1>1, <1>4, Extremes
  <2>3. Tidy(ls) = SubSeq(out, m, n)
    BY <1>2, <1>4
  <2> HIDE DEF m, n
  <2>4. m \in 1 .. Len(out) /\ n \in m .. Len(out) /\ out[m].words # Blank /\ out[n].words # Blank
    BY <1>1, <2>2
  <2>5. ASSUME NEW i \in 1 .. Len(out), i < m \/ i > n PROVE out[i].words = Blank
    BY <1>1, <2>2, <2>4, <2>5
  <2> QED BY <2>3, <2>4, <2>5 DEF CutAtEnds
<1> QED BY <1>3, <1>4

\* Lines that have nothing to be tidied.
Neat(ls) ==
  /\ ls \in Seq(Lines)
  /\ \A i \in 1 .. Len(ls) : ls[i].pad = 0
  /\ \A i \in 1 .. Len(ls) - 1 : ls[i].words # ls[i + 1].words
  /\ ls # <<>> => ls[1].words # Blank /\ ls[Len(ls)].words # Blank

\* To push them gives them back.
LEMMA NeatPushed ==
  ASSUME NEW ls, Neat(ls)
  PROVE  Pushed(ls)[Len(ls)] = ls
<1> DEFINE b == Len(ls)  P == Pushed(ls)
           H == {k \in 0 .. b : P[k] = SubSeq(ls, 1, k)}
<1>0. ls \in Seq(Lines)
  BY DEF Neat
<1>1. b \in Nat /\ 0 \in 0 .. b /\ b \in 0 .. b
  BY <1>0
<1>2. P[0] = <<>> /\ \A k \in 1 .. b : P[k] = Push(P[k - 1], ls[k])
  BY <1>0, PushedSteps
<1> HIDE DEF P
<1>3. 0 \in H
  <2>1. SubSeq(ls, 1, 0) = <<>>
    BY <1>0
  <2> QED BY <2>1, <1>1, <1>2
<1>4. ASSUME NEW k \in 0 .. b, k > 0, k - 1 \in H PROVE k \in H
  <2> DEFINE u == SubSeq(ls, 1, k)  v == SubSeq(ls, 1, k - 1)  l == ls[k]
  <2>1. k \in 1 .. b /\ P[k - 1] = v
    BY <1>4
  <2>2. l \in Lines /\ u = Append(v, l) /\ (v = <<>> <=> k = 1)
    BY <1>0, <2>1, FirstLines
  <2>3. [l EXCEPT !.pad = 0] = l
    <3>1. l.pad = 0
      BY <2>1 DEF Neat
    <3> QED BY <3>1, <2>2 DEF Lines
  <2>4. k # 1 => v[Len(v)].words # l.words
    <3> SUFFICES ASSUME k # 1 PROVE v[Len(v)].words # l.words
      OBVIOUS
    <3>1. k - 1 \in 1 .. Len(ls) - 1 /\ (k - 1) + 1 = k
      BY <2>1, <1>1
    <3>2. Len(v) = k - 1 /\ v[k - 1] = ls[k - 1]
      BY <3>1, <1>0
    <3>3. ls[k - 1].words # ls[(k - 1) + 1].words
      BY <3>1 DEF Neat
    <3> QED BY <3>1, <3>2, <3>3
  <2> HIDE DEF u, v, l
  <2>5. Push(v, l) = u
    BY <2>2, <2>3, <2>4 DEF Push
  <2>6. P[k] = Push(v, l)
    BY <2>1, <1>2 DEF l
  <2> QED BY <2>5, <2>6 DEF u
<1>5. b \in H
  <2> HIDE DEF H
  <2>1. 0 .. b \subseteq H
    BY <1>1, <1>3, <1>4, UpTo, Zenon
  <2> QED BY <2>1, <1>1
<1>6. SubSeq(ls, 1, b) = ls
  BY <1>0, SubSeqFull
<1> QED BY <1>5, <1>6 DEF P

\* And so does tidy.
LEMMA NeatTidy ==
  ASSUME NEW ls, Neat(ls)
  PROVE  Tidy(ls) = ls
<1>1. ls \in Seq(Lines) /\ ls = Pushed(ls)[Len(ls)]
  BY NeatPushed DEF Neat
<1>2. \/ Tidy(ls) = <<>> /\ \A i \in 1 .. Len(ls) : ls[i].words = Blank
      \/ \E m \in 1 .. Len(ls) : \E n \in m .. Len(ls) :
           /\ Tidy(ls) = SubSeq(ls, m, n)
           /\ ls[m].words # Blank /\ ls[n].words # Blank
           /\ \A i \in 1 .. Len(ls) : i < m \/ i > n => ls[i].words = Blank
  <2>1. CutAtEnds(Tidy(ls), ls)
    BY <1>1, TidySteps
  <2> QED BY <2>1 DEF CutAtEnds
<1>3. CASE Tidy(ls) = <<>> /\ \A i \in 1 .. Len(ls) : ls[i].words = Blank
  <2>1. ls # <<>> => 1 \in 1 .. Len(ls)
    BY <1>1
  <2>2. ls = <<>>
    BY <2>1, <1>3 DEF Neat
  <2> QED BY <2>2, <1>3
<1>4. ASSUME NEW m \in 1 .. Len(ls), NEW n \in m .. Len(ls), Tidy(ls) = SubSeq(ls, m, n),
             \A i \in 1 .. Len(ls) : i < m \/ i > n => ls[i].words = Blank
      PROVE  Tidy(ls) = ls
  <2>1. ls # <<>> /\ 1 \in 1 .. Len(ls) /\ Len(ls) \in 1 .. Len(ls) /\ Len(ls) \in Nat
    BY <1>1
  <2>2. ls[1].words # Blank /\ ls[Len(ls)].words # Blank
    BY <2>1 DEF Neat
  <2>3. ~(1 < m) /\ ~(Len(ls) > n)
    BY <2>1, <2>2, <1>4
  <2>4. m = 1 /\ n = Len(ls)
    BY <2>1, <2>3
  <2>5. SubSeq(ls, 1, Len(ls)) = ls
    BY <1>1, SubSeqFull
  <2> QED BY <2>4, <2>5, <1>4
<1> QED BY <1>2, <1>3, <1>4

\* The lines of a part.
LEMMA PartAt ==
  ASSUME NEW out \in Seq(Lines), NEW m \in 1 .. Len(out), NEW n \in m .. Len(out)
  PROVE  LET t == SubSeq(out, m, n)
         IN /\ t \in Seq(Lines) /\ t # <<>> /\ Len(t) = n - m + 1 /\ Len(t) <= Len(out)
            /\ \A i \in 1 .. n - m + 1 : t[i] = out[m + i - 1]
OBVIOUS

\* What tidy gives is neat, no longer, and has the changes between lines that say something.
LEMMA TidyGives ==
  ASSUME NEW ls \in Seq(Lines)
  PROVE  /\ Neat(Tidy(ls)) /\ Len(Tidy(ls)) <= Len(ls) /\ CountChars(Tidy(ls)) <= CountChars(ls)
         /\ \A a, b : Turns(Tidy(ls), a, b) => Turns(ls, a, b) /\ a # b
         /\ \A a, b : Turns(ls, a, b) /\ a # b /\ a # Blank /\ b # Blank => Turns(Tidy(ls), a, b)
<1> DEFINE t == Tidy(ls)
<1>0. PICK out : out = Pushed(ls)[Len(ls)]
  OBVIOUS
<1>1. PushOK(ls, out)
  BY <1>0, PushedOK
<1>2. out = Pushed(ls)[Len(ls)] /\ out \in Seq(Lines)
  BY <1>0, <1>1 DEF PushOK
<1>3. \/ t = <<>> /\ \A i \in 1 .. Len(out) : out[i].words = Blank
      \/ \E m \in 1 .. Len(out) : \E n \in m .. Len(out) :
           /\ t = SubSeq(out, m, n)
           /\ out[m].words # Blank /\ out[n].words # Blank
           /\ \A i \in 1 .. Len(out) : i < m \/ i > n => out[i].words = Blank
  <2>1. CutAtEnds(t, out)
    BY <1>2, TidySteps
  <2> HIDE DEF t
  <2> QED BY <2>1 DEF CutAtEnds
<1> HIDE DEF t
<1>4. /\ Len(out) <= Len(ls) /\ CountChars(out) <= CountChars(ls)
      /\ \A i \in 1 .. Len(out) : out[i].pad = 0
      /\ \A a, b : Turns(out, a, b) <=> Turns(ls, a, b) /\ a # b
  BY <1>1 DEF PushOK
<1>5. Len(out) \in Nat /\ Len(ls) \in Nat /\ CountChars(ls) \in Nat /\ CountChars(out) \in Nat
  <2>1. CountChars(ls) \in Nat
    BY CountSays
  <2>2. CountChars(out) \in Nat
    BY <1>2, CountSays
  <2> QED BY <2>1, <2>2, <1>2
<1>6. ASSUME t = <<>>, \A i \in 1 .. Len(out) : out[i].words = Blank
      PROVE  /\ Neat(t) /\ Len(t) <= Len(ls) /\ CountChars(t) <= CountChars(ls)
             /\ \A a, b : Turns(t, a, b) => Turns(ls, a, b) /\ a # b
             /\ \A a, b : Turns(ls, a, b) /\ a # b /\ a # Blank /\ b # Blank => Turns(t, a, b)
  <2>1. t \in Seq(Lines) /\ Len(t) = 0
    BY <1>6
  <2>2. Neat(t)
    BY <1>6, <2>1 DEF Neat
  <2>3. CountChars(t) = 0
    BY <1>6, CountNone
  <2>4. \A a, b : ~Turns(t, a, b)
    BY <2>1 DEF Turns
  <2>5. ASSUME NEW a, NEW b, Turns(ls, a, b), a # b, a # Blank PROVE FALSE
    <3>0. Turns(out, a, b)
      BY <1>4, <2>5
    <3>1. PICK i \in 1 .. Len(out) - 1 : out[i].words = a
      BY <3>0 DEF Turns
    <3>2. i \in 1 .. Len(out)
      BY <1>5
    <3> QED BY <3>1, <3>2, <1>6, <2>5
  <2>6. Len(t) <= Len(ls) /\ CountChars(t) <= CountChars(ls)
    BY <2>1, <2>3, <1>5
  <2> QED BY <2>2, <2>4, <2>5, <2>6, Zenon
<1>7. ASSUME NEW m \in 1 .. Len(out), NEW n \in m .. Len(out), t = SubSeq(out, m, n),
             out[m].words # Blank, out[n].words # Blank,
             \A i \in 1 .. Len(out) : i < m \/ i > n => out[i].words = Blank
      PROVE  /\ Neat(t) /\ Len(t) <= Len(ls) /\ CountChars(t) <= CountChars(ls)
             /\ \A a, b : Turns(t, a, b) => Turns(ls, a, b) /\ a # b
             /\ \A a, b : Turns(ls, a, b) /\ a # b /\ a # Blank /\ b # Blank => Turns(t, a, b)
  <2>1. /\ t \in Seq(Lines) /\ t # <<>> /\ Len(t) = n - m + 1 /\ Len(t) <= Len(out)
        /\ \A i \in 1 .. n - m + 1 : t[i] = out[m + i - 1]
    BY <1>2, <1>7, PartAt
  <2>2. m \in Nat /\ n \in Nat /\ 1 <= m /\ m <= n /\ n <= Len(out)
    BY <1>5
  <2>3. CountChars(t) <= CountChars(out) /\ CountChars(t) \in Nat
    <3>1. CountChars(t) <= CountChars(out)
      BY <1>2, <1>7, CountPart
    <3>2. CountChars(t) \in Nat
      BY <2>1, CountSays
    <3> QED BY <3>1, <3>2
  <2>4. ASSUME NEW a, NEW b, Turns(t, a, b) PROVE Turns(out, a, b)
    <3>1. PICK i \in 1 .. Len(t) - 1 : t[i].words = a /\ t[i + 1].words = b
      BY <2>4 DEF Turns
    <3> DEFINE j == m + i - 1
    <3>2. /\ i \in 1 .. n - m + 1 /\ i + 1 \in 1 .. n - m + 1 /\ j \in 1 .. Len(out) - 1
          /\ m + (i + 1) - 1 = j + 1
      BY <2>1, <2>2, <1>5
    <3> HIDE DEF j
    <3>3. t[i] = out[j] /\ t[i + 1] = out[j + 1]
      BY <2>1, <3>2 DEF j
    <3> QED BY <3>1, <3>2, <3>3 DEF Turns
  <2>5. ASSUME NEW a, NEW b, Turns(out, a, b), a # Blank, b # Blank PROVE Turns(t, a, b)
    <3>1. PICK j \in 1 .. Len(out) - 1 : out[j].words = a /\ out[j + 1].words = b
      BY <2>5 DEF Turns
    <3>2. j \in 1 .. Len(out) /\ j + 1 \in 1 .. Len(out) /\ j \in Nat
      BY <1>5
    <3>3. ~(j < m) /\ ~(j + 1 > n)
      BY <3>1, <3>2, <2>5, <1>7
    <3> DEFINE i == j - m + 1
    <3>4. /\ i \in 1 .. Len(t) - 1 /\ i \in 1 .. n - m + 1 /\ i + 1 \in 1 .. n - m + 1
          /\ m + i - 1 = j /\ m + (i + 1) - 1 = j + 1
      BY <2>1, <2>2, <3>2, <3>3
    <3> HIDE DEF i
    <3>5. t[i] = out[j] /\ t[i + 1] = out[j + 1]
      BY <2>1, <3>4
    <3> QED BY <3>1, <3>4, <3>5 DEF Turns
  <2>6. Neat(t)
    <3>1. ASSUME NEW i \in 1 .. Len(t) PROVE t[i].pad = 0
      <4>1. i \in 1 .. n - m + 1 /\ m + i - 1 \in 1 .. Len(out)
        BY <2>1, <2>2
      <4> QED BY <4>1, <2>1, <1>4
    <3>2. ASSUME NEW i \in 1 .. Len(t) - 1 PROVE t[i].words # t[i + 1].words
      <4>1. Turns(t, t[i].words, t[i + 1].words)
        BY DEF Turns
      <4> QED BY <4>1, <2>4, <1>4
    <3>3. t[1].words # Blank /\ t[Len(t)].words # Blank
      <4>1. 1 \in 1 .. n - m + 1 /\ m + 1 - 1 = m /\ n - m + 1 \in 1 .. n - m + 1 /\ m + (n - m + 1) - 1 = n
        BY <2>2
      <4>2. t[1] = out[m] /\ t[n - m + 1] = out[n]
        BY <2>1, <4>1
      <4> QED BY <4>2, <2>1, <1>7
    <3> QED BY <2>1, <3>1, <3>2, <3>3 DEF Neat
  <2>7. Len(t) <= Len(ls) /\ CountChars(t) <= CountChars(ls)
    BY <1>4, <1>5, <2>1, <2>2, <2>3
  <2> QED BY <1>4, <2>4, <2>5, <2>6, <2>7, Zenon
<1> QED BY <1>3, <1>6, <1>7, Zenon DEF t

-----------------------------------------------------------------------------
\* The changes of lines, as TidyKeeps gathers them.
LEMMA Changes ==
  ASSUME NEW ls \in Seq(Lines), NEW c
  PROVE  c \in {<<Words(ls)[i], Words(ls)[i + 1]>> : i \in 1 .. Len(ls) - 1}
           <=> \E a, b : c = <<a, b>> /\ Turns(ls, a, b)
<1>1. \A i \in 1 .. Len(ls) - 1 : i \in DOMAIN ls /\ i + 1 \in DOMAIN ls
  OBVIOUS
<1>2. \A i \in 1 .. Len(ls) - 1 : Words(ls)[i] = ls[i].words /\ Words(ls)[i + 1] = ls[i + 1].words
  BY <1>1 DEF Words
<1>3. ASSUME NEW i \in 1 .. Len(ls) - 1, c = <<Words(ls)[i], Words(ls)[i + 1]>>
      PROVE  \E a, b : c = <<a, b>> /\ Turns(ls, a, b)
  <2>1. c = <<ls[i].words, ls[i + 1].words>>
    BY <1>2, <1>3
  <2>2. Turns(ls, ls[i].words, ls[i + 1].words)
    BY DEF Turns
  <2> QED BY <2>1, <2>2
<1>4. ASSUME NEW a, NEW b, c = <<a, b>>, Turns(ls, a, b)
      PROVE  \E i \in 1 .. Len(ls) - 1 : c = <<Words(ls)[i], Words(ls)[i + 1]>>
  <2>1. PICK i \in 1 .. Len(ls) - 1 : ls[i].words = a /\ ls[i + 1].words = b
    BY <1>4 DEF Turns
  <2>2. c = <<Words(ls)[i], Words(ls)[i + 1]>>
    BY <1>2, <1>4, <2>1
  <2> QED BY <2>2
<1> QED BY <1>3, <1>4

\* A tidied text says what it said.
LEMMA TidyRight ==
  ASSUME context \in Seq(Lines)
  PROVE  TidyKeeps
<1> DEFINE changes(ls) == {<<Words(ls)[i], Words(ls)[i + 1]>> : i \in 1 .. Len(ls) - 1}
           t == Tidy(context)
<1>1. /\ Neat(t) /\ Len(t) <= Len(context) /\ CountChars(t) <= CountChars(context)
      /\ \A a, b : Turns(t, a, b) => Turns(context, a, b) /\ a # b
      /\ \A a, b : Turns(context, a, b) /\ a # b /\ a # Blank /\ b # Blank => Turns(t, a, b)
  BY TidyGives
<1> HIDE DEF t
<1>2. Tidy(t) = t /\ t \in Seq(Lines)
  BY <1>1, NeatTidy DEF Neat
<1>3. \A c : c \in changes(context) <=> \E a, b : c = <<a, b>> /\ Turns(context, a, b)
  BY Changes
<1>4. \A c : c \in changes(t) <=> \E a, b : c = <<a, b>> /\ Turns(t, a, b)
  BY <1>2, Changes
<1> HIDE DEF changes
<1>5. ASSUME NEW c \in changes(context), c[1] # c[2], Blank \notin {c[1], c[2]}
      PROVE  c \in changes(t)
  <2>1. PICK a, b : c = <<a, b>> /\ Turns(context, a, b)
    BY <1>3
  <2>2. a # b /\ a # Blank /\ b # Blank
    BY <1>5, <2>1
  <2> QED BY <2>1, <2>2, <1>1, <1>4
<1>6. ASSUME NEW c \in changes(t) PROVE c \in changes(context) /\ c[1] # c[2]
  <2>1. PICK a, b : c = <<a, b>> /\ Turns(t, a, b)
    BY <1>4
  <2>2. Turns(context, a, b) /\ a # b
    BY <2>1, <1>1
  <2> QED BY <2>1, <2>2, <1>3
<1> USE DEF changes
<1> QED BY <1>1, <1>2, <1>5, <1>6, Zenon DEF TidyKeeps, t

\* The smaller of two.
LEMMA MinOfTwo ==
  ASSUME NEW x \in Nat, NEW y \in Nat
  PROVE  Min({x, y}) = IF x <= y THEN x ELSE y
<1>1. \E z \in {x, y} : \A w \in {x, y} : z =< w
  OBVIOUS
<1>2. Min({x, y}) \in {x, y} /\ \A w \in {x, y} : Min({x, y}) =< w
  BY <1>1, Zenon DEF Min
<1> QED BY <1>2

\* What is compressed fits.
LEMMA CompressedRight ==
  ASSUME context \in Seq(Lines), budget_chars \in Nat
  PROVE  CompressedFits
<1> DEFINE t == Tidy(context)  n == CountChars(context)  m == CountChars(t)  b == budget_chars
           c == CompressContext(context, b)  cut == TruncateChars(m, b)
<1>1. n \in Nat /\ m \in Nat
  <2>1. t \in Seq(Lines)
    BY TidyGives DEF Neat
  <2> HIDE DEF t
  <2>2. m \in Nat
    BY <2>1, CountSays
  <2>3. n \in Nat
    BY CountSays
  <2> QED BY <2>2, <2>3
<1>2. c = IF n <= b THEN [lines |-> context, kept |-> n, marked |-> FALSE]
          ELSE IF m <= b THEN [lines |-> t, kept |-> m, marked |-> FALSE]
          ELSE [lines |-> t, kept |-> cut.kept, marked |-> cut.marked]
  <2> DEFINE whole(ls) == [lines |-> ls, kept |-> CountChars(ls), marked |-> FALSE]
  <2>1. c = CASE n <= b -> whole(context)
              [] n > b /\ m <= b -> whole(t)
              [] OTHER -> [lines |-> t, kept |-> cut.kept, marked |-> cut.marked]
    BY Zenon DEF CompressContext
  <2>2. (n > b <=> ~(n <= b))
    BY <1>1
  <2> HIDE DEF n, m, b, t, c, cut
  <2> QED BY <2>1, <2>2 DEF n, m
<1>3. cut = IF b > MARKER THEN [kept |-> IF m <= b - MARKER THEN m ELSE b - MARKER, marked |-> TRUE]
            ELSE [kept |-> IF m <= b THEN m ELSE b, marked |-> FALSE]
  <2>1. Min({m, b}) = IF m <= b THEN m ELSE b
    BY <1>1, MinOfTwo
  <2>2. b > MARKER => b - MARKER \in Nat
    BY DEF MARKER
  <2>3. b > MARKER => Min({m, b - MARKER}) = IF m <= b - MARKER THEN m ELSE b - MARKER
    <3> HIDE DEF m, b
    <3> QED BY <1>1, <2>2, MinOfTwo
  <2> HIDE DEF m, b
  <2> QED BY <2>1, <2>3 DEF TruncateChars
<1>4. b \in Nat
  OBVIOUS
<1> DEFINE size == c.kept + IF c.marked THEN MARKER ELSE 0
<1>5. size <= b /\ (n <= b => c.lines = context) /\ (c.kept < CountChars(c.lines) => size = b)
  <2>1. CASE n <= b
    <3>1. c.lines = context /\ c.kept = n /\ c.marked = FALSE /\ CountChars(c.lines) = n
      <4> HIDE DEF b, c, t, m, cut
      <4>1. c = [lines |-> context, kept |-> n, marked |-> FALSE]
        BY <1>2, <2>1
      <4> QED BY <4>1
    <3> HIDE DEF n, b, c, m, t, cut
    <3> QED BY <3>1, <2>1, <1>1, <1>4
  <2>2. CASE ~(n <= b) /\ m <= b
    <3>1. c.lines = t /\ c.kept = m /\ c.marked = FALSE /\ CountChars(c.lines) = m
      <4> HIDE DEF b, c, t, n, cut
      <4>1. c = [lines |-> t, kept |-> m, marked |-> FALSE]
        BY <1>2, <2>2
      <4> QED BY <4>1
    <3> HIDE DEF n, b, c, m, t, cut
    <3> QED BY <3>1, <2>2, <1>1, <1>4
  <2>3. CASE ~(n <= b) /\ ~(m <= b)
    <3>1. c.lines = t /\ c.kept = cut.kept /\ c.marked = cut.marked /\ CountChars(c.lines) = m
      <4> HIDE DEF b, c, t, n, cut
      <4>1. c = [lines |-> t, kept |-> cut.kept, marked |-> cut.marked]
        BY <1>2, <2>3
      <4> QED BY <4>1
    <3> HIDE DEF n, b, c, m, t, cut
    <3>2. CASE b > MARKER
      <4>1. cut.kept = b - MARKER /\ cut.marked = TRUE
        BY <1>1, <1>3, <1>4, <2>3, <3>2 DEF MARKER
      <4> QED BY <4>1, <3>1, <2>3, <1>1, <1>4 DEF MARKER
    <3>3. CASE ~(b > MARKER)
      <4>1. cut.kept = b /\ cut.marked = FALSE
        BY <1>1, <1>3, <1>4, <2>3, <3>3
      <4> QED BY <4>1, <3>1, <2>3, <1>1, <1>4
    <3> QED BY <3>2, <3>3
  <2> QED BY <2>1, <2>2, <2>3
<1> QED BY <1>5, Zenon DEF CompressedFits

\* A prompt gets as much of its context as the budget allows, whatever the text and the
\* budget: what is written fits, a text that fits is not touched and one that is cut fills
\* the budget, and a text that was tidied says what it said, with no line twice in a row.
THEOREM ContextIsKept == CallSpec => []ContextKept
<1> DEFINE CallInv == context \in Seq(Lines) /\ budget_chars \in Nat
<1>1. CallInit => CallInv
  BY TokenJuiceAssumption DEF CallInit
<1>2. CallInv /\ [FALSE]_call => CallInv'
  BY DEF call
<1>3. CallInv => ContextKept
  BY CompressedRight, TidyRight DEF ContextKept
<1> QED BY <1>1, <1>2, <1>3, PTL DEF CallSpec
=============================================================================
