--------------------------- MODULE Handoff_proofs ---------------------------
(***************************************************************************)
(* Theorems about Handoff and their proofs: for any number of machines,    *)
(* commands, copies and quests, and any dependencies.                      *)
(***************************************************************************)
EXTENDS Handoff, TLAPS

\* What quest i needs has completed once, is among done.
Free(i, done) == \A p \in Needs : p[1] = i => p[2] \in done

\* What quest i needs is completed in qs.
Satisfied(i, qs) == \A p \in Needs : p[1] = i => qs[p[2]] = "completed"

\* The quests of a copy, or of a bundle: the plan at least, in its order, and what is
\* completed is among done.
Whole(qs, done) ==
  /\ qs \in Seq(QuestStatuses) /\ Planned <= Len(qs) /\ Len(qs) <= MaxPlaces
  /\ \A i \in DOMAIN qs : (qs[i] # "pending" => Free(i, done)) /\ (qs[i] = "completed" => i \in done)

\* qs has become qs2, and what had completed has completed.
Kept(qs, qs2) == \A i \in DOMAIN qs : qs[i] = "completed" => qs2[i] = "completed"

Commands == [pc: {"idle", "recover", "loop", "seen", "works", "fires", "ended"}, copy: Copies,
             quest: Nat, rows: SUBSET Nat]

Active(a) == a.pc \notin {"idle", "ended"}

\* A command at a, on a copy whose quests are qs: what it has listed and looked at is there
\* and free to begin.
Placed(a, qs, done) ==
  /\ a.rows \subseteq DOMAIN qs
  /\ a.pc # "recover" => \A i \in a.rows : Free(i, done)
  /\ a.pc \in {"seen", "works"} => a.quest \in DOMAIN qs /\ Free(a.quest, done)

\* Running quests of copy c are orphans or have a command at work on them.
Held(c, qs, ls, places) ==
  \A i \in DOMAIN qs : qs[i] = "running" =>
    \/ ls[i] = Gone
    \/ \E o \in Threads : ls[i] = o /\ places[o].pc = "works" /\ places[o].copy = c /\ places[o].quest = i

\* Command t, if no other is on its copy: what it has read is still so.
Solo(t, a, qs, ls) ==
  /\ a.pc = "recover" => \A i \in a.rows : qs[i] = "running"
  /\ a.pc # "recover" => \A i \in a.rows : qs[i] = "pending" /\ Satisfied(i, qs)
  /\ a.pc \in {"seen", "works"} => a.quest \notin a.rows
  /\ a.pc = "seen" => qs[a.quest] \in {"pending", "needs_input"} /\ Satisfied(a.quest, qs)
  /\ a.pc = "works" => qs[a.quest] = "running" /\ ls[a.quest] = t

Types ==
  /\ last \in Copies /\ alone \in BOOLEAN
  /\ handoff \in [Copies -> {"none", "suspended", "resumed"}]
  /\ owner \in [Copies -> Machines \cup {Nobody}]
  /\ statuses \in [Copies -> Seq(QuestStatuses)] /\ DOMAIN deps = Copies
  /\ lease \in [Copies -> [1 .. MaxPlaces -> Threads \cup {Nobody, Gone}]]
  /\ at \in [Threads -> Commands] /\ achieved \in [Copies -> SUBSET Nat]

CopiesInv ==
  /\ \A c \in Copies : c <= last =>
       Whole(statuses[c], achieved[c]) /\ deps[c] = Needs /\ (alone => InOrder(statuses[c], Needs))
  /\ \A c \in Copies : c > last => statuses[c] = <<>> /\ deps[c] = {}

ThreadsInv ==
  /\ \A t \in Threads : at[t].copy <= last /\ Placed(at[t], statuses[at[t].copy], achieved[at[t].copy])
  /\ \A c \in Copies : Held(c, statuses[c], lease[c], at)
  /\ alone => /\ \A t, o \in Threads : Active(at[t]) /\ Active(at[o]) /\ at[t].copy = at[o].copy => t = o
              /\ \A t \in Threads : Active(at[t]) => Solo(t, at[t], statuses[at[t].copy], lease[at[t].copy])

\* The quests qs were read from a copy that now has qs2, and has achieved done.
Read(qs, qs2, done) ==
  /\ Whole(qs, done) /\ Len(qs) <= Len(qs2)
  /\ alone => InOrder(qs, Needs) /\ Kept(qs, qs2)

SusInv ==
  /\ sus \in [pc: {"idle", "checked", "read", "marked"}, of: Copies \cup {Nobody},
              machine: Machines \cup {Nobody}, quests: Seq(QuestStatuses)]
  /\ sus # NoSuspend => sus.of \in Copies /\ sus.of <= last /\ sus.machine \in Machines
  /\ sus.pc \in {"read", "marked"} => Read(sus.quests, statuses[sus.of], achieved[sus.of])

BundleInv ==
  bundle # Nobody =>
    /\ bundle \in [of: Copies, quests: Seq(QuestStatuses), deps: {Needs}] /\ bundle.of <= last
    /\ Read(bundle.quests, statuses[bundle.of], achieved[bundle.of])

IInv == Types /\ CopiesInv /\ ThreadsInv /\ SusInv /\ BundleInv

-----------------------------------------------------------------------------
(* Sequences of statuses.                                                  *)

LEMMA Numbers == MaxCopies \in Nat \ {0} /\ Planned \in Nat /\ MaxPlaces \in Nat /\ Planned <= MaxPlaces
BY HandoffAssumption

LEMMA Pairs == ASSUME NEW p \in Needs PROVE p[1] \in 1 .. Planned /\ p[2] \in 1 .. Planned /\ p = <<p[1], p[2]>>
BY HandoffAssumption

\* The ends of a dependency are quests.
LEMMA Places ==
  ASSUME NEW qs, NEW done, Whole(qs, done), NEW p \in Needs PROVE p[1] \in DOMAIN qs /\ p[2] \in DOMAIN qs
BY Pairs, Numbers DEF Whole

LEMMA Replaced ==
  ASSUME NEW S, NEW s \in Seq(S), NEW i \in DOMAIN s, NEW x \in S
  PROVE  /\ [s EXCEPT ![i] = x] \in Seq(S) /\ DOMAIN [s EXCEPT ![i] = x] = DOMAIN s
         /\ Len([s EXCEPT ![i] = x]) = Len(s)
         /\ \A j \in DOMAIN s : [s EXCEPT ![i] = x][j] = IF j = i THEN x ELSE s[j]
OBVIOUS

LEMMA Appended ==
  ASSUME NEW S, NEW s \in Seq(S), NEW x \in S
  PROVE  /\ Append(s, x) \in Seq(S) /\ Len(Append(s, x)) = Len(s) + 1 /\ Len(s) \in Nat
         /\ DOMAIN Append(s, x) = DOMAIN s \cup {Len(s) + 1} /\ Append(s, x)[Len(s) + 1] = x
         /\ \A j \in DOMAIN s : Append(s, x)[j] = s[j]
OBVIOUS

LEMMA Lengths ==
  ASSUME NEW S, NEW a \in Seq(S), NEW b \in Seq(S), Len(a) <= Len(b) PROVE DOMAIN a \subseteq DOMAIN b
OBVIOUS

\* A status is changed to x, which is allowed for a quest that is free.
LEMMA ChangedWhole ==
  ASSUME NEW qs, NEW done, Whole(qs, done), NEW i \in DOMAIN qs, NEW x \in QuestStatuses, NEW done2, done \subseteq done2,
         x # "pending" => Free(i, done2), x = "completed" => i \in done2
  PROVE  Whole([qs EXCEPT ![i] = x], done2)
<1> DEFINE new == [qs EXCEPT ![i] = x]
<1>1. /\ new \in Seq(QuestStatuses) /\ DOMAIN new = DOMAIN qs /\ Len(new) = Len(qs)
      /\ \A j \in DOMAIN qs : new[j] = IF j = i THEN x ELSE qs[j]
  BY Replaced DEF Whole
<1> HIDE DEF new
<1>2. ASSUME NEW j \in DOMAIN qs PROVE (new[j] # "pending" => Free(j, done2)) /\ (new[j] = "completed" => j \in done2)
  <2>1. (qs[j] # "pending" => Free(j, done)) /\ (qs[j] = "completed" => j \in done)
    BY DEF Whole
  <2> QED
    BY <1>1, <2>1 DEF Free
<1> QED
  BY <1>1, <1>2 DEF Whole, new

\* A status that was not completed is changed, and if it was pending what it needs is completed.
LEMMA ChangedOrder ==
  ASSUME NEW qs, NEW done, Whole(qs, done), InOrder(qs, Needs), NEW i \in DOMAIN qs, qs[i] # "completed",
         NEW x \in QuestStatuses, qs[i] = "pending" => Satisfied(i, qs)
  PROVE  InOrder([qs EXCEPT ![i] = x], Needs) /\ Kept(qs, [qs EXCEPT ![i] = x])
<1> DEFINE new == [qs EXCEPT ![i] = x]
<1>1. /\ DOMAIN new = DOMAIN qs /\ \A j \in DOMAIN qs : new[j] = IF j = i THEN x ELSE qs[j]
  BY Replaced DEF Whole
<1> HIDE DEF new
<1>2. ASSUME NEW p \in Needs, new[p[1]] # "pending" PROVE new[p[2]] = "completed"
  <2>1. p[1] \in DOMAIN qs /\ p[2] \in DOMAIN qs
    BY Places
  <2>2. qs[p[1]] # "pending" => qs[p[2]] = "completed"
    BY DEF InOrder
  <2>3. CASE p[1] = i
    BY <1>1, <2>1, <2>2, <2>3 DEF Satisfied
  <2>4. CASE p[1] # i
    BY <1>1, <1>2, <2>1, <2>2, <2>4
  <2> QED
    BY <2>3, <2>4
<1> QED
  BY <1>1, <1>2 DEF InOrder, Kept, new

LEMMA Grown ==
  ASSUME NEW qs, NEW done, Whole(qs, done), Len(qs) < MaxPlaces
  PROVE  /\ Whole(Append(qs, "pending"), done) /\ Kept(qs, Append(qs, "pending"))
         /\ InOrder(qs, Needs) => InOrder(Append(qs, "pending"), Needs)
<1> DEFINE new == Append(qs, "pending")
<1>1. /\ new \in Seq(QuestStatuses) /\ Len(new) = Len(qs) + 1 /\ Len(qs) \in Nat /\ DOMAIN new = DOMAIN qs \cup {Len(qs) + 1}
      /\ new[Len(qs) + 1] = "pending" /\ \A j \in DOMAIN qs : new[j] = qs[j]
  BY Appended DEF Whole, QuestStatuses
<1> HIDE DEF new
<1>2. InOrder(qs, Needs) => InOrder(new, Needs)
  BY <1>1, Places DEF InOrder
<1> QED
  BY <1>1, <1>2, Numbers DEF Whole, Kept, new

\* The quests of a bundle as they are imported.
LEMMA Imported ==
  ASSUME NEW qs, NEW done, Whole(qs, done)
  PROVE  /\ Whole([i \in DOMAIN qs |-> ResumeStatus(qs[i])], done)
         /\ InOrder(qs, Needs) => InOrder([i \in DOMAIN qs |-> ResumeStatus(qs[i])], Needs)
         /\ \A i \in DOMAIN qs : ResumeStatus(qs[i]) # "running"
<1> DEFINE new == [i \in DOMAIN qs |-> ResumeStatus(qs[i])]
<1>1. qs \in Seq(QuestStatuses) /\ Len(qs) \in Nat /\ DOMAIN qs = 1 .. Len(qs)
  BY DEF Whole
<1>2. \A i \in DOMAIN qs : ResumeStatus(qs[i]) \in QuestStatuses \ {"running"}
  BY <1>1 DEF ResumeStatus, QuestStatuses
<1>3. new \in Seq(QuestStatuses) /\ Len(new) = Len(qs) /\ DOMAIN new = DOMAIN qs /\ \A i \in DOMAIN qs : new[i] = ResumeStatus(qs[i])
  BY <1>1, <1>2
<1> HIDE DEF new
<1>4. InOrder(qs, Needs) => InOrder(new, Needs)
  BY <1>3, Places DEF InOrder, ResumeStatus
<1>5. \A i \in DOMAIN new : (new[i] # "pending" => qs[i] # "pending") /\ (new[i] = "completed" => qs[i] = "completed")
  BY <1>3 DEF ResumeStatus
<1>6. Whole(new, done)
  BY <1>1, <1>3, <1>5 DEF Whole
<1> QED
  BY <1>2, <1>4, <1>6 DEF new

LEMMA ReadOn ==
  ASSUME NEW qs, NEW a \in Seq(QuestStatuses), NEW b \in Seq(QuestStatuses), NEW done, NEW done2, Read(qs, a, done),
         done \subseteq done2, Len(a) <= Len(b), alone => Kept(a, b)
  PROVE  Read(qs, b, done2)
<1>1. Whole(qs, done2)
  BY DEF Read, Whole, Free
<1>2. Len(qs) <= Len(b) /\ DOMAIN qs \subseteq DOMAIN a
  BY DEF Read, Whole
<1> QED
  BY <1>1, <1>2 DEF Read, Kept

-----------------------------------------------------------------------------
(* The steps of commands.                                                  *)

LEMMA Stored ==
  ASSUME IInv
  PROVE  /\ Types /\ CopiesInv /\ ThreadsInv /\ SusInv /\ BundleInv
         /\ last \in Nat /\ last > 0 /\ last <= MaxCopies /\ \A c \in Copies : c \in Nat
         /\ \A t \in Threads : at[t] \in Commands /\ at[t].copy \in Copies /\ at[t].copy <= last
BY Numbers DEF IInv, Types, Copies, ThreadsInv, Commands

LEMMA OneCopy ==
  ASSUME IInv, NEW c \in Copies, c <= last
  PROVE  /\ Whole(statuses[c], achieved[c]) /\ statuses[c] \in Seq(QuestStatuses) /\ deps[c] = Needs
         /\ alone => InOrder(statuses[c], Needs)
         /\ achieved[c] \subseteq Nat /\ lease[c] \in [1 .. MaxPlaces -> Threads \cup {Nobody, Gone}]
         /\ DOMAIN statuses[c] \subseteq 1 .. MaxPlaces
<1>1. Whole(statuses[c], achieved[c])
  BY Stored DEF CopiesInv
<1>2. DOMAIN statuses[c] \subseteq 1 .. MaxPlaces
  BY <1>1, Numbers DEF Whole
<1> QED
  BY <1>1, <1>2, Stored DEF CopiesInv, Types, Whole

\* Command t, at work on copy c, goes to a, and the copy's quests, its record and its leases
\* change to new, done and ls.
LEMMA Acts ==
  ASSUME IInv, NEW t \in Threads, NEW c \in Copies, c <= last, NEW a \in Commands, NEW new, NEW done \in SUBSET Nat,
         NEW ls \in [1 .. MaxPlaces -> Threads \cup {Nobody, Gone}],
         Active(at[t]) => at[t].copy = c,
         alone => Active(at[t]) \/ \A o \in Threads : Active(at[o]) => at[o].copy # c,
         statuses' = [statuses EXCEPT ![c] = new], achieved' = [achieved EXCEPT ![c] = done],
         lease' = [lease EXCEPT ![c] = ls], at' = [at EXCEPT ![t] = a], UNCHANGED <<campaign, deps, alone, sus, bundle>>,
         Whole(new, done), Len(statuses[c]) <= Len(new), achieved[c] \subseteq done, Held(c, new, ls, at'),
         alone => InOrder(new, Needs) /\ Kept(statuses[c], new),
         a = Ended \/ (a.copy = c /\ Placed(a, new, done) /\ (alone => Solo(t, a, new, ls)))
  PROVE  IInv'
<1>0. Types /\ CopiesInv /\ ThreadsInv /\ SusInv /\ BundleInv /\ UNCHANGED <<last, handoff, owner, deps, alone, sus, bundle>>
  BY Stored DEF campaign
<1>1. /\ \A d \in Copies : statuses'[d] = (IF d = c THEN new ELSE statuses[d])
      /\ \A d \in Copies : achieved'[d] = (IF d = c THEN done ELSE achieved[d])
      /\ \A d \in Copies : lease'[d] = (IF d = c THEN ls ELSE lease[d])
      /\ \A o \in Threads : at'[o] = (IF o = t THEN a ELSE at[o])
  BY <1>0 DEF Types
<1>2. Types'
  <2>1. statuses' \in [Copies -> Seq(QuestStatuses)]
    BY <1>0 DEF Types, Whole
  <2>2. achieved' \in [Copies -> SUBSET Nat] /\ at' \in [Threads -> Commands]
        /\ lease' \in [Copies -> [1 .. MaxPlaces -> Threads \cup {Nobody, Gone}]]
    BY <1>0 DEF Types
  <2> QED
    BY <1>0, <2>1, <2>2 DEF Types
<1>3. CopiesInv'
  <2>1. \A d \in Copies : d > last => d # c
    BY Stored
  <2> QED
    BY <1>0, <1>1, <2>1 DEF CopiesInv
<1>4. \A d \in Copies : /\ statuses[d] \in Seq(QuestStatuses) /\ statuses'[d] \in Seq(QuestStatuses)
                        /\ achieved[d] \subseteq achieved'[d] /\ Len(statuses[d]) <= Len(statuses'[d])
                        /\ DOMAIN statuses[d] \subseteq DOMAIN statuses'[d]
                        /\ alone => Kept(statuses[d], statuses'[d])
  <2> SUFFICES ASSUME NEW d \in Copies
               PROVE  /\ statuses[d] \in Seq(QuestStatuses) /\ statuses'[d] \in Seq(QuestStatuses)
                      /\ achieved[d] \subseteq achieved'[d] /\ Len(statuses[d]) <= Len(statuses'[d])
                      /\ DOMAIN statuses[d] \subseteq DOMAIN statuses'[d]
                      /\ alone => Kept(statuses[d], statuses'[d])
    OBVIOUS
  <2>1. statuses[d] \in Seq(QuestStatuses) /\ statuses'[d] \in Seq(QuestStatuses)
    BY <1>0, <1>2 DEF Types
  <2>2. Len(statuses[d]) <= Len(statuses'[d])
    BY <1>1, <2>1
  <2> QED
    BY <1>1, <2>1, <2>2, Lengths DEF Kept
<1>5. ThreadsInv'
  <2>1. ASSUME NEW o \in Threads PROVE at'[o].copy <= last /\ Placed(at'[o], statuses'[at'[o].copy], achieved'[at'[o].copy])
    <3>1. CASE o = t /\ a = Ended
      BY <1>1, <3>1, Stored DEF Placed, Ended, NoCommand
    <3>2. CASE o = t /\ a # Ended
      BY <1>1, <3>2
    <3>3. CASE o # t
      <4>1. at'[o] = at[o] /\ at[o].copy \in Copies /\ at[o].copy <= last
            /\ Placed(at[o], statuses[at[o].copy], achieved[at[o].copy])
        BY <1>0, <1>1, <3>3, Stored DEF ThreadsInv
      <4> QED
        BY <1>4, <4>1 DEF Placed, Free
    <3> QED
      BY <3>1, <3>2, <3>3
  <2>2. ASSUME NEW d \in Copies PROVE Held(d, statuses'[d], lease'[d], at')
    <3>1. CASE d = c
      BY <1>1, <3>1
    <3>2. CASE d # c
      <4>1. statuses'[d] = statuses[d] /\ lease'[d] = lease[d] /\ Held(d, statuses[d], lease[d], at)
        BY <1>0, <1>1, <3>2 DEF ThreadsInv
      <4>2. \A o \in Threads : at[o].pc = "works" /\ at[o].copy = d => at'[o] = at[o]
        BY <1>1, <3>2 DEF Active
      <4> SUFFICES Held(d, statuses[d], lease[d], at')
        BY <4>1
      <4> SUFFICES ASSUME NEW i \in DOMAIN statuses[d], statuses[d][i] = "running", lease[d][i] # Gone
                   PROVE  \E o \in Threads : /\ lease[d][i] = o /\ at'[o].pc = "works"
                                              /\ at'[o].copy = d /\ at'[o].quest = i
        BY DEF Held
      <4>3. PICK o \in Threads : lease[d][i] = o /\ at[o].pc = "works" /\ at[o].copy = d /\ at[o].quest = i
        BY <4>1 DEF Held
      <4>4. at'[o] = at[o]
        BY <4>2, <4>3
      <4> QED
        BY <4>3, <4>4
    <3> QED
      BY <3>1, <3>2
  <2>3. ASSUME alone, NEW o \in Threads, o # t, Active(at[o]) PROVE at[o].copy # c
    BY <1>0, <2>3 DEF ThreadsInv
  <2>4. ~Active(Ended)
    BY DEF Active, Ended, NoCommand
  <2>5. ASSUME alone, NEW o \in Threads, NEW u \in Threads, Active(at'[o]), Active(at'[u]), at'[o].copy = at'[u].copy PROVE o = u
    BY <1>0, <1>1, <2>3, <2>4, <2>5 DEF ThreadsInv
  <2>6. ASSUME alone, NEW o \in Threads, Active(at'[o])
        PROVE  Solo(o, at'[o], statuses'[at'[o].copy], lease'[at'[o].copy])
    <3>1. CASE o = t
      BY <1>1, <2>4, <2>6, <3>1
    <3>2. CASE o # t
      <4>1. at'[o] = at[o] /\ at[o].copy # c /\ at[o].copy \in Copies
        BY <1>1, <2>3, <2>6, <3>2, Stored
      <4> QED
        BY <1>0, <1>1, <2>6, <4>1 DEF ThreadsInv
    <3> QED
      BY <3>1, <3>2
  <2>7. (\A o \in Threads : at[o].copy <= last /\ Placed(at[o], statuses[at[o].copy], achieved[at[o].copy]))'
    BY <1>0, <2>1
  <2>8. (\A d \in Copies : Held(d, statuses[d], lease[d], at))'
    BY <2>2
  <2>9. alone' = alone
    BY <1>0
  <2>10. alone' => (\A o, u \in Threads : Active(at[o]) /\ Active(at[u]) /\ at[o].copy = at[u].copy => o = u)'
    BY <2>5, <2>9
  <2>11. alone' => (\A o \in Threads : Active(at[o]) => Solo(o, at[o], statuses[at[o].copy], lease[at[o].copy]))'
    BY <2>6, <2>9
  <2>12. (alone => /\ \A o, u \in Threads : Active(at[o]) /\ Active(at[u]) /\ at[o].copy = at[u].copy => o = u
                  /\ \A o \in Threads : Active(at[o]) => Solo(o, at[o], statuses[at[o].copy], lease[at[o].copy]))'
    BY <2>10, <2>11
  <2> QED
    BY <2>7, <2>8, <2>12 DEF ThreadsInv
<1>6. SusInv'
  <2>1. sus.pc \in {"read", "marked"} => sus # NoSuspend
    BY DEF NoSuspend
  <2>2. sus.pc \in {"read", "marked"} => Read(sus.quests, statuses'[sus.of], achieved'[sus.of])
    BY <1>0, <1>4, <2>1, ReadOn DEF SusInv
  <2>3. sus.pc \in {"read", "marked"} => Read(sus.quests, statuses[sus.of], achieved[sus.of])'
    BY <1>0, <2>2 DEF Read
  <2> QED
    BY <1>0, <2>3 DEF SusInv
<1>7. BundleInv'
  <2>1. bundle # Nobody => Read(bundle.quests, statuses'[bundle.of], achieved'[bundle.of])
    BY <1>0, <1>4, ReadOn DEF BundleInv
  <2>2. bundle # Nobody => Read(bundle.quests, statuses[bundle.of], achieved[bundle.of])'
    BY <1>0, <2>1 DEF Read
  <2> QED
    BY <1>0, <2>2 DEF BundleInv
<1> QED
  BY <1>2, <1>3, <1>5, <1>6, <1>7 DEF IInv

\* Command t looks at its copy, and no more.
LEMMA Looks ==
  ASSUME IInv, NEW t \in Threads, NEW c \in Copies, c <= last, NEW a \in Commands, at[t].pc # "works",
         Active(at[t]) => at[t].copy = c,
         alone => Active(at[t]) \/ \A o \in Threads : Active(at[o]) => at[o].copy # c,
         at' = [at EXCEPT ![t] = a], UNCHANGED <<campaign, statuses, deps, lease, achieved, alone, sus, bundle>>,
         a = Ended \/ (a.copy = c /\ Placed(a, statuses[c], achieved[c]) /\ (alone => Solo(t, a, statuses[c], lease[c])))
  PROVE  IInv'
<1>1. /\ statuses' = [statuses EXCEPT ![c] = statuses[c]] /\ achieved' = [achieved EXCEPT ![c] = achieved[c]]
      /\ lease' = [lease EXCEPT ![c] = lease[c]]
  BY Stored DEF Types
<1>2. Held(c, statuses[c], lease[c], at')
  <2>1. \A o \in Threads : at[o].pc = "works" => at'[o] = at[o]
    BY Stored DEF Types
  <2>2. Held(c, statuses[c], lease[c], at)
    BY Stored DEF ThreadsInv
  <2> QED
    BY <2>1, <2>2 DEF Held
<1>3. Len(statuses[c]) <= Len(statuses[c]) /\ Kept(statuses[c], statuses[c])
  BY OneCopy DEF Kept
<1> QED
  BY <1>1, <1>2, <1>3, OneCopy, Acts

\* The rows that a command has listed are as they were, when another quest changes.
LEMMA RowsStay ==
  ASSUME NEW qs, NEW done, Whole(qs, done), NEW i \in DOMAIN qs, qs[i] # "completed", NEW x \in QuestStatuses,
         NEW rows \in SUBSET DOMAIN qs, i \notin rows, \A j \in rows : qs[j] = "pending" /\ Satisfied(j, qs)
  PROVE  \A j \in rows : [qs EXCEPT ![i] = x][j] = "pending" /\ Satisfied(j, [qs EXCEPT ![i] = x])
<1> DEFINE new == [qs EXCEPT ![i] = x]
<1>1. \A j \in DOMAIN qs : new[j] = IF j = i THEN x ELSE qs[j]
  BY Replaced DEF Whole
<1> HIDE DEF new
<1>2. ASSUME NEW j \in rows, NEW p \in Needs, p[1] = j PROVE new[p[2]] = "completed"
  <2>1. qs[p[2]] = "completed" /\ p[2] \in DOMAIN qs
    BY <1>2, Places DEF Satisfied
  <2> QED
    BY <1>1, <2>1
<1>3. \A j \in rows : new[j] = "pending" /\ Satisfied(j, new)
  BY <1>1, <1>2 DEF Satisfied
<1> QED
  BY <1>3 DEF new

\* Command t, on copy c, sets the status of quest i to x and goes to a.
Set(t, c, i, x, a, done, new, ls) ==
  /\ at[t].copy = c /\ Active(at[t]) /\ i \in DOMAIN statuses[c] /\ x \in QuestStatuses
  /\ a \in Commands /\ done \in SUBSET Nat /\ ls \in [1 .. MaxPlaces -> Threads \cup {Nobody, Gone}]
  /\ new = [statuses[c] EXCEPT ![i] = x]
  /\ statuses' = [statuses EXCEPT ![c] = new] /\ achieved' = [achieved EXCEPT ![c] = done]
  /\ lease' = [lease EXCEPT ![c] = ls] /\ at' = [at EXCEPT ![t] = a] /\ UNCHANGED <<campaign, deps, alone, sus, bundle>>
  /\ achieved[c] \subseteq done /\ (x # "pending" => Free(i, achieved[c])) /\ (x = "completed" => i \in done)
  /\ alone => statuses[c][i] # "completed" /\ (statuses[c][i] = "pending" => Satisfied(i, statuses[c]))
  /\ Held(c, new, ls, at')
  /\ a.copy = c /\ Placed(a, statuses[c], achieved[c]) /\ (alone => Solo(t, a, new, ls))

LEMMA Sets ==
  ASSUME IInv, NEW t \in Threads, NEW c \in Copies, NEW i, NEW x, NEW a, NEW done, NEW new, NEW ls,
         Set(t, c, i, x, a, done, new, ls)
  PROVE  IInv'
<1> USE DEF Set
<1>1. c <= last /\ Whole(statuses[c], achieved[c]) /\ (alone => InOrder(statuses[c], Needs)) /\ statuses[c] \in Seq(QuestStatuses)
  BY Stored, OneCopy
<1>2. Whole(new, done)
  <2>1. x # "pending" => Free(i, done)
    BY DEF Free
  <2> QED
    BY <1>1, <2>1, ChangedWhole
<1>3. alone => InOrder(new, Needs) /\ Kept(statuses[c], new)
  BY <1>1, ChangedOrder
<1>4. DOMAIN new = DOMAIN statuses[c] /\ Len(statuses[c]) <= Len(new)
  BY <1>1, Replaced
<1>5. Placed(a, new, done)
  BY <1>4 DEF Placed, Free
<1> QED
  BY <1>1, <1>2, <1>3, <1>4, <1>5, Acts

\* What a command on copy c has read, if no other is on it.
LEMMA Reading ==
  ASSUME IInv, NEW t \in Threads, Active(at[t])
  PROVE  \E c \in Copies :
           /\ c = at[t].copy /\ c <= last /\ Placed(at[t], statuses[c], achieved[c]) /\ Held(c, statuses[c], lease[c], at)
           /\ alone => Solo(t, at[t], statuses[c], lease[c])
BY Stored DEF ThreadsInv

LEMMA CommandStep ==
  ASSUME IInv, NEW t \in Threads,
         \/ Recovers(t) \/ Lists(t) \/ LooksToDispatch(t) \/ LooksToResume(t) \/ Starts(t) \/ Settles(t)
         \/ FollowUp(t) \/ Fired(t) \/ CommandEnds(t) \/ Dies(t)
  PROVE  IInv'
<1>1. Active(at[t]) /\ at[t] \in Commands
  BY Stored DEF Active, Recovers, Lists, LooksToDispatch, LooksToResume, Starts, Settles, FollowUp, Fired, CommandEnds, Dies
<1>2. PICK c \in Copies :
        /\ c = at[t].copy /\ c <= last /\ Placed(at[t], statuses[c], achieved[c]) /\ Held(c, statuses[c], lease[c], at)
        /\ alone => Solo(t, at[t], statuses[c], lease[c])
  BY <1>1, Reading
<1>3. /\ Whole(statuses[c], achieved[c]) /\ statuses[c] \in Seq(QuestStatuses) /\ deps[c] = Needs
      /\ alone => InOrder(statuses[c], Needs)
      /\ achieved[c] \in SUBSET Nat /\ lease[c] \in [1 .. MaxPlaces -> Threads \cup {Nobody, Gone}]
      /\ DOMAIN statuses[c] \subseteq 1 .. MaxPlaces /\ DOMAIN statuses[c] \subseteq Nat
  BY <1>2, OneCopy
<1>4. Ended \in Commands
  BY Numbers DEF Ended, NoCommand, Commands, Copies
<1>5. \A a : at' = [at EXCEPT ![t] = a] => \A o \in Threads : at'[o] = IF o = t THEN a ELSE at[o]
  BY Stored DEF Types
<1>6. CASE Recovers(t)
  <2>1. PICK i \in Least(at[t].rows) : /\ statuses' = [statuses EXCEPT ![c][i] = "pending"]
                                        /\ Goes(t, [at[t] EXCEPT !.rows = @ \ {i}])
    BY <1>2, <1>6 DEF Recovers
  <2> DEFINE a == [at[t] EXCEPT !.rows = @ \ {i}]
             new == [statuses[c] EXCEPT ![i] = "pending"]
  <2>2. i \in DOMAIN statuses[c] /\ i \in at[t].rows /\ at[t].pc = "recover"
    BY <1>2, <1>6, <2>1 DEF Least, Placed, Recovers
  <2>3. /\ a \in Commands /\ a.copy = c /\ a.pc = "recover" /\ a.rows = at[t].rows \ {i}
    BY <1>1, <1>2, <2>2 DEF Commands
  <2>4. \A j \in DOMAIN statuses[c] : new[j] = IF j = i THEN "pending" ELSE statuses[c][j]
    BY <1>3
  <2>5. DOMAIN new = DOMAIN statuses[c]
    OBVIOUS
  <2>6. statuses' = [statuses EXCEPT ![c] = new] /\ at' = [at EXCEPT ![t] = a]
    BY <2>1 DEF Goes
  <2>7. achieved' = [achieved EXCEPT ![c] = achieved[c]] /\ lease' = [lease EXCEPT ![c] = lease[c]]
        /\ UNCHANGED <<campaign, deps, alone, sus, bundle>>
    BY <1>6, Stored DEF Recovers, Types
  <2> HIDE DEF a
  <2>8. Held(c, new, lease[c], at')
    <3> HIDE DEF new
    <3>1. \A o \in Threads : at[o].pc = "works" => at'[o] = at[o]
      BY <1>5, <2>2, <2>6
    <3> QED
      BY <1>2, <2>4, <2>5, <3>1 DEF Held
  <2>9. Placed(a, statuses[c], achieved[c])
    BY <1>2, <2>3 DEF Placed
  <2>10. alone => Solo(t, a, new, lease[c])
    <3> HIDE DEF new
    <3> QED
      BY <1>2, <2>2, <2>3, <2>4 DEF Solo, Placed
  <2>11. alone => statuses[c][i] = "running"
    BY <1>2, <2>2 DEF Solo
  <2>12. new = [statuses[c] EXCEPT ![i] = "pending"] /\ "pending" \in QuestStatuses
    BY DEF QuestStatuses
  <2> HIDE DEF new
  <2> QED
    <3>1. "pending" # "completed" /\ "running" # "completed" /\ "running" # "pending"
      OBVIOUS
    <3>2. Set(t, c, i, "pending", a, achieved[c], new, lease[c])
      BY <1>1, <1>2, <1>3, <2>2, <2>3, <2>6, <2>7, <2>8, <2>9, <2>10, <2>11, <2>12, <3>1 DEF Set
    <3> QED
      BY <3>2, Sets
<1>7. CASE Lists(t)
  <2> DEFINE a == [at[t] EXCEPT !.pc = "loop", !.rows = ReadyInCampaign(c)]
  <2>1. /\ at' = [at EXCEPT ![t] = a] /\ UNCHANGED <<campaign, statuses, deps, lease, achieved, alone, sus, bundle>>
        /\ at[t].pc # "works"
    BY <1>2, <1>7 DEF Lists, Goes
  <2>2. a \in Commands /\ a.copy = c /\ a.pc = "loop" /\ a.rows = ReadyInCampaign(c)
    BY <1>1, <1>2, <1>3 DEF Commands, ReadyInCampaign
  <2>3. \A i \in ReadyInCampaign(c) : i \in DOMAIN statuses[c] /\ statuses[c][i] = "pending" /\ Satisfied(i, statuses[c])
    <3> SUFFICES ASSUME NEW i \in ReadyInCampaign(c), NEW p \in Needs, p[1] = i PROVE statuses[c][p[2]] = "completed"
      BY DEF ReadyInCampaign, Satisfied
    <3>1. p[2] \in DOMAIN statuses[c] /\ p = <<i, p[2]>>
      BY <1>3, Places, Pairs
    <3> QED
      BY <1>3, <3>1 DEF ReadyInCampaign, Dependencies
  <2>4. \A i \in ReadyInCampaign(c) : Free(i, achieved[c])
    <3> SUFFICES ASSUME NEW i \in ReadyInCampaign(c), NEW p \in Needs, p[1] = i PROVE p[2] \in achieved[c]
      BY DEF Free
    <3>1. p[2] \in DOMAIN statuses[c] /\ statuses[c][p[2]] = "completed"
      BY <1>3, <2>3, Places DEF Satisfied
    <3> QED
      BY <1>3, <3>1 DEF Whole
  <2> HIDE DEF a
  <2>5. Placed(a, statuses[c], achieved[c]) /\ Solo(t, a, statuses[c], lease[c])
    BY <2>2, <2>3, <2>4 DEF Placed, Solo
  <2> QED
    BY <1>1, <1>2, <2>1, <2>2, <2>5, Looks
<1>8. CASE LooksToDispatch(t)
  <2>1. PICK i \in Least(at[t].rows) : /\ statuses[c][i] \notin Terminal
                                        /\ Goes(t, [at[t] EXCEPT !.pc = "seen", !.quest = i, !.rows = @ \ {i}])
    BY <1>2, <1>8 DEF LooksToDispatch
  <2> DEFINE a == [at[t] EXCEPT !.pc = "seen", !.quest = i, !.rows = @ \ {i}]
  <2>2. /\ at' = [at EXCEPT ![t] = a] /\ UNCHANGED <<campaign, statuses, deps, lease, achieved, alone, sus, bundle>>
        /\ at[t].pc = "loop" /\ i \in at[t].rows /\ i \in DOMAIN statuses[c]
    BY <1>2, <1>8, <2>1 DEF LooksToDispatch, Goes, Least, Placed
  <2>3. a \in Commands /\ a.copy = c /\ a.pc = "seen" /\ a.quest = i /\ a.rows = at[t].rows \ {i}
    BY <1>1, <1>2, <1>3, <2>2 DEF Commands
  <2> HIDE DEF a
  <2>4. Placed(a, statuses[c], achieved[c])
    BY <1>2, <2>2, <2>3 DEF Placed
  <2>5. alone => Solo(t, a, statuses[c], lease[c])
    BY <1>2, <2>2, <2>3 DEF Solo
  <2> QED
    BY <1>1, <1>2, <2>2, <2>3, <2>4, <2>5, Looks
<1>9. CASE LooksToResume(t)
  <2>1. PICK i \in DOMAIN statuses[c] : /\ statuses[c][i] = "needs_input"
                                         /\ Goes(t, [at[t] EXCEPT !.pc = "seen", !.quest = i])
    BY <1>2, <1>9 DEF LooksToResume
  <2> DEFINE a == [at[t] EXCEPT !.pc = "seen", !.quest = i]
  <2>2. /\ at' = [at EXCEPT ![t] = a] /\ UNCHANGED <<campaign, statuses, deps, lease, achieved, alone, sus, bundle>>
        /\ at[t].pc = "loop"
    BY <1>9, <2>1 DEF LooksToResume, Goes
  <2>3. a \in Commands /\ a.copy = c /\ a.pc = "seen" /\ a.quest = i /\ a.rows = at[t].rows
    BY <1>1, <1>2, <1>3 DEF Commands
  <2> HIDE DEF a
  <2>4. Placed(a, statuses[c], achieved[c])
    BY <1>2, <1>3, <2>1, <2>2, <2>3 DEF Placed, Whole
  <2>5. alone => Satisfied(i, statuses[c])
    BY <1>3, <2>1 DEF InOrder, Satisfied
  <2>6. alone => Solo(t, a, statuses[c], lease[c])
    BY <1>2, <2>1, <2>2, <2>3, <2>5 DEF Solo
  <2> QED
    BY <1>1, <1>2, <2>2, <2>3, <2>4, <2>6, Looks
<1>10. CASE Starts(t)
  <2> DEFINE i == at[t].quest
             a == [at[t] EXCEPT !.pc = "works"]
             new == [statuses[c] EXCEPT ![i] = "running"]
             ls == [lease[c] EXCEPT ![i] = t]
  <2>1. /\ statuses' = [statuses EXCEPT ![c] = new] /\ lease' = [lease EXCEPT ![c] = ls] /\ at' = [at EXCEPT ![t] = a]
        /\ UNCHANGED <<campaign, deps, alone, sus, bundle>> /\ at[t].pc = "seen"
        /\ achieved' = [achieved EXCEPT ![c] = achieved[c]]
    BY <1>2, <1>10, Stored DEF Starts, Goes, Types
  <2>2. a \in Commands /\ a.copy = c /\ a.pc = "works" /\ a.quest = i /\ a.rows = at[t].rows
    BY <1>1, <1>2 DEF Commands
  <2>3. i \in DOMAIN statuses[c] /\ Free(i, achieved[c])
    BY <1>2, <2>1 DEF Placed
  <2>4. DOMAIN new = DOMAIN statuses[c] /\ \A j \in DOMAIN statuses[c] : new[j] = IF j = i THEN "running" ELSE statuses[c][j]
    BY <1>3
  <2>5. /\ ls \in [1 .. MaxPlaces -> Threads \cup {Nobody, Gone}]
        /\ \A j \in DOMAIN statuses[c] : ls[j] = IF j = i THEN t ELSE lease[c][j]
    BY <1>3, <2>3
  <2>6. new = [statuses[c] EXCEPT ![i] = "running"] /\ "running" \in QuestStatuses
    BY DEF QuestStatuses
  <2>7. alone => /\ statuses[c][i] # "completed" /\ Satisfied(i, statuses[c]) /\ i \notin at[t].rows
                 /\ at[t].rows \subseteq DOMAIN statuses[c]
                 /\ \A j \in at[t].rows : statuses[c][j] = "pending" /\ Satisfied(j, statuses[c])
    BY <1>2, <2>1 DEF Solo, Placed
  <2>8. alone => \A j \in at[t].rows : new[j] = "pending" /\ Satisfied(j, new)
    <3> HIDE DEF i
    <3> QED
      BY <1>3, <2>3, <2>6, <2>7, RowsStay
  <2> HIDE DEF a, new, ls, i
  <2>9. Held(c, new, ls, at')
    <3>1. \A o \in Threads : at[o].pc = "works" => at'[o] = at[o]
      BY <1>5, <2>1
    <3>2. at'[t] = a
      BY <1>5, <2>1
    <3> QED
      BY <1>2, <2>2, <2>4, <2>5, <3>1, <3>2 DEF Held
  <2>10. Placed(a, statuses[c], achieved[c])
    BY <1>2, <2>1, <2>2, <2>3 DEF Placed
  <2>11. alone => Solo(t, a, new, ls)
    BY <2>2, <2>3, <2>4, <2>5, <2>7, <2>8 DEF Solo
  <2> QED
    <3>1. Set(t, c, i, "running", a, achieved[c], new, ls)
      BY <1>1, <1>2, <1>3, <2>1, <2>2, <2>3, <2>5, <2>6, <2>7, <2>9, <2>10, <2>11 DEF Set, i
    <3> QED
      BY <3>1, Sets
<1>11. CASE Settles(t)
  <2>1. PICK s \in Outcomes :
          /\ statuses' = [statuses EXCEPT ![c][at[t].quest] = s]
          /\ achieved' = IF s = "completed" THEN [achieved EXCEPT ![c] = @ \cup {at[t].quest}] ELSE achieved
          /\ Goes(t, [at[t] EXCEPT !.pc = IF s = "completed" THEN "fires" ELSE "loop", !.quest = 1])
    BY <1>2, <1>11 DEF Settles
  <2> DEFINE i == at[t].quest
             a == [at[t] EXCEPT !.pc = IF s = "completed" THEN "fires" ELSE "loop", !.quest = 1]
             new == [statuses[c] EXCEPT ![i] = s]
             done == IF s = "completed" THEN achieved[c] \cup {i} ELSE achieved[c]
  <2>2. at[t].pc = "works" /\ UNCHANGED <<campaign, deps, lease, alone, sus, bundle>>
    BY <1>11 DEF Settles
  <2>3. i \in DOMAIN statuses[c] /\ Free(i, achieved[c])
    BY <1>2, <2>2 DEF Placed
  <2>4. /\ statuses' = [statuses EXCEPT ![c] = new] /\ lease' = [lease EXCEPT ![c] = lease[c]] /\ at' = [at EXCEPT ![t] = a]
        /\ achieved' = [achieved EXCEPT ![c] = done]
    BY <2>1, <2>2, Stored DEF Goes, Types
  <2>5. a \in Commands /\ a.copy = c /\ a.pc \in {"fires", "loop"} /\ a.rows = at[t].rows
    BY <1>1, <1>2 DEF Commands
  <2>6. DOMAIN new = DOMAIN statuses[c] /\ \A j \in DOMAIN statuses[c] : new[j] = IF j = i THEN s ELSE statuses[c][j]
    BY <1>3
  <2>7. done \in SUBSET Nat /\ achieved[c] \subseteq done /\ (s = "completed" => i \in done)
    BY <1>3, <2>3
  <2>8. s \in QuestStatuses /\ s # "running" /\ new = [statuses[c] EXCEPT ![i] = s]
    BY HandoffAssumption DEF QuestStatuses
  <2>9. alone => /\ statuses[c][i] = "running" /\ i \notin at[t].rows /\ at[t].rows \subseteq DOMAIN statuses[c]
                 /\ \A j \in at[t].rows : statuses[c][j] = "pending" /\ Satisfied(j, statuses[c])
    BY <1>2, <2>2 DEF Solo, Placed
  <2>10. alone => \A j \in at[t].rows : new[j] = "pending" /\ Satisfied(j, new)
    <3> HIDE DEF i
    <3> QED
      BY <1>3, <2>3, <2>8, <2>9, RowsStay
  <2>11. \A o \in Threads : at[o].pc = "works" /\ o # t => at'[o] = at[o]
    BY <1>5, <2>4
  <2> HIDE DEF a, new, done
  <2>12. Held(c, new, lease[c], at')
    BY <1>2, <2>6, <2>8, <2>11 DEF Held
  <2> HIDE DEF i
  <2>13. Placed(a, statuses[c], achieved[c])
    BY <1>2, <2>2, <2>5 DEF Placed
  <2>14. alone => Solo(t, a, new, lease[c])
    BY <2>5, <2>10 DEF Solo
  <2> QED
    <3>1. Set(t, c, i, s, a, done, new, lease[c])
      BY <1>1, <1>2, <1>3, <2>2, <2>3, <2>4, <2>5, <2>7, <2>8, <2>9, <2>12, <2>13, <2>14 DEF Set
    <3> QED
      BY <3>1, Sets
<1>12. CASE FollowUp(t)
  <2> DEFINE new == Append(statuses[c], "pending")
  <2>1. /\ Len(statuses[c]) < MaxPlaces /\ statuses' = [statuses EXCEPT ![c] = new]
        /\ lease' = [lease EXCEPT ![c] = lease[c]] /\ at' = [at EXCEPT ![t] = at[t]]
        /\ achieved' = [achieved EXCEPT ![c] = achieved[c]] /\ UNCHANGED <<campaign, deps, alone, sus, bundle, at>>
    BY <1>2, <1>12, Stored DEF FollowUp, Types
  <2>2. Whole(new, achieved[c]) /\ Kept(statuses[c], new) /\ (alone => InOrder(new, Needs))
    BY <1>3, <2>1, Grown
  <2>3. /\ DOMAIN new = DOMAIN statuses[c] \cup {Len(statuses[c]) + 1} /\ new[Len(statuses[c]) + 1] = "pending"
        /\ Len(statuses[c]) <= Len(new) /\ \A j \in DOMAIN statuses[c] : new[j] = statuses[c][j]
    <3>1. "pending" \in QuestStatuses
      BY DEF QuestStatuses
    <3> QED
      BY <1>3, <3>1, Appended
  <2> HIDE DEF new
  <2>4. Held(c, new, lease[c], at')
    BY <1>2, <2>1, <2>3 DEF Held
  <2>5. Placed(at[t], new, achieved[c])
    BY <1>2, <2>3 DEF Placed
  <2>6. \A j \in DOMAIN statuses[c] : Satisfied(j, statuses[c]) => Satisfied(j, new)
    BY <1>3, <2>3, Places DEF Satisfied
  <2>7. alone => Solo(t, at[t], new, lease[c])
    BY <1>2, <2>3, <2>6 DEF Solo, Placed
  <2> QED
    BY <1>1, <1>2, <1>3, <2>1, <2>2, <2>3, <2>4, <2>5, <2>7, Acts
<1>13. CASE Fired(t)
  <2> DEFINE a == [at[t] EXCEPT !.pc = "loop"]
  <2>1. /\ at' = [at EXCEPT ![t] = a] /\ UNCHANGED <<campaign, statuses, deps, lease, achieved, alone, sus, bundle>>
        /\ at[t].pc = "fires"
    BY <1>13 DEF Fired, Goes
  <2>2. a \in Commands /\ a.copy = c /\ a.pc = "loop" /\ a.rows = at[t].rows
    BY <1>1, <1>2 DEF Commands
  <2> HIDE DEF a
  <2>3. Placed(a, statuses[c], achieved[c]) /\ (alone => Solo(t, a, statuses[c], lease[c]))
    BY <1>2, <2>1, <2>2 DEF Placed, Solo
  <2> QED
    BY <1>1, <1>2, <2>1, <2>2, <2>3, Looks
<1>14. CASE CommandEnds(t)
  <2>1. /\ at' = [at EXCEPT ![t] = Ended] /\ UNCHANGED <<campaign, statuses, deps, lease, achieved, alone, sus, bundle>>
        /\ at[t].pc # "works"
    BY <1>14 DEF CommandEnds, Goes
  <2> QED
    BY <1>1, <1>2, <1>4, <2>1, Looks
<1>15. CASE Dies(t)
  <2> DEFINE ls == [i \in 1 .. MaxPlaces |-> IF lease[c][i] = t THEN Gone ELSE lease[c][i]]
  <2>1. /\ lease' = [lease EXCEPT ![c] = ls] /\ at' = [at EXCEPT ![t] = Ended]
        /\ UNCHANGED <<campaign, deps, alone, sus, bundle>>
        /\ statuses' = [statuses EXCEPT ![c] = statuses[c]] /\ achieved' = [achieved EXCEPT ![c] = achieved[c]]
    BY <1>2, <1>15, Stored DEF Dies, Goes, Types
  <2>2. /\ ls \in [1 .. MaxPlaces -> Threads \cup {Nobody, Gone}]
        /\ \A j \in DOMAIN statuses[c] : ls[j] = IF lease[c][j] = t THEN Gone ELSE lease[c][j]
    BY <1>3
  <2> HIDE DEF ls
  <2>3. Held(c, statuses[c], ls, at')
    <3>1. \A o \in Threads : o # t => at'[o] = at[o]
      BY <1>5, <2>1
    <3> QED
      BY <1>2, <2>2, <3>1 DEF Held
  <2>4. Len(statuses[c]) <= Len(statuses[c]) /\ Kept(statuses[c], statuses[c])
    BY <1>3 DEF Kept
  <2> QED
    BY <1>1, <1>2, <1>3, <1>4, <2>1, <2>2, <2>3, <2>4, Acts
<1> QED
  BY <1>6, <1>7, <1>8, <1>9, <1>10, <1>11, <1>12, <1>13, <1>14, <1>15

LEMMA BootStep ==
  ASSUME IInv, NEW t \in Threads, NEW c \in Copies, Boots(t, c)
  PROVE  IInv'
<1> DEFINE a == [NoCommand EXCEPT !.pc = "recover", !.copy = c, !.rows = Orphans(c)]
<1>1. /\ at' = [at EXCEPT ![t] = a] /\ UNCHANGED <<campaign, statuses, deps, lease, achieved, alone, sus, bundle>>
      /\ at[t].pc = "idle" /\ c <= last
      /\ alone => \A o \in Threads : at[o].pc \in {"idle", "ended"} \/ at[o].copy # c
  BY DEF Boots, Goes, Made
<1>2. DOMAIN statuses[c] \subseteq Nat
  BY <1>1, OneCopy, Numbers
<1>3. a \in Commands /\ a.copy = c /\ a.pc = "recover" /\ a.rows = Orphans(c)
  BY <1>2 DEF Commands, NoCommand, Orphans
<1> HIDE DEF a
<1>4. Placed(a, statuses[c], achieved[c]) /\ Solo(t, a, statuses[c], lease[c])
  BY <1>3 DEF Placed, Solo, Orphans
<1>5. ~Active(at[t]) /\ at[t].pc # "works" /\ (alone => \A o \in Threads : Active(at[o]) => at[o].copy # c)
  BY <1>1 DEF Active
<1> QED
  BY <1>1, <1>3, <1>4, <1>5, Looks

-----------------------------------------------------------------------------
(* The steps of a suspend and of a resume.                                 *)

\* A step of a suspend leaves the copies and the commands alone.
LEMMA Suspends ==
  ASSUME IInv, UNCHANGED <<last, work, alone>>, SusInv', BundleInv',
         handoff' \in [Copies -> {"none", "suspended", "resumed"}], owner' \in [Copies -> Machines \cup {Nobody}]
  PROVE  IInv'
<1>1. UNCHANGED <<last, statuses, deps, lease, at, achieved, alone>> /\ Types /\ CopiesInv /\ ThreadsInv
  BY Stored DEF work
<1>2. Types'
  BY <1>1 DEF Types
<1>3. CopiesInv'
  BY <1>1 DEF CopiesInv
<1>4. ThreadsInv'
  BY <1>1 DEF ThreadsInv, Placed, Held, Solo, Active
<1> QED
  BY <1>2, <1>3, <1>4 DEF IInv

\* The bundle stays.
LEMMA BundleStays ==
  ASSUME IInv, UNCHANGED <<last, work, alone, bundle>> PROVE BundleInv'
<1>1. UNCHANGED <<last, statuses, achieved, alone, bundle>> /\ BundleInv
  BY Stored DEF work
<1> QED
  BY <1>1 DEF BundleInv, Read

LEMMA SuspendStep ==
  ASSUME IInv,
         \/ \E c \in Copies, m \in Machines, force \in BOOLEAN : SuspendChecks(c, m, force)
         \/ SuspendReads \/ SuspendMarks \/ SuspendWrites \/ SuspendDies
  PROVE  IInv'
<1>0. SusInv /\ BundleInv /\ Types /\ CopiesInv
  BY Stored
<1>1. handoff \in [Copies -> {"none", "suspended", "resumed"}] /\ owner \in [Copies -> Machines \cup {Nobody}]
  BY <1>0 DEF Types
<1>2. <<>> \in Seq(QuestStatuses)
  OBVIOUS
<1>3. ASSUME sus.pc \in {"checked", "read", "marked"}
      PROVE  /\ sus.of \in Copies /\ sus.of <= last /\ sus.machine \in Machines /\ sus.quests \in Seq(QuestStatuses)
             /\ Whole(statuses[sus.of], achieved[sus.of]) /\ deps[sus.of] = Needs
             /\ alone => InOrder(statuses[sus.of], Needs)
  <2>1. sus.of \in Copies /\ sus.of <= last /\ sus.machine \in Machines /\ sus.quests \in Seq(QuestStatuses)
    BY <1>0, <1>3 DEF SusInv, NoSuspend
  <2> QED
    BY <2>1, OneCopy
<1>4. ASSUME NEW c \in Copies, NEW m \in Machines, NEW force \in BOOLEAN, SuspendChecks(c, m, force) PROVE IInv'
  <2>1. /\ c <= last /\ sus' = [pc |-> "checked", of |-> c, machine |-> m, quests |-> <<>>]
        /\ UNCHANGED <<last, handoff, owner, work, alone, bundle>>
    BY <1>4 DEF SuspendChecks, Made, NoSuspend, campaign
  <2>2. SusInv'
    BY <1>2, <2>1 DEF SusInv
  <2> QED
    BY <1>1, <2>1, <2>2, Suspends, BundleStays
<1>5. CASE SuspendReads
  <2>1. /\ sus.pc = "checked" /\ sus' = [sus EXCEPT !.pc = "read", !.quests = statuses[sus.of]]
        /\ UNCHANGED <<last, handoff, owner, work, alone, bundle>> /\ UNCHANGED <<statuses, achieved>>
    BY <1>5 DEF SuspendReads, campaign, work
  <2>2. Read(statuses[sus.of], statuses[sus.of], achieved[sus.of]) /\ statuses[sus.of] \in Seq(QuestStatuses)
    BY <1>3, <2>1 DEF Read, Kept, Whole
  <2>3. Read(statuses[sus.of], statuses[sus.of], achieved[sus.of])'
    <3>1. alone' = alone /\ statuses'[sus'.of] = statuses[sus.of] /\ achieved'[sus'.of] = achieved[sus.of]
      BY <1>0, <2>1 DEF SusInv
    <3> QED
      BY <2>2, <3>1 DEF Read
  <2>4. SusInv'
    BY <1>0, <1>3, <2>1, <2>2, <2>3 DEF SusInv
  <2> QED
    BY <1>1, <2>1, <2>4, Suspends, BundleStays
<1>6. CASE SuspendMarks
  <2>1. /\ sus.pc = "read" /\ sus' = [sus EXCEPT !.pc = "marked"]
        /\ handoff' = [handoff EXCEPT ![sus.of] = "suspended"] /\ owner' = [owner EXCEPT ![sus.of] = sus.machine]
        /\ UNCHANGED <<last, work, alone, bundle>> /\ UNCHANGED <<statuses, achieved>>
    BY <1>6 DEF SuspendMarks, work
  <2>2. SusInv'
    <3>1. sus'.quests = sus.quests /\ sus'.of = sus.of /\ sus'.machine = sus.machine /\ sus'.pc = "marked"
      BY <1>0, <2>1 DEF SusInv
    <3>2. Read(sus.quests, statuses[sus.of], achieved[sus.of])'
      BY <1>0, <2>1, <3>1 DEF SusInv, Read
    <3> QED
      BY <1>0, <1>3, <2>1, <3>2 DEF SusInv
  <2>3. handoff' \in [Copies -> {"none", "suspended", "resumed"}] /\ owner' \in [Copies -> Machines \cup {Nobody}]
    BY <1>1, <1>3, <2>1
  <2> QED
    BY <2>1, <2>2, <2>3, Suspends, BundleStays
<1>7. ASSUME sus' = NoSuspend PROVE SusInv'
  BY <1>2, <1>7 DEF SusInv, NoSuspend
<1>8. CASE SuspendWrites
  <2> DEFINE qs == sus.quests
             ds == {p \in (DOMAIN qs) \X (DOMAIN qs) : p[2] \in Dependencies(sus.of, p[1])}
             b == [of |-> sus.of, quests |-> qs, deps |-> ds]
  <2>1. /\ sus.pc = "marked" /\ bundle' = b /\ sus' = NoSuspend
        /\ UNCHANGED <<last, handoff, owner, work, alone>> /\ UNCHANGED <<statuses, achieved>>
    BY <1>8 DEF SuspendWrites, campaign, work
  <2>2. Read(qs, statuses[sus.of], achieved[sus.of])
    BY <1>0, <2>1 DEF SusInv
  <2>3. qs \in Seq(QuestStatuses) /\ Whole(qs, achieved[sus.of])
    BY <2>2 DEF Read, Whole
  <2> HIDE DEF qs
  <2>4. DOMAIN qs \subseteq DOMAIN statuses[sus.of]
    BY <1>3, <2>1, <2>2, <2>3, Lengths DEF Read, Whole
  <2>5. ds = Needs
    <3>1. \A p \in (DOMAIN qs) \X (DOMAIN qs) : p[2] \in Dependencies(sus.of, p[1]) <=> p \in Needs
      BY <1>3, <2>1, <2>4 DEF Dependencies
    <3>2. \A p \in Needs : p \in (DOMAIN qs) \X (DOMAIN qs)
      BY <2>3, Places, Pairs
    <3> QED
      BY <3>1, <3>2
  <2> HIDE DEF ds
  <2>6. b \in [of: Copies, quests: Seq(QuestStatuses), deps: {Needs}] /\ b.of = sus.of /\ b.quests = qs
    BY <1>3, <2>1, <2>3, <2>5
  <2> HIDE DEF b
  <2>7. Read(bundle.quests, statuses[bundle.of], achieved[bundle.of])'
    BY <2>1, <2>2, <2>6 DEF Read
  <2>8. BundleInv'
    BY <1>3, <2>1, <2>6, <2>7 DEF BundleInv
  <2> QED
    BY <1>1, <1>7, <2>1, <2>8, Suspends
<1>9. CASE SuspendDies
  <2>1. sus' = NoSuspend /\ UNCHANGED <<last, handoff, owner, work, alone, bundle>>
    BY <1>9 DEF SuspendDies, campaign
  <2> QED
    BY <1>1, <1>7, <2>1, Suspends, BundleStays
<1> QED
  BY <1>4, <1>5, <1>6, <1>8, <1>9

LEMMA ResumeStep ==
  ASSUME IInv, NEW m \in Machines, Resume(m)
  PROVE  IInv'
<1> DEFINE new == [i \in DOMAIN bundle.quests |-> ResumeStatus(bundle.quests[i])]
           n == last + 1
           done == achieved[bundle.of]
<1>0. Types /\ CopiesInv /\ ThreadsInv /\ SusInv /\ BundleInv
  BY Stored
<1>1. /\ bundle # Nobody /\ last < MaxCopies /\ last' = n
      /\ handoff' = [handoff EXCEPT ![n] = "resumed"] /\ owner' = [owner EXCEPT ![n] = m]
      /\ statuses' = [statuses EXCEPT ![n] = new] /\ deps' = [deps EXCEPT ![n] = bundle.deps]
      /\ achieved' = [achieved EXCEPT ![n] = done] /\ UNCHANGED <<lease, at, alone, sus, bundle>>
  BY DEF Resume, CarriedDeps
<1>2. /\ bundle.of \in Copies /\ bundle.of <= last /\ bundle.deps = Needs /\ bundle.quests \in Seq(QuestStatuses)
      /\ Read(bundle.quests, statuses[bundle.of], done)
  BY <1>0, <1>1 DEF BundleInv
<1>3. Whole(bundle.quests, done) /\ (alone => InOrder(bundle.quests, Needs))
  BY <1>2 DEF Read
<1>4. Whole(new, done) /\ (alone => InOrder(new, Needs)) /\ DOMAIN new = DOMAIN bundle.quests /\ \A i \in DOMAIN new : new[i] # "running"
  BY <1>3, Imported
<1>5. n \in Copies /\ last \in Nat /\ n > last /\ \A c \in Copies : c \in Nat
  BY <1>1, Stored, Numbers DEF Copies
<1>6. done \in SUBSET Nat
  BY <1>0, <1>2 DEF Types
<1> HIDE DEF new, done
<1>7. /\ statuses' \in [Copies -> Seq(QuestStatuses)] /\ DOMAIN deps' = Copies /\ achieved' \in [Copies -> SUBSET Nat]
      /\ \A c \in Copies : /\ statuses'[c] = IF c = n THEN new ELSE statuses[c]
                           /\ deps'[c] = IF c = n THEN Needs ELSE deps[c]
                           /\ achieved'[c] = IF c = n THEN done ELSE achieved[c]
  BY <1>0, <1>1, <1>2, <1>4, <1>6 DEF Types, Whole
<1>8. \A c \in Copies : c <= last => c # n /\ c <= last' /\ statuses'[c] = statuses[c] /\ achieved'[c] = achieved[c]
  BY <1>1, <1>5, <1>7
<1>9. Types'
  BY <1>0, <1>1, <1>5, <1>7 DEF Types
<1>10. CopiesInv'
  <2>1. \A c \in Copies : (c <= last' => c <= last \/ c = n) /\ (c > last' => c > last /\ c # n)
    BY <1>1, <1>5
  <2>2. (\A c \in Copies : c <= last => Whole(statuses[c], achieved[c]) /\ deps[c] = Needs /\ (alone => InOrder(statuses[c], Needs)))'
    <3> SUFFICES ASSUME NEW c \in Copies, c <= last'
                 PROVE  Whole(statuses'[c], achieved'[c]) /\ deps'[c] = Needs /\ (alone => InOrder(statuses'[c], Needs))
      BY <1>1
    <3>1. CASE c = n
      BY <1>4, <1>7, <3>1
    <3>2. CASE c # n
      BY <1>0, <1>7, <2>1, <3>2 DEF CopiesInv
    <3> QED
      BY <3>1, <3>2
  <2>3. (\A c \in Copies : c > last => statuses[c] = <<>> /\ deps[c] = {})'
    BY <1>0, <1>7, <2>1 DEF CopiesInv
  <2> QED
    BY <2>2, <2>3 DEF CopiesInv
<1>11. ThreadsInv'
  <2>1. \A t \in Threads : /\ at[t].copy \in Copies /\ at[t].copy <= last /\ at[t].copy <= last'
                           /\ statuses'[at[t].copy] = statuses[at[t].copy] /\ achieved'[at[t].copy] = achieved[at[t].copy]
    BY <1>8, Stored
  <2>2. (\A t \in Threads : at[t].copy <= last /\ Placed(at[t], statuses[at[t].copy], achieved[at[t].copy]))'
    BY <1>0, <1>1, <2>1 DEF ThreadsInv
  <2>3. (\A c \in Copies : Held(c, statuses[c], lease[c], at))'
    <3> SUFFICES ASSUME NEW c \in Copies PROVE Held(c, statuses'[c], lease[c], at)
      BY <1>1
    <3>1. CASE c = n
      BY <1>4, <1>7, <3>1 DEF Held
    <3>2. CASE c # n
      BY <1>0, <1>7, <3>2 DEF ThreadsInv
    <3> QED
      BY <3>1, <3>2
  <2>4. (alone => /\ \A t, o \in Threads : Active(at[t]) /\ Active(at[o]) /\ at[t].copy = at[o].copy => t = o
                  /\ \A t \in Threads : Active(at[t]) => Solo(t, at[t], statuses[at[t].copy], lease[at[t].copy]))'
    BY <1>0, <1>1, <2>1 DEF ThreadsInv
  <2> QED
    BY <2>2, <2>3, <2>4 DEF ThreadsInv
<1>12. SusInv'
  <2>1. sus.pc \in {"read", "marked"} => sus # NoSuspend
    BY DEF NoSuspend
  <2>2. sus.pc \in {"read", "marked"} => Read(sus.quests, statuses[sus.of], achieved[sus.of])'
    BY <1>0, <1>1, <1>8, <2>1 DEF SusInv, Read
  <2> QED
    BY <1>0, <1>1, <1>8, <2>2 DEF SusInv
<1>13. BundleInv'
  <2>1. Read(bundle.quests, statuses[bundle.of], achieved[bundle.of])'
    BY <1>1, <1>2, <1>8 DEF Read, done
  <2> QED
    BY <1>0, <1>1, <1>8, <2>1 DEF BundleInv
<1> QED
  BY <1>9, <1>10, <1>11, <1>12, <1>13 DEF IInv

-----------------------------------------------------------------------------
(* The theorems.                                                           *)

LEMMA Step == IInv /\ [CarryNext]_carryVars => IInv'
<1> SUFFICES ASSUME IInv, [CarryNext]_carryVars PROVE IInv'
  OBVIOUS
<1>1. CASE UNCHANGED carryVars
  <2>1. UNCHANGED <<last, work, alone, bundle, sus, handoff, owner, statuses, achieved>>
    BY <1>1 DEF carryVars, campaign, work
  <2>2. SusInv'
    BY <2>1, Stored DEF SusInv, Read
  <2>3. handoff \in [Copies -> {"none", "suspended", "resumed"}] /\ owner \in [Copies -> Machines \cup {Nobody}]
    BY Stored DEF Types
  <2> QED
    BY <2>1, <2>2, <2>3, Suspends, BundleStays
<1>2. CASE CarryNext
  <2>1. ASSUME NEW t \in Threads,
               \/ Recovers(t) \/ Lists(t) \/ LooksToDispatch(t) \/ LooksToResume(t) \/ Starts(t) \/ Settles(t)
               \/ FollowUp(t) \/ Fired(t) \/ CommandEnds(t) \/ Dies(t)
        PROVE  IInv'
    BY <2>1, CommandStep
  <2>2. ASSUME NEW t \in Threads, NEW c \in Copies, Boots(t, c) PROVE IInv'
    BY <2>2, BootStep
  <2>3. ASSUME NEW m \in Machines, Resume(m) PROVE IInv'
    BY <2>3, ResumeStep
  <2>4. ASSUME \/ \E c \in Copies, m \in Machines, force \in BOOLEAN : SuspendChecks(c, m, force)
               \/ SuspendReads \/ SuspendMarks \/ SuspendWrites \/ SuspendDies
        PROVE  IInv'
    BY <2>4, SuspendStep
  <2> QED
    BY <1>2, <2>1, <2>2, <2>3, <2>4 DEF CarryNext
<1> QED
  BY <1>1, <1>2

LEMMA Start == CarryInit => IInv
<1> SUFFICES ASSUME CarryInit PROVE IInv
  OBVIOUS
<1> DEFINE plan == [i \in 1 .. Planned |-> "pending"]
<1>1. plan \in Seq(QuestStatuses) /\ DOMAIN plan = 1 .. Planned /\ Len(plan) = Planned /\ \A i \in 1 .. Planned : plan[i] = "pending"
  BY Numbers DEF QuestStatuses
<1> HIDE DEF plan
<1>2. Whole(plan, {}) /\ InOrder(plan, Needs)
  BY <1>1, Numbers, Pairs DEF Whole, InOrder
<1>3. <<>> \in Seq(QuestStatuses) /\ DOMAIN <<>> = {} /\ 1 \in Copies /\ \A c \in Copies : c \in Nat /\ (c <= 1 <=> c = 1) /\ (c > 1 <=> c # 1)
  BY Numbers DEF Copies
<1>4. /\ last = 1 /\ handoff = [c \in Copies |-> "none"] /\ owner = [c \in Copies |-> Nobody] /\ sus = NoSuspend /\ bundle = Nobody
      /\ statuses = [c \in Copies |-> IF c = 1 THEN plan ELSE <<>>] /\ deps = [c \in Copies |-> IF c = 1 THEN Needs ELSE {}]
      /\ lease = [c \in Copies |-> [i \in 1 .. MaxPlaces |-> Nobody]] /\ at = [t \in Threads |-> NoCommand]
      /\ achieved = [c \in Copies |-> {}] /\ alone \in BOOLEAN
  BY DEF CarryInit, plan
<1>5. statuses \in [Copies -> Seq(QuestStatuses)] /\ \A c \in Copies : statuses[c] = (IF c = 1 THEN plan ELSE <<>>) /\ deps[c] = (IF c = 1 THEN Needs ELSE {})
  BY <1>1, <1>3, <1>4
<1>6. NoCommand \in Commands
  BY <1>3 DEF NoCommand, Commands
<1>7. Types
  BY <1>3, <1>4, <1>5, <1>6 DEF Types
<1>8. CopiesInv
  BY <1>2, <1>3, <1>4, <1>5 DEF CopiesInv
<1>9. ThreadsInv
  <2>1. \A t \in Threads : at[t] = NoCommand
    BY <1>4
  <2>2. \A t \in Threads : at[t].copy <= last /\ Placed(at[t], statuses[at[t].copy], achieved[at[t].copy])
    BY <1>3, <1>4, <2>1 DEF NoCommand, Placed
  <2>3. \A c \in Copies : Held(c, statuses[c], lease[c], at)
    BY <1>1, <1>3, <1>5 DEF Held
  <2>4. \A t \in Threads : ~Active(at[t])
    BY <2>1 DEF NoCommand, Active
  <2> QED
    BY <2>2, <2>3, <2>4 DEF ThreadsInv
<1>10. SusInv
  BY <1>3, <1>4 DEF SusInv, NoSuspend
<1> QED
  BY <1>4, <1>7, <1>8, <1>9, <1>10 DEF IInv, BundleInv

LEMMA Holds == CarrySpec => []IInv
BY Start, Step, PTL DEF CarrySpec

\* Commands that work on a campaign while it is carried on may look, start, settle and take
\* back in any order: a quest is begun only once what it needs has completed, in its copy or
\* where that comes from, and a running quest has a command at work on it or is one that the
\* next boot takes back.  If commands on one copy do not overlap, what it needs is completed
\* still, and the quest at work stays so (suspend_campaign, resume_bundle).
THEOREM GoesOn == CarrySpec => []CanGoOn
<1> SUFFICES ASSUME IInv PROVE CanGoOn
  BY Holds, PTL
<1>0. Types /\ CopiesInv /\ ThreadsInv /\ SusInv /\ BundleInv
  BY Stored
<1>1. \A c \in Copies : c <= last => Whole(statuses[c], achieved[c]) /\ deps[c] = Needs /\ (alone => InOrder(statuses[c], Needs))
  BY <1>0 DEF CopiesInv
<1>2. OrderCarried
  BY <1>1 DEF OrderCarried, Made
<1>3. BegunInOrder
  <2> SUFFICES ASSUME NEW c \in Copies, c <= last, NEW p \in Needs, statuses[c][p[1]] # "pending" PROVE p[2] \in achieved[c]
    BY <1>1 DEF BegunInOrder, Made
  <2>1. Whole(statuses[c], achieved[c])
    BY <1>1
  <2>2. p[1] \in DOMAIN statuses[c]
    BY <2>1, Places
  <2> QED
    BY <2>1, <2>2 DEF Whole, Free
<1>4. InFlightHasWorker
  BY <1>0 DEF InFlightHasWorker, ThreadsInv, Held, Orphans, WorksOn
<1>5. WorkStands
  <2> SUFFICES ASSUME alone, NEW t \in Threads, at[t].pc = "works" PROVE Status(t) = "running" /\ lease[at[t].copy][at[t].quest] = t
    BY DEF WorkStands
  <2>1. Active(at[t])
    BY DEF Active
  <2> QED
    BY <1>0, <2>1 DEF ThreadsInv, Solo, Status
<1>6. \A c \in Copies : deps[c] \subseteq (DOMAIN statuses[c]) \X (DOMAIN statuses[c])
  <2> SUFFICES ASSUME NEW c \in Copies, NEW p \in deps[c] PROVE p \in (DOMAIN statuses[c]) \X (DOMAIN statuses[c])
    OBVIOUS
  <2>1. Whole(statuses[c], achieved[c]) /\ deps[c] = Needs
    <3>1. c \in Nat /\ last \in Nat
      BY Stored
    <3> QED
      BY <1>0, <3>1 DEF CopiesInv
  <2> QED
    BY <2>1, Places, Pairs
<1>7. bundle # Nobody => bundle \in HandoffBundle
  <2>1. Needs \in SUBSET ((1 .. MaxPlaces) \X (1 .. MaxPlaces))
    BY Numbers, HandoffAssumption
  <2> QED
    BY <1>0, <2>1 DEF BundleInv, HandoffBundle
<1>8. CarryTypes
  BY <1>0, <1>6, <1>7 DEF CarryTypes, Types, Commands, SusInv
<1> QED
  BY <1>2, <1>3, <1>4, <1>5, <1>8 DEF CanGoOn

\* The plan arrives whole in every copy, and what a bundle says has completed did complete
\* where it comes from; it still has, if commands on one copy do not overlap
\* (suspend_campaign, resume_bundle).
THEOREM LosesNothing == CarrySpec => []NothingLost
<1> SUFFICES ASSUME IInv PROVE NothingLost
  BY Holds, PTL
<1>1. \A c \in Copies : c <= last => Whole(statuses[c], achieved[c]) /\ deps[c] = Needs
  BY DEF IInv, CopiesInv
<1>2. \A c \in Copies : Made(c) => Len(statuses[c]) >= Planned /\ deps[c] = Needs
  <2> SUFFICES ASSUME NEW c \in Copies, c <= last PROVE Len(statuses[c]) >= Planned /\ deps[c] = Needs
    BY DEF Made
  <2> QED
    BY <1>1, Numbers DEF Whole
<1>3. bundle # Nobody => Read(bundle.quests, statuses[bundle.of], achieved[bundle.of])
  BY DEF IInv, BundleInv
<1> QED
  BY <1>2, <1>3 DEF NothingLost, Read, Whole, Kept
=============================================================================
