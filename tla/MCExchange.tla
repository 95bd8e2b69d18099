----------------------------- MODULE MCExchange -----------------------------
(* Instances of Relations and of Handoff for TLC.  They share nothing: one *)
(* or the other moves.                                                     *)
EXTENDS MCRelations, Handoff

CONSTANTS r1, r2, r3

VARIABLE part

\* The second quest needs the first.
Chain == {<<2, 1>>}

\* Commands are alike, and runners, whose names the machines have.
Alike == Swap \cup Permutations(Threads)

\* The bound of Handoff: the third command acts only while nothing has been suspended, and
\* quests are added only where commands do not overlap and it has not acted.
Small ==
  LET spare == \E t \in Threads : at'[t].pc = "idle"
  IN /\ \A c \in Copies : Len(statuses'[c]) <= Planned \/ (alone /\ spare)
     /\ suspends' = 0 \/ spare

\* A step of Handoff that is within the bound.
SmallStep == CarryNext /\ Small

MCInit == \/ part = "rules" /\ Init /\ CarryInit /\ alone
          \/ part = "carry" /\ Init /\ quests[1].project = "api" /\ CarryInit

MCNext == /\ UNCHANGED part
          /\ \/ part = "rules" /\ Next /\ UNCHANGED carryVars
             \/ part = "carry" /\ SmallStep /\ UNCHANGED vars

MCSpec == MCInit /\ [][MCNext]_<<part, vars, carryVars>>
=============================================================================
