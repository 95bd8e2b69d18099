--------------------------- MODULE MCCampaignRun ---------------------------
(* Instances of CampaignRun for TLC; the cfg files choose among them.      *)
EXTENDS CampaignRunProperties

CONSTANTS a, b, c1, c2, c3, u1, s1, s2, tc1, tc2, tc3, tu1, ts1, ts2, ts3

\* A plan of two quests, the second after the first.
TwoPlanned == {1, 2}
ChainDeps == [q \in Quests |-> IF q = 2 THEN {1} ELSE {}]
ChainHome == [q \in Planned |-> IF q = 1 THEN a ELSE b]
OnePlanned == {1}

\* A completion in project a is followed by a quest in project b.
OneRule == {<<a, b>>}

\* The process that runs a thread.
Owner == [t \in Threads |->
  CASE t = tc1 -> c1 [] t = tc2 -> c2 [] t = tc3 -> c3 [] t = tu1 -> u1
    [] t \in {ts1, ts2} -> s1 [] OTHER -> s2]
=============================================================================
