---------------------------- MODULE MCRelations ----------------------------
(* Instances of Relations for TLC.                                         *)
EXTENDS Relations, TLC

CONSTANTS t1, t2, l1

Swap == Permutations(Runners)

\* One name is proposed both ways, another mails; one proposal has no name.
Learned == {[name |-> "sync", from |-> "api", to |-> "web", action |-> "auto_dispatch"],
            [name |-> "sync", from |-> "web", to |-> "api", action |-> "auto_dispatch"],
            [name |-> "tell", from |-> "api", to |-> "web", action |-> "propose"],
            [name |-> None, from |-> "web", to |-> "api", action |-> "propose"]}
=============================================================================
