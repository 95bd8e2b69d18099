--------------------------- MODULE QuestLifecycle ---------------------------
(***************************************************************************)
(* What a quest goes through, as a user of the campaign sees it: it is     *)
(* inserted pending, a worker takes it, and the worker's end puts it where *)
(* it is done, where it waits for input, or back where it can be taken     *)
(* again.  Completed and failed are final.                                 *)
(***************************************************************************)
CONSTANTS Quests, Planned

VARIABLE status

Init == status = [q \in Quests |-> IF q \in Planned THEN "pending" ELSE "absent"]

Move(q, from, to) == status[q] \in from /\ status' = [status EXCEPT ![q] = to]

Insert(q) == Move(q, {"absent"}, "pending")
Start(q)  == Move(q, {"pending", "needs_input"}, "running")
Finish(q) == \E s \in {"completed", "failed", "needs_input"} : Move(q, {"running"}, s)
Interrupt(q) == Move(q, {"running", "needs_input"}, "pending")

Next == \E q \in Quests : Insert(q) \/ Start(q) \/ Finish(q) \/ Interrupt(q)

Spec == Init /\ [][Next]_status
=============================================================================
