------------------------------- MODULE MCTui -------------------------------
(* An instance of Tui for TLC, with the queries behind what it shows.      *)
EXTENDS Tui, Queries

CONSTANTS p1, c1, c2, q1, q2, w1, w2

\* Empty, one and two rows, rows in either order, one that vanishes, one that waits,
\* one that is done.
Snapshot(ps, cs, qs, ws, ds) ==
  [projects |-> ps, campaigns |-> cs, quests |-> qs, waiting |-> ws, done |-> ds]
SomeViews == {
  Snapshot(<<>>, <<>>, <<>>, {}, {}),
  Snapshot(<<p1>>, <<c1>>, <<q1>>, {}, {}),
  Snapshot(<<p1>>, <<c1, c2>>, <<q1, q2>>, {q2}, {c1}),
  Snapshot(<<p1>>, <<c2, c1>>, <<q2, q1>>, {q1}, {}),
  Snapshot(<<p1>>, <<c2>>, <<q2>>, {q2}, {c2})}

SomeForms == {<<>>, <<p1>>, <<p1, "path">>}

\* The terminal, the events and the quests, which share nothing: one of them moves.
VARIABLE part

MCInit ==
  /\ TablesInit
  /\ \/ part = "terminal" /\ Init
     \/ part \in {"rows", "quests"} /\ dash = Snapshot(<<>>, <<>>, <<>>, {}, {}) /\ Init

MCNext ==
  /\ UNCHANGED part
  /\ \/ part = "terminal" /\ Next /\ UNCHANGED tables
     \/ part = "rows" /\ RowsNext /\ UNCHANGED vars
     \/ part = "quests" /\ QuestsNext /\ UNCHANGED vars

MCSpec == MCInit /\ [][MCNext]_<<part, vars, tables>> /\ WF_vars(Loop) /\ WF_vars(NoKey)
=============================================================================
