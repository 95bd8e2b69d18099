----------------------------- MODULE MCPlanWork -----------------------------
(* Instances of PlanDag and of Worker for TLC.  They share nothing: one or *)
(* the other moves.                                                        *)
EXTENDS PlanDag, Worker

CONSTANTS k1, k2, k3, here, there

VARIABLE part

-----------------------------------------------------------------------------
(* The plans the agent may answer.                                         *)

\* Up to two dependencies, named in any order and possibly twice.
Deps(K) == UNION {[1..n -> K] : n \in 0..2}

Quest(k, p, d, b) == [key |-> k, project |-> p, depends_on |-> d, blank |-> b]

\* Three quests of one project with every choice of dependencies.
Graphs3 == {<<Quest(k1, here, a, FALSE), Quest(k2, here, b, FALSE), Quest(k3, here, c, FALSE)>> :
              a \in Deps({k2, k3}), b \in Deps({k1, k3}), c \in Deps({k1, k2})}

\* Plans over two projects, in either order of the chain.
Chains == {<<Quest(a, p, <<b>>, FALSE), Quest(b, q, <<>>, FALSE)>> :
             a \in {k1, k2}, b \in {k1, k2}, p \in {here, there}, q \in {here, there}}

\* What validate must refuse: nothing, blanks, a self dependency, a missing
\* key; equal keys are among Chains.
Bad == {<<>>, <<Quest(k1, here, <<>>, TRUE)>>, <<Quest(k1, here, <<k1>>, FALSE)>>,
        <<Quest(k1, here, <<k2>>, FALSE), Quest(k3, here, <<>>, FALSE)>>}

AllPlans == Graphs3 \cup Chains \cup Bad

-----------------------------------------------------------------------------
(* What agents.json may hold.                                              *)

Keeps == [runtime |-> None, tier |-> None, model |-> None]

File(rts, action, override) ==
  [DefaultConfig EXCEPT !.runtimes = rts, !.action = action, !.override = override]

Both == DefaultConfig.runtimes

\* The default, one that overrides every field for the project, one that names a model for
\* the action, one whose override is a runtime that is not there, one that is disabled.
Written ==
  {DefaultConfig,
   File(Both, [Keeps EXCEPT !.runtime = "claude", !.tier = "complex"],
        [runtime |-> "codex", tier |-> "simple", model |-> None]),
   File(Both, [Keeps EXCEPT !.model = "m"], [Keeps EXCEPT !.tier = "complex"]),
   File(Both, Keeps, [Keeps EXCEPT !.runtime = "gemini"]),
   File([Both EXCEPT !["claude"].enabled = FALSE], Keeps, [Keeps EXCEPT !.tier = "complex"])}

-----------------------------------------------------------------------------

\* Where nothing is asked of the planner, and where nobody works.
NoPlan == PlanInit /\ projects = {}
NoWork == Init /\ agents_json = None

MCInit == \/ part = "plan" /\ PlanInit /\ NoWork
          \/ part = "work" /\ NoPlan /\ Init

MCNext == /\ UNCHANGED part
          /\ \/ part = "plan" /\ PlanNext /\ UNCHANGED vars
             \/ part = "work" /\ Next /\ UNCHANGED planVars

\* The thread of plan_campaign goes on.
MCSpec == MCInit /\ [][MCNext]_<<part, planVars, vars>> /\ WF_planVars(part = "plan" /\ PlanCampaign)
=============================================================================
