-------------------------- MODULE AdaptationPlanner -------------------------
(***************************************************************************)
(* The loop of services/adaptation_tool_planner.py inside plan_adaptation: *)
(* one tool call in each turn, three observations, a validation that       *)
(* retains the proposal, and a turn without a call that ends it.  It lives *)
(* in the process: a crash loses it, and the node plans again.             *)
(*                                                                         *)
(* With one call in each turn the six calls cannot be exceeded before the  *)
(* six turns are.                                                          *)
(***************************************************************************)
EXTENDS Naturals

CONSTANTS
    Contents,            \* proposals that agree with the facts
    MaxPlannerTurns      \* MAX_PLANNER_TURNS

ASSUME PlannerAssumption == MaxPlannerTurns \in Nat

VARIABLE planner      \* the state of the loop and the last validated proposal

PlannerObservations ==
    {"inspect_repository_profile", "inspect_dataset_contract", "compare_repository_dataset"}
RequiredPlannerTools == PlannerObservations \cup {"validate_adaptation_plan"}

NoPlanner == [phase |-> "OFF", turns |-> 0, executed |-> {}, proposal |-> {}]

PlannerStart ==
    /\ planner.phase = "OFF"
    /\ planner' = [NoPlanner EXCEPT !.phase = "MODEL"]

PlannerTurn == planner.phase = "MODEL" /\ planner.turns < MaxPlannerTurns

Executed(tool) == [planner EXCEPT !.turns = @ + 1, !.executed = @ \cup {tool}]

ObserveFacts(tool) == PlannerTurn /\ planner' = Executed(tool)

\* The last proposal that was validated is the plan's.
ValidateAdaptationPlan(content) ==
    /\ PlannerTurn
    /\ PlannerObservations \subseteq planner.executed
    /\ planner' = [Executed("validate_adaptation_plan") EXCEPT !.proposal = {content}]

\* A reply without a call.
PlannerEnds ==
    /\ PlannerTurn
    /\ RequiredPlannerTools \subseteq planner.executed
    /\ planner' = [planner EXCEPT !.turns = @ + 1, !.phase = "DONE"]

\* The limit, the provider, a message that is not one known call, a reply before
\* the tools succeeded, or a tool that rejects its input.
PlannerFails ==
    /\ planner.phase = "MODEL"
    /\ planner' = [planner EXCEPT !.phase = "FAILED"]

PlannerStep ==
    \/ PlannerEnds \/ PlannerFails
    \/ \E tool \in PlannerObservations : ObserveFacts(tool)
    \/ \E content \in Contents : ValidateAdaptationPlan(content)
=============================================================================
