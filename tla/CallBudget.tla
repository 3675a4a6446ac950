----------------------------- MODULE CallBudget -----------------------------
(***************************************************************************)
(* ModelCallBudget of services/supervisor_models.py: the one count of      *)
(* model calls that the supervisor, the research loop and the code loop of *)
(* a request share.  A call is charged before it is made, and one that     *)
(* fails stays charged.                                                    *)
(***************************************************************************)
EXTENDS Naturals

CONSTANT CallLimit     \* limit

ASSUME CallAssumption == CallLimit \in Nat \ {0}

VARIABLES
    used,      \* what consume has counted
    called     \* history: the requests that reached a model

callVars == <<used, called>>

CallInit == used = 0 /\ called = 0

\* consume raises SUPERVISOR_MODEL_BUDGET_EXHAUSTED
Exhausted == used >= CallLimit

\* consume, and the request it reserves
Call == ~ Exhausted /\ used' = used + 1 /\ called' = called + 1
=============================================================================
