------------------------------ MODULE TurnLoop ------------------------------
(***************************************************************************)
(* What a request promises about its model calls: there are CallLimit at   *)
(* most, and while a tool loop is busy every one of them is a turn of that *)
(* loop, of which it has Limit.  A loop ends with its last turn or at a    *)
(* call that led to none.                                                  *)
(***************************************************************************)
EXTENDS Naturals

CONSTANTS Limit, CallLimit

VARIABLES busy, turns, calls

turnVars == <<busy, turns, calls>>

Init == busy = FALSE /\ turns = 0 /\ calls = 0

MayCall == calls < CallLimit /\ calls' = calls + 1

\* A call of the supervisor.
Decide == ~ busy /\ MayCall /\ UNCHANGED <<busy, turns>>

Begin == ~ busy /\ busy' = TRUE /\ UNCHANGED <<turns, calls>>

Turn == busy /\ turns < Limit /\ turns' = turns + 1 /\ MayCall /\ UNCHANGED busy

End == busy /\ busy' = FALSE /\ turns' = 0 /\ (MayCall \/ UNCHANGED calls)

Next == Decide \/ Begin \/ Turn \/ End

Spec == Init /\ [][Next]_turnVars
=============================================================================
