---------------------------- MODULE MCEvaluation ----------------------------
(* Evaluation over predictions one practical delta apart, whose severe recall drops by *)
(* what is tolerated, or by more.                                                       *)
EXTENDS Evaluation

CONSTANT s1

Low == [macro |-> 5, balanced |-> 5, severe |-> 5]
High == [macro |-> 7, balanced |-> 5, severe |-> 4]
Blind == [macro |-> 7, balanced |-> 5, severe |-> 3]
MCMetrics == {Low, High, Blind}
MCTrained == [spec |-> s1, baseline |-> Low, candidate |-> High]
=============================================================================
