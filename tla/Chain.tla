------------------------------- MODULE Chain -------------------------------
(***************************************************************************)
(* What the top-level pipeline promises of its stages, whatever they do:   *)
(* "The top-level pipeline composes the research-through-evaluation graphs *)
(* serially.  Failure or human rejection stops downstream execution"       *)
(* (docs/architecture.md).  A stage ends only after every stage before it  *)
(* has succeeded, and a run that is over ends no stage.                    *)
(***************************************************************************)
EXTENDS Naturals, Sequences

CONSTANT Length   \* the number of stages

VARIABLES
    ended,  \* how the stages of the run ended, in order
    open    \* a run is going on

chainVars == <<ended, open>>

Outcomes == {"SUCCEEDED", "STOPPED", "FAILED"}

ChainInit == ended = <<>> /\ open = FALSE

Begin == ~ open /\ open' = TRUE /\ ended' = <<>>

Finish(outcome) ==
    /\ open
    /\ Len(ended) < Length
    /\ \A i \in 1 .. Len(ended) : ended[i] = "SUCCEEDED"
    /\ ended' = Append(ended, outcome)
    /\ UNCHANGED open

\* The run is over; a run that dies leaves nothing to continue from.
Close == open /\ open' = FALSE /\ ended' \in {ended, <<>>}

ChainNext == Begin \/ Close \/ \E outcome \in Outcomes : Finish(outcome)

ChainSpec == ChainInit /\ [][ChainNext]_chainVars
=============================================================================
