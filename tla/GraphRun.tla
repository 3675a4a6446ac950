------------------------------ MODULE GraphRun ------------------------------
(***************************************************************************)
(* How LangGraph drives one workflow thread, as the graphs under           *)
(* workflows/ rely on it: a node runs from its first read to its last      *)
(* store write, the graph commits the node's checkpoint in a step of its   *)
(* own, and a process that dies between the two runs the node again.  The  *)
(* in-memory approval recorder lives as long as the process.               *)
(*                                                                         *)
(* A module of a workflow EXTENDS this one; carry is the part of           *)
(* WorkflowState that later nodes read.                                    *)
(***************************************************************************)
EXTENDS Naturals

CONSTANTS
    MaxInvocations,   \* bound: invocations from START
    MaxLives,         \* bound: processes that drive the thread
    None              \* the absent value

ASSUME GraphAssumption == MaxInvocations \in Nat /\ MaxLives \in Nat

VARIABLES
    ckpt,         \* the last committed checkpoint: the node to run next, and carry
    proc,         \* the process: its phase and the checkpoint it is about to commit
    recorder,     \* the approvals in the process's InMemoryApprovalRecorder
    life,         \* processes started so far
    invocations   \* invocations from START so far

graphVars == <<ckpt, proc, recorder, life, invocations>>

Idle(phase) == [phase |-> phase, to |-> None]

GraphInit(carry) ==
    /\ ckpt = [node |-> "START", carry |-> carry]
    /\ proc = Idle("DOWN")
    /\ recorder = {}
    /\ life = 0
    /\ invocations = 0

At(node) == proc.phase = "READY" /\ ckpt.node = node

\* The node returns: its checkpoint will name the next node.
GoesTo(node, carry) ==
    /\ proc' = [phase |-> "WROTE", to |-> [node |-> node, carry |-> carry]]
    /\ UNCHANGED <<ckpt, life, invocations>>

\* The node raises: the checkpoint stays before it.
Raises == proc' = Idle("RAISED") /\ UNCHANGED <<ckpt, life, invocations>>

\* The process dies.  The last process of a behaviour does not.
Dies ==
    /\ life < MaxLives
    /\ proc' = Idle("DOWN")
    /\ recorder' = {}
    /\ UNCHANGED <<ckpt, life, invocations>>

\* Between two writes of a node: a refused write raises, a crash loses the process.
StopsShort == (Raises /\ UNCHANGED recorder) \/ Dies

GraphCommit ==
    /\ proc.phase = "WROTE"
    /\ ckpt' = proc.to
    /\ proc' = Idle("READY")
    /\ UNCHANGED <<recorder, life, invocations>>

\* ainvoke(initial state) on a new process; the store keeps what it holds.
GraphInvoke(node, carry) ==
    /\ proc.phase \in {"DOWN", "RAISED"} \/ At("END")
    /\ life < MaxLives
    /\ invocations < MaxInvocations
    /\ ckpt' = [node |-> node, carry |-> carry]
    /\ proc' = Idle("READY")
    /\ recorder' = {}
    /\ life' = life + 1
    /\ invocations' = invocations + 1

\* A new process continues the thread of a shared checkpointer.
GraphResume ==
    /\ proc.phase \in {"DOWN", "RAISED"}
    /\ ckpt.node \notin {"START", "END"}
    /\ life < MaxLives
    /\ proc' = Idle("READY")
    /\ recorder' = {}
    /\ life' = life + 1
    /\ UNCHANGED <<ckpt, invocations>>

\* The same process invokes the thread again after an error.
GraphRetry ==
    /\ proc.phase = "RAISED"
    /\ proc' = Idle("READY")
    /\ UNCHANGED <<ckpt, recorder, life, invocations>>

GraphCrash == proc.phase # "DOWN" /\ Dies

\* InMemoryApprovalRecorder.record: an id comes again only with its own payload.
Accepts(answer) == \A kept \in recorder : kept.id = answer.id => kept = answer
Keeps(answer) == recorder' = recorder \cup {answer}

GraphType(nodes, carries, answers) ==
    /\ ckpt \in [node : nodes, carry : carries]
    /\ proc \in [phase : {"DOWN", "READY", "WROTE", "RAISED"},
                 to : [node : nodes, carry : carries] \cup {None}]
    /\ recorder \subseteq answers
    /\ life \in 0 .. MaxLives
    /\ invocations \in 0 .. MaxInvocations
=============================================================================
