--------------------------- MODULE SerialExecutor ---------------------------
(***************************************************************************)
(* What mailcore2's OperationQueue promises to its clients, with no thread, *)
(* no semaphore and no dispatch queue in sight: the operations are executed *)
(* one at a time in the order in which they were added, each of them once;  *)
(* the completion callback of an operation comes after its execution, at    *)
(* most once and never after the operation was cancelled; and the next      *)
(* operation does not begin before the previous one is settled (its         *)
(* callback was called, or it was cancelled).                               *)
(* OperationQueue.tla is shown to implement this specification.             *)
(***************************************************************************)
EXTENDS Sequences

CONSTANTS
    Ops,                \* the Operation objects
    RunsWhenCancelled   \* those of Ops whose main() runs even when cancelled

VARIABLES
    waiting,    \* operations added and not begun, in the order of addition
    phase,      \* how far each operation has come
    cancelled   \* operations on which cancel() was called

vars == <<waiting, phase, cancelled>>

Phases == {"new", "queued", "running", "done", "delivered"}

TypeOK ==
    /\ waiting \in Seq(Ops)
    /\ phase \in [Ops -> Phases]
    /\ cancelled \subseteq Ops

Init ==
    /\ waiting = <<>>
    /\ phase = [op \in Ops |-> "new"]
    /\ cancelled = {}

(* No operation is being executed, and none awaits its callback. *)
Settled ==
    \A op \in Ops : /\ phase[op] # "running"
                    /\ phase[op] = "done" => op \in cancelled

Runnable(op) == op \notin cancelled \/ op \in RunsWhenCancelled

Add(op) ==
    /\ phase[op] = "new"
    /\ waiting' = Append(waiting, op)
    /\ phase' = [phase EXCEPT ![op] = "queued"]
    /\ UNCHANGED cancelled

Cancel(S) ==
    /\ cancelled' = cancelled \cup S
    /\ UNCHANGED <<waiting, phase>>

Begin ==
    /\ waiting # <<>>
    /\ Settled
    /\ Runnable(Head(waiting))
    /\ phase' = [phase EXCEPT ![Head(waiting)] = "running"]
    /\ waiting' = Tail(waiting)
    /\ UNCHANGED cancelled

(* A cancelled operation leaves the queue without being executed. *)
Skip ==
    /\ waiting # <<>>
    /\ Settled
    /\ ~ Runnable(Head(waiting))
    /\ phase' = [phase EXCEPT ![Head(waiting)] = "done"]
    /\ waiting' = Tail(waiting)
    /\ UNCHANGED cancelled

Complete(op) ==
    /\ phase[op] = "running"
    /\ phase' = [phase EXCEPT ![op] = "done"]
    /\ UNCHANGED <<waiting, cancelled>>

Deliver(op) ==
    /\ phase[op] = "done"
    /\ op \notin cancelled
    /\ phase' = [phase EXCEPT ![op] = "delivered"]
    /\ UNCHANGED <<waiting, cancelled>>

Advance == Begin \/ Skip \/ \E op \in Ops : Complete(op) \/ Deliver(op)

Next ==
    \/ \E op \in Ops : Add(op)
    \/ \E S \in SUBSET Ops : Cancel(S)
    \/ Advance

Spec == Init /\ [][Next]_vars /\ WF_vars(Advance)
=============================================================================
