--------------------------- MODULE OperationQueue ---------------------------
(***************************************************************************)
(* mailcore2's OperationQueue (core/basetypes/MCOperationQueue.cpp): a      *)
(* worker thread, started on demand and stopped one second after the queue  *)
(* ran empty, executes Operation objects; everything else happens on the    *)
(* main thread, which the worker reaches through a serial dispatch queue.   *)
(*                                                                         *)
(* Two processes: the main thread (clients, the blocks of the dispatch      *)
(* queue, the delayed check) and the worker.  A section under mLock is one  *)
(* step; every semaphore operation that the other thread can see in the     *)
(* middle of something is a step of its own.                                *)
(***************************************************************************)
EXTENDS Integers, Sequences, FiniteSets, SequencesExt

CONSTANTS
    Ops,                \* the Operation objects, each added at most once
    RunsWhenCancelled,  \* those with mShouldRunWhenCancelled set
    NoOp                \* NULL

ASSUME RunsWhenCancelledAssumption == RunsWhenCancelled \subseteq Ops
ASSUME NoOpAssumption == NoOp \notin Ops

VARIABLES
    mOperations,            \* the array of operations, the one being run first
    mOperationSem,          \* one token per operation to take, or to quit
    mStartSem,              \* "the worker runs"
    mStopSem,               \* "the worker has left its loop"
    mQuitting,              \* the worker was asked to stop
    mStarted,               \* there is a worker
    pendingCheckRunning,    \* _pendingCheckRunning
    timerArmed,             \* the dispatch_after of checkRunningAfterDelay
    mCounter,               \* the reference count of the queue object
    mainQueue,              \* blocks dispatched to the main thread, not begun
    frame,                  \* the block the main thread is in
    mainPc,                 \* where it is in addOperation or startThread
    worker,                 \* where the worker is in runOperations
    current,                \* the worker's op
    needsCheckRunning,      \* the worker's local of that name
    mCancelled,             \* the operations whose mCancelled is set
    phase                   \* history: how far each operation has come

semVars == <<mOperationSem, mStartSem, mStopSem>>
mainVars == <<pendingCheckRunning, timerArmed, frame, mainPc>>
workerVars == <<current, needsCheckRunning>>
vars == <<mOperations, semVars, mQuitting, mStarted, mainVars, mCounter,
          mainQueue, worker, workerVars, mCancelled, phase>>

WorkerPcs == {"none", "created", "down", "peek", "before", "main", "running",
              "remove", "finish", "callback", "check", "stopping"}

Block(method, op) == [method |-> method, op |-> op]
Blocks == [method : {"beforeMain", "callback"}, op : Ops]
          \cup [method : {"checkRunning", "stopped"}, op : {NoOp}]

TypeOK ==
    /\ mOperations \in Seq(Ops)
    /\ mOperationSem \in Nat
    /\ mStartSem \in Nat
    /\ mStopSem \in Nat
    /\ mQuitting \in BOOLEAN
    /\ mStarted \in BOOLEAN
    /\ pendingCheckRunning \in BOOLEAN
    /\ timerArmed \in BOOLEAN
    /\ mCounter \in Int
    /\ mainQueue \in Seq(Blocks)
    /\ frame \in {"loop", "callback", "stopped"}
    /\ mainPc \in {"ready", "added", "start", "waitStart"}
    /\ worker \in WorkerPcs
    /\ current \in Ops \cup {NoOp}
    /\ needsCheckRunning \in BOOLEAN
    /\ mCancelled \subseteq Ops
    /\ phase \in [Ops -> {"new", "queued", "running", "done", "delivered"}]

Init ==
    /\ mOperations = <<>>
    /\ mOperationSem = 0 /\ mStartSem = 0 /\ mStopSem = 0
    /\ mQuitting = FALSE
    /\ mStarted = FALSE
    /\ pendingCheckRunning = FALSE
    /\ timerArmed = FALSE
    /\ mCounter = 1                     \* the owner's reference
    /\ mainQueue = <<>>
    /\ frame = "loop"
    /\ mainPc = "ready"
    /\ worker = "none"
    /\ current = NoOp
    /\ needsCheckRunning = FALSE
    /\ mCancelled = {}
    /\ phase = [op \in Ops |-> "new"]

-----------------------------------------------------------------------------
(* The main thread: clients.  They call from their own blocks of the main  *)
(* queue or from inside a completion callback.                             *)

ClientRuns == mainPc = "ready" /\ frame \in {"loop", "callback"}

(* addOperation: the array is changed under the lock; the semaphore and    *)
(* the thread follow.                                                      *)
AddOperation(op) ==
    /\ ClientRuns
    /\ phase[op] = "new"
    /\ mOperations' = Append(mOperations, op)
    /\ phase' = [phase EXCEPT ![op] = "queued"]
    /\ mainPc' = "added"
    /\ UNCHANGED <<semVars, mQuitting, mStarted, pendingCheckRunning, timerArmed,
                   frame, mCounter, mainQueue, worker, workerVars, mCancelled>>

SignalAdded ==
    /\ mainPc = "added"
    /\ mOperationSem' = mOperationSem + 1
    /\ mainPc' = "start"
    /\ UNCHANGED <<mOperations, mStartSem, mStopSem, mQuitting, mStarted,
                   pendingCheckRunning, timerArmed, frame, mCounter, mainQueue,
                   worker, workerVars, mCancelled, phase>>

(* startThread, called by addOperation and by stoppedOnMainThread. *)
(* Mutant: mQuitting is reset before the test of mStarted. *)
AlreadyStartedForgetsQuitting ==
    /\ mainPc = "start"
    /\ mStarted
    /\ mQuitting' = FALSE
    /\ mainPc' = "ready"
    /\ UNCHANGED <<mOperations, semVars, mStarted, pendingCheckRunning, timerArmed, frame,
                   mCounter, mainQueue, worker, workerVars, mCancelled, phase>>

AlreadyStarted ==
    /\ mainPc = "start"
    /\ mStarted
    /\ mainPc' = "ready"
    /\ UNCHANGED <<mOperations, semVars, mQuitting, mStarted, pendingCheckRunning,
                   timerArmed, frame, mCounter, mainQueue, worker, workerVars,
                   mCancelled, phase>>

StartThread ==
    /\ mainPc = "start"
    /\ ~ mStarted
    /\ mCounter' = mCounter + 1         \* (3)
    /\ mQuitting' = FALSE
    /\ mStarted' = TRUE
    /\ worker' = "created"              \* pthread_create
    /\ mainPc' = "waitStart"
    /\ UNCHANGED <<mOperations, semVars, pendingCheckRunning, timerArmed, frame,
                   mainQueue, workerVars, mCancelled, phase>>

ThreadHasStarted ==
    /\ mainPc = "waitStart"
    /\ mStartSem > 0
    /\ mStartSem' = mStartSem - 1
    /\ mainPc' = "ready"
    /\ UNCHANGED <<mOperations, mOperationSem, mStopSem, mQuitting, mStarted,
                   pendingCheckRunning, timerArmed, frame, mCounter, mainQueue,
                   worker, workerVars, mCancelled, phase>>

(* Operation::cancel() and cancelAllOperations(). *)
CancelOps(S) ==
    /\ ClientRuns
    /\ mCancelled' = mCancelled \cup S
    /\ UNCHANGED <<mOperations, semVars, mQuitting, mStarted, mainVars, mCounter,
                   mainQueue, worker, workerVars, phase>>

Cancel(op) == CancelOps({op})
CancelAllOperations == CancelOps(ToSet(mOperations))

-----------------------------------------------------------------------------
(* The main thread: the blocks of the dispatch queue, in their order, and  *)
(* the delayed check, whose block comes whenever its delay expires.        *)

Idle == mainPc = "ready" /\ frame = "loop"

Handles(method) ==
    /\ Idle
    /\ mainQueue # <<>>
    /\ Head(mainQueue).method = method
    /\ mainQueue' = Tail(mainQueue)

BeforeMain ==
    /\ Handles("beforeMain")
    /\ worker' = "main"                 \* dispatch_sync returns
    /\ UNCHANGED <<mOperations, semVars, mQuitting, mStarted, mainVars, mCounter,
                   workerVars, mCancelled, phase>>

(* callbackOnMainThread tests isCancelled() again, on the thread on which  *)
(* clients cancel.                                                         *)
CallbackDespiteCancel(op) == TRUE    \* mutant: no second test of isCancelled()

Callback(op) == op \notin mCancelled

CallbackOnMainThread ==
    /\ Handles("callback")
    /\ LET op == Head(mainQueue).op
       IN  IF Callback(op)
           THEN /\ phase' = [phase EXCEPT ![op] = "delivered"]
                /\ frame' = "callback"
                /\ UNCHANGED worker
           ELSE /\ worker' = "check"
                /\ UNCHANGED <<phase, frame>>
    /\ UNCHANGED <<mOperations, semVars, mQuitting, mStarted, pendingCheckRunning,
                   timerArmed, mainPc, mCounter, workerVars, mCancelled>>

(* operationFinished() returns, and with it the worker's dispatch_sync. *)
CallbackReturns ==
    /\ frame = "callback"
    /\ mainPc = "ready"
    /\ frame' = "loop"
    /\ worker' = "check"
    /\ UNCHANGED <<mOperations, semVars, mQuitting, mStarted, pendingCheckRunning,
                   timerArmed, mainPc, mCounter, mainQueue, workerVars, mCancelled,
                   phase>>

(* checkRunningOnMainThread: a pending delayed check is replaced.  A        *)
(* delayed call holds a reference of its own besides (4), which its         *)
(* cancellation gives back.                                                 *)
(* Mutant: the retain (4) of the check that is replaced is not given back. *)
CancelledCheckKeepsRetain == IF timerArmed THEN 1 ELSE 0

CancelledCheck ==
    IF pendingCheckRunning THEN 1 + (IF timerArmed THEN 1 ELSE 0) ELSE 0

CheckRunningOnMainThread ==
    /\ Handles("checkRunning")
    /\ pendingCheckRunning' = TRUE
    /\ timerArmed' = TRUE
    /\ mCounter' = mCounter + 2 - CancelledCheck - 1
    /\ UNCHANGED <<mOperations, semVars, mQuitting, mStarted, frame, mainPc, worker,
                   workerVars, mCancelled, phase>>

(* Mutant: the request to quit is repeated. *)
QuitsAgain == mOperations = <<>>

(* Whether the delayed check asks the worker to quit; under mLock. *)
ShouldQuit == ~ mQuitting /\ mOperations = <<>>

CheckRunningAfterDelay ==
    /\ Idle
    /\ timerArmed
    /\ timerArmed' = FALSE
    /\ pendingCheckRunning' = FALSE
    /\ IF ShouldQuit
       THEN /\ mOperationSem' = mOperationSem + 1
            /\ mQuitting' = TRUE
       ELSE UNCHANGED <<mOperationSem, mQuitting>>
    /\ mCounter' = mCounter - 2         \* (4) and the delayed call's own
    /\ UNCHANGED <<mOperations, mStartSem, mStopSem, mStarted, frame, mainPc,
                   mainQueue, worker, workerVars, mCancelled, phase>>

NeverRestarts == FALSE       \* mutant: the count of operations is not looked at

(* stoppedOnMainThread: operations that were added while the worker was     *)
(* quitting restart it.                                                     *)
NeedsRestart == mOperations # <<>>

StoppedOnMainThread ==
    /\ Handles("stopped")
    /\ mStopSem > 0
    /\ mStopSem' = mStopSem - 1
    /\ mStarted' = FALSE
    /\ worker' = "none"                 \* leaves without touching the queue
    /\ frame' = "stopped"
    /\ mainPc' = IF NeedsRestart THEN "start" ELSE "ready"
    /\ UNCHANGED <<mOperations, mOperationSem, mStartSem, mQuitting,
                   pendingCheckRunning, timerArmed, mCounter, workerVars,
                   mCancelled, phase>>

StoppedReturns ==
    /\ frame = "stopped"
    /\ mainPc = "ready"
    /\ frame' = "loop"
    /\ mCounter' = mCounter - 2         \* (2) and (3)
    /\ UNCHANGED <<mOperations, semVars, mQuitting, mStarted, pendingCheckRunning,
                   timerArmed, mainPc, mainQueue, worker, workerVars, mCancelled,
                   phase>>

-----------------------------------------------------------------------------
(* The worker: runOperations. *)

ThreadStarts ==
    /\ worker = "created"
    /\ mStartSem' = mStartSem + 1
    /\ worker' = "down"
    /\ UNCHANGED <<mOperations, mOperationSem, mStopSem, mQuitting, mStarted, mainVars,
                   mCounter, mainQueue, workerVars, mCancelled, phase>>

TakeToken ==
    /\ worker = "down"
    /\ mOperationSem > 0
    /\ mOperationSem' = mOperationSem - 1
    /\ worker' = "peek"
    /\ UNCHANGED <<mOperations, mStartSem, mStopSem, mQuitting, mStarted, mainVars,
                   mCounter, mainQueue, workerVars, mCancelled, phase>>

(* The first operation is read, not removed, and announced by beforeMain.   *)
(* With no operation and no request to quit MCAssert(op != NULL) would stop *)
(* the program: NoAssertFailure below.                                      *)
PeekOperation ==
    /\ worker = "peek"
    /\ mOperations # <<>>
    /\ current' = Head(mOperations)
    /\ mainQueue' = Append(mainQueue, Block("beforeMain", Head(mOperations)))
    /\ worker' = "before"
    /\ UNCHANGED <<mOperations, semVars, mQuitting, mStarted, mainVars, mCounter,
                   needsCheckRunning, mCancelled, phase>>

PeekQuit ==
    /\ worker = "peek"
    /\ mOperations = <<>>
    /\ mQuitting
    /\ mStopSem' = mStopSem + 1
    /\ mCounter' = mCounter + 1         \* (2)
    /\ mainQueue' = Append(mainQueue, Block("stopped", NoOp))
    /\ worker' = "stopping"
    /\ UNCHANGED <<mOperations, mOperationSem, mStartSem, mQuitting, mStarted, mainVars,
                   workerVars, mCancelled, phase>>

Runs(op) == op \notin mCancelled \/ op \in RunsWhenCancelled

MainBegins ==
    /\ worker = "main"
    /\ IF Runs(current)
       THEN /\ phase' = [phase EXCEPT ![current] = "running"]
            /\ worker' = "running"
       ELSE /\ phase' = [phase EXCEPT ![current] = "done"]
            /\ worker' = "remove"
    /\ UNCHANGED <<mOperations, semVars, mQuitting, mStarted, mainVars, mCounter,
                   mainQueue, workerVars, mCancelled>>

MainReturns ==
    /\ worker = "running"
    /\ phase' = [phase EXCEPT ![current] = "done"]
    /\ worker' = "remove"
    /\ UNCHANGED <<mOperations, semVars, mQuitting, mStarted, mainVars, mCounter,
                   mainQueue, workerVars, mCancelled>>

(* Mutant: emptiness is tested before the removal. *)
RemoveOperationTestsFirst ==
    /\ worker = "remove"
    /\ mOperations' = Tail(mOperations)
    /\ needsCheckRunning' = (mOperations = <<>>)
    /\ worker' = "finish"
    /\ UNCHANGED <<semVars, mQuitting, mStarted, mainVars, mCounter, mainQueue, current,
                   mCancelled, phase>>

RemoveOperation ==
    /\ worker = "remove"
    /\ mOperations' = Tail(mOperations)
    /\ needsCheckRunning' = (Tail(mOperations) = <<>>)
    /\ worker' = "finish"
    /\ UNCHANGED <<semVars, mQuitting, mStarted, mainVars, mCounter, mainQueue, current,
                   mCancelled, phase>>

(* Mutant: the callback is dispatched without waiting for it. *)
FinishOperationAsync ==
    /\ worker = "finish"
    /\ worker' = "check"
    /\ mainQueue' = IF current \in mCancelled THEN mainQueue
                    ELSE Append(mainQueue, Block("callback", current))
    /\ UNCHANGED <<mOperations, semVars, mQuitting, mStarted, mainVars, mCounter,
                   workerVars, mCancelled, phase>>

FinishOperation ==
    /\ worker = "finish"
    /\ IF current \in mCancelled
       THEN /\ worker' = "check"
            /\ UNCHANGED mainQueue
       ELSE /\ mainQueue' = Append(mainQueue, Block("callback", current))
            /\ worker' = "callback"
    /\ UNCHANGED <<mOperations, semVars, mQuitting, mStarted, mainVars, mCounter,
                   workerVars, mCancelled, phase>>

(* The end of the iteration, where the autorelease pool lets go of op. *)
EndIteration ==
    /\ worker = "check"
    /\ IF needsCheckRunning
       THEN /\ mCounter' = mCounter + 1     \* (1)
            /\ mainQueue' = Append(mainQueue, Block("checkRunning", NoOp))
       ELSE UNCHANGED <<mCounter, mainQueue>>
    /\ current' = NoOp
    /\ needsCheckRunning' = FALSE
    /\ worker' = "down"
    /\ UNCHANGED <<mOperations, semVars, mQuitting, mStarted, mainVars, mCancelled, phase>>

-----------------------------------------------------------------------------
Client ==
    \/ \E op \in Ops : AddOperation(op) \/ Cancel(op)
    \/ CancelAllOperations

MainThread ==
    \/ SignalAdded \/ AlreadyStarted \/ StartThread \/ ThreadHasStarted
    \/ BeforeMain \/ CallbackOnMainThread \/ CallbackReturns
    \/ CheckRunningOnMainThread \/ StoppedOnMainThread \/ StoppedReturns

Worker ==
    \/ ThreadStarts \/ TakeToken
    \/ PeekOperation \/ PeekQuit
    \/ MainBegins \/ MainReturns \/ RemoveOperation
    \/ FinishOperation \/ EndIteration

Next == Client \/ MainThread \/ CheckRunningAfterDelay \/ Worker

(* Both threads are scheduled, a delay expires, main() and a completion     *)
(* callback return.  Clients need not do anything.                          *)
Fairness ==
    /\ WF_vars(MainThread)
    /\ WF_vars(CheckRunningAfterDelay)
    /\ WF_vars(Worker)

Spec == Init /\ [][Next]_vars /\ Fairness

-----------------------------------------------------------------------------
(* Properties. *)

One(b) == IF b THEN 1 ELSE 0

(* An operation whose token the worker has used, still at the head. *)
Taken == worker \in {"before", "main", "running", "remove"}

(* The quit token of checkRunningAfterDelay that the worker has yet to see. *)
QuitPending == mStarted /\ mQuitting /\ worker # "stopping"

(* mOperationSem has a token for every operation that the worker has yet    *)
(* to take and one for a pending request to quit, counting the token that   *)
(* the worker holds and the one that addOperation is about to post: the     *)
(* quit request and the additions that race with it are never confused.     *)
TokensExact ==
    mOperationSem + One(worker = "peek") + One(mainPc = "added")
        = Len(mOperations) - One(Taken) + One(QuitPending)

(* MCAssert(op != NULL) in runOperations holds: a worker that is woken up   *)
(* has an operation to run unless it was asked to quit.                     *)
NoAssertFailure == worker = "peek" /\ mOperations = <<>> => mQuitting

(* The operations added while the worker was quitting are not forgotten:    *)
(* whenever the array holds one there is a worker, or the main thread is    *)
(* about to start one.                                                      *)
NoOperationStranded ==
    mOperations # <<>> => mStarted \/ mainPc \in {"added", "start"}

(* The retains numbered (1) to (4) in the source and those of the delayed   *)
(* call are all given back exactly once: the counter is the owner's         *)
(* reference, one per posted checkRunning, two per armed delayed check, one *)
(* per live worker, one for its stop notice, and in stoppedOnMainThread the *)
(* two it is about to release.                                              *)
Posted(method) ==
    Cardinality({i \in DOMAIN mainQueue : mainQueue[i].method = method})

ReferencesExact ==
    mCounter = 1 + Posted("checkRunning") + 2 * One(timerArmed) + One(mStarted)
                 + Posted("stopped") + 2 * One(frame = "stopped")

(* The two threads meet.  Of the blocks in the dispatch queue only the last *)
(* can be one that the worker waits for, and then the worker waits for that *)
(* one. *)
Awaited(b) ==
    /\ b.method = "beforeMain" => worker = "before"
    /\ b.method = "callback" => worker = "callback"
    /\ b.method = "stopped" => worker = "stopping"

BlocksAwaited ==
    \A i \in DOMAIN mainQueue :
        /\ Awaited(mainQueue[i])
        /\ mainQueue[i].method # "checkRunning" => i = Len(mainQueue)

(* A callback runs while the worker waits for it. *)
CallbackAwaited == frame = "callback" => worker = "callback" /\ mainQueue = <<>>

(* A worker exists exactly when mStarted says so, it leaves no block behind *)
(* and only stops when it was asked to; a delayed check that outlives it    *)
(* finds mQuitting set.                                                     *)
WorkerKnown ==
    /\ worker = "none" <=> ~ mStarted
    /\ worker = "none" => mainQueue = <<>>
    /\ worker = "stopping" => mQuitting
    /\ ~ mStarted /\ timerArmed => mQuitting

(* The worker runs the head of the array. *)
RunsHead ==
    /\ Taken => mOperations # <<>> /\ current = Head(mOperations)
    /\ worker \in {"finish", "callback"} => current \in Ops

Rendezvous == BlocksAwaited /\ CallbackAwaited /\ WorkerKnown /\ RunsHead

(* OperationQueue implements the serial executor: order, one at a time, the *)
(* callback once and not after a cancellation, and progress.                *)
Executor ==
    INSTANCE SerialExecutor
    WITH waiting <- IF worker \in {"running", "remove"} THEN Tail(mOperations)
                                                       ELSE mOperations,
         cancelled <- mCancelled

ImplementsExecutor == Executor!Spec

(* Every operation that was added is settled: its completion callback is    *)
(* called, or it was cancelled and left the queue.                          *)
EveryOperationSettles ==
    \A op \in Ops :
        phase[op] = "queued"
            ~> (phase[op] = "delivered" \/ (phase[op] = "done" /\ op \in mCancelled))

(* An idle worker is stopped unless an operation arrives. *)
IdleWorkerStops ==
    (mStarted /\ mOperations = <<>>) ~> (~ mStarted \/ mOperations # <<>>)
=============================================================================
