-------------------------- MODULE SMTPAsyncSession --------------------------
(***************************************************************************)
(* An SMTP session on top of its OperationQueue: who keeps the session      *)
(* alive, and the automatic disconnection 30 seconds after the queue        *)
(* stopped (async/smtp/MCSMTPAsyncSession.cpp, MCSMTPOperation.cpp,         *)
(* objc/utils/MCOOperation.mm, objc/smtp/MCOSMTPSession.mm).                *)
(*                                                                         *)
(* The actions of OperationQueue are taken with the effects of the queue's  *)
(* callbacks on the session conjoined.  The reference counts of the session *)
(* are modelled by what holds it: the MCOSMTPSession object, the queue from *)
(* queueStartRunning to queueStoppedRunning, the delayed disconnection, and *)
(* every native operation (setSession retains it).  "destroyed" latches the *)
(* moment when nothing does.                                                *)
(***************************************************************************)
EXTENDS OperationQueue

CONSTANTS
    SendOps,        \* operations made for the user, each with an Obj-C wrapper
    DisconnectOps   \* operations made by the automatic disconnection

ASSUME SessionOpsAssumption ==
    /\ Ops = SendOps \cup DisconnectOps
    /\ SendOps \cap DisconnectOps = {}

VARIABLES
    userSession,        \* the user holds the MCOSMTPSession
    userOps,            \* wrappers (MCOOperation) the user holds
    started,            \* wrappers whose _started is YES
    selfRetains,        \* how often a wrapper retains itself
    queueHolds,         \* queueStartRunning's retain of the session
    disconnectArmed,    \* tryAutomaticDisconnectAfterDelay is scheduled
    connected,          \* mState # STATE_DISCONNECTED
    destroyed           \* ~SMTPAsyncSession has run

userVars == <<userSession, userOps, started, selfRetains>>
sessionVars == <<userVars, queueHolds, disconnectArmed, connected>>
allVars == <<vars, sessionVars, destroyed>>

WrapperAlive(op) == op \in userOps \/ selfRetains[op] > 0

(* A native operation is held by its wrapper, by the array, and by the      *)
(* worker's autorelease pool until the end of the iteration.                *)
OperationAlive(op) ==
    \/ op \in SendOps /\ WrapperAlive(op)
    \/ op \in ToSet(mOperations)
    \/ op = current

(* A wrapper retains the MCOSMTPSession it was made by. *)
MCOSessionAlive == userSession \/ \E op \in SendOps : WrapperAlive(op)

SessionHeld ==
    \/ MCOSessionAlive
    \/ queueHolds
    \/ disconnectArmed
    \/ \E op \in Ops : OperationAlive(op)

SessionInit ==
    /\ Init
    /\ userSession = TRUE
    /\ userOps = {}
    /\ started = {}
    /\ selfRetains = [op \in SendOps |-> 0]
    /\ queueHolds = FALSE
    /\ disconnectArmed = FALSE
    /\ connected = FALSE
    /\ destroyed = FALSE

-----------------------------------------------------------------------------
(* The user. *)

(* sendOperationWithData: and start:, which retains the wrapper and calls   *)
(* runOperation: a scheduled disconnection is cancelled first.              *)
Send(op) ==
    /\ userSession
    /\ AddOperation(op)
    /\ userOps' = userOps \cup {op}
    /\ started' = started \cup {op}
    /\ selfRetains' = [selfRetains EXCEPT ![op] = @ + 1]
    /\ disconnectArmed' = FALSE
    /\ UNCHANGED <<userSession, queueHolds, connected>>

(* Mutant: the self-retain is given back whether or not it was taken. *)
CancelSendAlwaysReleases(op) ==
    /\ op \in userOps
    /\ Cancel(op)
    /\ started' = started \ {op}
    /\ selfRetains' = [selfRetains EXCEPT ![op] = @ - 1]
    /\ UNCHANGED <<userSession, userOps, queueHolds, disconnectArmed, connected>>

(* -[MCOOperation cancel] gives the self-retain back only while _started. *)
CancelSend(op) ==
    /\ op \in userOps
    /\ Cancel(op)
    /\ started' = started \ {op}
    /\ selfRetains' = [selfRetains EXCEPT ![op] = IF op \in started THEN @ - 1 ELSE @]
    /\ UNCHANGED <<userSession, userOps, queueHolds, disconnectArmed, connected>>

(* cancelAllOperations cancels the native operations behind the wrappers. *)
CancelAll ==
    /\ userSession
    /\ CancelAllOperations
    /\ UNCHANGED sessionVars

DropOperation(op) ==
    /\ ClientRuns
    /\ op \in userOps
    /\ userOps' = userOps \ {op}
    /\ UNCHANGED <<vars, userSession, started, selfRetains, queueHolds, disconnectArmed,
                   connected>>

DropSession ==
    /\ ClientRuns
    /\ userSession
    /\ userSession' = FALSE
    /\ UNCHANGED <<vars, userOps, started, selfRetains, queueHolds, disconnectArmed,
                   connected>>

-----------------------------------------------------------------------------
(* The queue's callbacks. *)

(* Mutant: the session is not retained. *)
QueueStartRunningUnretained ==
    /\ StartThread
    /\ UNCHANGED <<userVars, queueHolds, disconnectArmed, connected>>

QueueStartRunning ==
    /\ StartThread
    /\ queueHolds' = TRUE
    /\ UNCHANGED <<userVars, disconnectArmed, connected>>

(* Mutant: the queue stops without scheduling the disconnection. *)
QueueStoppedWithoutDisconnect ==
    /\ StoppedOnMainThread
    /\ queueHolds' = FALSE
    /\ UNCHANGED <<userVars, disconnectArmed, connected>>

(* tryAutomaticDisconnect replaces a scheduled disconnection unless the     *)
(* session is disconnected; then the session is released.                   *)
QueueStoppedRunning ==
    /\ StoppedOnMainThread
    /\ disconnectArmed' = (disconnectArmed \/ connected)
    /\ queueHolds' = FALSE
    /\ UNCHANGED <<userVars, connected>>

(* tryAutomaticDisconnectAfterDelay runs a new operation; the name of a     *)
(* dead one is used again.                                                  *)
AutomaticDisconnect(op) ==
    /\ Idle
    /\ disconnectArmed
    /\ ~ OperationAlive(op)
    /\ disconnectArmed' = FALSE
    /\ mOperations' = Append(mOperations, op)
    /\ phase' = [phase EXCEPT ![op] = "queued"]
    /\ mCancelled' = mCancelled \ {op}
    /\ mainPc' = "added"
    /\ UNCHANGED <<semVars, mQuitting, mStarted, pendingCheckRunning, timerArmed, frame,
                   mCounter, mainQueue, worker, workerVars>>
    /\ UNCHANGED <<userVars, queueHolds, connected>>

(* _operationCompleted clears _started before the user's block and releases *)
(* the wrapper after it.                                                    *)
OperationCompleted ==
    /\ CallbackOnMainThread
    /\ started' = IF frame' = "callback" THEN started \ {current} ELSE started
    /\ UNCHANGED <<userSession, userOps, selfRetains, queueHolds, disconnectArmed,
                   connected>>

(* Mutant: the wrapper is not released after its completion. *)
OperationCompletedUnreleased == CallbackReturns /\ UNCHANGED sessionVars

OperationCompletedReturns ==
    /\ CallbackReturns
    /\ selfRetains' = IF current \in SendOps
                      THEN [selfRetains EXCEPT ![current] = @ - 1]
                      ELSE selfRetains
    /\ UNCHANGED <<userSession, userOps, started, queueHolds, disconnectArmed, connected>>

(* main(): sending connects when it can, SMTPDisconnectOperation does not. *)
SessionMainReturns ==
    /\ MainReturns
    /\ connected' \in IF current \in SendOps THEN BOOLEAN ELSE {FALSE}
    /\ UNCHANGED <<userVars, queueHolds, disconnectArmed>>

(* The steps of the queue that do not reach the session. *)
QueueOnly ==
    /\ \/ SignalAdded \/ AlreadyStarted \/ ThreadHasStarted
       \/ BeforeMain \/ CheckRunningOnMainThread \/ StoppedReturns
       \/ ThreadStarts \/ TakeToken \/ PeekOperation \/ PeekQuit
       \/ MainBegins \/ RemoveOperation \/ FinishOperation \/ EndIteration
    /\ UNCHANGED sessionVars

-----------------------------------------------------------------------------
(* The last release runs the destructor. *)
Release == destroyed' = (destroyed \/ ~ SessionHeld')

User ==
    /\ \/ \E op \in SendOps : Send(op) \/ CancelSend(op) \/ DropOperation(op)
       \/ CancelAll
       \/ DropSession
    /\ Release

Threads ==
    /\ \/ QueueStartRunning \/ QueueStoppedRunning
       \/ OperationCompleted \/ OperationCompletedReturns
       \/ SessionMainReturns
       \/ QueueOnly
    /\ Release

QueueTimer == CheckRunningAfterDelay /\ UNCHANGED sessionVars /\ Release

Disconnection == (\E op \in DisconnectOps : AutomaticDisconnect(op)) /\ Release

SessionNext == User \/ Threads \/ QueueTimer \/ Disconnection

(* The fairness of the queue, and the delay of the disconnection expires. *)
SessionFairness ==
    /\ WF_allVars(Threads)
    /\ WF_allVars(QueueTimer)
    /\ WF_allVars(Disconnection)

SessionSpec == SessionInit /\ [][SessionNext]_allVars /\ SessionFairness

-----------------------------------------------------------------------------
(* Properties. *)

(* The session is never used after its destructor: not by the queue's       *)
(* callback (whose mSession is a bare pointer) when the queue starts, runs  *)
(* or restarts from stoppedOnMainThread, not by an operation, and not by    *)
(* the delayed disconnection.                                               *)
SessionOutlivesItsUsers ==
    destroyed =>
        /\ ~ mStarted
        /\ mainPc = "ready"
        /\ mOperations = <<>>
        /\ current = NoOp
        /\ ~ disconnectArmed

(* The completion callback finds its wrapper (a bare pointer): an operation *)
(* that can still complete is retained by its wrapper, exactly once; and no *)
(* wrapper is released more often than it was retained.                     *)
WrapperOutlivesCallback ==
    \A op \in SendOps :
        /\ selfRetains[op] \in {0, 1}
        /\ phase[op] \in {"queued", "running", "done"} /\ op \notin mCancelled
            => selfRetains[op] = 1

(* A connection that nobody uses is closed: tryAutomaticDisconnect, and the *)
(* restart of the queue for the disconnection itself.                       *)
ConnectionIsClosed == (connected /\ ~ userSession) ~> ~ connected

(* A wrapper cancelled behind its back by cancelAllOperations keeps its     *)
(* self-retain, and with it the session, forever.                           *)
Leaked(op) == op \in started /\ op \in mCancelled

(* Otherwise a session that the user dropped with all its operations is     *)
(* destroyed, through the pending operations, the idle delay of the queue   *)
(* and the automatic disconnection.                                         *)
SessionIsDestroyed ==
    (~ userSession /\ userOps = {} /\ \A op \in SendOps : ~ Leaked(op)) ~> destroyed
=============================================================================
