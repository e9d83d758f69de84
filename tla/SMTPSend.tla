------------------------------ MODULE SMTPSend ------------------------------
(***************************************************************************)
(* Sending messages through one SMTP session, and cancelling them:          *)
(* SMTPSendWithDataOperation on the worker of an OperationQueue, the state  *)
(* of core/smtp/MCSMTPSession.cpp that it drives, and cancel() on the main  *)
(* thread, which reaches into the transmission that is under way.  The      *)
(* flags mSendingCancelled and mCanCancel belong to the session, not to an  *)
(* operation, and each has a lock of its own.                               *)
(***************************************************************************)
EXTENDS OperationQueue

CONSTANT MaxCancels     \* bound: calls of cancel() and cancelAllOperations

ASSUME MaxCancelsAssumption == MaxCancels \in Nat

VARIABLES
    sendPc,             \* where the worker is in sendMessage
    mState,             \* of the SMTPSession
    streamOpen,         \* mSmtp->stream # NULL
    streamCancelled,    \* mailstream_cancel was called on that stream
    mShouldDisconnect,
    mSendingCancelled,
    mCanCancel,
    result,             \* of the transmission, until it is turned into an error
    failed,             \* operations whose mError is not ErrorNone
    cancelPc,           \* where the main thread is in cancel()
    cancelling,         \* operations that cancelAllOperations has yet to cancel
    cancels,            \* how many of those calls there were, for MaxCancels
    lockHeld,           \* cancelAllOperations holds the mLock of the queue
    sent,               \* history: messages that the server accepted
    disturbed           \* history: sends during which a cancel() was under way

connectionVars == <<mState, streamOpen, mShouldDisconnect>>
cancelVars == <<cancelPc, cancelling, cancels, lockHeld>>
sendVars == <<sendPc, connectionVars, streamCancelled, mSendingCancelled, mCanCancel,
              result, failed, cancelVars, sent, disturbed>>
allVars == <<vars, sendVars>>

Errors == {"none", "connection", "other"}

SendInit ==
    /\ Init
    /\ sendPc = "out"
    /\ mState = "disconnected" /\ streamOpen = FALSE /\ mShouldDisconnect = FALSE
    /\ streamCancelled = FALSE
    /\ mSendingCancelled = FALSE
    /\ mCanCancel = FALSE
    /\ result = "none"
    /\ failed = {}
    /\ cancelPc = "none" /\ cancelling = <<>> /\ cancels = 0 /\ lockHeld = FALSE
    /\ sent = {}
    /\ disturbed = {}

-----------------------------------------------------------------------------
(* The worker: sendMessage, called by the operation's main(). *)

At(pc) == worker = "running" /\ sendPc = pc

(* Mutant: the flag of an earlier cancel() is not cleared. *)
EnterSendKeepsFlag ==
    /\ At("enter")
    /\ sendPc' = "connect"
    /\ UNCHANGED <<vars, connectionVars, streamCancelled, mSendingCancelled, mCanCancel,
                   result, failed, cancelVars, sent, disturbed>>

EnterSend ==
    /\ At("enter")
    /\ mSendingCancelled' = FALSE
    /\ sendPc' = "connect"
    /\ UNCHANGED <<vars, connectionVars, streamCancelled, mCanCancel, result, failed,
                   cancelVars, sent, disturbed>>

(* connectIfNeeded: a connection whose stream is gone, or that failed, is  *)
(* closed first; a connection may fail.                                    *)
MustReconnect == mShouldDisconnect \/ (mState # "disconnected" /\ ~ streamOpen)

ConnectIfNeeded ==
    /\ At("connect")
    /\ mShouldDisconnect' = FALSE
    /\ IF mState # "disconnected" /\ ~ MustReconnect
       THEN /\ sendPc' = "login"
            /\ UNCHANGED <<mState, streamOpen, streamCancelled, failed>>
       ELSE /\ streamCancelled' = FALSE
            /\ \/ /\ mState' = "connected"
                  /\ streamOpen' = TRUE
                  /\ sendPc' = "login"
                  /\ UNCHANGED failed
               \/ /\ mState' = "disconnected"
                  /\ streamOpen' = FALSE
                  /\ failed' = failed \cup {current}
                  /\ sendPc' = "return"
    /\ UNCHANGED <<vars, mSendingCancelled, mCanCancel, result, cancelVars, sent, disturbed>>

(* loginIfNeeded: a stream error asks for a new connection the next time,  *)
(* a refusal keeps this one.                                               *)
LoginIfNeeded ==
    /\ At("login")
    /\ \/ /\ mState' = "loggedin"
          /\ sendPc' = "check"
          /\ UNCHANGED <<mShouldDisconnect, failed>>
       \/ /\ mState = "connected"
          /\ failed' = failed \cup {current}
          /\ mShouldDisconnect' \in {mShouldDisconnect, TRUE}
          /\ sendPc' = "return"
          /\ UNCHANGED mState
    /\ UNCHANGED <<vars, streamOpen, streamCancelled, mSendingCancelled, mCanCancel,
                   result, cancelVars, sent, disturbed>>

(* A cancelled sending leaves with the error of loginIfNeeded, ErrorNone. *)
CheckSendingCancelled ==
    /\ At("check")
    /\ IF mSendingCancelled
       THEN sendPc' = "return"
       ELSE sendPc' = "arm"
    /\ UNCHANGED <<vars, connectionVars, streamCancelled, mSendingCancelled, mCanCancel,
                   result, failed, cancelVars, sent, disturbed>>

ArmCancel ==
    /\ At("arm")
    /\ mCanCancel' = TRUE
    /\ sendPc' = "transmit"
    /\ UNCHANGED <<vars, connectionVars, streamCancelled, mSendingCancelled, result,
                   failed, cancelVars, sent, disturbed>>

(* mailesmtp_send: the server accepts the message or not, and a cancelled  *)
(* stream hides its answer.                                                *)
Transmit ==
    /\ At("transmit")
    /\ sent' \in {sent, sent \cup {current}}
    /\ result' \in IF streamCancelled THEN {"connection"}
                   ELSE IF current \in sent' THEN {"none", "connection"}
                   ELSE {"connection", "other"}
    /\ sendPc' = "disarm"
    /\ UNCHANGED <<vars, connectionVars, streamCancelled, mSendingCancelled, mCanCancel,
                   failed, cancelVars, disturbed>>

(* Mutant: mCanCancel is not reset. *)
DisarmCancelNot ==
    /\ At("disarm")
    /\ sendPc' = "close"
    /\ UNCHANGED <<vars, connectionVars, streamCancelled, mSendingCancelled, mCanCancel,
                   result, failed, cancelVars, sent, disturbed>>

DisarmCancel ==
    /\ At("disarm")
    /\ mCanCancel' = FALSE
    /\ sendPc' = "close"
    /\ UNCHANGED <<vars, connectionVars, streamCancelled, mSendingCancelled, result, failed,
                   cancelVars, sent, disturbed>>

(* Mutant: the stream is kept for the next message. *)
KeepStream ==
    /\ At("close")
    /\ failed' = IF result = "none" THEN failed ELSE failed \cup {current}
    /\ result' = "none"
    /\ sendPc' = "return"
    /\ UNCHANGED <<vars, connectionVars, streamCancelled, mSendingCancelled, mCanCancel,
                   cancelVars, sent, disturbed>>

(* Either way of sending ends with the stream closed; the pipelined one    *)
(* and a stream error ask for a new connection as well.                    *)
CloseStream ==
    /\ At("close")
    /\ streamOpen' = FALSE
    /\ streamCancelled' = FALSE
    /\ \E pipelining \in BOOLEAN :
        mShouldDisconnect' = (mShouldDisconnect \/ pipelining \/ result = "connection")
    /\ failed' = IF result = "none" THEN failed ELSE failed \cup {current}
    /\ result' = "none"
    /\ sendPc' = "return"
    /\ UNCHANGED <<vars, mState, mSendingCancelled, mCanCancel, cancelVars, sent, disturbed>>

SendBegins ==
    /\ MainBegins
    /\ sendPc' = IF Runs(current) THEN "enter" ELSE "out"
    /\ disturbed' = IF Runs(current) /\ cancelPc # "none" THEN disturbed \cup {current}
                                                         ELSE disturbed
    /\ UNCHANGED <<connectionVars, streamCancelled, mSendingCancelled, mCanCancel, result,
                   failed, cancelVars, sent>>

SendReturns ==
    /\ At("return")
    /\ MainReturns
    /\ sendPc' = "out"
    /\ UNCHANGED <<connectionVars, streamCancelled, mSendingCancelled, mCanCancel, result,
                   failed, cancelVars, sent, disturbed>>

-----------------------------------------------------------------------------
(* The main thread: cancel() of one operation, or of all under mLock. *)

Sending == IF worker = "running" THEN {current} ELSE {}

CallCancel ==
    /\ ClientRuns
    /\ cancelPc = "none"
    /\ cancels < MaxCancels
    /\ cancels' = cancels + 1
    /\ cancelPc' = "mark"
    /\ disturbed' = disturbed \cup Sending
    /\ UNCHANGED <<vars, sendPc, connectionVars, streamCancelled, mSendingCancelled,
                   mCanCancel, result, failed, sent>>

StartCancel(op) ==
    /\ CallCancel
    /\ cancelling' = <<op>>
    /\ UNCHANGED lockHeld

StartCancelAll ==
    /\ CallCancel
    /\ mOperations # <<>>
    /\ cancelling' = mOperations
    /\ lockHeld' = TRUE

MarkCancelled ==
    /\ cancelPc = "mark"
    /\ Cancel(Head(cancelling))
    /\ cancelPc' = "flag"
    /\ UNCHANGED <<sendPc, connectionVars, streamCancelled, mSendingCancelled, mCanCancel,
                   result, failed, cancelling, cancels, lockHeld, sent, disturbed>>

FlagCancelled ==
    /\ cancelPc = "flag"
    /\ mSendingCancelled' = TRUE
    /\ cancelPc' = "stream"
    /\ UNCHANGED <<vars, sendPc, connectionVars, streamCancelled, mCanCancel, result, failed,
                   cancelling, cancels, lockHeld, sent, disturbed>>

(* Mutant: cancelAllOperations returns without unlocking mLock. *)
CancelStreamKeepsLock ==
    /\ cancelPc = "stream"
    /\ streamCancelled' = (streamCancelled \/ (mCanCancel /\ streamOpen))
    /\ cancelling' = Tail(cancelling)
    /\ cancelPc' = IF Tail(cancelling) = <<>> THEN "none" ELSE "mark"
    /\ UNCHANGED <<vars, sendPc, connectionVars, mSendingCancelled, mCanCancel, result,
                   failed, cancels, lockHeld, sent, disturbed>>

CancelStream ==
    /\ cancelPc = "stream"
    /\ streamCancelled' = (streamCancelled \/ (mCanCancel /\ streamOpen))
    /\ cancelling' = Tail(cancelling)
    /\ cancelPc' = IF Tail(cancelling) = <<>> THEN "none" ELSE "mark"
    /\ lockHeld' = (lockHeld /\ Tail(cancelling) # <<>>)
    /\ UNCHANGED <<vars, sendPc, connectionVars, mSendingCancelled, mCanCancel, result,
                   failed, cancels, sent, disturbed>>

-----------------------------------------------------------------------------
(* The rest of the queue: the main thread does nothing else while it is in *)
(* cancel(), and the worker waits for mLock.                               *)

MainThreadFree == cancelPc = "none"

QueueMainThread ==
    /\ MainThreadFree
    /\ MainThread \/ CheckRunningAfterDelay
    /\ UNCHANGED sendVars

QueueLocked ==
    /\ ~ lockHeld
    /\ PeekOperation \/ PeekQuit \/ RemoveOperation
    /\ UNCHANGED sendVars

QueueWorker ==
    /\ ThreadStarts \/ TakeToken \/ FinishOperation \/ EndIteration
    /\ UNCHANGED sendVars

AddSend(op) == MainThreadFree /\ AddOperation(op) /\ UNCHANGED sendVars

SendUser ==
    \/ \E op \in Ops : AddSend(op) \/ StartCancel(op)
    \/ StartCancelAll

CancelSteps == MarkCancelled \/ FlagCancelled \/ CancelStream

SendWorker ==
    \/ QueueLocked \/ QueueWorker
    \/ SendBegins \/ EnterSend \/ ConnectIfNeeded \/ LoginIfNeeded
    \/ CheckSendingCancelled \/ ArmCancel \/ Transmit \/ DisarmCancel
    \/ CloseStream \/ SendReturns

SendNext == SendUser \/ CancelSteps \/ QueueMainThread \/ SendWorker

(* Both threads run, and the calls to the server return (mailsmtp_set_     *)
(* timeout bounds them).                                                   *)
SendSpec ==
    /\ SendInit
    /\ [][SendNext]_allVars
    /\ WF_allVars(CancelSteps)
    /\ WF_allVars(QueueMainThread)
    /\ WF_allVars(SendWorker)

-----------------------------------------------------------------------------
(* Properties. *)

(* cancel() finds the stream of a transmission, never one that is being     *)
(* opened, logged in or closed: mCanCancel frames the transmission and the  *)
(* connection that it uses is up and logged in.                             *)
CancelFindsTransmission ==
    /\ mCanCancel => sendPc \in {"transmit", "disarm"} /\ streamOpen
    /\ sendPc = "transmit" => mState = "loggedin" /\ streamOpen

Succeeded(op) == phase[op] = "delivered" /\ op \notin failed

(* MCOSMTPSendOperation.h promises an error when the operation failed; what *)
(* is reported as success was accepted by the server.                       *)
SuccessMeansSent == \A op \in Ops : Succeeded(op) => op \in sent

(* It is so for every send during which no cancel() was under way, whatever *)
(* was cancelled before: the flags of a cancelled send do not outlive it.   *)
UndisturbedSuccessMeansSent ==
    \A op \in Ops : Succeeded(op) /\ op \notin disturbed => op \in sent

(* A send that fails without any cancel during it fails on its own account: *)
(* the stream cancelled for one message is never used for the next.         *)
CancelledStreamNotReused ==
    streamCancelled => current \in disturbed

(* Every message is settled, although cancelAllOperations holds the queue's *)
(* lock across the locks of the session.                                    *)
EverySendSettles ==
    \A op \in Ops : phase[op] = "queued" ~> (phase[op] = "delivered" \/ op \in mCancelled)
=============================================================================
