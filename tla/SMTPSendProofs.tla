--------------------------- MODULE SMTPSendProofs ----------------------------
(***************************************************************************)
(* Proofs, for any set of messages, of what sending promises when messages  *)
(* are cancelled while the session sends one of them.                       *)
(*                                                                          *)
(* The step of the session and that of the queue it runs on are taken apart:*)
(* to the queue, every step of SMTPSend is one of its own or nothing, so    *)
(* that its invariants are inherited; to the session, what the queue does   *)
(* beside a send changes nothing. The strengthening says where the          *)
(* connection, the two flags of cancel() and the bookkeeping of the history *)
(* are at each point of sendMessage.                                        *)
(***************************************************************************)
EXTENDS SMTPSend, OperationQueueProofs

(* Where a send is.                                                         *)
SendPcs == {"out", "enter", "connect", "login", "check", "arm", "transmit", "disarm",
            "close", "return"}

(* The types of the variables of the session.                               *)
SendTypeOK ==
    /\ sendPc \in SendPcs
    /\ mState \in {"disconnected", "connected", "loggedin"}
    /\ streamOpen \in BOOLEAN
    /\ streamCancelled \in BOOLEAN
    /\ mShouldDisconnect \in BOOLEAN
    /\ mSendingCancelled \in BOOLEAN
    /\ mCanCancel \in BOOLEAN
    /\ result \in Errors
    /\ failed \subseteq Ops
    /\ cancelPc \in {"none", "mark", "flag", "stream"}
    /\ cancelling \in Seq(Ops)
    /\ cancels \in Nat
    /\ lockHeld \in BOOLEAN
    /\ sent \subseteq Ops
    /\ disturbed \subseteq Ops

(* sendMessage is entered and left with main(), and cancel() always has an  *)
(* operation to cancel. *)
CallsFramed ==
    /\ sendPc # "out" <=> worker = "running"
    /\ cancelPc # "none" <=> cancelling # <<>>

(* The connection is up and logged in from the login to the closing. *)
ConnectionUp ==
    /\ sendPc = "login" => streamOpen /\ mState # "disconnected"
    /\ sendPc \in {"check", "arm", "transmit", "disarm", "close"}
           => streamOpen /\ mState = "loggedin"

(* The flags of a cancel() are up only while it, or the send that it met,   *)
(* goes on, and that send is counted as disturbed. *)
FlagsFramed ==
    /\ mCanCancel => sendPc \in {"transmit", "disarm"}
    /\ streamCancelled => sendPc \in {"transmit", "disarm", "close"} /\ current \in disturbed
    /\ worker = "running" /\ (cancelPc # "none" \/ (sendPc # "enter" /\ mSendingCancelled))
           => current \in disturbed

(* An operation on its way to success was sent, or disturbed. *)
SentSoFar ==
    /\ sendPc \in {"disarm", "close"} /\ result = "none" => current \in sent
    /\ sendPc = "return" => current \in failed \cup disturbed \cup sent
    /\ \A op \in Ops :
        phase[op] = "delivered" \/ (phase[op] = "done" /\ op \notin mCancelled)
            => op \in failed \cup disturbed \cup sent

(* The inductive invariant, beside those of the queue.                      *)
SendInv == SendTypeOK /\ CallsFramed /\ ConnectionUp /\ FlagsFramed /\ SentSoFar

-----------------------------------------------------------------------------
(* All three invariants hold initially.                                     *)
LEMMA InitSend == SendInit => IInv /\ PhasesAgree /\ SendInv
<1> SUFFICES ASSUME SendInit PROVE IInv /\ PhasesAgree /\ SendInv
  OBVIOUS
<1>1. IInv /\ PhasesAgree
  BY InitIInv, InitPhases DEF SendInit
<1>2. SendTypeOK
  BY EmptySeq DEF SendInit, SendTypeOK, SendPcs, Errors
<1>3. CallsFramed /\ ConnectionUp /\ FlagsFramed
  BY DEF SendInit, Init, CallsFramed, ConnectionUp, FlagsFramed
<1>4. SentSoFar
  BY DEF SendInit, Init, SentSoFar
<1> QED BY <1>1, <1>2, <1>3, <1>4 DEF SendInv

(* To the queue every step is one of its own, or nothing. *)
LEMMA SendIsQueueStep == SendInv /\ [SendNext]_allVars => [Next]_vars
<1> SUFFICES ASSUME SendInv, [SendNext]_allVars PROVE [Next]_vars
  OBVIOUS
<1>1. ASSUME MarkCancelled PROVE Next
  <2>1. Head(cancelling) \in Ops
    BY <1>1, HeadTailProperties DEF MarkCancelled, SendInv, SendTypeOK, CallsFramed
  <2> QED BY <1>1, <2>1 DEF MarkCancelled, Next, Client
<1>2. ASSUME NEW op \in Ops, AddSend(op) PROVE Next
  BY <1>2 DEF AddSend, Next, Client
<1>3. ASSUME (\E op \in Ops : StartCancel(op)) \/ StartCancelAll PROVE UNCHANGED vars
  BY <1>3 DEF StartCancel, StartCancelAll, CallCancel
<1>4. ASSUME FlagCancelled \/ CancelStream PROVE UNCHANGED vars
  BY <1>4 DEF FlagCancelled, CancelStream
<1>5. ASSUME QueueMainThread \/ QueueLocked \/ QueueWorker \/ SendBegins \/ SendReturns PROVE Next
  BY <1>5 DEF QueueMainThread, QueueLocked, QueueWorker, SendBegins, SendReturns, Next, Worker
<1>6. ASSUME EnterSend \/ ConnectIfNeeded \/ LoginIfNeeded \/ CheckSendingCancelled \/ ArmCancel
             \/ Transmit \/ DisarmCancel \/ CloseStream
      PROVE UNCHANGED vars
  BY <1>6 DEF EnterSend, ConnectIfNeeded, LoginIfNeeded, CheckSendingCancelled, ArmCancel, Transmit,
     DisarmCancel, CloseStream
<1>7. ASSUME UNCHANGED allVars PROVE UNCHANGED vars
  BY <1>7 DEF allVars
<1> QED BY <1>1, <1>2, <1>3, <1>4, <1>5, <1>6, <1>7 DEF SendNext, SendUser, CancelSteps, SendWorker

(* A step of the queue that neither begins nor ends main() nor cancels. *)
QueueOnly ==
    /\ worker = "running" <=> worker' = "running"
    /\ worker = "running" => current' = current
    /\ mCancelled' = mCancelled
    /\ \A op \in Ops :
        /\ phase'[op] = "done" => phase[op] = "done"
        /\ phase'[op] = "delivered"
               => phase[op] = "delivered" \/ (phase[op] = "done" /\ op \notin mCancelled)

(* So is every step that the queue takes beside a send.                     *)
LEMMA QueueOnlyStep ==
    ASSUME IInv, PhasesAgree,
           QueueMainThread \/ QueueLocked \/ QueueWorker \/ (\E op \in Ops : AddSend(op))
    PROVE  QueueOnly /\ UNCHANGED sendVars
<1>typ. phase \in [Ops -> {"new", "queued", "running", "done", "delivered"}]
  BY DEF IInv, TypeOK
<1>1. ASSUME NEW op \in Ops, AddSend(op) PROVE QueueOnly
  BY <1>1, <1>typ DEF AddSend, AddOperation, QueueOnly, workerVars
<1>2. ASSUME QueueLocked \/ QueueWorker PROVE QueueOnly
  BY <1>2 DEF QueueLocked, QueueWorker, PeekOperation, PeekQuit, RemoveOperation, ThreadStarts,
     TakeToken, FinishOperation, EndIteration, QueueOnly, workerVars
<1>3. ASSUME \/ SignalAdded \/ AlreadyStarted \/ ThreadHasStarted \/ CheckRunningOnMainThread
             \/ StoppedReturns \/ CheckRunningAfterDelay
      PROVE QueueOnly
  BY <1>3 DEF SignalAdded, AlreadyStarted, ThreadHasStarted, CheckRunningOnMainThread,
     StoppedReturns, CheckRunningAfterDelay, QueueOnly, workerVars
<1>4. ASSUME StartThread \/ CallbackReturns PROVE QueueOnly
  BY <1>4 DEF StartThread, CallbackReturns, QueueOnly, workerVars, IInv, Rendezvous, WorkerKnown,
     CallbackAwaited
<1>5. ASSUME BeforeMain \/ StoppedOnMainThread PROVE QueueOnly
  <2>1. worker \in {"before", "stopping"}
    BY <1>5 DEF BeforeMain, StoppedOnMainThread, Handles, IInv, Rendezvous, BlocksAwaited, Awaited
  <2> QED BY <1>5, <2>1 DEF BeforeMain, StoppedOnMainThread, QueueOnly, workerVars
<1>6. ASSUME CallbackOnMainThread PROVE QueueOnly
  <2>1. QueueFacts(Blocks, mainQueue)
    BY QueueLemma DEF IInv, TypeOK
  <2>2. /\ worker = "callback" /\ frame = "loop"
        /\ Head(mainQueue).op = current /\ current \in Ops
    BY <1>6, <2>1 DEF CallbackOnMainThread, Handles, Idle, IInv, Rendezvous, BlocksAwaited, Awaited,
       RunsHead, PhasesAgree, CurrentPhase, QueueFacts
  <2>3. phase[current] = "done"
    BY <2>2 DEF PhasesAgree, CurrentPhase
  <2> QED BY <1>6, <2>2, <2>3, <1>typ DEF CallbackOnMainThread, Callback, QueueOnly, workerVars
<1> QED BY <1>1, <1>2, <1>3, <1>4, <1>5, <1>6 DEF QueueMainThread, QueueLocked, QueueWorker, AddSend,
     MainThread

(* Every step keeps the invariant of the session: one case per action, and  *)
(* one for what the queue does beside a send.                               *)
LEMMA NextSend ==
    IInv /\ IInv' /\ PhasesAgree /\ SendInv /\ [SendNext]_allVars => SendInv'
<1> SUFFICES ASSUME IInv, IInv', PhasesAgree, SendInv, [SendNext]_allVars PROVE SendInv'
  OBVIOUS
<1>typ. phase \in [Ops -> {"new", "queued", "running", "done", "delivered"}]
  BY DEF IInv, TypeOK
<1>cur. worker = "running" => current \in Ops
  BY QueueLemma DEF IInv, Rendezvous, RunsHead, Taken, TypeOK, QueueFacts
<1>can. QueueFacts(Ops, cancelling)
  BY QueueLemma DEF SendInv, SendTypeOK
<1>1. ASSUME QueueOnly, UNCHANGED sendVars PROVE SendInv'
  <2>1. SendTypeOK'
    BY <1>1 DEF SendInv, SendTypeOK, sendVars, connectionVars, cancelVars
  <2>2. CallsFramed' /\ ConnectionUp' /\ FlagsFramed'
    BY <1>1 DEF SendInv, SendTypeOK, SendPcs, CallsFramed, ConnectionUp, FlagsFramed, QueueOnly, sendVars,
       connectionVars, cancelVars
  <2>3. SentSoFar'
    BY <1>1 DEF SendInv, CallsFramed, SentSoFar, QueueOnly, sendVars
  <2> QED BY <2>1, <2>2, <2>3 DEF SendInv
<1>2. ASSUME EnterSend PROVE SendInv'
  BY <1>2 DEF EnterSend, At, SendInv, SendTypeOK, SendPcs, CallsFramed, ConnectionUp, FlagsFramed, SentSoFar,
     vars, workerVars, connectionVars, cancelVars
<1>3. ASSUME ConnectIfNeeded PROVE SendInv'
  BY <1>3, <1>cur DEF ConnectIfNeeded, MustReconnect, At, SendInv, SendTypeOK, SendPcs, CallsFramed,
     ConnectionUp, FlagsFramed, SentSoFar, vars, workerVars, cancelVars
<1>4. ASSUME LoginIfNeeded PROVE SendInv'
  BY <1>4, <1>cur DEF LoginIfNeeded, At, SendInv, SendTypeOK, SendPcs, CallsFramed, ConnectionUp, FlagsFramed,
     SentSoFar, vars, workerVars, cancelVars
<1>5. ASSUME CheckSendingCancelled PROVE SendInv'
  BY <1>5 DEF CheckSendingCancelled, At, SendInv, SendTypeOK, SendPcs, CallsFramed, ConnectionUp,
     FlagsFramed, SentSoFar, vars, workerVars, connectionVars, cancelVars
<1>6. ASSUME ArmCancel PROVE SendInv'
  BY <1>6 DEF ArmCancel, At, SendInv, SendTypeOK, SendPcs, CallsFramed, ConnectionUp,
     FlagsFramed, SentSoFar, vars, workerVars, connectionVars, cancelVars
<1>7. ASSUME Transmit PROVE SendInv'
  BY <1>7, <1>cur DEF Transmit, At, SendInv, SendTypeOK, SendPcs, Errors, CallsFramed, ConnectionUp,
     FlagsFramed, SentSoFar, vars, workerVars, connectionVars, cancelVars
<1>8. ASSUME DisarmCancel PROVE SendInv'
  BY <1>8 DEF DisarmCancel, At, SendInv, SendTypeOK, SendPcs, CallsFramed, ConnectionUp,
     FlagsFramed, SentSoFar, vars, workerVars, connectionVars, cancelVars
<1>9. ASSUME CloseStream PROVE SendInv'
  BY <1>9, <1>cur DEF CloseStream, At, SendInv, SendTypeOK, SendPcs, Errors, CallsFramed, ConnectionUp,
     FlagsFramed, SentSoFar, vars, workerVars, cancelVars
<1>10. ASSUME SendBegins PROVE SendInv'
  <2>1. /\ worker = "main" /\ UNCHANGED <<current, mCancelled>> /\ current \in Ops
        /\ \A op \in Ops : op # current => phase'[op] = phase[op]
        /\ UNCHANGED <<connectionVars, streamCancelled, mSendingCancelled, mCanCancel, result, failed,
                       cancelVars, sent>>
        /\ disturbed' \in SUBSET Ops /\ disturbed \subseteq disturbed'
        /\ sendPc = "out"
    BY <1>10, <1>typ, QueueLemma DEF SendBegins, MainBegins, Runs, IInv, Rendezvous, RunsHead, Taken,
       TypeOK, QueueFacts, workerVars, SendInv, SendTypeOK, CallsFramed
  <2>2. CASE Runs(current)
    <3>1. /\ worker' = "running" /\ phase'[current] = "running" /\ sendPc' = "enter"
          /\ cancelPc # "none" => current \in disturbed'
      BY <1>10, <1>typ, <2>1, <2>2 DEF SendBegins, MainBegins
    <3>2. SendTypeOK'
      BY <2>1, <3>1 DEF SendInv, SendTypeOK, SendPcs, connectionVars, cancelVars
    <3>3. CallsFramed' /\ ConnectionUp' /\ FlagsFramed'
      BY <2>1, <3>1 DEF SendInv, CallsFramed, ConnectionUp, FlagsFramed, connectionVars, cancelVars
    <3>4. SentSoFar'
      BY <2>1, <3>1 DEF SendInv, SentSoFar
    <3> QED BY <3>2, <3>3, <3>4 DEF SendInv
  <2>3. CASE ~ Runs(current)
    <3>1. /\ worker' = "remove" /\ phase'[current] = "done" /\ sendPc' = "out"
          /\ current \in mCancelled
      BY <1>10, <1>typ, <2>1, <2>3 DEF SendBegins, MainBegins, Runs
    <3>2. SendTypeOK'
      BY <2>1, <3>1 DEF SendInv, SendTypeOK, SendPcs, connectionVars, cancelVars
    <3>3. CallsFramed' /\ ConnectionUp' /\ FlagsFramed'
      BY <2>1, <3>1 DEF SendInv, CallsFramed, ConnectionUp, FlagsFramed, connectionVars, cancelVars
    <3>4. SentSoFar'
      BY <2>1, <3>1 DEF SendInv, SentSoFar
    <3> QED BY <3>2, <3>3, <3>4 DEF SendInv
  <2> QED BY <2>2, <2>3
<1>11. ASSUME SendReturns PROVE SendInv'
  <2>1. /\ worker = "running" /\ worker' = "remove" /\ UNCHANGED <<current, mCancelled>>
        /\ \A op \in Ops : op # current => phase'[op] = phase[op]
        /\ sendPc = "return" /\ sendPc' = "out"
        /\ UNCHANGED <<connectionVars, streamCancelled, mSendingCancelled, mCanCancel, result,
                 failed, cancelVars, sent, disturbed>>
    BY <1>11, <1>typ DEF SendReturns, At, MainReturns, workerVars
  <2>2. SendTypeOK'
    BY <2>1 DEF SendInv, SendTypeOK, SendPcs, connectionVars, cancelVars
  <2>3. CallsFramed' /\ ConnectionUp' /\ FlagsFramed'
    BY <2>1 DEF SendInv, CallsFramed, ConnectionUp, FlagsFramed, connectionVars, cancelVars
  <2>4. SentSoFar'
    BY <2>1 DEF SendInv, SentSoFar
  <2> QED BY <2>2, <2>3, <2>4 DEF SendInv
<1>12. ASSUME NEW op \in Ops, StartCancel(op) PROVE SendInv'
  <2>1. <<op>> \in Seq(Ops) /\ <<op>> # <<>>
    OBVIOUS
  <2> QED BY <1>12, <2>1, <1>cur DEF StartCancel, CallCancel, Sending, SendInv, SendTypeOK, CallsFramed,
       ConnectionUp, FlagsFramed, SentSoFar, vars, workerVars, connectionVars
<1>13. ASSUME StartCancelAll PROVE SendInv'
  BY <1>13, <1>cur DEF StartCancelAll, CallCancel, Sending, SendInv, SendTypeOK, CallsFramed,
       ConnectionUp, FlagsFramed, SentSoFar, vars, workerVars, connectionVars, IInv, TypeOK
<1>14. ASSUME MarkCancelled PROVE SendInv'
  BY <1>14 DEF MarkCancelled, Cancel, CancelOps, SendInv, SendTypeOK, CallsFramed,
       ConnectionUp, FlagsFramed, SentSoFar, workerVars, connectionVars
<1>15. ASSUME FlagCancelled PROVE SendInv'
  BY <1>15 DEF FlagCancelled, SendInv, SendTypeOK, CallsFramed,
       ConnectionUp, FlagsFramed, SentSoFar, vars, workerVars, connectionVars
<1>16. ASSUME CancelStream PROVE SendInv'
  <2>1. cancelling # <<>> /\ Tail(cancelling) \in Seq(Ops)
    BY <1>16, <1>can DEF CancelStream, SendInv, CallsFramed, QueueFacts
  <2> QED BY <1>16, <2>1 DEF CancelStream, SendInv, SendTypeOK, CallsFramed,
       ConnectionUp, FlagsFramed, SentSoFar, vars, workerVars, connectionVars
<1>17. CASE UNCHANGED allVars
  <2>1. UNCHANGED vars /\ UNCHANGED sendVars
    BY <1>17 DEF allVars
  <2>2. QueueOnly
    BY <2>1 DEF vars, workerVars, QueueOnly
  <2> QED BY <1>1, <2>1, <2>2
<1>18. ASSUME QueueMainThread \/ QueueLocked \/ QueueWorker \/ (\E op \in Ops : AddSend(op))
       PROVE SendInv'
  BY <1>18, <1>1, QueueOnlyStep
<1> QED BY <1>2, <1>3, <1>4, <1>5, <1>6, <1>7, <1>8, <1>9, <1>10, <1>11, <1>12, <1>13, <1>14, <1>15,
     <1>16, <1>17, <1>18 DEF SendNext, SendUser, CancelSteps, SendWorker

(* The invariants of the queue and of the session hold together.            *)
THEOREM SendInvariance == SendSpec => [](IInv /\ PhasesAgree /\ SendInv)
<1> DEFINE I == IInv /\ PhasesAgree /\ SendInv
<1>1. I /\ [SendNext]_allVars => I'
  BY SendIsQueueStep, NextIInv, NextPhases, NextSend
<1>2. SendInit => I
  BY InitSend
<1> QED BY <1>1, <1>2, PTL DEF SendSpec

(* While a send can be cancelled there is an open, logged in stream, and a  *)
(* transmission on it: cancelMessageSending (MCSMTPSession.cpp:982-989)     *)
(* meets no half-made connection.                                           *)
THEOREM CancelReachesTransmission == SendSpec => []CancelFindsTransmission
<1>1. SendInv => CancelFindsTransmission
  BY DEF SendInv, ConnectionUp, FlagsFramed, CancelFindsTransmission
<1> QED BY <1>1, SendInvariance, PTL

(* An operation that reports success without a cancel() in its way has      *)
(* handed its message to the server, whatever was sent and cancelled before *)
(* it (internalSendMessage, MCSMTPSession.cpp:733-829, and                  *)
(* MCSMTPSendWithDataOperation.cpp:72-92).                                  *)
THEOREM UndisturbedSuccess == SendSpec => []UndisturbedSuccessMeansSent
<1>1. SendInv => UndisturbedSuccessMeansSent
  BY DEF SendInv, SentSoFar, UndisturbedSuccessMeansSent, Succeeded
<1> QED BY <1>1, SendInvariance, PTL

(* The stream that was cancelled for one message is never used for the next: *)
(* it is closed before sendMessage returns (MCSMTPSession.cpp:760-829).     *)
THEOREM StreamNotReused == SendSpec => []CancelledStreamNotReused
<1>1. SendInv => CancelledStreamNotReused
  BY DEF SendInv, FlagsFramed, CancelledStreamNotReused
<1> QED BY <1>1, SendInvariance, PTL

(* The rest of the program leaves the queue as it is specified: all that is  *)
(* proved of OperationQueue holds while messages are sent and cancelled. *)
THEOREM QueueWithin == SendSpec => Init /\ [][Next]_vars
<1>1. IInv /\ PhasesAgree /\ SendInv /\ [SendNext]_allVars => [Next]_vars
  BY SendIsQueueStep
<1>2. SendInit => Init
  BY DEF SendInit
<1> QED BY <1>1, <1>2, SendInvariance, PTL DEF SendSpec
=============================================================================
