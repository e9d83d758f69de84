----------------------- MODULE SMTPAsyncSessionProofs ------------------------
(***************************************************************************)
(* Proofs, for any operations, that the session object outlives all that    *)
(* uses it and a wrapper the operation it waits for.                        *)
(*                                                                          *)
(* The strengthening relates the holds to the queue: the queue holds the    *)
(* session exactly as long as it has a worker; a wrapper retains itself     *)
(* exactly while its operation is started; and an operation is started only *)
(* while it is under way. The automatic disconnection reuses an operation,  *)
(* which no step of OperationQueue does: its invariants are shown to survive*)
(* that separately.                                                         *)
(***************************************************************************)
EXTENDS SMTPAsyncSession, OperationQueueProofs

(* The types of the variables of the session.                               *)
SessionTypeOK ==
    /\ userSession \in BOOLEAN
    /\ userOps \subseteq SendOps
    /\ started \subseteq SendOps
    /\ queueHolds \in BOOLEAN
    /\ disconnectArmed \in BOOLEAN
    /\ destroyed \in BOOLEAN

(* The queue holds the session as long as there is a worker, and the main   *)
(* thread is not in the middle of startThread for nothing. *)
HeldByQueue ==
    /\ queueHolds <=> mStarted
    /\ mainPc \in {"added", "start"} /\ ~ mStarted => mOperations # <<>>
    /\ mainPc = "waitStart" => mStarted

(* The destructor ran only if nobody holds the session.                     *)
DestroyedWhenLetGo == destroyed => ~ SessionHeld

(* The wrapper whose callback the main thread is in.                        *)
Completing(op) == frame = "callback" /\ current = op

(* What a wrapper holds of itself: one reference from its start to its      *)
(* callback, or to its cancellation; the callback itself holds one.         *)
SelfRetained ==
    /\ selfRetains = [op \in SendOps |-> One(op \in started) + One(Completing(op))]
    /\ frame = "callback" => current \notin started

(* An operation that was started and not yet completed is under way.        *)
StartedPhases ==
    \A op \in SendOps :
        /\ op \in started => phase[op] \in {"queued", "running", "done"}
        /\ phase[op] \in {"queued", "running", "done"} /\ op \notin mCancelled => op \in started
        /\ phase[op] = "new" => op \notin mCancelled /\ op \notin userOps

(* The inductive invariant, beside those of the queue.                      *)
SInv == SessionTypeOK /\ HeldByQueue /\ DestroyedWhenLetGo /\ SelfRetained /\ StartedPhases

(* Those of the queue.                                                      *)
QueueInv == IInv /\ PhasesAgree

-----------------------------------------------------------------------------
(* To the queue every step is one of its own, except that the automatic     *)
(* disconnection reuses the name of an operation that no longer exists.     *)
LEMMA SessionSteps ==
    [SessionNext]_allVars =>
        \/ [Next]_vars
        \/ \E op \in DisconnectOps : AutomaticDisconnect(op)
<1> SUFFICES ASSUME [SessionNext]_allVars
             PROVE  [Next]_vars \/ \E op \in DisconnectOps : AutomaticDisconnect(op)
  OBVIOUS
<1>1. ASSUME NEW op \in SendOps, Send(op) \/ CancelSend(op) \/ DropOperation(op)
      PROVE  [Next]_vars
  BY <1>1, SessionOpsAssumption DEF Send, CancelSend, DropOperation, Next, Client
<1>2. CASE CancelAll \/ DropSession
  BY <1>2 DEF CancelAll, DropSession, Next, Client
<1>3. CASE QueueStartRunning \/ QueueStoppedRunning \/ OperationCompleted \/ OperationCompletedReturns
           \/ SessionMainReturns
  BY <1>3 DEF QueueStartRunning, QueueStoppedRunning, OperationCompleted, OperationCompletedReturns,
     SessionMainReturns, Next, MainThread, Worker
<1>4. CASE QueueOnly
  BY <1>4 DEF QueueOnly, Next, MainThread, Worker
<1>5. CASE CheckRunningAfterDelay
  BY <1>5 DEF Next
<1>6. CASE UNCHANGED allVars
  BY <1>6 DEF allVars
<1> QED BY <1>1, <1>2, <1>3, <1>4, <1>5, <1>6 DEF SessionNext, User, Threads, QueueTimer, Disconnection

(* The operation of the disconnection is put into the array with a name that *)
(* nothing uses any more. *)
LEMMA DisconnectIInv ==
    ASSUME IInv, NEW op \in DisconnectOps, AutomaticDisconnect(op)
    PROVE  IInv'
<1>op. op \in Ops
  BY SessionOpsAssumption
<1>ops. QueueFacts(Ops, mOperations)
  BY QueueLemma DEF IInv, TypeOK
<1>1. TypeOK'
  <2>1. mOperations' \in Seq(Ops)
    BY <1>op, <1>ops DEF AutomaticDisconnect, QueueFacts
  <2>2. phase' \in [Ops -> {"new", "queued", "running", "done", "delivered"}] /\ mCancelled' \subseteq Ops
    BY DEF AutomaticDisconnect, IInv, TypeOK
  <2> QED BY <2>1, <2>2 DEF IInv, AutomaticDisconnect, TypeOK, semVars, workerVars
<1>2. TokensExact'
  BY <1>op, <1>ops DEF IInv, AutomaticDisconnect, Idle, TokensExact, One, Taken, QuitPending, TypeOK, semVars, QueueFacts
<1>3. BlocksAwaited'
  BY DEF IInv, AutomaticDisconnect, BlocksAwaited, Awaited, Rendezvous
<1>4. CallbackAwaited'
  BY DEF IInv, AutomaticDisconnect, CallbackAwaited, Rendezvous
<1>5. WorkerKnown'
  BY DEF IInv, AutomaticDisconnect, WorkerKnown, Rendezvous
<1>6. RunsHead'
  BY <1>op, <1>ops DEF IInv, AutomaticDisconnect, RunsHead, Taken, Rendezvous, workerVars, QueueFacts
<1>7. NoOperationStranded'
  BY DEF AutomaticDisconnect, NoOperationStranded
<1> QED BY <1>1, <1>2, <1>3, <1>4, <1>5, <1>6, <1>7 DEF IInv, Rendezvous

(* So it agrees with how far the operations have come.                      *)
LEMMA DisconnectPhases ==
    ASSUME IInv, PhasesAgree, NEW op \in DisconnectOps, AutomaticDisconnect(op)
    PROVE  PhasesAgree'
<1> DEFINE n == Len(mOperations)
<1>op. op \in Ops
  BY SessionOpsAssumption
<1>ops. QueueFacts(Ops, mOperations)
  BY QueueLemma DEF IInv, TypeOK
<1>typ. phase \in [Ops -> {"new", "queued", "running", "done", "delivered"}]
  BY DEF IInv, TypeOK
<1>1. op \notin ToSet(mOperations) /\ op # current
  BY DEF AutomaticDisconnect, OperationAlive
<1>2. /\ DOMAIN mOperations = 1 .. n /\ n \in Nat
      /\ DOMAIN mOperations' = 1 .. n + 1
      /\ mOperations'[n + 1] = op
      /\ \A i \in 1 .. n : mOperations'[i] = mOperations[i]
  BY <1>op, <1>ops, LenProperties DEF AutomaticDisconnect, QueueFacts
<1>3. \A i \in 1 .. n : mOperations[i] # op /\ mOperations[i] \in Ops
  BY <1>1, <1>ops, <1>2 DEF QueueFacts, ToSet
<1>4. /\ \A x \in Ops \ {op} : phase'[x] = phase[x]
      /\ phase'[op] = "queued"
      /\ UNCHANGED <<worker, current, frame, mainQueue>>
      /\ \A x \in Ops \ {op} : x \in mCancelled' <=> x \in mCancelled
  BY <1>op, <1>typ DEF AutomaticDisconnect, workerVars
<1>5. worker \in {"running", "remove", "finish", "callback"} => current \in Ops
  BY <1>ops DEF IInv, Rendezvous, RunsHead, Taken, QueueFacts
<1>6. DistinctOperations'
  BY <1>2, <1>3 DEF PhasesAgree, DistinctOperations
<1>7. QueuedPhases'
  BY <1>2, <1>3, <1>4 DEF PhasesAgree, QueuedPhases, Executing
<1>8. CurrentPhase'
  BY <1>1, <1>4, <1>5 DEF PhasesAgree, CurrentPhase
<1>9. OtherPhases'
  BY <1>4 DEF PhasesAgree, OtherPhases
<1> QED BY <1>6, <1>7, <1>8, <1>9 DEF PhasesAgree

(* The invariants of the queue hold within the session.                     *)
LEMMA SessionQueueInv ==
    /\ SessionInit => QueueInv
    /\ QueueInv /\ [SessionNext]_allVars => QueueInv'
<1>1. SessionInit => QueueInv
  BY InitIInv, InitPhases DEF SessionInit, QueueInv
<1>2. ASSUME QueueInv, [Next]_vars PROVE QueueInv'
  BY <1>2, NextIInv, NextPhases DEF QueueInv
<1>3. ASSUME QueueInv, NEW op \in DisconnectOps, AutomaticDisconnect(op) PROVE QueueInv'
  BY <1>3, DisconnectIInv, DisconnectPhases DEF QueueInv
<1> QED BY <1>1, <1>2, <1>3, SessionSteps

-----------------------------------------------------------------------------
(* When the destructor has run, nothing is left to do. *)
LEMMA NothingLeft ==
    ASSUME QueueInv, SInv, destroyed
    PROVE  /\ ~ userSession /\ userOps = {} /\ ~ queueHolds /\ ~ disconnectArmed
           /\ mOperations = <<>> /\ current = NoOp
           /\ ~ mStarted /\ mainPc = "ready"
           /\ worker = "none" /\ mainQueue = <<>> /\ frame # "callback"
<1>1. ~ SessionHeld
  BY DEF SInv, DestroyedWhenLetGo
<1>2. ~ userSession /\ ~ queueHolds /\ ~ disconnectArmed /\ \A op \in Ops : ~ OperationAlive(op)
  BY <1>1 DEF SessionHeld, MCOSessionAlive
<1>3. userOps = {}
  BY <1>1 DEF SInv, SessionTypeOK, SessionHeld, MCOSessionAlive, WrapperAlive
<1>ops. QueueFacts(Ops, mOperations)
  BY QueueLemma DEF QueueInv, IInv, TypeOK
<1>4. mOperations = <<>>
  BY <1>2, <1>ops DEF OperationAlive, QueueFacts, ToSet
<1>5. current = NoOp
  BY <1>2 DEF OperationAlive, QueueInv, IInv, TypeOK
<1>6. ~ mStarted
  BY <1>2 DEF SInv, HeldByQueue, SessionTypeOK, QueueInv, IInv, TypeOK
<1>7. mainPc = "ready"
  BY <1>4, <1>6 DEF SInv, HeldByQueue, QueueInv, IInv, TypeOK
<1>8. worker = "none" /\ mainQueue = <<>> /\ frame # "callback"
  BY <1>6 DEF QueueInv, IInv, Rendezvous, WorkerKnown, CallbackAwaited
<1> QED BY <1>2, <1>3, <1>4, <1>5, <1>6, <1>7, <1>8

(* Nobody gets hold of a session whose destructor has run.                  *)
LEMMA NextDestroyed ==
    ASSUME QueueInv, SInv, [SessionNext]_allVars
    PROVE  DestroyedWhenLetGo'
<1>1. CASE UNCHANGED allVars
  BY <1>1 DEF allVars, vars, sessionVars, userVars, SInv, DestroyedWhenLetGo, SessionHeld, MCOSessionAlive,
     WrapperAlive, OperationAlive, workerVars
<1>2. CASE SessionNext /\ ~ destroyed
  BY <1>2 DEF SessionNext, User, Threads, QueueTimer, Disconnection, Release, DestroyedWhenLetGo
<1>3. CASE SessionNext /\ destroyed
  <2>1. /\ ~ userSession /\ userOps = {} /\ ~ queueHolds /\ ~ disconnectArmed
        /\ mOperations = <<>> /\ current = NoOp
        /\ ~ mStarted /\ mainPc = "ready"
        /\ worker = "none" /\ mainQueue = <<>> /\ frame # "callback"
    BY <1>3, NothingLeft
  <2>2. UNCHANGED <<userSession, userOps, selfRetains, queueHolds, disconnectArmed, mOperations, current>>
    <3>1. CASE User
      BY <2>1, <3>1 DEF User, Send, CancelSend, DropOperation, CancelAll, DropSession
    <3>2. CASE QueueStartRunning \/ QueueStoppedRunning \/ OperationCompleted \/ OperationCompletedReturns
               \/ SessionMainReturns
      BY <2>1, <3>2 DEF QueueStartRunning, QueueStoppedRunning, OperationCompleted, OperationCompletedReturns,
         SessionMainReturns, StartThread, StoppedOnMainThread, CallbackOnMainThread, CallbackReturns, MainReturns, Handles
    <3>3. CASE QueueOnly
      BY <2>1, <3>3 DEF QueueOnly, SignalAdded, AlreadyStarted, ThreadHasStarted,
         BeforeMain, CheckRunningOnMainThread, StoppedReturns, ThreadStarts, TakeToken, PeekOperation, PeekQuit,
         MainBegins, RemoveOperation, FinishOperation, EndIteration, Handles, sessionVars, userVars, workerVars
    <3>4. CASE QueueTimer
      BY <2>1, <3>4 DEF QueueTimer, CheckRunningAfterDelay, sessionVars, userVars, workerVars
    <3>5. CASE Disconnection
      BY <2>1, <3>5 DEF Disconnection, AutomaticDisconnect
    <3> QED BY <1>3, <3>1, <3>2, <3>3, <3>4, <3>5 DEF SessionNext, Threads
  <2>3. SessionHeld' = SessionHeld
    BY <2>2 DEF SessionHeld, MCOSessionAlive, WrapperAlive, OperationAlive
  <2> QED BY <1>3, <2>3 DEF SInv, DestroyedWhenLetGo
<1> QED BY <1>1, <1>2, <1>3

(* A step of the session that leaves its wrappers alone. *)
LEMMA QuietWrappers ==
    ASSUME QueueInv, SInv,
           UNCHANGED <<userOps, started, selfRetains, mCancelled>>,
           frame' = "callback" <=> frame = "callback",
           frame = "callback" => current' = current,
           \A op \in SendOps : phase'[op] = phase[op]
    PROVE  SelfRetained' /\ StartedPhases'
<1>1. \A op \in SendOps : Completing(op)' = Completing(op)
  BY DEF Completing
<1>2. SelfRetained'
  BY <1>1 DEF SInv, SelfRetained
<1>3. StartedPhases'
  BY DEF SInv, StartedPhases
<1> QED BY <1>2, <1>3

(* The queue holds the session while its worker lives.                      *)
LEMMA NextHeld ==
    ASSUME QueueInv, SInv, [SessionNext]_allVars
    PROVE  SessionTypeOK' /\ HeldByQueue'
<1>ops. QueueFacts(Ops, mOperations)
  BY QueueLemma DEF QueueInv, IInv, TypeOK
<1>typ. mOperations \in Seq(Ops) /\ mStarted \in BOOLEAN
  BY DEF QueueInv, IInv, TypeOK
<1>1. ASSUME UNCHANGED <<queueHolds, mStarted, mainPc, mOperations>> PROVE HeldByQueue'
  BY <1>1 DEF SInv, HeldByQueue
<1>2. ASSUME UNCHANGED <<userSession, userOps, started, queueHolds, disconnectArmed>>,
             destroyed' \in BOOLEAN
      PROVE  SessionTypeOK'
  BY <1>2 DEF SInv, SessionTypeOK
<1>3. CASE UNCHANGED allVars
  <2>1. destroyed' \in BOOLEAN
    BY <1>3 DEF allVars, SInv, SessionTypeOK
  <2> QED BY <1>1, <1>2, <1>3, <2>1 DEF allVars, vars, sessionVars, userVars, mainVars
<1>4. SessionNext => destroyed' \in BOOLEAN
  BY DEF SessionNext, User, Threads, QueueTimer, Disconnection, Release, SInv, SessionTypeOK
<1>5. ASSUME NEW op \in SendOps, Send(op), Release PROVE SessionTypeOK' /\ HeldByQueue'
  <2>0. op \in Ops
    BY SessionOpsAssumption
  <2>1. mOperations' # <<>>
    BY <1>5, <1>ops, <2>0 DEF Send, AddOperation, QueueFacts
  <2>2. HeldByQueue'
    BY <1>5, <2>1 DEF Send, AddOperation, ClientRuns, SInv, HeldByQueue
  <2>3. destroyed' \in BOOLEAN
    BY <1>5 DEF Release, SInv, SessionTypeOK
  <2> QED BY <1>5, <2>2, <2>3 DEF Send, SInv, SessionTypeOK
<1>6. ASSUME NEW op \in SendOps, CancelSend(op) \/ DropOperation(op), Release
      PROVE  SessionTypeOK' /\ HeldByQueue'
  <2>1. HeldByQueue'
    BY <1>1, <1>6 DEF CancelSend, DropOperation, Cancel, CancelOps, vars, mainVars
  <2>2. destroyed' \in BOOLEAN
    BY <1>6 DEF Release, SInv, SessionTypeOK
  <2> QED BY <1>6, <2>1, <2>2 DEF CancelSend, DropOperation, SInv, SessionTypeOK
<1>7. ASSUME CancelAll \/ DropSession, Release PROVE SessionTypeOK' /\ HeldByQueue'
  <2>1. HeldByQueue'
    BY <1>1, <1>7 DEF CancelAll, DropSession, CancelAllOperations, CancelOps, vars, mainVars, sessionVars
  <2>2. destroyed' \in BOOLEAN
    BY <1>7 DEF Release, SInv, SessionTypeOK
  <2>3. /\ userSession' \in {FALSE, userSession}
        /\ UNCHANGED <<userOps, started, queueHolds, disconnectArmed>>
    BY <1>7 DEF CancelAll, DropSession, sessionVars, userVars
  <2> QED BY <2>1, <2>2, <2>3 DEF SInv, SessionTypeOK
<1>8. ASSUME QueueStartRunning, Release PROVE SessionTypeOK' /\ HeldByQueue'
  <2>1. destroyed' \in BOOLEAN
    BY <1>8 DEF Release, SInv, SessionTypeOK
  <2>2. HeldByQueue'
    BY <1>8 DEF QueueStartRunning, StartThread, HeldByQueue
  <2> QED BY <1>8, <2>1, <2>2 DEF QueueStartRunning, userVars, SInv, SessionTypeOK
<1>9. ASSUME QueueStoppedRunning, Release PROVE SessionTypeOK' /\ HeldByQueue'
  <2>1. destroyed' \in BOOLEAN /\ disconnectArmed' \in BOOLEAN
    BY <1>9 DEF Release, SInv, SessionTypeOK, QueueStoppedRunning
  <2>2. HeldByQueue'
    BY <1>9 DEF QueueStoppedRunning, StoppedOnMainThread, HeldByQueue, NeedsRestart
  <2> QED BY <1>9, <2>1, <2>2 DEF QueueStoppedRunning, userVars, SInv, SessionTypeOK
<1>10. ASSUME OperationCompleted, Release PROVE SessionTypeOK' /\ HeldByQueue'
  <2>1. destroyed' \in BOOLEAN
    BY <1>10 DEF Release, SInv, SessionTypeOK
  <2>2. HeldByQueue'
    BY <1>1, <1>10 DEF OperationCompleted, CallbackOnMainThread
  <2> QED BY <1>10, <2>1, <2>2 DEF OperationCompleted, SInv, SessionTypeOK
<1>11. ASSUME OperationCompletedReturns \/ SessionMainReturns, Release PROVE SessionTypeOK' /\ HeldByQueue'
  <2>1. destroyed' \in BOOLEAN
    BY <1>11 DEF Release, SInv, SessionTypeOK
  <2> QED BY <1>1, <1>2, <1>11, <2>1 DEF OperationCompletedReturns, SessionMainReturns, CallbackReturns,
       MainReturns, mainVars, userVars
<1>12. ASSUME QueueOnly, Release PROVE SessionTypeOK' /\ HeldByQueue'
  <2>1. destroyed' \in BOOLEAN
    BY <1>12 DEF Release, SInv, SessionTypeOK
  <2>2. SessionTypeOK'
    BY <1>2, <1>12, <2>1 DEF QueueOnly, sessionVars, userVars
  <2>3. queueHolds' = queueHolds
    BY <1>12 DEF QueueOnly, sessionVars
  <2>4. CASE SignalAdded \/ AlreadyStarted \/ ThreadHasStarted
    BY <2>2, <2>3, <2>4 DEF SignalAdded, AlreadyStarted, ThreadHasStarted, SInv, HeldByQueue
  <2>5. CASE RemoveOperation
    <3>1. mStarted
      BY <2>5 DEF RemoveOperation, QueueInv, IInv, Rendezvous, WorkerKnown
    <3> QED BY <2>3, <2>2, <2>5, <3>1 DEF RemoveOperation, mainVars, SInv, HeldByQueue
  <2>6. CASE BeforeMain \/ CheckRunningOnMainThread \/ StoppedReturns
             \/ ThreadStarts \/ TakeToken \/ PeekOperation \/ PeekQuit \/ MainBegins \/ FinishOperation \/ EndIteration
    BY <1>1, <2>2, <2>3, <2>6 DEF BeforeMain, CheckRunningOnMainThread, StoppedReturns, ThreadStarts, TakeToken,
       PeekOperation, PeekQuit, MainBegins, FinishOperation, EndIteration, mainVars
  <2> QED BY <1>12, <2>2, <2>4, <2>5, <2>6 DEF QueueOnly
<1>13. ASSUME QueueTimer PROVE SessionTypeOK' /\ HeldByQueue'
  <2>1. destroyed' \in BOOLEAN
    BY <1>13 DEF QueueTimer, Release, SInv, SessionTypeOK
  <2> QED BY <1>1, <1>2, <1>13, <2>1 DEF QueueTimer, CheckRunningAfterDelay, sessionVars, userVars
<1>14. ASSUME NEW op \in DisconnectOps, AutomaticDisconnect(op), Release PROVE SessionTypeOK' /\ HeldByQueue'
  <2>0. op \in Ops
    BY SessionOpsAssumption
  <2>1. mOperations' # <<>>
    BY <1>14, <1>ops, <2>0 DEF AutomaticDisconnect, QueueFacts
  <2>2. HeldByQueue'
    BY <1>14, <2>1 DEF AutomaticDisconnect, SInv, HeldByQueue
  <2>3. destroyed' \in BOOLEAN
    BY <1>14 DEF Release, SInv, SessionTypeOK
  <2> QED BY <1>14, <2>2, <2>3 DEF AutomaticDisconnect, userVars, SInv, SessionTypeOK
<1> QED BY <1>3, <1>5, <1>6, <1>7, <1>8, <1>9, <1>10, <1>11, <1>12, <1>13, <1>14
     DEF SessionNext, User, Threads, Disconnection

(* What the wrappers hold of themselves is exact after every step.          *)
LEMMA NextWrappers ==
    ASSUME QueueInv, SInv, [SessionNext]_allVars
    PROVE  SelfRetained' /\ StartedPhases'
<1>typ. /\ phase \in [Ops -> {"new", "queued", "running", "done", "delivered"}]
        /\ SendOps \subseteq Ops /\ DisconnectOps \subseteq Ops
        /\ started \subseteq SendOps
  BY SessionOpsAssumption DEF QueueInv, IInv, TypeOK, SInv, SessionTypeOK
<1>old. SelfRetained /\ StartedPhases
  BY DEF SInv
<1>cur. frame = "callback" => worker = "callback" /\ current \in Ops /\ phase[current] = "delivered"
  BY DEF QueueInv, IInv, Rendezvous, CallbackAwaited, RunsHead, PhasesAgree, CurrentPhase
<1>1. CASE UNCHANGED allVars
  BY <1>1, QuietWrappers DEF allVars, vars, sessionVars, userVars, mainVars, workerVars
<1>2. ASSUME NEW op \in SendOps, Send(op) PROVE SelfRetained' /\ StartedPhases'
  <2>1. /\ phase[op] = "new" /\ phase' = [phase EXCEPT ![op] = "queued"]
        /\ userOps' = userOps \cup {op} /\ started' = started \cup {op}
        /\ selfRetains' = [selfRetains EXCEPT ![op] = @ + 1]
        /\ UNCHANGED <<frame, current, mCancelled>>
    BY <1>2 DEF Send, AddOperation, workerVars
  <2>2. op \notin started /\ ~ Completing(op)
    BY <1>old, <1>cur, <2>1 DEF StartedPhases, Completing
  <2>3. selfRetains'[op] = 1 /\ \A x \in SendOps \ {op} : selfRetains'[x] = selfRetains[x]
    BY <1>old, <2>1, <2>2 DEF SelfRetained, One
  <2>4. SelfRetained'
    <3>1. \A x \in SendOps : selfRetains'[x] = One(x \in started') + One(Completing(x)')
      <4>1. One(op \in started') + One(Completing(op)') = 1
        BY <2>1, <2>2 DEF One, Completing
      <4>2. ASSUME NEW x \in SendOps \ {op} PROVE selfRetains'[x] = One(x \in started') + One(Completing(x)')
        BY <1>old, <2>1, <2>3 DEF SelfRetained, Completing
      <4> QED BY <2>3, <4>1, <4>2
    <3>2. frame' = "callback" => current' \notin started'
      BY <1>old, <2>1, <2>2 DEF SelfRetained, Completing
    <3>3. selfRetains' = [x \in SendOps |-> selfRetains'[x]]
      BY <1>old, <2>1 DEF SelfRetained
    <3> QED BY <3>1, <3>2, <3>3 DEF SelfRetained
  <2>5. StartedPhases'
    BY <1>typ, <1>old, <2>1 DEF StartedPhases
  <2> QED BY <2>4, <2>5
<1>3. ASSUME NEW op \in SendOps, CancelSend(op) PROVE SelfRetained' /\ StartedPhases'
  <2>1. /\ started' = started \ {op} /\ mCancelled' = mCancelled \cup {op}
        /\ selfRetains' = [selfRetains EXCEPT ![op] = IF op \in started THEN @ - 1 ELSE @]
        /\ op \in userOps
        /\ UNCHANGED <<frame, current, phase, userOps>>
    BY <1>3 DEF CancelSend, Cancel, CancelOps, mainVars, workerVars
  <2>2. \A x \in SendOps : selfRetains'[x] = One(x \in started') + One(Completing(x)')
    <3>1. ASSUME NEW x \in SendOps \ {op} PROVE selfRetains'[x] = One(x \in started') + One(Completing(x)')
      BY <1>old, <2>1 DEF SelfRetained, Completing
    <3>2. selfRetains'[op] = One(op \in started') + One(Completing(op)')
      <4>1. selfRetains[op] = One(op \in started) + One(Completing(op))
        BY <1>old DEF SelfRetained
      <4>2. selfRetains'[op] = IF op \in started THEN selfRetains[op] - 1 ELSE selfRetains[op]
        BY <1>old, <2>1 DEF SelfRetained
      <4>3. op \notin started' /\ (Completing(op)' <=> Completing(op))
        BY <2>1 DEF Completing
      <4> QED BY <4>1, <4>2, <4>3 DEF One
    <3> QED BY <3>1, <3>2
  <2>3. selfRetains' = [x \in SendOps |-> selfRetains'[x]]
    BY <1>old, <2>1 DEF SelfRetained
  <2>4. frame' = "callback" => current' \notin started'
    BY <1>old, <2>1 DEF SelfRetained
  <2>5. StartedPhases'
    BY <1>old, <2>1 DEF StartedPhases
  <2> QED BY <2>2, <2>3, <2>4, <2>5 DEF SelfRetained
<1>4. ASSUME NEW op \in SendOps, DropOperation(op) PROVE SelfRetained' /\ StartedPhases'
  <2>1. /\ userOps' = userOps \ {op}
        /\ UNCHANGED <<frame, current, phase, started, selfRetains, mCancelled>>
    BY <1>4 DEF DropOperation, vars, mainVars, workerVars
  <2>2. \A x \in SendOps : Completing(x)' = Completing(x)
    BY <2>1 DEF Completing
  <2> QED BY <1>old, <2>1, <2>2 DEF SelfRetained, StartedPhases
<1>5. CASE CancelAll
  <2>1. /\ mCancelled' = mCancelled \cup ToSet(mOperations)
        /\ UNCHANGED <<frame, current, phase, started, selfRetains, userOps>>
    BY <1>5 DEF CancelAll, CancelAllOperations, CancelOps, mainVars, workerVars, sessionVars, userVars
  <2>2. ASSUME NEW op \in ToSet(mOperations) PROVE phase[op] # "new"
    <3>ops. QueueFacts(Ops, mOperations)
      BY QueueLemma DEF QueueInv, IInv, TypeOK
    <3>1. PICK i \in DOMAIN mOperations : op = mOperations[i]
      BY DEF ToSet
    <3>2. CASE i > 1 \/ ~ Executing
      BY <3>1, <3>2 DEF QueueInv, PhasesAgree, QueuedPhases
    <3>3. CASE ~ (i > 1) /\ Executing
      <4>1. i = 1
        BY <3>1, <3>3, <3>ops DEF QueueFacts
      <4>2. op = current
        BY <3>1, <3>3, <4>1, <3>ops DEF Executing, QueueInv, IInv, Rendezvous, RunsHead, Taken, QueueFacts
      <4> QED BY <3>3, <4>2 DEF Executing, QueueInv, PhasesAgree, CurrentPhase
    <3> QED BY <3>2, <3>3
  <2>3. StartedPhases'
    BY <1>old, <2>1, <2>2 DEF StartedPhases
  <2>4. \A x \in SendOps : Completing(x)' = Completing(x)
    BY <2>1 DEF Completing
  <2> QED BY <1>old, <2>1, <2>3, <2>4 DEF SelfRetained
<1>6. CASE DropSession \/ QueueStartRunning
  BY <1>6, QuietWrappers DEF DropSession, QueueStartRunning, StartThread, vars, userVars, mainVars, workerVars
<1>7. CASE QueueStoppedRunning
  <2>1. frame = "loop"
    BY <1>7 DEF QueueStoppedRunning, StoppedOnMainThread, Handles, Idle
  <2> QED BY <1>7, <2>1, QuietWrappers DEF QueueStoppedRunning, StoppedOnMainThread, userVars, workerVars
<1>8. CASE OperationCompleted
  <2>1. QueueFacts(Blocks, mainQueue)
    BY QueueLemma DEF QueueInv, IInv, TypeOK
  <2>2. /\ worker = "callback" /\ frame = "loop" /\ Head(mainQueue).op = current /\ current \in Ops
        /\ phase[current] = "done"
        /\ UNCHANGED <<current, mCancelled, selfRetains, userOps>>
        /\ started' = IF frame' = "callback" THEN started \ {current} ELSE started
    <3>1. mainQueue # <<>> /\ Head(mainQueue) = mainQueue[1] /\ 1 \in DOMAIN mainQueue /\ frame = "loop"
          /\ mainQueue[1].method = "callback"
      BY <1>8, <2>1 DEF OperationCompleted, CallbackOnMainThread, Handles, Idle, QueueFacts
    <3>2. worker = "callback" /\ current \in Ops /\ mainQueue[1].op = current /\ phase[current] = "done"
      BY <3>1 DEF QueueInv, IInv, Rendezvous, BlocksAwaited, Awaited, RunsHead, PhasesAgree, CurrentPhase
    <3> QED BY <1>8, <3>1, <3>2 DEF OperationCompleted, CallbackOnMainThread, workerVars
  <2>3. CASE current \in mCancelled
    <3>1. phase' = phase /\ frame' = frame /\ started' = started
      BY <1>8, <2>2, <2>3 DEF OperationCompleted, CallbackOnMainThread, Callback
    <3> QED BY <2>2, <3>1, QuietWrappers
  <2>4. CASE current \notin mCancelled
    <3>1. phase' = [phase EXCEPT ![current] = "delivered"] /\ frame' = "callback"
          /\ started' = started \ {current}
      BY <1>8, <2>2, <2>4 DEF OperationCompleted, CallbackOnMainThread, Callback
    <3>2. ASSUME NEW x \in SendOps PROVE selfRetains'[x] = One(x \in started') + One(Completing(x)')
      <4>1. selfRetains'[x] = One(x \in started) + 0
        BY <1>old, <2>2 DEF SelfRetained, Completing, One
      <4>2. CASE x = current
        <5>1. x \in started
          BY <1>old, <2>2, <2>4, <4>2 DEF StartedPhases
        <5>2. x \notin started' /\ Completing(x)'
          BY <2>2, <3>1, <4>2 DEF Completing
        <5> QED BY <4>1, <5>1, <5>2 DEF One
      <4>3. CASE x # current
        <5>1. (x \in started' <=> x \in started) /\ ~ Completing(x)'
          BY <2>2, <3>1, <4>3 DEF Completing
        <5> QED BY <4>1, <5>1 DEF One
      <4> QED BY <4>2, <4>3
    <3>3. selfRetains' = [x \in SendOps |-> selfRetains'[x]]
      BY <1>old, <2>2 DEF SelfRetained
    <3>4. StartedPhases'
      BY <1>typ, <1>old, <2>2, <2>4, <3>1 DEF StartedPhases
    <3> QED BY <2>2, <3>1, <3>2, <3>3, <3>4 DEF SelfRetained
  <2> QED BY <2>3, <2>4
<1>9. CASE OperationCompletedReturns
  <2>1. /\ frame = "callback" /\ frame' = "loop"
        /\ selfRetains' = IF current \in SendOps
                          THEN [selfRetains EXCEPT ![current] = @ - 1]
                          ELSE selfRetains
        /\ UNCHANGED <<current, phase, mCancelled, started, userOps>>
    BY <1>9 DEF OperationCompletedReturns, CallbackReturns, workerVars
  <2>2. ASSUME NEW x \in SendOps PROVE selfRetains'[x] = One(x \in started') + One(Completing(x)')
    <3>1. selfRetains[x] = One(x \in started) + One(Completing(x)) /\ ~ Completing(x)' /\ started' = started
      BY <1>old, <2>1 DEF SelfRetained, Completing
    <3>2. CASE x = current
      <4>1. selfRetains'[x] = selfRetains[x] - 1 /\ Completing(x)
        BY <1>old, <2>1, <3>2 DEF SelfRetained, Completing
      <4> QED BY <3>1, <4>1 DEF One
    <3>3. CASE x # current
      <4>1. selfRetains'[x] = selfRetains[x] /\ ~ Completing(x)
        BY <1>old, <2>1, <3>3 DEF SelfRetained, Completing
      <4> QED BY <3>1, <4>1 DEF One
    <3> QED BY <3>2, <3>3
  <2>3. selfRetains' = [x \in SendOps |-> selfRetains'[x]]
    BY <1>old, <2>1 DEF SelfRetained
  <2>4. StartedPhases'
    BY <1>old, <2>1 DEF StartedPhases
  <2> QED BY <2>1, <2>2, <2>3, <2>4 DEF SelfRetained
<1>10. ASSUME UNCHANGED <<userOps, started, selfRetains, mCancelled, frame>>, frame # "callback",
              phase' \in [Ops -> {"new", "queued", "running", "done", "delivered"}],
              \A op \in Ops : \/ phase'[op] = phase[op]
                              \/ {phase[op], phase'[op]} \subseteq {"queued", "running", "done"}
       PROVE  SelfRetained' /\ StartedPhases'
  <2>1. \A x \in SendOps : ~ Completing(x)' /\ ~ Completing(x)
    BY <1>10 DEF Completing
  <2>2. SelfRetained'
    BY <1>old, <1>10, <2>1 DEF SelfRetained, One
  <2>3. StartedPhases'
    BY <1>old, <1>typ, <1>10 DEF StartedPhases
  <2> QED BY <2>2, <2>3
<1>11. CASE SessionMainReturns \/ (MainBegins /\ UNCHANGED sessionVars)
  <2>1. /\ worker \in {"main", "running"} /\ UNCHANGED <<userOps, started, selfRetains, mCancelled, frame>>
        /\ \E p \in {"running", "done"} : phase' = [phase EXCEPT ![current] = p]
    BY <1>11 DEF SessionMainReturns, MainReturns, MainBegins, sessionVars, userVars, mainVars
  <2>2. current \in Ops /\ phase[current] \in {"queued", "running"}
    <3>ops. QueueFacts(Ops, mOperations)
      BY QueueLemma DEF QueueInv, IInv, TypeOK
    <3>1. current = mOperations[1] /\ 1 \in DOMAIN mOperations /\ current \in Ops
      BY <2>1, <3>ops DEF QueueInv, IInv, Rendezvous, RunsHead, Taken, QueueFacts
    <3> QED BY <2>1, <3>1 DEF QueueInv, PhasesAgree, CurrentPhase, QueuedPhases, Executing
  <2>3. frame # "callback"
    BY <1>cur, <2>1
  <2>4. phase' \in [Ops -> {"new", "queued", "running", "done", "delivered"}]
        /\ phase'[current] \in {"running", "done"} /\ \A op \in Ops : op # current => phase'[op] = phase[op]
    BY <1>typ, <2>1, <2>2
  <2> QED BY <1>10, <2>1, <2>2, <2>3, <2>4
<1>12. CASE QueueOnly /\ ~ MainBegins
  <2>1. UNCHANGED <<userOps, started, selfRetains>>
    BY <1>12 DEF QueueOnly, sessionVars, userVars
  <2>2. CASE EndIteration \/ PeekOperation
    <3>1. frame # "callback"
      BY <1>cur, <2>2 DEF EndIteration, PeekOperation
    <3> QED BY <2>1, <2>2, <3>1, QuietWrappers DEF EndIteration, PeekOperation, mainVars
  <2>3. CASE StoppedReturns
    BY <2>1, <2>3, QuietWrappers DEF StoppedReturns, workerVars
  <2>4. CASE SignalAdded \/ AlreadyStarted \/ ThreadHasStarted \/ BeforeMain \/ CheckRunningOnMainThread
             \/ ThreadStarts \/ TakeToken \/ PeekQuit \/ RemoveOperation \/ FinishOperation
    BY <2>1, <2>4, QuietWrappers DEF SignalAdded, AlreadyStarted, ThreadHasStarted, BeforeMain,
       CheckRunningOnMainThread, ThreadStarts, TakeToken, PeekQuit, RemoveOperation, FinishOperation, mainVars, workerVars
  <2> QED BY <1>12, <2>2, <2>3, <2>4 DEF QueueOnly
<1>13. CASE QueueTimer
  BY <1>13, QuietWrappers DEF QueueTimer, CheckRunningAfterDelay, sessionVars, userVars, workerVars
<1>14. ASSUME NEW op \in DisconnectOps, AutomaticDisconnect(op) PROVE SelfRetained' /\ StartedPhases'
  <2>0. op \notin SendOps
    BY SessionOpsAssumption
  <2>1. /\ UNCHANGED <<userOps, started, selfRetains, frame, current>>
        /\ \A x \in SendOps : phase'[x] = phase[x] /\ (x \in mCancelled' <=> x \in mCancelled)
    <3>1. phase' = [phase EXCEPT ![op] = "queued"] /\ mCancelled' = mCancelled \ {op}
      BY <1>14 DEF AutomaticDisconnect
    <3>2. UNCHANGED <<userOps, started, selfRetains, frame, current>>
      BY <1>14 DEF AutomaticDisconnect, userVars, workerVars
    <3>3. ASSUME NEW x \in SendOps PROVE phase'[x] = phase[x] /\ (x \in mCancelled' <=> x \in mCancelled)
      <4>1. x \in Ops /\ x # op
        BY <1>typ, <2>0
      <4> QED BY <1>typ, <3>1, <4>1
    <3> QED BY <3>2, <3>3
  <2>2. \A x \in SendOps : Completing(x)' = Completing(x)
    BY <2>1 DEF Completing
  <2> QED BY <1>old, <2>1, <2>2 DEF SelfRetained, StartedPhases
<1> QED BY <1>1, <1>2, <1>3, <1>4, <1>5, <1>6, <1>7, <1>8, <1>9, <1>11, <1>12, <1>13, <1>14
     DEF SessionNext, User, Threads, Disconnection, QueueOnly

(* The invariant holds initially.                                           *)
LEMMA InitSession == SessionInit => SInv
<1> SUFFICES ASSUME SessionInit PROVE SInv
  OBVIOUS
<1>1. /\ userSession = TRUE /\ userOps = {} /\ started = {} /\ selfRetains = [op \in SendOps |-> 0]
      /\ queueHolds = FALSE /\ disconnectArmed = FALSE /\ destroyed = FALSE
      /\ mStarted = FALSE /\ mainPc = "ready" /\ frame = "loop" /\ mCancelled = {}
      /\ phase = [op \in Ops |-> "new"]
  BY DEF SessionInit, Init
<1>2. SessionTypeOK
  BY <1>1 DEF SessionTypeOK
<1>3. HeldByQueue /\ DestroyedWhenLetGo
  BY <1>1 DEF HeldByQueue, DestroyedWhenLetGo
<1>4. SelfRetained
  BY <1>1 DEF SelfRetained, Completing, One
<1>5. StartedPhases
  BY <1>1, SessionOpsAssumption DEF StartedPhases
<1> QED BY <1>2, <1>3, <1>4, <1>5 DEF SInv

(* The invariants of the queue and of the session hold together.            *)
THEOREM SessionInvariance == SessionSpec => [](QueueInv /\ SInv)
<1>1. SessionInit => QueueInv /\ SInv
  BY SessionQueueInv, InitSession
<1>2. QueueInv /\ SInv /\ [SessionNext]_allVars => QueueInv' /\ SInv'
  <2> SUFFICES ASSUME QueueInv, SInv, [SessionNext]_allVars PROVE QueueInv' /\ SInv'
    OBVIOUS
  <2>1. QueueInv'
    BY SessionQueueInv
  <2>2. SessionTypeOK' /\ HeldByQueue'
    BY NextHeld
  <2>3. SelfRetained' /\ StartedPhases'
    BY NextWrappers
  <2> QED BY <2>1, <2>2, <2>3, NextDestroyed DEF SInv
<1> QED BY <1>1, <1>2, PTL DEF SessionSpec

(* No thread, timer, operation or user has a session whose destructor has   *)
(* run: the references that queueStartRunning and queueStoppedRunning take  *)
(* and give back (MCSMTPAsyncSession.cpp:25-38), those of the operations and *)
(* that of the delayed disconnection are enough.                            *)
THEOREM SessionKept == SessionSpec => []SessionOutlivesItsUsers
<1>1. QueueInv /\ SInv => SessionOutlivesItsUsers
  BY NothingLeft DEF SessionOutlivesItsUsers
<1> QED BY <1>1, SessionInvariance, PTL

(* The Objective-C wrapper of an operation that was started and not         *)
(* cancelled is there until its completion block has run, even if its user  *)
(* let it go (MCOOperation.mm:87-108).                                      *)
THEOREM WrapperKept == SessionSpec => []WrapperOutlivesCallback
<1>1. ASSUME QueueInv, SInv, NEW op \in SendOps
      PROVE  /\ selfRetains[op] \in {0, 1}
             /\ phase[op] \in {"queued", "running", "done"} /\ op \notin mCancelled
                  => selfRetains[op] = 1
  <2>1. selfRetains[op] = One(op \in started) + One(Completing(op)) /\ (Completing(op) => op \notin started)
    BY <1>1 DEF SInv, SelfRetained, Completing
  <2>2. selfRetains[op] \in {0, 1} /\ (op \in started => selfRetains[op] = 1)
    BY <2>1 DEF One
  <2> QED BY <1>1, <2>2 DEF SInv, StartedPhases
<1>2. QueueInv /\ SInv => WrapperOutlivesCallback
  BY <1>1 DEF WrapperOutlivesCallback
<1> QED BY <1>2, SessionInvariance, PTL
=============================================================================
