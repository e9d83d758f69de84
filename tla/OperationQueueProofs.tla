------------------------ MODULE OperationQueueProofs ------------------------
(***************************************************************************)
(* Proofs, for any set of operations, that the worker of OperationQueue is  *)
(* never woken up with nothing to do (MCAssert(op != NULL) holds) and that  *)
(* no operation is left in the array without a worker.                      *)
(*                                                                         *)
(* The inductive invariant joins the token count of mOperationSem with the  *)
(* rendezvous of the two threads: without the latter nothing says that a    *)
(* block of the main queue finds the worker where it waits for it, nor that *)
(* a quit request is still pending when the worker takes its token.         *)
(*                                                                         *)
(* On it rest three more results: how far each operation has come is what   *)
(* the array and the worker say, the queue steps like the serial executor   *)
(* it promises to be, and the reference count of the queue is exact.        *)
(***************************************************************************)
EXTENDS OperationQueue, QueueLemmas, FiniteSetTheorems, TLAPS

IInv == TypeOK /\ TokensExact /\ Rendezvous /\ NoOperationStranded

-----------------------------------------------------------------------------
(* The inductive invariant. *)

(* It holds initially. *)
LEMMA InitIInv == Init => IInv
<1> SUFFICES ASSUME Init PROVE IInv
  OBVIOUS
<1>1. TypeOK
  <2>1. mOperations \in Seq(Ops) /\ mainQueue \in Seq(Blocks)
    BY EmptySeq DEF Init
  <2>2. mOperationSem \in Nat /\ mStartSem \in Nat /\ mStopSem \in Nat /\ mCounter \in Int
    BY DEF Init
  <2>3. phase \in [Ops -> {"new", "queued", "running", "done", "delivered"}]
    BY DEF Init
  <2> QED BY <2>1, <2>2, <2>3 DEF Init, TypeOK, WorkerPcs
<1>2. TokensExact
  BY DEF Init, TokensExact, One, Taken, QuitPending
<1>3. Rendezvous
  <2>1. DOMAIN mainQueue = {}
    BY DEF Init
  <2> QED BY <2>1 DEF Init, Rendezvous, BlocksAwaited, CallbackAwaited, WorkerKnown,
                      RunsHead, Taken
<1>4. NoOperationStranded
  BY DEF Init, NoOperationStranded
<1> QED BY <1>1, <1>2, <1>3, <1>4 DEF IInv

(* Every step of the two threads preserves it. *)
LEMMA NextIInv == IInv /\ [Next]_vars => IInv'
<1> SUFFICES ASSUME IInv, [Next]_vars PROVE IInv'
  OBVIOUS
<1>ops. QueueFacts(Ops, mOperations)
  BY QueueLemma DEF IInv, TypeOK
<1>blk. QueueFacts(Blocks, mainQueue)
  BY QueueLemma DEF IInv, TypeOK
<1>ran. ToSet(mOperations) \subseteq Ops
  BY <1>ops DEF QueueFacts, ToSet
<1>bef. ASSUME Handles("beforeMain") PROVE worker = "before" /\ mainQueue' = <<>>
  BY <1>bef DEF Handles, IInv, Rendezvous, BlocksAwaited, Awaited, QueueFacts
<1>cal. ASSUME Handles("callback")
        PROVE worker = "callback" /\ mainQueue' = <<>> /\ Head(mainQueue).op \in Ops
  BY <1>cal, <1>blk DEF Handles, IInv, Rendezvous, BlocksAwaited, Awaited,
     QueueFacts, Blocks
<1>sto. ASSUME Handles("stopped") PROVE worker = "stopping" /\ mainQueue' = <<>>
  BY <1>sto DEF Handles, IInv, Rendezvous, BlocksAwaited, Awaited
<1>chk. ASSUME Handles("checkRunning")
        PROVE  /\ mainQueue' \in Seq(Blocks)
               /\ DOMAIN mainQueue' = 1 .. Len(mainQueue')
               /\ Len(mainQueue') = Len(mainQueue) - 1
               /\ \A i \in 1 .. Len(mainQueue') : mainQueue'[i] = mainQueue[i + 1]
  BY <1>chk, <1>blk DEF Handles, QueueFacts
<1>awake. ASSUME worker \notin {"before", "callback", "stopping"}
          PROVE  \A i \in 1 .. Len(mainQueue) : mainQueue[i].method = "checkRunning"
  BY <1>awake, <1>blk DEF IInv, Rendezvous, BlocksAwaited, Awaited, QueueFacts,
     Blocks
<1>app. ASSUME NEW b \in Blocks
        PROVE  /\ Append(mainQueue, b) \in Seq(Blocks)
               /\ DOMAIN Append(mainQueue, b) = 1 .. Len(mainQueue) + 1
               /\ Len(Append(mainQueue, b)) = Len(mainQueue) + 1
               /\ Append(mainQueue, b)[Len(mainQueue) + 1] = b
               /\ \A i \in 1 .. Len(mainQueue) : Append(mainQueue, b)[i] = mainQueue[i]
  BY <1>blk DEF QueueFacts

<1>1. ASSUME NEW op \in Ops, AddOperation(op) PROVE IInv'
  <2>1. TypeOK'
    BY <1>1 DEF IInv, AddOperation, TypeOK, semVars, workerVars
  <2>2. TokensExact'
    BY <1>1 DEF IInv, AddOperation, ClientRuns, TokensExact, One, Taken,
       QuitPending, TypeOK, semVars
  <2>3. BlocksAwaited'
    BY <1>1 DEF IInv, AddOperation, BlocksAwaited, Awaited, Rendezvous
  <2>4. CallbackAwaited'
    BY <1>1 DEF IInv, AddOperation, CallbackAwaited, Rendezvous
  <2>5. WorkerKnown'
    BY <1>1 DEF IInv, AddOperation, WorkerKnown, Rendezvous
  <2>6. RunsHead'
    BY <1>1 DEF IInv, AddOperation, RunsHead, Taken, Rendezvous, workerVars
  <2>7. NoOperationStranded'
    BY <1>1 DEF AddOperation, NoOperationStranded
  <2> QED BY <2>1, <2>2, <2>3, <2>4, <2>5, <2>6, <2>7 DEF IInv, Rendezvous
<1>2. ASSUME NEW op \in Ops, Cancel(op) PROVE IInv'
  <2>1. TypeOK'
    BY <1>2 DEF IInv, Cancel, CancelOps, TypeOK, mainVars, semVars, workerVars
  <2>2. TokensExact'
    BY <1>2 DEF IInv, Cancel, CancelOps, TokensExact, Taken, QuitPending, mainVars,
       semVars
  <2>3. BlocksAwaited'
    BY <1>2 DEF IInv, Cancel, CancelOps, BlocksAwaited, Awaited, Rendezvous
  <2>4. CallbackAwaited'
    BY <1>2 DEF IInv, Cancel, CancelOps, CallbackAwaited, Rendezvous, mainVars
  <2>5. WorkerKnown'
    BY <1>2 DEF IInv, Cancel, CancelOps, WorkerKnown, Rendezvous, mainVars
  <2>6. RunsHead'
    BY <1>2 DEF IInv, Cancel, CancelOps, RunsHead, Taken, Rendezvous, workerVars
  <2>7. NoOperationStranded'
    BY <1>2 DEF IInv, Cancel, CancelOps, ClientRuns, NoOperationStranded
  <2> QED BY <2>1, <2>2, <2>3, <2>4, <2>5, <2>6, <2>7 DEF IInv, Rendezvous
<1>3. ASSUME CancelAllOperations PROVE IInv'
  <2>1. TypeOK'
    BY <1>3, <1>ran DEF IInv, CancelAllOperations, CancelOps, TypeOK, mainVars,
       semVars, workerVars
  <2>2. TokensExact'
    BY <1>3 DEF IInv, CancelAllOperations, CancelOps, TokensExact, Taken,
       QuitPending, mainVars, semVars
  <2>3. BlocksAwaited'
    BY <1>3 DEF IInv, CancelAllOperations, CancelOps, BlocksAwaited, Awaited,
       Rendezvous
  <2>4. CallbackAwaited'
    BY <1>3 DEF IInv, CancelAllOperations, CancelOps, CallbackAwaited, Rendezvous,
       mainVars
  <2>5. WorkerKnown'
    BY <1>3 DEF IInv, CancelAllOperations, CancelOps, WorkerKnown, Rendezvous,
       mainVars
  <2>6. RunsHead'
    BY <1>3 DEF IInv, CancelAllOperations, CancelOps, RunsHead, Taken, Rendezvous,
       workerVars
  <2>7. NoOperationStranded'
    BY <1>3 DEF IInv, CancelAllOperations, CancelOps, ClientRuns,
       NoOperationStranded
  <2> QED BY <2>1, <2>2, <2>3, <2>4, <2>5, <2>6, <2>7 DEF IInv, Rendezvous
<1>4. ASSUME SignalAdded PROVE IInv'
  <2>1. TypeOK'
    BY <1>4 DEF IInv, SignalAdded, TypeOK, workerVars
  <2>2. TokensExact'
    BY <1>4 DEF IInv, SignalAdded, TokensExact, One, Taken, QuitPending, TypeOK
  <2>3. BlocksAwaited'
    BY <1>4 DEF IInv, SignalAdded, BlocksAwaited, Awaited, Rendezvous
  <2>4. CallbackAwaited'
    BY <1>4 DEF IInv, SignalAdded, CallbackAwaited, Rendezvous
  <2>5. WorkerKnown'
    BY <1>4 DEF IInv, SignalAdded, WorkerKnown, Rendezvous
  <2>6. RunsHead'
    BY <1>4 DEF IInv, SignalAdded, RunsHead, Taken, Rendezvous, workerVars
  <2>7. NoOperationStranded'
    BY <1>4 DEF SignalAdded, NoOperationStranded
  <2> QED BY <2>1, <2>2, <2>3, <2>4, <2>5, <2>6, <2>7 DEF IInv, Rendezvous
<1>5. ASSUME AlreadyStarted PROVE IInv'
  <2>1. TypeOK'
    BY <1>5 DEF IInv, AlreadyStarted, TypeOK, semVars, workerVars
  <2>2. TokensExact'
    BY <1>5 DEF IInv, AlreadyStarted, TokensExact, Taken, QuitPending, semVars
  <2>3. BlocksAwaited'
    BY <1>5 DEF IInv, AlreadyStarted, BlocksAwaited, Awaited, Rendezvous
  <2>4. CallbackAwaited'
    BY <1>5 DEF IInv, AlreadyStarted, CallbackAwaited, Rendezvous
  <2>5. WorkerKnown'
    BY <1>5 DEF IInv, AlreadyStarted, WorkerKnown, Rendezvous
  <2>6. RunsHead'
    BY <1>5 DEF IInv, AlreadyStarted, RunsHead, Taken, Rendezvous, workerVars
  <2>7. NoOperationStranded'
    BY <1>5 DEF AlreadyStarted, NoOperationStranded
  <2> QED BY <2>1, <2>2, <2>3, <2>4, <2>5, <2>6, <2>7 DEF IInv, Rendezvous
<1>6. ASSUME StartThread PROVE IInv'
  <2>1. TypeOK'
    <3>1. mOperationSem' \in Nat /\ mStartSem' \in Nat /\ mStopSem' \in Nat /\ mCounter' \in Int
      BY <1>6 DEF IInv, TypeOK, StartThread, semVars
    <3> QED BY <1>6, <3>1 DEF IInv, TypeOK, WorkerPcs, StartThread, mainVars,
         semVars, workerVars
  <2>2. TokensExact'
    BY <1>6 DEF IInv, StartThread, TokensExact, Taken, QuitPending, Rendezvous,
       WorkerKnown, semVars
  <2>3. BlocksAwaited'
    BY <1>6 DEF IInv, StartThread, BlocksAwaited, Rendezvous, WorkerKnown
  <2>4. CallbackAwaited'
    BY <1>6 DEF IInv, StartThread, CallbackAwaited, WorkerKnown, Rendezvous
  <2>5. WorkerKnown'
    BY <1>6 DEF StartThread, WorkerKnown
  <2>6. RunsHead'
    BY <1>6 DEF StartThread, RunsHead, Taken
  <2>7. NoOperationStranded'
    BY <1>6 DEF StartThread, NoOperationStranded
  <2> QED BY <2>1, <2>2, <2>3, <2>4, <2>5, <2>6, <2>7 DEF IInv, Rendezvous
<1>7. ASSUME ThreadHasStarted PROVE IInv'
  <2>1. TypeOK'
    BY <1>7 DEF IInv, ThreadHasStarted, TypeOK, workerVars
  <2>2. TokensExact'
    BY <1>7 DEF IInv, ThreadHasStarted, TokensExact, Taken, QuitPending
  <2>3. BlocksAwaited'
    BY <1>7 DEF IInv, ThreadHasStarted, BlocksAwaited, Awaited, Rendezvous
  <2>4. CallbackAwaited'
    BY <1>7 DEF IInv, ThreadHasStarted, CallbackAwaited, Rendezvous
  <2>5. WorkerKnown'
    BY <1>7 DEF IInv, ThreadHasStarted, WorkerKnown, Rendezvous
  <2>6. RunsHead'
    BY <1>7 DEF IInv, ThreadHasStarted, RunsHead, Taken, Rendezvous, workerVars
  <2>7. NoOperationStranded'
    BY <1>7 DEF IInv, ThreadHasStarted, NoOperationStranded
  <2> QED BY <2>1, <2>2, <2>3, <2>4, <2>5, <2>6, <2>7 DEF IInv, Rendezvous
<1>8. ASSUME BeforeMain PROVE IInv'
  <2>1. TypeOK'
    BY <1>8, <1>bef DEF IInv, BeforeMain, TypeOK, WorkerPcs, mainVars, semVars,
       workerVars
  <2>2. TokensExact'
    BY <1>8, <1>bef DEF IInv, BeforeMain, TokensExact, Taken, QuitPending, mainVars,
       semVars
  <2>3. BlocksAwaited'
    BY <1>8, <1>bef DEF BeforeMain, BlocksAwaited
  <2>4. CallbackAwaited'
    BY <1>8 DEF BeforeMain, Handles, Idle, CallbackAwaited, mainVars
  <2>5. WorkerKnown'
    BY <1>8, <1>bef DEF IInv, BeforeMain, WorkerKnown, Rendezvous
  <2>6. RunsHead'
    BY <1>8, <1>bef DEF IInv, BeforeMain, RunsHead, Taken, Rendezvous, workerVars
  <2>7. NoOperationStranded'
    BY <1>8 DEF IInv, BeforeMain, Handles, Idle, NoOperationStranded
  <2> QED BY <2>1, <2>2, <2>3, <2>4, <2>5, <2>6, <2>7 DEF IInv, Rendezvous
<1>9. ASSUME CallbackOnMainThread PROVE IInv'
  <2>1. TypeOK'
    BY <1>9, <1>cal DEF IInv, CallbackOnMainThread, TypeOK, WorkerPcs, semVars,
       workerVars
  <2>2. TokensExact'
    BY <1>9, <1>cal DEF IInv, CallbackOnMainThread, TokensExact, Taken, QuitPending,
       semVars
  <2>3. BlocksAwaited'
    BY <1>9, <1>cal DEF CallbackOnMainThread, BlocksAwaited
  <2>4. CallbackAwaited'
    BY <1>9, <1>cal DEF CallbackOnMainThread, Handles, Idle, CallbackAwaited
  <2>5. WorkerKnown'
    BY <1>9, <1>cal DEF IInv, CallbackOnMainThread, WorkerKnown, Rendezvous
  <2>6. RunsHead'
    BY <1>9 DEF IInv, CallbackOnMainThread, RunsHead, Taken, Rendezvous, workerVars
  <2>7. NoOperationStranded'
    BY <1>9 DEF IInv, CallbackOnMainThread, NoOperationStranded
  <2> QED BY <2>1, <2>2, <2>3, <2>4, <2>5, <2>6, <2>7 DEF IInv, Rendezvous
<1>10. ASSUME CallbackReturns PROVE IInv'
  <2>1. TypeOK'
    BY <1>10 DEF IInv, CallbackReturns, TypeOK, WorkerPcs, semVars, workerVars
  <2>2. TokensExact'
    BY <1>10 DEF IInv, CallbackReturns, TokensExact, Taken, QuitPending, Rendezvous,
       CallbackAwaited, semVars
  <2>3. BlocksAwaited'
    BY <1>10 DEF IInv, CallbackReturns, BlocksAwaited, Rendezvous, CallbackAwaited
  <2>4. CallbackAwaited'
    BY <1>10 DEF CallbackReturns, CallbackAwaited
  <2>5. WorkerKnown'
    BY <1>10 DEF IInv, CallbackReturns, WorkerKnown, Rendezvous, CallbackAwaited
  <2>6. RunsHead'
    BY <1>10 DEF CallbackReturns, RunsHead, Taken
  <2>7. NoOperationStranded'
    BY <1>10 DEF IInv, CallbackReturns, NoOperationStranded
  <2> QED BY <2>1, <2>2, <2>3, <2>4, <2>5, <2>6, <2>7 DEF IInv, Rendezvous
<1>11. ASSUME CheckRunningOnMainThread PROVE IInv'
  <2>1. TypeOK'
    BY <1>11, <1>chk DEF IInv, CheckRunningOnMainThread, TypeOK, semVars, workerVars
  <2>2. TokensExact'
    BY <1>11 DEF IInv, CheckRunningOnMainThread, TokensExact, Taken, QuitPending,
       semVars
  <2>3. BlocksAwaited'
    BY <1>11, <1>ops, <1>blk DEF IInv, CheckRunningOnMainThread, Handles,
       BlocksAwaited, Awaited, Rendezvous
  <2>4. CallbackAwaited'
    BY <1>11 DEF CheckRunningOnMainThread, Handles, Idle, CallbackAwaited
  <2>5. WorkerKnown'
    BY <1>11, <1>chk DEF IInv, CheckRunningOnMainThread, WorkerKnown, Rendezvous
  <2>6. RunsHead'
    BY <1>11 DEF IInv, CheckRunningOnMainThread, RunsHead, Taken, Rendezvous,
       workerVars
  <2>7. NoOperationStranded'
    BY <1>11 DEF IInv, CheckRunningOnMainThread, NoOperationStranded
  <2> QED BY <2>1, <2>2, <2>3, <2>4, <2>5, <2>6, <2>7 DEF IInv, Rendezvous
<1>12. ASSUME StoppedOnMainThread PROVE IInv'
  <2>1. TypeOK'
    <3>1. mOperationSem' \in Nat /\ mStartSem' \in Nat /\ mStopSem' \in Nat /\ mCounter' \in Int
      BY <1>12 DEF IInv, TypeOK, StoppedOnMainThread
    <3>2. mainQueue' \in Seq(Blocks)
      BY <1>12, <1>blk DEF StoppedOnMainThread, Handles, QueueFacts
    <3> QED BY <1>12, <3>1, <3>2 DEF IInv, TypeOK, WorkerPcs, StoppedOnMainThread,
         Idle, NeedsRestart, mainVars, semVars, workerVars
  <2>2. TokensExact'
    BY <1>12, <1>sto DEF IInv, StoppedOnMainThread, Handles, Idle, TokensExact,
       Taken, QuitPending
  <2>3. BlocksAwaited'
    BY <1>12, <1>sto DEF StoppedOnMainThread, BlocksAwaited
  <2>4. CallbackAwaited'
    BY <1>12 DEF StoppedOnMainThread, CallbackAwaited
  <2>5. WorkerKnown'
    BY <1>12, <1>sto DEF IInv, StoppedOnMainThread, WorkerKnown, Rendezvous
  <2>6. RunsHead'
    BY <1>12 DEF StoppedOnMainThread, RunsHead, Taken
  <2>7. NoOperationStranded'
    BY <1>12 DEF StoppedOnMainThread, NeedsRestart, NoOperationStranded
  <2> QED BY <2>1, <2>2, <2>3, <2>4, <2>5, <2>6, <2>7 DEF IInv, Rendezvous
<1>13. ASSUME StoppedReturns PROVE IInv'
  <2>1. TypeOK'
    BY <1>13 DEF IInv, StoppedReturns, TypeOK, semVars, workerVars
  <2>2. TokensExact'
    BY <1>13 DEF IInv, StoppedReturns, TokensExact, Taken, QuitPending, semVars
  <2>3. BlocksAwaited'
    BY <1>13 DEF IInv, StoppedReturns, BlocksAwaited, Awaited, Rendezvous
  <2>4. CallbackAwaited'
    BY <1>13 DEF StoppedReturns, CallbackAwaited
  <2>5. WorkerKnown'
    BY <1>13 DEF IInv, StoppedReturns, WorkerKnown, Rendezvous
  <2>6. RunsHead'
    BY <1>13 DEF IInv, StoppedReturns, RunsHead, Taken, Rendezvous, workerVars
  <2>7. NoOperationStranded'
    BY <1>13 DEF IInv, StoppedReturns, NoOperationStranded
  <2> QED BY <2>1, <2>2, <2>3, <2>4, <2>5, <2>6, <2>7 DEF IInv, Rendezvous
<1>14. ASSUME CheckRunningAfterDelay PROVE IInv'
  <2>1. TypeOK'
    <3>1. mOperationSem' \in Nat /\ mStartSem' \in Nat /\ mStopSem' \in Nat /\ mCounter' \in Int
      BY <1>14 DEF IInv, TypeOK, CheckRunningAfterDelay
    <3> QED BY <1>14, <3>1 DEF IInv, TypeOK, WorkerPcs, CheckRunningAfterDelay,
         ShouldQuit, mainVars, workerVars
  <2>2. TokensExact'
    <3>1. CASE ShouldQuit
      <4>1. mStarted /\ worker # "stopping"
        BY <1>14, <3>1 DEF CheckRunningAfterDelay, ShouldQuit, IInv, Rendezvous,
           WorkerKnown
      <4>2. QuitPending' /\ ~ QuitPending /\ Taken' = Taken
        BY <1>14, <3>1, <4>1 DEF CheckRunningAfterDelay, ShouldQuit, QuitPending,
           Taken
      <4> QED BY <1>14, <3>1, <4>2 DEF CheckRunningAfterDelay, IInv, TypeOK,
           TokensExact, One
    <3>2. CASE ~ ShouldQuit
      <4>1. /\ UNCHANGED <<mOperationSem, mOperations, mainPc, worker>>
            /\ QuitPending' = QuitPending
        BY <1>14, <3>2 DEF CheckRunningAfterDelay, QuitPending
      <4> QED BY <4>1 DEF IInv, TokensExact, One, Taken
    <3> QED BY <3>1, <3>2
  <2>3. BlocksAwaited'
    BY <1>14 DEF IInv, CheckRunningAfterDelay, BlocksAwaited, Awaited, Rendezvous
  <2>4. CallbackAwaited'
    BY <1>14 DEF CheckRunningAfterDelay, Idle, CallbackAwaited
  <2>5. WorkerKnown'
    BY <1>14 DEF IInv, CheckRunningAfterDelay, WorkerKnown, Rendezvous
  <2>6. RunsHead'
    BY <1>14 DEF IInv, CheckRunningAfterDelay, RunsHead, Taken, Rendezvous,
       workerVars
  <2>7. NoOperationStranded'
    BY <1>14 DEF IInv, CheckRunningAfterDelay, NoOperationStranded
  <2> QED BY <2>1, <2>2, <2>3, <2>4, <2>5, <2>6, <2>7 DEF IInv, Rendezvous
<1>15. ASSUME ThreadStarts PROVE IInv'
  <2>1. TypeOK'
    BY <1>15 DEF IInv, ThreadStarts, TypeOK, WorkerPcs, mainVars, workerVars
  <2>2. TokensExact'
    BY <1>15 DEF IInv, ThreadStarts, TokensExact, Taken, QuitPending, mainVars
  <2>3. BlocksAwaited'
    BY <1>15 DEF IInv, ThreadStarts, BlocksAwaited, Awaited, Rendezvous
  <2>4. CallbackAwaited'
    BY <1>15 DEF IInv, ThreadStarts, CallbackAwaited, Rendezvous, mainVars
  <2>5. WorkerKnown'
    BY <1>15 DEF IInv, ThreadStarts, WorkerKnown, Rendezvous
  <2>6. RunsHead'
    BY <1>15 DEF ThreadStarts, RunsHead, Taken
  <2>7. NoOperationStranded'
    BY <1>15 DEF IInv, ThreadStarts, NoOperationStranded, Rendezvous, WorkerKnown
  <2> QED BY <2>1, <2>2, <2>3, <2>4, <2>5, <2>6, <2>7 DEF IInv, Rendezvous
<1>16. ASSUME TakeToken PROVE IInv'
  <2>1. TypeOK'
    BY <1>16 DEF IInv, TakeToken, TypeOK, WorkerPcs, mainVars, workerVars
  <2>2. TokensExact'
    BY <1>16 DEF IInv, TakeToken, TokensExact, One, Taken, QuitPending, TypeOK,
       mainVars
  <2>3. BlocksAwaited'
    BY <1>16 DEF IInv, TakeToken, BlocksAwaited, Awaited, Rendezvous
  <2>4. CallbackAwaited'
    BY <1>16 DEF IInv, TakeToken, CallbackAwaited, Rendezvous, mainVars
  <2>5. WorkerKnown'
    BY <1>16 DEF IInv, TakeToken, WorkerKnown, Rendezvous
  <2>6. RunsHead'
    BY <1>16 DEF TakeToken, RunsHead, Taken
  <2>7. NoOperationStranded'
    BY <1>16 DEF IInv, TakeToken, NoOperationStranded, Rendezvous, WorkerKnown
  <2> QED BY <2>1, <2>2, <2>3, <2>4, <2>5, <2>6, <2>7 DEF IInv, Rendezvous
<1>17. ASSUME PeekOperation PROVE IInv'
  <2>1. TypeOK'
    <3>1. mOperationSem' \in Nat /\ mStartSem' \in Nat /\ mStopSem' \in Nat /\ mCounter' \in Int
      BY <1>17 DEF IInv, TypeOK, PeekOperation, semVars
    <3>2. Head(mOperations) \in Ops
      BY <1>17, <1>ops DEF PeekOperation, QueueFacts
    <3>3. mainQueue' \in Seq(Blocks)
      BY <1>17, <1>app, <3>2 DEF PeekOperation, Block, Blocks
    <3> QED BY <1>17, <3>3 DEF IInv, TypeOK, WorkerPcs, PeekOperation, mainVars,
         semVars, workerVars
  <2>2. TokensExact'
    BY <1>17 DEF IInv, PeekOperation, TokensExact, One, Taken, QuitPending, TypeOK,
       mainVars, semVars
  <2>3. BlocksAwaited'
    <3>1. Block("beforeMain", Head(mOperations)) \in Blocks
      BY <1>17, <1>ops DEF PeekOperation, Block, Blocks, QueueFacts
    <3>2. \A i \in 1 .. Len(mainQueue) : mainQueue[i].method = "checkRunning"
      BY <1>17, <1>awake DEF PeekOperation
    <3> QED BY <1>17, <3>2 DEF PeekOperation, BlocksAwaited, Awaited, Block,
         QueueFacts
  <2>4. CallbackAwaited'
    BY <1>17 DEF IInv, PeekOperation, CallbackAwaited, Rendezvous, mainVars
  <2>5. WorkerKnown'
    BY <1>17 DEF IInv, PeekOperation, WorkerKnown, Rendezvous
  <2>6. RunsHead'
    BY <1>17 DEF PeekOperation, RunsHead
  <2>7. NoOperationStranded'
    BY <1>17 DEF IInv, PeekOperation, NoOperationStranded, Rendezvous, WorkerKnown
  <2> QED BY <2>1, <2>2, <2>3, <2>4, <2>5, <2>6, <2>7 DEF IInv, Rendezvous
<1>18. ASSUME PeekQuit PROVE IInv'
  <2>1. TypeOK'
    <3>1. mOperationSem' \in Nat /\ mStartSem' \in Nat /\ mStopSem' \in Nat /\ mCounter' \in Int
      BY <1>18 DEF IInv, TypeOK, PeekQuit
    <3>2. mainQueue' \in Seq(Blocks)
      BY <1>18, <1>app DEF PeekQuit, Block, Blocks
    <3> QED BY <1>18, <3>2 DEF IInv, TypeOK, WorkerPcs, PeekQuit, mainVars, semVars,
         workerVars
  <2>2. TokensExact'
    BY <1>18 DEF IInv, PeekQuit, TokensExact, One, Taken, QuitPending, TypeOK,
       mainVars
  <2>3. BlocksAwaited'
    <3>1. Block("stopped", NoOp) \in Blocks
      BY DEF Block, Blocks
    <3>2. \A i \in 1 .. Len(mainQueue) : mainQueue[i].method = "checkRunning"
      BY <1>18, <1>awake DEF PeekQuit
    <3> QED BY <1>18, <3>2 DEF PeekQuit, BlocksAwaited, Awaited, Block, QueueFacts
  <2>4. CallbackAwaited'
    BY <1>18 DEF IInv, PeekQuit, CallbackAwaited, Rendezvous, mainVars
  <2>5. WorkerKnown'
    BY <1>18 DEF IInv, PeekQuit, WorkerKnown, Rendezvous
  <2>6. RunsHead'
    BY <1>18 DEF PeekQuit, RunsHead, Taken
  <2>7. NoOperationStranded'
    BY <1>18 DEF PeekQuit, NoOperationStranded
  <2> QED BY <2>1, <2>2, <2>3, <2>4, <2>5, <2>6, <2>7 DEF IInv, Rendezvous
<1>19. ASSUME MainBegins PROVE IInv'
  <2>1. TypeOK'
    BY <1>19 DEF IInv, MainBegins, TypeOK, WorkerPcs, mainVars, semVars, workerVars
  <2>2. TokensExact'
    BY <1>19 DEF IInv, MainBegins, TokensExact, Taken, QuitPending, mainVars,
       semVars
  <2>3. BlocksAwaited'
    BY <1>19 DEF IInv, MainBegins, BlocksAwaited, Awaited, Rendezvous
  <2>4. CallbackAwaited'
    BY <1>19 DEF IInv, MainBegins, CallbackAwaited, Rendezvous, mainVars
  <2>5. WorkerKnown'
    BY <1>19 DEF IInv, MainBegins, WorkerKnown, Rendezvous
  <2>6. RunsHead'
    BY <1>19 DEF IInv, MainBegins, RunsHead, Taken, Rendezvous, workerVars
  <2>7. NoOperationStranded'
    BY <1>19 DEF IInv, MainBegins, NoOperationStranded, Rendezvous, WorkerKnown
  <2> QED BY <2>1, <2>2, <2>3, <2>4, <2>5, <2>6, <2>7 DEF IInv, Rendezvous
<1>20. ASSUME MainReturns PROVE IInv'
  <2>1. TypeOK'
    BY <1>20 DEF IInv, MainReturns, TypeOK, WorkerPcs, mainVars, semVars, workerVars
  <2>2. TokensExact'
    BY <1>20 DEF IInv, MainReturns, TokensExact, Taken, QuitPending, mainVars,
       semVars
  <2>3. BlocksAwaited'
    BY <1>20 DEF IInv, MainReturns, BlocksAwaited, Awaited, Rendezvous
  <2>4. CallbackAwaited'
    BY <1>20 DEF IInv, MainReturns, CallbackAwaited, Rendezvous, mainVars
  <2>5. WorkerKnown'
    BY <1>20 DEF IInv, MainReturns, WorkerKnown, Rendezvous
  <2>6. RunsHead'
    BY <1>20 DEF IInv, MainReturns, RunsHead, Taken, Rendezvous, workerVars
  <2>7. NoOperationStranded'
    BY <1>20 DEF IInv, MainReturns, NoOperationStranded, Rendezvous, WorkerKnown
  <2> QED BY <2>1, <2>2, <2>3, <2>4, <2>5, <2>6, <2>7 DEF IInv, Rendezvous
<1>21. ASSUME RemoveOperation PROVE IInv'
  <2>1. TypeOK'
    <3>1. mOperationSem' \in Nat /\ mStartSem' \in Nat /\ mStopSem' \in Nat /\ mCounter' \in Int
      BY <1>21 DEF IInv, TypeOK, RemoveOperation, semVars
    <3>2. mOperations' \in Seq(Ops)
      BY <1>21, <1>ops DEF RemoveOperation, QueueFacts, IInv, Rendezvous, RunsHead,
         Taken
    <3> QED BY <1>21, <3>2 DEF IInv, TypeOK, WorkerPcs, RemoveOperation, mainVars,
         semVars, workerVars
  <2>2. TokensExact'
    BY <1>21 DEF IInv, RemoveOperation, TokensExact, One, Taken, QuitPending,
       Rendezvous, RunsHead, mainVars, semVars
  <2>3. BlocksAwaited'
    BY <1>21 DEF IInv, RemoveOperation, BlocksAwaited, Awaited, Rendezvous
  <2>4. CallbackAwaited'
    BY <1>21 DEF IInv, RemoveOperation, CallbackAwaited, Rendezvous, mainVars
  <2>5. WorkerKnown'
    BY <1>21 DEF IInv, RemoveOperation, WorkerKnown, Rendezvous
  <2>6. RunsHead'
    BY <1>21, <1>ops DEF IInv, QueueFacts, RemoveOperation, RunsHead, Taken,
       Rendezvous
  <2>7. NoOperationStranded'
    BY <1>21 DEF IInv, RemoveOperation, NoOperationStranded, Rendezvous, WorkerKnown
  <2> QED BY <2>1, <2>2, <2>3, <2>4, <2>5, <2>6, <2>7 DEF IInv, Rendezvous
<1>22. ASSUME FinishOperation PROVE IInv'
  <2>1. TypeOK'
    <3>1. mOperationSem' \in Nat /\ mStartSem' \in Nat /\ mStopSem' \in Nat /\ mCounter' \in Int
      BY <1>22 DEF IInv, TypeOK, FinishOperation, semVars
    <3>2. mainQueue' \in Seq(Blocks)
      BY <1>22, <1>app DEF FinishOperation, Block, Blocks, IInv, Rendezvous,
         RunsHead
    <3> QED BY <1>22, <3>1, <3>2 DEF IInv, TypeOK, WorkerPcs, FinishOperation,
         mainVars, semVars, workerVars
  <2>2. TokensExact'
    BY <1>22 DEF IInv, FinishOperation, TokensExact, Taken, QuitPending, mainVars,
       semVars
  <2>3. BlocksAwaited'
    <3>1. current \notin mCancelled => Block("callback", current) \in Blocks
      BY <1>22 DEF FinishOperation, Block, Blocks, IInv, Rendezvous, RunsHead
    <3>2. \A i \in 1 .. Len(mainQueue) : mainQueue[i].method = "checkRunning"
      BY <1>22, <1>awake DEF FinishOperation
    <3> QED BY <1>22, <3>2 DEF FinishOperation, BlocksAwaited, Awaited, Block,
         QueueFacts
  <2>4. CallbackAwaited'
    BY <1>22 DEF IInv, FinishOperation, CallbackAwaited, Rendezvous, mainVars
  <2>5. WorkerKnown'
    BY <1>22 DEF IInv, FinishOperation, WorkerKnown, Rendezvous
  <2>6. RunsHead'
    BY <1>22 DEF IInv, FinishOperation, RunsHead, Taken, Rendezvous, workerVars
  <2>7. NoOperationStranded'
    BY <1>22 DEF IInv, FinishOperation, NoOperationStranded, Rendezvous, WorkerKnown
  <2> QED BY <2>1, <2>2, <2>3, <2>4, <2>5, <2>6, <2>7 DEF IInv, Rendezvous
<1>23. ASSUME EndIteration PROVE IInv'
  <2>1. TypeOK'
    <3>1. mOperationSem' \in Nat /\ mStartSem' \in Nat /\ mStopSem' \in Nat /\ mCounter' \in Int
      BY <1>23 DEF IInv, TypeOK, EndIteration, semVars
    <3>2. mainQueue' \in Seq(Blocks)
      <4>1. Block("checkRunning", NoOp) \in Blocks
        BY DEF Block, Blocks
      <4> QED BY <1>23, <4>1 DEF EndIteration, IInv, TypeOK
    <3> QED BY <1>23, <3>1, <3>2 DEF IInv, TypeOK, WorkerPcs, EndIteration, mainVars
  <2>2. TokensExact'
    BY <1>23 DEF IInv, EndIteration, TokensExact, Taken, QuitPending, mainVars,
       semVars
  <2>3. BlocksAwaited'
    <3>1. Block("checkRunning", NoOp) \in Blocks
      BY DEF Block, Blocks
    <3>2. \A i \in 1 .. Len(mainQueue) : mainQueue[i].method = "checkRunning"
      BY <1>23, <1>awake DEF EndIteration
    <3> QED BY <1>23, <3>2 DEF EndIteration, BlocksAwaited, Awaited, Block,
         QueueFacts
  <2>4. CallbackAwaited'
    BY <1>23 DEF IInv, EndIteration, CallbackAwaited, Rendezvous, mainVars
  <2>5. WorkerKnown'
    BY <1>23 DEF IInv, EndIteration, WorkerKnown, Rendezvous
  <2>6. RunsHead'
    BY <1>23 DEF EndIteration, RunsHead, Taken
  <2>7. NoOperationStranded'
    BY <1>23 DEF IInv, EndIteration, NoOperationStranded, Rendezvous, WorkerKnown
  <2> QED BY <2>1, <2>2, <2>3, <2>4, <2>5, <2>6, <2>7 DEF IInv, Rendezvous
<1>24. CASE UNCHANGED vars
  BY <1>24 DEF IInv, vars, semVars, mainVars, workerVars, TypeOK, TokensExact,
     Taken, QuitPending, Rendezvous, BlocksAwaited, Awaited, CallbackAwaited,
     WorkerKnown, RunsHead, NoOperationStranded
<1> QED BY <1>1, <1>2, <1>3, <1>4, <1>5, <1>6, <1>7, <1>8, <1>9, <1>10, <1>11,
     <1>12, <1>13, <1>14, <1>15, <1>16, <1>17, <1>18, <1>19, <1>20, <1>21, <1>22,
     <1>23, <1>24 DEF Next, Client, MainThread, Worker

-----------------------------------------------------------------------------
(* Every behaviour stays within the inductive invariant. *)
THEOREM Invariance == Spec => []IInv
<1>1. Init => IInv
  BY InitIInv
<1>2. IInv /\ [Next]_vars => IInv'
  BY NextIInv
<1> QED BY <1>1, <1>2, PTL DEF Spec

(* The variables keep their types: in particular only well-formed blocks    *)
(* are ever dispatched to the main thread. *)
THEOREM TypeCorrectness == Spec => []TypeOK
<1>1. IInv => TypeOK
  BY DEF IInv
<1> QED BY <1>1, Invariance, PTL

(* mOperationSem counts the operations left to take plus a pending request  *)
(* to quit, whatever additions race with the delayed check (lines 51-58,    *)
(* 91-98 and 209-220 of MCOperationQueue.cpp). *)
THEOREM TokenAccounting == Spec => []TokensExact
<1>1. IInv => TokensExact
  BY DEF IInv
<1> QED BY <1>1, Invariance, PTL

(* MCAssert(op != NULL) at line 116 of MCOperationQueue.cpp never fails. *)
THEOREM AssertHolds == Spec => []NoAssertFailure
<1>1. ASSUME IInv PROVE NoAssertFailure
  <2> SUFFICES ASSUME worker = "peek", mOperations = <<>> PROVE mQuitting
    BY DEF NoAssertFailure
  <2>1. Len(mOperations) = 0 /\ ~ Taken
    BY DEF Taken
  <2>2. One(QuitPending) > 0
    BY <1>1, <2>1 DEF IInv, TypeOK, TokensExact, One
  <2> QED BY <2>2 DEF One, QuitPending
<1> QED BY <1>1, Invariance, PTL

(* An operation that arrives while the worker is quitting finds a worker:   *)
(* stoppedOnMainThread (lines 238-241) restarts it. *)
THEOREM NothingStranded == Spec => []NoOperationStranded
<1>1. IInv => NoOperationStranded
  BY DEF IInv
<1> QED BY <1>1, Invariance, PTL

(* The dispatch_sync calls of the worker (lines 107, 117 and 136) and the   *)
(* blocks that answer them meet: no block of an earlier rendezvous is left  *)
(* in the main queue, and the operation being run is the head of the array  *)
(* until line 126 removes it. *)
THEOREM Meeting == Spec => []Rendezvous
<1>1. IInv => Rendezvous
  BY DEF IInv
<1> QED BY <1>1, Invariance, PTL

-----------------------------------------------------------------------------
(* How far the operations have come.                                        *)

(* The array holds each operation once.                                     *)
DistinctOperations ==
    \A i, j \in DOMAIN mOperations : mOperations[i] = mOperations[j] => i = j

(* The operation at the head is no longer waiting for its turn.             *)
Executing == worker \in {"running", "remove"}

(* The operations in the array wait, except for a head being executed.      *)
QueuedPhases ==
    \A i \in DOMAIN mOperations :
        i > 1 \/ ~ Executing => phase[mOperations[i]] = "queued"

(* How far the operation has come that the worker is at, or that a callback *)
(* block of the main queue carries.                                         *)
CurrentPhase ==
    /\ worker = "running" => phase[current] = "running"
    /\ worker \in {"remove", "finish"} => phase[current] = "done"
    /\ worker = "callback"
           => phase[current] = IF frame = "callback" THEN "delivered" ELSE "done"
    /\ \A i \in DOMAIN mainQueue :
           mainQueue[i].method = "callback" => mainQueue[i].op = current

(* Nothing but the worker's operation is under way.                         *)
OtherPhases ==
    \A op \in Ops :
        /\ phase[op] = "running" => worker = "running" /\ op = current
        /\ phase[op] = "done" /\ op \notin mCancelled
               => worker \in {"remove", "finish", "callback"} /\ op = current

(* How far the operations have come is what the array, the worker and the   *)
(* main queue say.                                                          *)
PhasesAgree == DistinctOperations /\ QueuedPhases /\ CurrentPhase /\ OtherPhases

(* It holds initially.                                                      *)
LEMMA InitPhases == Init => PhasesAgree
<1> SUFFICES ASSUME Init PROVE PhasesAgree
  OBVIOUS
<1>1. DOMAIN mOperations = {} /\ DOMAIN mainQueue = {}
  BY DEF Init
<1> QED BY <1>1 DEF Init, PhasesAgree, DistinctOperations, QueuedPhases, CurrentPhase, OtherPhases

(* A step that executes nothing, and dispatches no callback. *)
LEMMA QuietStep ==
    ASSUME IInv, PhasesAgree,
           mOperations' = mOperations, phase' = phase, mCancelled \subseteq mCancelled',
           \/ worker' = worker /\ current' = current /\ (frame' = "callback" <=> frame = "callback")
           \/ /\ worker \notin {"running", "remove", "finish", "callback"}
              /\ worker' \notin {"running", "remove", "finish", "callback"},
           \A i \in DOMAIN mainQueue' :
               mainQueue'[i].method = "callback" =>
                   \E j \in DOMAIN mainQueue : mainQueue'[i] = mainQueue[j]
    PROVE  PhasesAgree'
<1>1. DistinctOperations'
  BY DEF PhasesAgree, DistinctOperations
<1>2. QueuedPhases'
  BY DEF PhasesAgree, QueuedPhases, Executing
<1>3. CurrentPhase'
  BY DEF PhasesAgree, CurrentPhase, IInv, Rendezvous, BlocksAwaited, Awaited
<1>4. OtherPhases'
  BY DEF PhasesAgree, OtherPhases
<1> QED BY <1>1, <1>2, <1>3, <1>4 DEF PhasesAgree

(* Every step keeps it: one case per action.                                *)
LEMMA NextPhases == IInv /\ PhasesAgree /\ [Next]_vars => PhasesAgree'
<1> SUFFICES ASSUME IInv, PhasesAgree, [Next]_vars PROVE PhasesAgree'
  OBVIOUS
<1>ops. QueueFacts(Ops, mOperations)
  BY QueueLemma DEF IInv, TypeOK
<1>blk. QueueFacts(Blocks, mainQueue)
  BY QueueLemma DEF IInv, TypeOK
<1>head. ASSUME Taken
         PROVE  mOperations # <<>> /\ 1 \in DOMAIN mOperations /\ current = mOperations[1] /\ current \in Ops
  BY <1>head, <1>ops DEF IInv, Rendezvous, RunsHead, QueueFacts
<1>typ. phase \in [Ops -> {"new", "queued", "running", "done", "delivered"}]
  BY DEF IInv, TypeOK
<1>tail. ASSUME mainQueue # <<>>, mainQueue' = Tail(mainQueue), NEW i \in DOMAIN mainQueue'
         PROVE  \E j \in DOMAIN mainQueue : mainQueue'[i] = mainQueue[j]
  BY <1>tail, <1>blk, QueueLemma DEF QueueFacts
<1>app. ASSUME NEW b \in Blocks, mainQueue' = Append(mainQueue, b), b.method # "callback"
        PROVE  \A i \in DOMAIN mainQueue' : mainQueue'[i].method = "callback" =>
                   \E j \in DOMAIN mainQueue : mainQueue'[i] = mainQueue[j]
  <2>1. DOMAIN mainQueue' = 1 .. Len(mainQueue) + 1
    BY <1>app, <1>blk, QueueLemma DEF QueueFacts
  <2> QED BY <1>app, <1>blk, <2>1 DEF QueueFacts
<1>cal. ASSUME Handles("callback")
        PROVE /\ worker = "callback" /\ frame = "loop"
              /\ mainQueue # <<>> /\ mainQueue' = <<>> /\ DOMAIN mainQueue' = {}
              /\ Head(mainQueue).op = current /\ current \in Ops
              /\ phase[current] = "done"
  <2>1. /\ worker = "callback" /\ frame = "loop" /\ mainQueue # <<>> /\ Len(mainQueue) = 1
        /\ mainQueue' = Tail(mainQueue)
        /\ Head(mainQueue) = mainQueue[1] /\ 1 \in DOMAIN mainQueue
    BY <1>cal, <1>blk DEF Handles, Idle, IInv, Rendezvous, BlocksAwaited, Awaited, QueueFacts
  <2>2. Len(mainQueue') = 0 /\ mainQueue' \in Seq(Blocks)
    BY <2>1, <1>blk DEF QueueFacts
  <2>3. mainQueue' = <<>> /\ DOMAIN mainQueue' = {}
    BY <2>2, EmptySeq, LenProperties
  <2>4. Head(mainQueue).op = current
    BY <1>cal, <2>1 DEF Handles, PhasesAgree, CurrentPhase
  <2> QED BY <2>1, <2>3, <2>4 DEF PhasesAgree, CurrentPhase, IInv, Rendezvous, RunsHead

<1>1. ASSUME NEW op \in Ops, AddOperation(op) PROVE PhasesAgree'
  <2> DEFINE n == Len(mOperations)
  <2>1. /\ DOMAIN mOperations = 1 .. n /\ n \in Nat
        /\ DOMAIN mOperations' = 1 .. n + 1
        /\ mOperations'[n + 1] = op
        /\ \A i \in 1 .. n : mOperations'[i] = mOperations[i]
    BY <1>1, <1>ops, LenProperties DEF AddOperation, QueueFacts
  <2>2. ASSUME NEW i \in 1 .. n
        PROVE  mOperations[i] # op /\ mOperations[i] \in Ops
    BY <1>1, <1>ops, <1>head DEF AddOperation, PhasesAgree, QueuedPhases, CurrentPhase,
       Executing, QueueFacts, Taken
  <2>3. DistinctOperations'
    BY <2>1, <2>2 DEF PhasesAgree, DistinctOperations
  <2>4. QueuedPhases'
    BY <1>1, <1>typ, <2>1, <2>2 DEF PhasesAgree, QueuedPhases, AddOperation, Executing
  <2>5. CurrentPhase'
    BY <1>1, <1>typ DEF PhasesAgree, CurrentPhase, AddOperation, workerVars, ClientRuns
  <2>6. OtherPhases'
    BY <1>1, <1>typ DEF PhasesAgree, OtherPhases, AddOperation, workerVars
  <2> QED BY <2>3, <2>4, <2>5, <2>6 DEF PhasesAgree
<1>2. ASSUME NEW S, CancelOps(S) PROVE PhasesAgree'
  BY <1>2, QuietStep DEF CancelOps, workerVars, mainVars
<1>3. ASSUME SignalAdded \/ AlreadyStarted \/ ThreadHasStarted \/ CheckRunningAfterDelay PROVE PhasesAgree'
  BY <1>3, QuietStep DEF SignalAdded, AlreadyStarted, ThreadHasStarted, CheckRunningAfterDelay, workerVars
<1>4. ASSUME StartThread PROVE PhasesAgree'
  BY <1>4, QuietStep DEF StartThread, IInv, Rendezvous, WorkerKnown, workerVars
<1>5. ASSUME BeforeMain PROVE PhasesAgree'
  BY <1>5, <1>tail, QuietStep DEF BeforeMain, Handles, IInv, Rendezvous, BlocksAwaited, Awaited, workerVars
<1>6. ASSUME CallbackOnMainThread PROVE PhasesAgree'
  <2>1. Handles("callback") /\ UNCHANGED <<mOperations, current, mCancelled>>
    BY <1>6 DEF CallbackOnMainThread, workerVars
  <2>2. /\ worker = "callback" /\ worker' \in {"callback", "check"} /\ mOperations' = mOperations
        /\ \A op \in Ops : op # current => phase'[op] = phase[op]
        /\ current \in Ops /\ phase[current] = "done" /\ DOMAIN mainQueue' = {}
        /\ \/ worker' = "callback" /\ frame' = "callback" /\ phase'[current] = "delivered"
           \/ worker' = "check" /\ current \in mCancelled /\ phase' = phase
    BY <1>6, <1>cal, <2>1, <1>typ DEF CallbackOnMainThread, Callback
  <2>3. ASSUME NEW i \in DOMAIN mOperations
        PROVE  mOperations[i] \in Ops /\ mOperations[i] # current
    BY <2>2, <1>ops DEF PhasesAgree, QueuedPhases, Executing, QueueFacts
  <2>4. DistinctOperations'
    BY <2>2 DEF PhasesAgree, DistinctOperations
  <2>5. QueuedPhases'
    BY <2>2, <2>3 DEF PhasesAgree, QueuedPhases, Executing
  <2>6. CurrentPhase'
    BY <2>1, <2>2 DEF CurrentPhase
  <2>7. OtherPhases'
    BY <2>1, <2>2 DEF PhasesAgree, OtherPhases
  <2> QED BY <2>4, <2>5, <2>6, <2>7 DEF PhasesAgree
<1>7. ASSUME CallbackReturns PROVE PhasesAgree'
  <2>1. /\ worker = "callback" /\ worker' = "check" /\ DOMAIN mainQueue' = {}
        /\ UNCHANGED <<mOperations, phase, current, mCancelled>>
        /\ phase[current] = "delivered"
    BY <1>7 DEF CallbackReturns, IInv, Rendezvous, CallbackAwaited, PhasesAgree, CurrentPhase,
       workerVars
  <2>2. DistinctOperations' /\ QueuedPhases' /\ CurrentPhase'
    BY <2>1 DEF PhasesAgree, DistinctOperations, QueuedPhases, Executing, CurrentPhase
  <2>3. OtherPhases'
    BY <2>1 DEF PhasesAgree, OtherPhases
  <2> QED BY <2>2, <2>3 DEF PhasesAgree
<1>8. ASSUME CheckRunningOnMainThread PROVE PhasesAgree'
  BY <1>8, <1>tail, QuietStep DEF CheckRunningOnMainThread, Handles, workerVars
<1>9. ASSUME StoppedOnMainThread PROVE PhasesAgree'
  BY <1>9, <1>tail, QuietStep DEF StoppedOnMainThread, Handles, IInv, Rendezvous,
     BlocksAwaited, Awaited, workerVars
<1>10. ASSUME StoppedReturns PROVE PhasesAgree'
  BY <1>10, QuietStep DEF StoppedReturns, workerVars
<1>11. ASSUME ThreadStarts \/ TakeToken PROVE PhasesAgree'
  BY <1>11, QuietStep DEF ThreadStarts, TakeToken, workerVars, mainVars
<1>12. ASSUME PeekOperation PROVE PhasesAgree'
  <2>1. Block("beforeMain", Head(mOperations)) \in Blocks
    BY <1>12, <1>ops DEF PeekOperation, QueueFacts, Block, Blocks
  <2> QED BY <1>12, <1>app, <2>1, QuietStep DEF PeekOperation, Block, mainVars
<1>13. ASSUME PeekQuit PROVE PhasesAgree'
  <2>1. Block("stopped", NoOp) \in Blocks
    BY DEF Block, Blocks
  <2> QED BY <1>13, <1>app, <2>1, QuietStep DEF PeekQuit, Block, workerVars, mainVars
<1>14. ASSUME MainBegins PROVE PhasesAgree'
  <2>1. /\ worker = "main" /\ worker' \in {"running", "remove"}
        /\ UNCHANGED <<mOperations, current, mCancelled, mainQueue, frame>>
        /\ current = mOperations[1] /\ current \in Ops
        /\ \A op \in Ops : op # current => phase'[op] = phase[op]
        /\ \/ worker' = "running" /\ phase'[current] = "running"
           \/ worker' = "remove" /\ phase'[current] = "done" /\ current \in mCancelled
    BY <1>14, <1>head, <1>typ DEF MainBegins, Runs, Taken, workerVars, mainVars
  <2>2. ASSUME NEW i \in DOMAIN mOperations, i > 1
        PROVE  mOperations[i] \in Ops /\ mOperations[i] # current
    BY <2>1, <2>2, <1>ops, <1>head DEF PhasesAgree, DistinctOperations, QueueFacts, Taken
  <2>3. QueuedPhases'
    BY <2>1, <2>2 DEF PhasesAgree, QueuedPhases, Executing
  <2>4. CurrentPhase'
    BY <2>1 DEF PhasesAgree, CurrentPhase
  <2>5. OtherPhases'
    BY <2>1 DEF PhasesAgree, OtherPhases
  <2> QED BY <2>1, <2>3, <2>4, <2>5 DEF PhasesAgree, DistinctOperations
<1>15. ASSUME MainReturns PROVE PhasesAgree'
  <2>1. /\ worker = "running" /\ worker' = "remove"
        /\ UNCHANGED <<mOperations, current, mCancelled, mainQueue, frame>>
        /\ current = mOperations[1] /\ current \in Ops
        /\ \A op \in Ops : op # current => phase'[op] = phase[op]
        /\ phase'[current] = "done"
    BY <1>15, <1>head, <1>typ DEF MainReturns, Taken, workerVars, mainVars
  <2>2. ASSUME NEW i \in DOMAIN mOperations, i > 1
        PROVE  mOperations[i] \in Ops /\ mOperations[i] # current
    BY <2>1, <2>2, <1>ops, <1>head DEF PhasesAgree, DistinctOperations, QueueFacts, Taken
  <2>3. QueuedPhases'
    BY <2>1, <2>2 DEF PhasesAgree, QueuedPhases, Executing
  <2>4. CurrentPhase'
    BY <2>1 DEF PhasesAgree, CurrentPhase
  <2>5. OtherPhases'
    BY <2>1 DEF PhasesAgree, OtherPhases
  <2> QED BY <2>1, <2>3, <2>4, <2>5 DEF PhasesAgree, DistinctOperations
<1>16. ASSUME RemoveOperation PROVE PhasesAgree'
  <2>1. /\ worker = "remove" /\ worker' = "finish" /\ mOperations # <<>>
        /\ mOperations' = Tail(mOperations)
        /\ UNCHANGED <<phase, current, mCancelled, mainQueue, frame>>
    BY <1>16, <1>head DEF RemoveOperation, Taken, mainVars
  <2>2. /\ DOMAIN mOperations = 1 .. Len(mOperations) /\ Len(mOperations) \in Nat
        /\ DOMAIN mOperations' = 1 .. Len(mOperations) - 1
        /\ \A i \in DOMAIN mOperations' : mOperations'[i] = mOperations[i + 1]
    BY <2>1, <1>ops, LenProperties DEF QueueFacts
  <2>3. DistinctOperations'
    BY <2>2 DEF PhasesAgree, DistinctOperations
  <2>4. QueuedPhases'
    BY <2>1, <2>2 DEF PhasesAgree, QueuedPhases, Executing
  <2>5. CurrentPhase'
    BY <2>1 DEF PhasesAgree, CurrentPhase
  <2>6. OtherPhases'
    BY <2>1 DEF PhasesAgree, OtherPhases
  <2> QED BY <2>3, <2>4, <2>5, <2>6 DEF PhasesAgree
<1>17. ASSUME FinishOperation PROVE PhasesAgree'
  <2>1. /\ worker = "finish" /\ UNCHANGED <<mOperations, phase, current, mCancelled, frame>>
        /\ frame # "callback" /\ current \in Ops
    BY <1>17 DEF FinishOperation, IInv, Rendezvous, CallbackAwaited, RunsHead, mainVars, workerVars
  <2>2. DistinctOperations' /\ QueuedPhases'
    BY <1>17, <2>1 DEF PhasesAgree, DistinctOperations, QueuedPhases, Executing, FinishOperation
  <2>3. CASE current \in mCancelled
    BY <1>17, <2>1, <2>2, <2>3 DEF PhasesAgree, FinishOperation, CurrentPhase, OtherPhases
  <2>4. CASE current \notin mCancelled
    <3>1. /\ worker' = "callback" /\ mainQueue' = Append(mainQueue, Block("callback", current))
          /\ Block("callback", current) \in Blocks
      BY <1>17, <2>1, <2>4 DEF FinishOperation, Block, Blocks
    <3>2. \A i \in DOMAIN mainQueue' :
              \/ mainQueue'[i].op = current
              \/ i \in DOMAIN mainQueue /\ mainQueue'[i] = mainQueue[i]
      <4>1. DOMAIN mainQueue' = 1 .. Len(mainQueue) + 1
        BY <3>1, <1>blk, QueueLemma DEF QueueFacts
      <4> QED BY <3>1, <4>1, <1>blk DEF QueueFacts, Block
    <3>3. CurrentPhase'
      BY <2>1, <3>1, <3>2 DEF PhasesAgree, CurrentPhase
    <3>4. OtherPhases'
      BY <2>1, <3>1 DEF PhasesAgree, OtherPhases
    <3> QED BY <2>2, <3>3, <3>4 DEF PhasesAgree
  <2> QED BY <2>3, <2>4
<1>18. ASSUME EndIteration PROVE PhasesAgree'
  <2>1. Block("checkRunning", NoOp) \in Blocks
    BY DEF Block, Blocks
  <2>2. \A i \in DOMAIN mainQueue' : mainQueue'[i].method = "callback" =>
            \E j \in DOMAIN mainQueue : mainQueue'[i] = mainQueue[j]
    BY <1>18, <1>app, <2>1 DEF EndIteration, Block
  <2> QED BY <1>18, <2>2, QuietStep DEF EndIteration
<1>19. CASE UNCHANGED vars
  BY <1>19, QuietStep DEF vars, mainVars, workerVars
<1> QED BY <1>1, <1>2, <1>3, <1>4, <1>5, <1>6, <1>7, <1>8, <1>9, <1>10, <1>11, <1>12,
     <1>13, <1>14, <1>15, <1>16, <1>17, <1>18, <1>19
     DEF Next, Client, MainThread, Worker, Cancel, CancelAllOperations

-----------------------------------------------------------------------------
(* The queue against SerialExecutor.                                        *)

(* An operation added behind the one being executed is added to the rest.   *)
LEMMA TailAppend ==
    ASSUME NEW q \in Seq(Ops), q # <<>>, NEW op \in Ops
    PROVE  Tail(Append(q, op)) = Append(Tail(q), op)
<1>1. /\ Append(q, op) \in Seq(Ops) /\ Append(q, op) # <<>> /\ Len(Append(q, op)) = Len(q) + 1
      /\ Tail(q) \in Seq(Ops) /\ Len(Tail(q)) = Len(q) - 1 /\ Len(q) \in Nat
  BY QueueLemma DEF QueueFacts
<1>2. /\ Tail(Append(q, op)) \in Seq(Ops) /\ Len(Tail(Append(q, op))) = Len(q)
      /\ Append(Tail(q), op) \in Seq(Ops) /\ Len(Append(Tail(q), op)) = Len(q)
  BY <1>1, QueueLemma DEF QueueFacts
<1>3. ASSUME NEW i \in 1 .. Len(q)
      PROVE  Tail(Append(q, op))[i] = Append(Tail(q), op)[i]
  <2>1. Tail(Append(q, op))[i] = Append(q, op)[i + 1]
    BY <1>1, <1>2, QueueLemma DEF QueueFacts
  <2>2. CASE i = Len(q)
    <3>1. Append(q, op)[Len(q) + 1] = op /\ Append(Tail(q), op)[Len(Tail(q)) + 1] = op
      BY <1>1, QueueLemma DEF QueueFacts
    <3> QED BY <1>1, <2>1, <2>2, <3>1
  <2>3. CASE i # Len(q)
    <3>1. i \in 1 .. Len(q) - 1 /\ i + 1 \in 1 .. Len(q)
      <4>1. Len(q) \in Nat
        BY <1>1
      <4> QED BY <2>3, <4>1
    <3>3. 1 .. Len(Tail(q)) = 1 .. Len(q) - 1
      BY <1>1
    <3>2. Append(Tail(q), op)[i] = Tail(q)[i] /\ Tail(q)[i] = q[i + 1]
      BY <1>1, <3>1, <3>3, QueueLemma DEF QueueFacts
    <3> QED BY <2>1, <3>1, <3>2, QueueLemma DEF QueueFacts
  <2> QED BY <2>2, <2>3
<1> QED BY <1>2, <1>3, SeqEqual

(* The operations that SerialExecutor sees waiting.                         *)
Waiting == IF worker \in {"running", "remove"} THEN Tail(mOperations) ELSE mOperations

(* The initial states are initial states of the executor.                   *)
LEMMA InitExecutor == Init => Executor!Init
BY DEF Init, Executor!Init

(* Every step is a step of the executor, or changes nothing that it sees.   *)
LEMMA StepExecutor ==
    IInv /\ PhasesAgree /\ [Next]_vars => [Executor!Next]_(Executor!vars)
<1> SUFFICES ASSUME IInv, PhasesAgree, [Next]_vars PROVE [Executor!Next]_(Executor!vars)
  OBVIOUS
<1>ops. QueueFacts(Ops, mOperations)
  BY QueueLemma DEF IInv, TypeOK
<1>head. ASSUME Taken
         PROVE  mOperations # <<>> /\ current = Head(mOperations) /\ current \in Ops
  BY <1>head, <1>ops DEF IInv, Rendezvous, RunsHead, QueueFacts
<1>typ. phase \in [Ops -> {"new", "queued", "running", "done", "delivered"}]
  BY DEF IInv, TypeOK
<1>stutter. ASSUME Waiting' = Waiting, phase' = phase, mCancelled' = mCancelled
            PROVE  UNCHANGED Executor!vars
  BY <1>stutter DEF Executor!vars, Waiting
<1>1. ASSUME NEW op \in Ops, AddOperation(op) PROVE Executor!Add(op)
  <2>1. Waiting' = Append(Waiting, op)
    <3>1. CASE Taken
      BY <1>1, <1>head, <3>1, TailAppend DEF AddOperation, Waiting, IInv, TypeOK
    <3>2. CASE ~ Taken
      BY <1>1, <3>2 DEF AddOperation, Waiting, Taken
    <3> QED BY <3>1, <3>2
  <2> QED BY <1>1, <2>1 DEF AddOperation, Executor!Add, Waiting
<1>2. ASSUME NEW S \in SUBSET Ops, CancelOps(S) PROVE Executor!Cancel(S)
  BY <1>2 DEF CancelOps, Executor!Cancel
<1>3. ToSet(mOperations) \in SUBSET Ops
  BY <1>ops DEF QueueFacts, ToSet
<1>4. ASSUME SignalAdded \/ AlreadyStarted \/ ThreadHasStarted \/ CheckRunningAfterDelay
             \/ CheckRunningOnMainThread \/ StoppedReturns
      PROVE UNCHANGED Executor!vars
  BY <1>4, <1>stutter DEF SignalAdded, AlreadyStarted, ThreadHasStarted, CheckRunningAfterDelay,
     CheckRunningOnMainThread, StoppedReturns, Waiting
<1>5. ASSUME StartThread \/ CallbackReturns
      PROVE UNCHANGED Executor!vars
  BY <1>5, <1>stutter DEF StartThread, CallbackReturns, IInv, Rendezvous, WorkerKnown,
     CallbackAwaited, Waiting
<1>12. ASSUME BeforeMain \/ StoppedOnMainThread
       PROVE UNCHANGED Executor!vars
  <2>1. worker \in {"before", "stopping"}
    BY <1>12 DEF BeforeMain, StoppedOnMainThread, Handles, IInv, Rendezvous, BlocksAwaited, Awaited
  <2> QED BY <1>12, <2>1, <1>stutter DEF BeforeMain, StoppedOnMainThread, Waiting
<1>6. ASSUME ThreadStarts \/ TakeToken \/ PeekOperation \/ PeekQuit \/ FinishOperation \/ EndIteration
      PROVE UNCHANGED Executor!vars
  BY <1>6, <1>stutter DEF ThreadStarts, TakeToken, PeekOperation, PeekQuit, FinishOperation,
     EndIteration, Waiting
<1>7. ASSUME RemoveOperation PROVE UNCHANGED Executor!vars
  BY <1>7, <1>stutter DEF RemoveOperation, Waiting
<1>8. ASSUME MainBegins PROVE Executor!Begin \/ Executor!Skip
  <2>1. Executor!Settled
    BY <1>8 DEF MainBegins, PhasesAgree, OtherPhases, Executor!Settled
  <2>2. /\ worker = "main" /\ mOperations # <<>> /\ current = Head(mOperations)
        /\ mOperations' = mOperations /\ worker' \in {"running", "remove"}
    BY <1>8, <1>head DEF MainBegins, Taken
  <2>3. Waiting = mOperations /\ Waiting' = Tail(mOperations)
    BY <2>2 DEF Waiting
  <2> QED BY <1>8, <2>1, <2>2, <2>3 DEF MainBegins, Runs, Executor!Begin, Executor!Skip,
             Executor!Runnable, Waiting
<1>9. ASSUME MainReturns PROVE Executor!Complete(current) /\ current \in Ops
  BY <1>9, <1>head DEF MainReturns, Executor!Complete, Taken, PhasesAgree, CurrentPhase
<1>10. ASSUME CallbackOnMainThread
       PROVE  \/ UNCHANGED Executor!vars
              \/ \E op \in Ops : Executor!Deliver(op)
  <2> DEFINE op == Head(mainQueue).op
  <2>1. QueueFacts(Blocks, mainQueue)
    BY QueueLemma DEF IInv, TypeOK
  <2>2. /\ worker = "callback" /\ worker' \in {"callback", "check"} /\ frame = "loop"
        /\ op = current /\ current \in Ops
    BY <1>10, <2>1 DEF CallbackOnMainThread, Handles, Idle, IInv, Rendezvous, BlocksAwaited, Awaited,
       RunsHead, PhasesAgree, CurrentPhase, QueueFacts
  <2>3. phase[op] = "done"
    BY <2>2 DEF PhasesAgree, CurrentPhase
  <2>4. CASE op \in mCancelled
    BY <1>10, <2>2, <2>4, <1>stutter DEF CallbackOnMainThread, Callback, Waiting
  <2>5. CASE op \notin mCancelled
    BY <1>10, <2>2, <2>3, <2>5 DEF CallbackOnMainThread, Callback, Executor!Deliver, Waiting
  <2> QED BY <2>4, <2>5
<1>11. CASE UNCHANGED vars
  BY <1>11, <1>stutter DEF vars, Waiting
<1> QED BY <1>1, <1>2, <1>3, <1>4, <1>5, <1>6, <1>7, <1>8, <1>9, <1>10, <1>11, <1>12
     DEF Next, Client, MainThread, Worker, Cancel, CancelAllOperations, Executor!Next,
     Executor!Advance

(* How far the operations have come agrees with the array, the worker and   *)
(* the main queue: at most one is under way, and it is the one that the     *)
(* worker took from the head (lines 111-138 of MCOperationQueue.cpp).       *)
THEOREM Phases == Spec => []PhasesAgree
<1>1. IInv /\ PhasesAgree /\ [Next]_vars => PhasesAgree'
  BY NextPhases
<1> QED BY <1>1, InitPhases, Invariance, PTL DEF Spec

(* The queue does what it promises, as far as safety goes: it begins        *)
(* operations one at a time and in the order they were added, skips none    *)
(* that was not cancelled, and calls back once, after the end, unless       *)
(* cancelled by then. Every behaviour of the queue is one of SerialExecutor *)
(* without its fairness.                                                    *)
THEOREM ExecutorSteps == Spec => Executor!Init /\ [][Executor!Next]_(Executor!vars)
<1>1. IInv /\ PhasesAgree /\ [Next]_vars => [Executor!Next]_(Executor!vars)
  BY StepExecutor
<1> QED BY <1>1, InitExecutor, Invariance, Phases, PTL DEF Spec

-----------------------------------------------------------------------------
(* The reference counter: what stands in the main queue is counted by       *)
(* places.                                                                  *)

(* The positions of a sequence at which there is an element of T. *)
Places(q, T) == {i \in DOMAIN q : q[i] \in T}

(* There are finitely many.                                                 *)
LEMMA PlacesFinite ==
    ASSUME NEW S, NEW q \in Seq(S), NEW T
    PROVE  IsFiniteSet(Places(q, T)) /\ Cardinality(Places(q, T)) \in Nat
<1>1. DOMAIN q = 1 .. Len(q) /\ Len(q) \in Nat
  BY LenProperties
<1>2. IsFiniteSet(DOMAIN q)
  BY <1>1, FS_Interval
<1>3. Places(q, T) \in SUBSET (DOMAIN q)
  BY DEF Places
<1>4. IsFiniteSet(Places(q, T))
  BY <1>2, <1>3, FS_Subset
<1> QED BY <1>4, FS_CardinalityType

(* An element added at the end adds one place, or none.                     *)
LEMMA PlacesAppend ==
    ASSUME NEW S, NEW q \in Seq(S), NEW T, NEW e \in S
    PROVE  Cardinality(Places(Append(q, e), T))
               = Cardinality(Places(q, T)) + IF e \in T THEN 1 ELSE 0
<1> DEFINE n == Len(q)
<1>1. /\ n \in Nat /\ DOMAIN q = 1 .. n /\ DOMAIN Append(q, e) = 1 .. n + 1
      /\ Append(q, e)[n + 1] = e /\ \A i \in 1 .. n : Append(q, e)[i] = q[i]
  BY AppendProperties, LenProperties
<1>2. n + 1 \notin Places(q, T)
  BY <1>1 DEF Places
<1>3. CASE e \in T
  <2>1. Places(Append(q, e), T) = Places(q, T) \cup {n + 1}
    BY <1>1, <1>3 DEF Places
  <2> QED BY <1>2, <1>3, <2>1, PlacesFinite, FS_AddElement
<1>4. CASE e \notin T
  <2>1. Places(Append(q, e), T) = Places(q, T)
    BY <1>1, <1>4 DEF Places
  <2> QED BY <1>4, <2>1, PlacesFinite
<1> QED BY <1>3, <1>4

(* The head removed takes one place away, or none.                          *)
LEMMA PlacesTail ==
    ASSUME NEW S, NEW q \in Seq(S), NEW T, q # <<>>
    PROVE  Cardinality(Places(Tail(q), T))
               = Cardinality(Places(q, T)) - IF Head(q) \in T THEN 1 ELSE 0
<1> DEFINE n == Len(q)
           P == Places(q, T) \ {1}
           R == Places(Tail(q), T)
           f == [i \in P |-> i - 1]
<1>1. /\ n \in Nat /\ DOMAIN q = 1 .. n /\ n > 0 /\ DOMAIN Tail(q) = 1 .. n - 1 /\ Head(q) = q[1]
      /\ \A i \in 1 .. n - 1 : Tail(q)[i] = q[i + 1]
  BY QueueLemma, LenProperties DEF QueueFacts
<1>2. P = {i \in 2 .. n : q[i] \in T}
  BY <1>1 DEF Places
<1>3. R = {i \in 1 .. n - 1 : q[i + 1] \in T}
  BY <1>1 DEF Places
<1>4. f \in [P -> R]
  BY <1>1, <1>2, <1>3
<1>5. \A i, j \in P : f[i] = f[j] => i = j
  BY <1>1, <1>2
<1>6. ASSUME NEW k \in R PROVE \E i \in P : f[i] = k
  <2>1. k \in 1 .. n - 1 /\ q[k + 1] \in T
    BY <1>3
  <2>2. k + 1 \in 2 .. n /\ (k + 1) - 1 = k
    BY <1>1, <2>1
  <2>3. k + 1 \in P
    BY <1>2, <2>1, <2>2
  <2>4. f[k + 1] = k
    BY <2>2, <2>3
  <2> QED BY <2>3, <2>4
<1>7. ExistsBijection(P, R)
  <2> HIDE DEF P, R, f
  <2> QED BY <1>4, <1>5, <1>6 DEF ExistsBijection, Bijection, Injection, Surjection, IsInjective
<1>8. IsFiniteSet(P) /\ Cardinality(P) = Cardinality(Places(q, T)) - IF 1 \in Places(q, T) THEN 1 ELSE 0
  BY PlacesFinite, FS_RemoveElement
<1>9. Cardinality(R) = Cardinality(P)
  BY <1>7, <1>8, FS_Bijection
<1>10. 1 \in Places(q, T) <=> Head(q) \in T
  BY <1>1 DEF Places
<1> QED BY <1>8, <1>9, <1>10

(* The blocks that call a method.                                           *)
Of(method) == {b \in Blocks : b.method = method}

(* The number posted counts the places of such blocks in the main queue.    *)
LEMMA PostedPlaces ==
    ASSUME NEW method, mainQueue \in Seq(Blocks)
    PROVE  Posted(method) = Cardinality(Places(mainQueue, Of(method)))
<1>1. \A i \in DOMAIN mainQueue : mainQueue[i] \in Blocks
  BY ElementOfSeq, LenProperties
<1>2. Places(mainQueue, Of(method)) = {i \in DOMAIN mainQueue : mainQueue[i].method = method}
  BY <1>1 DEF Places, Of
<1> QED BY <1>2 DEF Posted

(* How posting and beginning a block changes the number of those posted. *)
LEMMA PostedStep ==
    ASSUME mainQueue \in Seq(Blocks), mainQueue' \in Seq(Blocks), NEW method
    PROVE  /\ Posted(method) \in Nat
           /\ mainQueue' = mainQueue => Posted(method)' = Posted(method)
           /\ \A b \in Blocks :
                  mainQueue' = Append(mainQueue, b)
                      => Posted(method)' = Posted(method) + One(b.method = method)
           /\ mainQueue # <<>> /\ mainQueue' = Tail(mainQueue)
                  => Posted(method)' = Posted(method) - One(Head(mainQueue).method = method)
<1>1. Posted(method) = Cardinality(Places(mainQueue, Of(method)))
  BY PostedPlaces
<1>2. Posted(method)' = Cardinality(Places(mainQueue', Of(method)))
  <2>1. \A i \in DOMAIN mainQueue' : mainQueue'[i] \in Blocks
    BY ElementOfSeq, LenProperties
  <2>2. Places(mainQueue', Of(method)) = {i \in DOMAIN mainQueue' : mainQueue'[i].method = method}
    BY <2>1 DEF Places, Of
  <2> QED BY <2>2 DEF Posted
<1>3. Posted(method) \in Nat
  BY <1>1, PlacesFinite
<1>4. ASSUME NEW b \in Blocks, mainQueue' = Append(mainQueue, b)
      PROVE  Posted(method)' = Posted(method) + One(b.method = method)
  BY <1>1, <1>2, <1>4, PlacesAppend DEF Of, One
<1>5. ASSUME mainQueue # <<>>, mainQueue' = Tail(mainQueue)
      PROVE  Posted(method)' = Posted(method) - One(Head(mainQueue).method = method)
  <2>1. Head(mainQueue) \in Blocks
    BY <1>5, HeadTailProperties
  <2> QED BY <1>1, <1>2, <1>5, <2>1, PlacesTail DEF Of, One
<1> QED BY <1>1, <1>2, <1>3, <1>4, <1>5

(* A check is pending exactly while its timer is armed, and the counter is   *)
(* exact. *)
RIInv == pendingCheckRunning = timerArmed /\ ReferencesExact

(* It holds initially.                                                      *)
LEMMA InitReferences == Init => RIInv
<1> SUFFICES ASSUME Init PROVE RIInv
  OBVIOUS
<1>1. ASSUME NEW method PROVE Posted(method) = 0
  <2>1. {i \in DOMAIN mainQueue : mainQueue[i].method = method} = {}
    BY DEF Init
  <2> QED BY <2>1, FS_EmptySet DEF Posted
<1>2. Posted("checkRunning") = 0 /\ Posted("stopped") = 0
  BY <1>1
<1>3. mCounter = 1 /\ One(timerArmed) = 0 /\ One(mStarted) = 0 /\ One(frame = "stopped") = 0
      /\ pendingCheckRunning = timerArmed
  BY DEF Init, One
<1> QED BY <1>2, <1>3 DEF RIInv, ReferencesExact

(* Every step keeps it.                                                     *)
LEMMA NextReferences == IInv /\ IInv' /\ RIInv /\ [Next]_vars => RIInv'
<1> SUFFICES ASSUME IInv, IInv', RIInv, [Next]_vars PROVE RIInv'
  OBVIOUS
<1> DEFINE C == Posted("checkRunning")
           S == Posted("stopped")
<1>typ. mainQueue \in Seq(Blocks) /\ mainQueue' \in Seq(Blocks) /\ mCounter \in Int
        /\ timerArmed \in BOOLEAN /\ mStarted \in BOOLEAN
  BY DEF IInv, TypeOK
<1>nat. C \in Nat /\ S \in Nat
  BY <1>typ, PostedStep
<1>same. ASSUME mainQueue' = mainQueue PROVE C' = C /\ S' = S
  BY <1>same, <1>typ, PostedStep
<1>post. ASSUME NEW b \in Blocks, mainQueue' = Append(mainQueue, b)
         PROVE  C' = C + One(b.method = "checkRunning") /\ S' = S + One(b.method = "stopped")
  BY <1>post, <1>typ, PostedStep
<1>handle. ASSUME NEW method, Handles(method)
           PROVE  C' = C - One(method = "checkRunning") /\ S' = S - One(method = "stopped")
  BY <1>handle, <1>typ, PostedStep DEF Handles
<1>now. mCounter = 1 + C + 2 * One(timerArmed) + One(mStarted) + S + 2 * One(frame = "stopped")
        /\ pendingCheckRunning = timerArmed
  BY DEF RIInv, ReferencesExact
<1>then. ASSUME mCounter' = 1 + C' + 2 * One(timerArmed') + One(mStarted') + S' + 2 * One(frame' = "stopped"),
                pendingCheckRunning' = timerArmed'
         PROVE  RIInv'
  BY <1>then DEF RIInv, ReferencesExact, One
<1> HIDE DEF C, S

<1>1. ASSUME UNCHANGED <<mCounter, mainQueue, timerArmed, pendingCheckRunning, mStarted, frame>>
      PROVE  RIInv'
  BY <1>1, <1>same, <1>now, <1>then
<1>2. ASSUME \/ \E op \in Ops : AddOperation(op) \/ Cancel(op)
             \/ CancelAllOperations \/ SignalAdded \/ AlreadyStarted \/ ThreadHasStarted
             \/ ThreadStarts \/ TakeToken \/ MainBegins \/ MainReturns \/ RemoveOperation
             \/ UNCHANGED vars
      PROVE  RIInv'
  BY <1>1, <1>2 DEF AddOperation, Cancel, CancelAllOperations, CancelOps, SignalAdded, AlreadyStarted,
     ThreadHasStarted, ThreadStarts, TakeToken, MainBegins, MainReturns, RemoveOperation,
     vars, mainVars
<1>3. ASSUME StartThread PROVE RIInv'
  BY <1>3, <1>same, <1>now, <1>then, <1>nat, <1>typ DEF StartThread, One
<1>4. ASSUME BeforeMain PROVE RIInv'
  BY <1>4, <1>handle, <1>now, <1>then, <1>nat DEF BeforeMain, mainVars, One
<1>5. ASSUME CallbackOnMainThread PROVE RIInv'
  <2>1. Handles("callback") /\ frame = "loop" /\ frame' # "stopped"
        /\ UNCHANGED <<mCounter, timerArmed, pendingCheckRunning, mStarted>>
    BY <1>5 DEF CallbackOnMainThread, Handles, Idle
  <2>2. C' = C /\ S' = S
    BY <2>1, <1>handle, <1>nat DEF One
  <2> QED BY <2>1, <2>2, <1>now, <1>then DEF One
<1>6. ASSUME CallbackReturns PROVE RIInv'
  BY <1>6, <1>same, <1>now, <1>then DEF CallbackReturns, One
<1>7. ASSUME CheckRunningOnMainThread PROVE RIInv'
  <2>1. Handles("checkRunning") /\ UNCHANGED <<mStarted, frame>>
        /\ mCounter' = mCounter + 2 - CancelledCheck - 1
        /\ pendingCheckRunning' = timerArmed' /\ timerArmed'
    BY <1>7 DEF CheckRunningOnMainThread
  <2>2. C' = C - 1 /\ S' = S
    BY <2>1, <1>handle, <1>nat DEF One
  <2>3. CancelledCheck = IF timerArmed THEN 2 ELSE 0
    BY <1>now, <1>typ DEF CancelledCheck
  <2>4. CASE timerArmed
    BY <2>1, <2>2, <2>3, <2>4, <1>now, <1>then, <1>nat, <1>typ DEF One
  <2>5. CASE ~ timerArmed
    BY <2>1, <2>2, <2>3, <2>5, <1>now, <1>then, <1>nat, <1>typ DEF One
  <2> QED BY <2>4, <2>5
<1>8. ASSUME StoppedOnMainThread PROVE RIInv'
  <2>1. Handles("stopped") /\ worker = "stopping"
    BY <1>8 DEF StoppedOnMainThread, Handles, IInv, Rendezvous, BlocksAwaited, Awaited
  <2>2. C' = C /\ S' = S - 1
    BY <2>1, <1>handle, <1>nat DEF One
  <2>3. mStarted /\ ~ mStarted' /\ frame # "stopped" /\ frame' = "stopped"
        /\ UNCHANGED <<mCounter, timerArmed, pendingCheckRunning>>
    BY <1>8, <2>1 DEF StoppedOnMainThread, Handles, Idle, IInv, Rendezvous, WorkerKnown
  <2> QED BY <2>2, <2>3, <1>now, <1>then, <1>nat DEF One
<1>9. ASSUME StoppedReturns PROVE RIInv'
  BY <1>9, <1>same, <1>now, <1>then, <1>nat DEF StoppedReturns, One
<1>10. ASSUME CheckRunningAfterDelay PROVE RIInv'
  <2>1. UNCHANGED <<mainQueue, mStarted, frame>> /\ timerArmed /\ ~ timerArmed'
        /\ pendingCheckRunning' = timerArmed' /\ mCounter' = mCounter - 2
    BY <1>10, <1>now DEF CheckRunningAfterDelay
  <2> QED BY <2>1, <1>same, <1>now, <1>then, <1>nat DEF One
<1>11. ASSUME PeekOperation PROVE RIInv'
  <2>1. Block("beforeMain", Head(mOperations)) \in Blocks
    BY <1>11, HeadTailProperties DEF PeekOperation, IInv, TypeOK, Block, Blocks
  <2>2. C' = C /\ S' = S
    BY <1>11, <2>1, <1>post, <1>nat DEF PeekOperation, Block, One
  <2> QED BY <1>11, <2>2, <1>now, <1>then DEF PeekOperation, mainVars
<1>12. ASSUME PeekQuit PROVE RIInv'
  <2>1. Block("stopped", NoOp) \in Blocks
    BY DEF Block, Blocks
  <2>2. C' = C /\ S' = S + 1
    BY <1>12, <2>1, <1>post, <1>nat DEF PeekQuit, Block, One
  <2> QED BY <1>12, <2>2, <1>now, <1>then, <1>nat DEF PeekQuit, mainVars, One
<1>13. ASSUME FinishOperation PROVE RIInv'
  <2>1. CASE current \in mCancelled
    BY <1>13, <2>1, <1>1 DEF FinishOperation, mainVars
  <2>2. CASE current \notin mCancelled
    <3>1. Block("callback", current) \in Blocks
      BY <1>13 DEF FinishOperation, IInv, Rendezvous, RunsHead, Block, Blocks
    <3>2. C' = C /\ S' = S
      BY <1>13, <2>2, <3>1, <1>post, <1>nat DEF FinishOperation, Block, One
    <3> QED BY <1>13, <3>2, <1>now, <1>then DEF FinishOperation, mainVars
  <2> QED BY <2>1, <2>2
<1>14. ASSUME EndIteration PROVE RIInv'
  <2>1. CASE needsCheckRunning
    <3>1. Block("checkRunning", NoOp) \in Blocks
      BY DEF Block, Blocks
    <3>2. C' = C + 1 /\ S' = S
      BY <1>14, <2>1, <3>1, <1>post, <1>nat DEF EndIteration, Block, One
    <3> QED BY <1>14, <2>1, <3>2, <1>now, <1>then, <1>nat DEF EndIteration, mainVars, One
  <2>2. CASE ~ needsCheckRunning
    BY <1>14, <2>2, <1>1 DEF EndIteration, mainVars
  <2> QED BY <2>1, <2>2
<1> QED BY <1>2, <1>3, <1>4, <1>5, <1>6, <1>7, <1>8, <1>9, <1>10, <1>11, <1>12, <1>13, <1>14
     DEF Next, Client, MainThread, Worker

(* The reference counter of the queue is exact: each of its retain() calls, *)
(* numbered (1) to (4) in the source, and those of the delayed check are    *)
(* given back exactly once (lines 139-147, 187-226, 228-246 and 248-260 of  *)
(* MCOperationQueue.cpp).                                                   *)
THEOREM References == Spec => []ReferencesExact
<1>1. IInv /\ IInv' /\ RIInv /\ [Next]_vars => RIInv'
  BY NextReferences
<1>2. Spec => []RIInv
  BY <1>1, InitReferences, Invariance, PTL DEF Spec
<1>3. RIInv => ReferencesExact
  BY DEF RIInv
<1> QED BY <1>2, <1>3, PTL
=============================================================================
