-------------------------- MODULE IMAPAsyncSession --------------------------
(***************************************************************************)
(* The connections of an IMAP account: to which one an operation goes, when *)
(* the account tells its user that it runs, and how connections are closed  *)
(* (async/imap/MCIMAPAsyncSession.cpp, MCIMAPAsyncConnection.cpp,           *)
(* MCIMAPMultiDisconnectOperation.cpp).                                     *)
(*                                                                         *)
(* Every connection has an OperationQueue, of which this module keeps what  *)
(* OperationQueue.tla shows: one operation after the other, a thread that   *)
(* ends some time after the queue got empty, and a restart when operations  *)
(* came while it ended.  The user holds the account and the operations.     *)
(***************************************************************************)
EXTENDS Naturals, Sequences, FiniteSets

CONSTANTS
    Requests,           \* operations of the user
    FolderOf,           \* the folder of each
    Urgent,             \* those with isUrgent()
    Folders,
    NoFolder,           \* NULL
    INBOX,
    MaximumConnections, \* mMaximumConnections, 0 for no limit
    AllowsConcurrent,   \* mAllowsFolderConcurrentAccessEnabled
    MaxCancels          \* bound: calls of cancelAllOperations

ASSUME PoolAssumption ==
    /\ FolderOf \in [Requests -> Folders \cup {NoFolder}]
    /\ Urgent \subseteq Requests
    /\ INBOX \in Folders
    /\ NoFolder \notin Folders
    /\ MaximumConnections \in Nat
    /\ AllowsConcurrent \in BOOLEAN
    /\ MaxCancels \in Nat

VARIABLES
    mSessions,      \* the connections, in the order of their creation
    mQueueRunning,
    startable,      \* requests made and not started
    multi,          \* the IMAPMultiDisconnectOperation
    cancels

vars == <<mSessions, mQueueRunning, startable, multi, cancels>>

Disconnect == "disconnect"      \* a part of the IMAPMultiDisconnectOperation
AutoDisconnect == "auto"        \* made by tryAutomaticDisconnectAfterDelay
NoOperation == "no operation"

ASSUME RequestsAssumption == Requests \cap {Disconnect, AutoDisconnect, NoOperation} = {}

Operation == [op : Requests \cup {Disconnect, AutoDisconnect}, cancelled : BOOLEAN]

(* off: no thread; ready: between two operations; main: in main(); after:   *)
(* the operation has left mOperations and is about to be called back;       *)
(* stopping: the thread left its loop, stoppedOnMainThread is to come.      *)
Thread == {"off", "ready", "main", "after", "stopping"}

Connection == [queue : Seq(Operation), thread : Thread,
               current : Requests \cup {Disconnect, AutoDisconnect, NoOperation},
               isQueueRunning : BOOLEAN, lastFolder : Folders \cup {NoFolder},
               connected : BOOLEAN, scheduledAutomaticDisconnect : BOOLEAN]

session ==
    [queue |-> <<>>, current |-> NoOperation, thread |-> "off", isQueueRunning |-> FALSE,
     lastFolder |-> NoFolder, connected |-> FALSE, scheduledAutomaticDisconnect |-> FALSE]

PoolTypeOK ==
    /\ mSessions \in Seq(Connection)
    /\ mQueueRunning \in BOOLEAN
    /\ startable \subseteq Requests
    /\ multi \in [state : {"none", "made", "started", "finished"},
                  operations : Nat, count : Nat]
    /\ multi.count <= multi.operations
    /\ cancels \in 0..MaxCancels

Init ==
    /\ mSessions = <<>>
    /\ mQueueRunning = FALSE
    /\ startable = Requests
    /\ multi = [state |-> "none", operations |-> 0, count |-> 0]
    /\ cancels = 0

-----------------------------------------------------------------------------
(* Which connection: an index of mSessions, 0 for none, Len(mSessions) + 1  *)
(* for a connection that is created.                                        *)

OperationsCount(i) == IF i \in DOMAIN mSessions THEN Len(mSessions[i].queue) ELSE 0

(* Of the connections in S the first with the fewest operations. *)
SessionWithMinQueue(S) ==
    IF S = {} THEN 0
    ELSE CHOOSE i \in S : \A j \in S : \/ OperationsCount(i) < OperationsCount(j)
                                       \/ OperationsCount(i) = OperationsCount(j) /\ i <= j

LastSelected(folder) == {i \in DOMAIN mSessions : mSessions[i].lastFolder = folder}

(* Mutant: the limit is passed by one. *)
AvailableSessionBeyondLimit ==
    LET chosen == SessionWithMinQueue(DOMAIN mSessions)
    IN  IF chosen # 0 /\ OperationsCount(chosen) = 0 THEN chosen
        ELSE IF MaximumConnections = 0 \/ Len(mSessions) <= MaximumConnections
             THEN Len(mSessions) + 1
             ELSE chosen

AvailableSession ==
    LET chosen == SessionWithMinQueue(DOMAIN mSessions)
    IN  IF chosen # 0 /\ OperationsCount(chosen) = 0 THEN chosen
        ELSE IF MaximumConnections = 0 \/ Len(mSessions) < MaximumConnections
             THEN Len(mSessions) + 1
             ELSE chosen

(* Without a folder: an unselected connection, else one of INBOX.  With a   *)
(* folder: one of that folder, else an unselected one.                      *)
MatchingSessionForFolder(folder) ==
    LET second == IF folder = NoFolder THEN INBOX ELSE NoFolder
    IN  IF LastSelected(folder) # {} THEN SessionWithMinQueue(LastSelected(folder))
        ELSE IF LastSelected(second) # {} THEN SessionWithMinQueue(LastSelected(second))
        ELSE AvailableSession

SessionForFolder(folder, urgent) ==
    LET same == SessionWithMinQueue(LastSelected(folder))
    IN  IF folder = NoFolder THEN MatchingSessionForFolder(NoFolder)
        ELSE IF same # 0 /\ OperationsCount(same) = 0 THEN same
        ELSE IF urgent /\ AllowsConcurrent /\ OperationsCount(AvailableSession) = 0
             THEN AvailableSession
        ELSE MatchingSessionForFolder(folder)

SetLastFolder(c, folder) ==
    IF folder = NoFolder THEN c ELSE [c EXCEPT !.lastFolder = folder]

-----------------------------------------------------------------------------
(* A connection and its queue. *)

(* startThread and IMAPOperationQueueCallback::queueStartRunning. *)
StartThread(c) ==
    IF c.thread = "off" THEN [c EXCEPT !.thread = "ready", !.isQueueRunning = TRUE] ELSE c

(* A scheduled automatic disconnection is cancelled first. *)
RunOperation(c, op) ==
    StartThread([c EXCEPT !.scheduledAutomaticDisconnect = FALSE,
                          !.queue = Append(@, [op |-> op, cancelled |-> FALSE])])

AnyRunning(sessions) == \E i \in DOMAIN sessions : sessions[i].isQueueRunning

(* Called by the queue callbacks of a connection, the only places where     *)
(* isQueueRunning changes; the user is called when mQueueRunning changes.   *)
OperationRunningStateChanged ==
    mQueueRunning' = IF \A i \in DOMAIN mSessions' :
                            /\ i \in DOMAIN mSessions
                            /\ mSessions'[i].isQueueRunning = mSessions[i].isQueueRunning
                     THEN mQueueRunning
                     ELSE AnyRunning(mSessions')

(* IMAPOperation::start of an operation of the user. *)
Start(r) ==
    LET folder == FolderOf[r]
        i == SessionForFolder(folder, r \in Urgent)
        sessions == IF i \in DOMAIN mSessions THEN mSessions ELSE Append(mSessions, session)
    IN  /\ r \in startable
        /\ startable' = startable \ {r}
        /\ mSessions' = [sessions EXCEPT ![i] = RunOperation(SetLastFolder(@, folder), r)]
        /\ OperationRunningStateChanged
        /\ UNCHANGED <<multi, cancels>>

(* disconnectOperation: a part for every connection that exists now. *)
DisconnectOperation ==
    /\ multi.state = "none"
    /\ multi' = [state |-> "made", operations |-> Len(mSessions), count |-> 0]
    /\ UNCHANGED <<mSessions, mQueueRunning, startable, cancels>>

(* IMAPMultiDisconnectOperation::start. *)
StartDisconnect ==
    /\ multi.state = "made"
    /\ multi' = [multi EXCEPT !.state = IF multi.operations = 0 THEN "finished" ELSE "started"]
    /\ mSessions' = [i \in DOMAIN mSessions |->
                        IF i <= multi.operations THEN RunOperation(mSessions[i], Disconnect)
                                                 ELSE mSessions[i]]
    /\ OperationRunningStateChanged
    /\ UNCHANGED <<startable, cancels>>

Cancelled(operations) ==
    [k \in DOMAIN operations |-> [operations[k] EXCEPT !.cancelled = TRUE]]

(* Reaches the operations that are in a queue, in main() or not begun. *)
CancelAllOperations ==
    /\ cancels < MaxCancels
    /\ cancels' = cancels + 1
    /\ mSessions' = [i \in DOMAIN mSessions |-> [mSessions[i] EXCEPT !.queue = Cancelled(@)]]
    /\ UNCHANGED <<mQueueRunning, startable, multi>>

-----------------------------------------------------------------------------
(* The thread of a connection's queue, and its calls on the main thread. *)

(* The operation stays in the queue while it is executed. *)
Execute(i) ==
    LET c == mSessions[i]
    IN  /\ c.thread = "ready"
        /\ c.queue # <<>>
        /\ ~ Head(c.queue).cancelled
        /\ mSessions' = [mSessions EXCEPT ![i].thread = "main"]
        /\ UNCHANGED <<mQueueRunning, startable, multi, cancels>>

(* An operation cancelled before leaves the queue without being executed. *)
Skip(i) ==
    LET c == mSessions[i]
    IN  /\ c.thread = "ready"
        /\ c.queue # <<>>
        /\ Head(c.queue).cancelled
        /\ mSessions' = [mSessions EXCEPT ![i].queue = Tail(@)]
        /\ UNCHANGED <<mQueueRunning, startable, multi, cancels>>

(* What main() leaves of the connection to the server. *)
ConnectedAfter(op) == IF op \in {Disconnect, AutoDisconnect} THEN {FALSE} ELSE BOOLEAN

(* An operation cancelled in main() is not called back. *)
Leave(i) ==
    LET c == mSessions[i]
        op == Head(c.queue)
    IN  /\ c.thread = "main"
        /\ \E connected \in ConnectedAfter(op.op) :
              mSessions' = [mSessions EXCEPT ![i] =
                  [c EXCEPT !.queue = Tail(@), !.connected = connected,
                            !.current = IF op.cancelled THEN NoOperation ELSE op.op,
                            !.thread = IF op.cancelled THEN "ready" ELSE "after"]]
        /\ UNCHANGED <<mQueueRunning, startable, multi, cancels>>

(* Mutant: the last part is not waited for. *)
OperationFinishedEarly ==
    multi' = [multi EXCEPT !.count = @ + 1,
                           !.state = IF multi.count + 2 >= multi.operations
                                     THEN "finished" ELSE @]

(* IMAPMultiDisconnectOperation::operationFinished. *)
OperationFinished ==
    multi' = [multi EXCEPT !.count = @ + 1,
                           !.state = IF multi.count + 1 = multi.operations
                                     THEN "finished" ELSE @]

(* callbackOnMainThread. *)
CallBack(i) ==
    LET c == mSessions[i]
    IN  /\ c.thread = "after"
        /\ mSessions' = [mSessions EXCEPT ![i].thread = "ready", ![i].current = NoOperation]
        /\ IF c.current = Disconnect THEN OperationFinished ELSE UNCHANGED multi
        /\ UNCHANGED <<mQueueRunning, startable, cancels>>

(* The queue was found empty a second later; the thread leaves its loop. *)
StopThread(i) ==
    /\ mSessions[i].thread = "ready"
    /\ mSessions[i].queue = <<>>
    /\ mSessions' = [mSessions EXCEPT ![i].thread = "stopping"]
    /\ UNCHANGED <<mQueueRunning, startable, multi, cancels>>

(* Mutant: the connection still counts as running. *)
QueueStoppedRunningUnmarked(c) ==
    [c EXCEPT !.thread = "off",
              !.scheduledAutomaticDisconnect = @ \/ c.connected]

(* Mutant: the disconnection is scheduled for the first stop only. *)
QueueStoppedRunningUnscheduled(c) ==
    [c EXCEPT !.thread = "off", !.isQueueRunning = FALSE]

(* queueStoppedRunning, with tryAutomaticDisconnect. *)
QueueStoppedRunning(c) ==
    [c EXCEPT !.thread = "off", !.isQueueRunning = FALSE,
              !.scheduledAutomaticDisconnect = @ \/ c.connected]

(* stoppedOnMainThread: starts again when operations came in between. *)
Stopped(i) ==
    LET c == QueueStoppedRunning(mSessions[i])
    IN  /\ mSessions[i].thread = "stopping"
        /\ mSessions' = [mSessions EXCEPT ![i] = IF c.queue = <<>> THEN c ELSE StartThread(c)]
        /\ OperationRunningStateChanged
        /\ UNCHANGED <<startable, multi, cancels>>

(* 30 seconds after the queue stopped. *)
TryAutomaticDisconnectAfterDelay(i) ==
    /\ mSessions[i].scheduledAutomaticDisconnect
    /\ mSessions' = [mSessions EXCEPT ![i] = RunOperation(@, AutoDisconnect)]
    /\ OperationRunningStateChanged
    /\ UNCHANGED <<startable, multi, cancels>>

Work(i) == \/ Execute(i) \/ Skip(i) \/ Leave(i) \/ CallBack(i)
           \/ StopThread(i) \/ Stopped(i)
           \/ TryAutomaticDisconnectAfterDelay(i)

Next ==
    \/ \E r \in Requests : Start(r)
    \/ DisconnectOperation
    \/ StartDisconnect
    \/ CancelAllOperations
    \/ \E i \in DOMAIN mSessions : Work(i)

(* The threads run and the main thread comes to what it was asked to do. *)
Fairness == \A i \in 1..(Cardinality(Requests)) :
                WF_vars(i \in DOMAIN mSessions /\ Work(i))

Spec == Init /\ [][Next]_vars /\ Fairness

-----------------------------------------------------------------------------
(* Properties. *)

(* There are never more connections than the user allows                    *)
(* (maximumConnections), whatever the folders and the urgency of the        *)
(* operations are.                                                          *)
PoolBound == MaximumConnections # 0 => Len(mSessions) <= MaximumConnections

(* isOperationQueueRunning and what the user was called back about agree    *)
(* with the threads: the account runs exactly while a connection has one,   *)
(* also when a queue stops and starts again in one call.                    *)
RunningStateAgrees ==
    mQueueRunning <=> \E i \in DOMAIN mSessions : mSessions[i].thread # "off"

(* The disconnection of the account is reported when every part of it was   *)
(* executed: no part is left in a queue.                                    *)
FinishedMeansDisconnected ==
    multi.state = "finished" =>
        \A i \in DOMAIN mSessions :
            \A k \in DOMAIN mSessions[i].queue : mSessions[i].queue[k].op # Disconnect

(* A connection does not stay open: when the user asks for no more, the     *)
(* automatic disconnection comes, after cancellations and restarts too.     *)
IdleConnectionsClose ==
    <>[](\A i \in DOMAIN mSessions : ~ mSessions[i].connected)

=============================================================================
