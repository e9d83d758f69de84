------------------------------ MODULE IMAPIdle ------------------------------
(***************************************************************************)
(* IDLE on one connection: operations that wait on the queue's thread       *)
(* until the server has something to say, and that the main thread can      *)
(* interrupt (async/imap/MCIMAPIdleOperation.cpp and idle, setupIdle,       *)
(* interruptIdle, unsetupIdle and unsetup of core/imap/MCIMAPSession.cpp).  *)
(*                                                                         *)
(* The main thread and the thread of the queue share mImap, mIdleEnabled    *)
(* and the stream's interruption (libetpan's mailstream_setup_idle...);     *)
(* mIdleLock guards them.  What else the session does is in IMAPSession.    *)
(***************************************************************************)
EXTENDS Integers, Sequences, SequencesExt

CONSTANTS
    Ops,            \* the idle operations
    MaxConnects     \* bound on the connections that are made

Streams == 1..MaxConnects
None == 0

VARIABLES
    queue,              \* operations of the connection, the first is running
    stage,              \* where main() of each is
    mInterrupted,
    mSetupSuccess,
    ended,              \* what ended the idle of each, as it reports it
    replaced,           \* history: the stream was let go of while it idled
    selecting,          \* where selectIfNeeded() is, in the stages Selects
    caller,             \* of connectIfNeeded() there
    mState,
    mImap,              \* the stream, or None
    mIdleEnabled,
    mShouldDisconnect,
    mIdle,              \* the interruption of the stream
    closing,            \* the stream that unsetup is about to free, or None
    freed

operations == <<queue, stage, mInterrupted, mSetupSuccess, ended, replaced>>
place == <<selecting, caller>>
stream == <<mImap, mIdleEnabled, mIdle, closing, freed>>
session == <<place, mState, mShouldDisconnect, stream>>
vars == <<operations, session>>

(* main() before prepare, idle() and the fetch of idle() call               *)
(* selectIfNeeded(); from "idle" on, the stream may be set up.              *)
Selects == {"select", "idle", "fetch"}
Idling == {"idle", "fetch", "list", "command", "waiting", "done", "unprepare"}

Init ==
    /\ queue = <<>>
    /\ stage = [op \in Ops |-> "new"]
    /\ mInterrupted = [op \in Ops |-> FALSE]
    /\ mSetupSuccess = [op \in Ops |-> FALSE]
    /\ ended = [op \in Ops |-> "no"]
    /\ replaced = [op \in Ops |-> FALSE]
    /\ selecting = "start" /\ caller = "loginIfNeeded"
    /\ mState = "DISCONNECTED"
    /\ mImap = None
    /\ mIdleEnabled = FALSE
    /\ mShouldDisconnect = FALSE
    /\ mIdle = "absent"
    /\ closing = None
    /\ freed = {}

-----------------------------------------------------------------------------
(* The main thread. *)

Start(op) ==
    /\ stage[op] = "new"
    /\ stage' = [stage EXCEPT ![op] = "main"]
    /\ queue' = Append(queue, op)
    /\ UNCHANGED <<mInterrupted, mSetupSuccess, ended, replaced, session>>

(* mSetupSuccess stays what it was when the operation is finished.  To      *)
(* interrupt a stream that is not set up does nothing.                      *)
InterruptIdle(op) ==
    /\ mInterrupted' = [mInterrupted EXCEPT ![op] = TRUE]
    /\ mIdle' = IF mSetupSuccess[op] /\ mIdleEnabled /\ mIdle # "absent"
                 THEN "notified" ELSE mIdle
    /\ UNCHANGED <<queue, stage, mSetupSuccess, ended, replaced, place, mState, mShouldDisconnect,
                   mImap, mIdleEnabled, closing, freed>>

-----------------------------------------------------------------------------
(* The thread of the queue: main() of the first operation. *)

Running(op) == queue # <<>> /\ op = Head(queue)
At(op, s) == Running(op) /\ stage[op] = s

GoTo(op, s) == stage' = [stage EXCEPT ![op] = s] /\ UNCHANGED queue

Finish(op, why) ==
    /\ stage' = [stage EXCEPT ![op] = "finished"]
    /\ queue' = Tail(queue)
    /\ ended' = [ended EXCEPT ![op] = why]

(* An operation that was interrupted before it began does nothing.          *)
Main(op) ==
    /\ At(op, "main")
    /\ IF mInterrupted[op] THEN Finish(op, "interrupted")
       ELSE GoTo(op, "select") /\ UNCHANGED ended
    /\ UNCHANGED <<mInterrupted, mSetupSuccess, replaced, session>>

-----------------------------------------------------------------------------
(* selectIfNeeded(), wherever it is called *)

In(op, where) == Running(op) /\ stage[op] \in Selects /\ selecting = where

Continue(where) == selecting' = where /\ UNCHANGED caller
Return == selecting' = "start" /\ caller' = "loginIfNeeded"

(* It reports an error: main() ends without prepare, idle() with unprepare. *)
Fail(op) ==
    /\ Return
    /\ IF stage[op] = "select" THEN Finish(op, "error")
       ELSE GoTo(op, "unprepare") /\ ended' = [ended EXCEPT ![op] = "error"]

(* It reports none.  idle() fetches if the operation knows a last message.  *)
Succeed(op) ==
    /\ Return
    /\ UNCHANGED ended
    /\ \/ stage[op] = "select" /\ GoTo(op, "prepare")
       \/ stage[op] = "idle" /\ \E next \in {"fetch", "command"} : GoTo(op, next)
       \/ stage[op] = "fetch" /\ GoTo(op, "list")

(* Mutant: the stream is freed before mImap and mIdleEnabled are cleared.   *)
LetGoLate(op) ==
    /\ closing' = mImap
    /\ freed' = freed \cup ({mImap} \ {None})
    /\ replaced' = [replaced EXCEPT ![op] = @ \/ stage[op] \in Idling]
    /\ UNCHANGED <<mImap, mIdleEnabled, mIdle>>

(* unsetup() lets go of the stream under the lock...                        *)
LetGo(op) ==
    /\ closing' = mImap
    /\ mImap' = None
    /\ mIdleEnabled' = FALSE
    /\ mIdle' = "absent"
    /\ replaced' = [replaced EXCEPT ![op] = @ \/ stage[op] \in Idling]
    /\ UNCHANGED freed

(* connectIfNeeded(), which disconnects after an error of the stream, and   *)
(* what its caller does with a session that has a connection.               *)
ConnectIfNeeded(op) ==
    /\ In(op, "start")
    /\ IF mShouldDisconnect
       THEN /\ LetGo(op)
            /\ mShouldDisconnect' = FALSE
            /\ Continue("close")
       ELSE /\ UNCHANGED <<replaced, stream, mShouldDisconnect>>
            /\ \/ mState = "DISCONNECTED" /\ Continue("connect")
               \/ mState = "CONNECTED" /\ Continue("login")
               \/ mState \in {"LOGGEDIN", "SELECTED"} /\ Continue("select")
    /\ UNCHANGED <<queue, stage, mInterrupted, mSetupSuccess, ended, mState>>

(* ... and closes and frees it without the lock.                            *)
Free ==
    /\ freed' = freed \cup ({closing} \ {None})
    /\ closing' = None
    /\ mState' = "DISCONNECTED"
    /\ UNCHANGED <<mImap, mIdleEnabled, mIdle>>

Disconnect(op) ==
    /\ In(op, "close")
    /\ Free
    /\ Continue("connect")
    /\ UNCHANGED <<operations, mShouldDisconnect>>

(* connect() failed: login() does not look at an error of identity().       *)
ConnectFailed(op) ==
    IF caller = "identity" THEN Succeed(op) ELSE Fail(op)

(* connect(): the server may or may not announce IDLE, in its greeting or   *)
(* when it is asked for its capabilities.  After identity() has sent its    *)
(* command login() is done.                                                 *)
Connect(op) ==
    /\ In(op, "connect")
    /\ \/ /\ mImap' \in Streams \cap {Cardinality(freed) + 1}
          /\ mIdleEnabled' \in BOOLEAN
          /\ mState' = "CONNECTED"
          /\ IF caller = "identity"
             THEN Succeed(op) /\ mShouldDisconnect' \in BOOLEAN
             ELSE Continue("login") /\ UNCHANGED <<queue, stage, ended, mShouldDisconnect>>
       \/ /\ mImap' \in Streams \cap {Cardinality(freed) + 1}
          /\ mIdleEnabled' \in BOOLEAN
          /\ mShouldDisconnect' \in BOOLEAN
          /\ Continue("refused")
          /\ UNCHANGED <<queue, stage, ended, mState>>
       \/ /\ ConnectFailed(op)
          /\ UNCHANGED <<mImap, mIdleEnabled, mState, mShouldDisconnect>>
    /\ UNCHANGED <<mInterrupted, mSetupSuccess, replaced, mIdle, closing, freed>>

(* connect() goes to close, with or without a greeting.                     *)
Refuse(op) ==
    /\ In(op, "refused")
    /\ LetGo(op)
    /\ Continue("failed")
    /\ UNCHANGED <<queue, stage, mInterrupted, mSetupSuccess, ended, mState, mShouldDisconnect>>

ConnectClosed(op) ==
    /\ In(op, "failed")
    /\ Free
    /\ ConnectFailed(op)
    /\ UNCHANGED <<mInterrupted, mSetupSuccess, replaced, mShouldDisconnect>>

(* login().  It may succeed although the session is to be disconnected,     *)
(* since it does not look at the errors of COMPRESS and ID; after that of   *)
(* COMPRESS, fetchNamespace() logs in again and identity() connects again.  *)
Login(op) ==
    /\ In(op, "login")
    /\ mIdleEnabled' \in {mIdleEnabled, TRUE}
    /\ \/ /\ mState' = "LOGGEDIN"
          /\ mShouldDisconnect' \in BOOLEAN
          /\ Continue("select")
          /\ UNCHANGED <<queue, stage, ended>>
       \/ /\ mState' = "LOGGEDIN"
          /\ mShouldDisconnect' = TRUE
          /\ selecting' = "start" /\ caller' \in {"loginIfNeeded", "identity"}
          /\ UNCHANGED <<queue, stage, ended>>
       \/ /\ mState' \in {"CONNECTED", "LOGGEDIN"}
          /\ mShouldDisconnect' \in BOOLEAN
          /\ Fail(op)
    /\ UNCHANGED <<mInterrupted, mSetupSuccess, replaced, mImap, mIdle, closing, freed>>

(* select(), unless the folder is the one of the session, as it is in       *)
(* idle() without a new login.  A stream that fails is left at the next     *)
(* command, an answer NO leaves the folder.                                 *)
Select(op) ==
    /\ In(op, "select")
    /\ \/ mState' = "SELECTED" /\ Succeed(op) /\ UNCHANGED mShouldDisconnect
       \/ /\ mState = "LOGGEDIN" \/ stage[op] = "select"
          /\ \/ mState' = "LOGGEDIN" /\ UNCHANGED mShouldDisconnect
             \/ mShouldDisconnect' = TRUE /\ UNCHANGED mState
          /\ Fail(op)
    /\ UNCHANGED <<mInterrupted, mSetupSuccess, replaced, stream>>

-----------------------------------------------------------------------------
(* main(), with what selectIfNeeded() left *)

(* prepare, performed on the main thread while the other waits: setupIdle   *)
(* unless the operation was interrupted.  Without IDLE it ends here.        *)
Prepare(op) ==
    LET ready == ~ mInterrupted[op] /\ mIdleEnabled
    IN  /\ At(op, "prepare")
        /\ mSetupSuccess' = [mSetupSuccess EXCEPT ![op] = ready]
        /\ mIdle' = IF ready THEN "ready" ELSE mIdle
        /\ IF ready THEN GoTo(op, "idle") /\ UNCHANGED ended
           ELSE Finish(op, IF mInterrupted[op] THEN "interrupted" ELSE "nothing")
        /\ UNCHANGED <<mInterrupted, replaced, place, mState, mShouldDisconnect,
                       mImap, mIdleEnabled, closing, freed>>

(* After an error of the connection it is closed at the next command.       *)
IdleFails(op) ==
    /\ GoTo(op, "unprepare")
    /\ ended' = [ended EXCEPT ![op] = "error"]
    /\ mShouldDisconnect' \in BOOLEAN

(* idle() after its selectIfNeeded(): the messages after the last known one *)
(* make it unnecessary to wait.  Without a stream, as a login with an       *)
(* ignored error may leave it, the program ends here and in Idle.           *)
List(op) ==
    /\ At(op, "list") /\ mImap # None
    /\ \/ GoTo(op, "command") /\ UNCHANGED <<ended, mShouldDisconnect>>
       \/ /\ GoTo(op, "unprepare")
          /\ ended' = [ended EXCEPT ![op] = "change"]
          /\ UNCHANGED mShouldDisconnect
       \/ IdleFails(op)
    /\ UNCHANGED <<mInterrupted, mSetupSuccess, replaced, place, mState, stream>>

(* The command IDLE, whose answer may already say that something is new.    *)
Idle(op) ==
    /\ At(op, "command") /\ mImap # None
    /\ \/ GoTo(op, "waiting") /\ UNCHANGED <<ended, mShouldDisconnect>>
       \/ /\ GoTo(op, "done")
          /\ ended' = [ended EXCEPT ![op] = "change"]
          /\ UNCHANGED mShouldDisconnect
       \/ IdleFails(op)
    /\ UNCHANGED <<mInterrupted, mSetupSuccess, replaced, place, mState, stream>>

(* mailstream_wait_idle returns when it is interrupted...                   *)
WaitInterrupted(op) ==
    /\ At(op, "waiting") /\ mIdle = "notified"
    /\ GoTo(op, "done")
    /\ ended' = [ended EXCEPT ![op] = "interrupted"]
    /\ UNCHANGED <<mInterrupted, mSetupSuccess, replaced, session>>

(* ... after MAX_IDLE_DELAY, when there is data, and with an error.         *)
WaitEnds(op) ==
    /\ At(op, "waiting")
    /\ \/ /\ GoTo(op, "done")
          /\ \E why \in {"timeout", "change"} : ended' = [ended EXCEPT ![op] = why]
          /\ UNCHANGED mShouldDisconnect
       \/ IdleFails(op)
    /\ UNCHANGED <<mInterrupted, mSetupSuccess, replaced, place, mState, stream>>

(* mailimap_idle_done. *)
IdleDone(op) ==
    /\ At(op, "done")
    /\ \/ GoTo(op, "unprepare") /\ UNCHANGED <<ended, mShouldDisconnect>>
       \/ IdleFails(op)
    /\ UNCHANGED <<mInterrupted, mSetupSuccess, replaced, place, mState, stream>>

(* On the main thread, too: unsetupIdle, of whatever stream there is now.   *)
Unprepare(op) ==
    /\ At(op, "unprepare")
    /\ mIdle' = IF mSetupSuccess[op] /\ mIdleEnabled THEN "absent" ELSE mIdle
    /\ Finish(op, ended[op])
    /\ UNCHANGED <<mInterrupted, mSetupSuccess, replaced, place, mState, mShouldDisconnect,
                   mImap, mIdleEnabled, closing, freed>>

SelectIfNeeded(op) ==
    \/ ConnectIfNeeded(op) \/ Disconnect(op) \/ Connect(op) \/ Refuse(op) \/ ConnectClosed(op)
    \/ Login(op) \/ Select(op)

Step(op) ==
    \/ Main(op) \/ SelectIfNeeded(op) \/ Prepare(op) \/ List(op) \/ Idle(op)
    \/ WaitInterrupted(op) \/ IdleDone(op) \/ Unprepare(op)

Next == \E op \in Ops : Start(op) \/ InterruptIdle(op) \/ Step(op) \/ WaitEnds(op)

Spec == Init /\ [][Next]_vars

-----------------------------------------------------------------------------
(* Properties. *)

(* The main thread interrupts the stream of the session whenever            *)
(* mIdleEnabled is set: it never finds one that was let go of or freed,     *)
(* whatever the thread of the queue is doing.                               *)
InterruptedStreamAlive == mIdleEnabled => mImap # None /\ mImap \notin freed

(* A stream is set up for an interruption exactly while the operation that  *)
(* did it is idle and still has that stream: it is taken down on every      *)
(* path, errors included, a stream that idle() itself replaced (line 3555)  *)
(* takes its interruption with it, and none is left to a later operation.   *)
SetUpExactlyWhileIdling ==
    mIdle # "absent" <=>
        \E op \in Ops : stage[op] \in Idling /\ mSetupSuccess[op] /\ ~ replaced[op]

(* interruptIdle is safe at every moment, and finds its idle.               *)
InterruptionSafe == InterruptedStreamAlive /\ SetUpExactlyWhileIdling
=============================================================================
