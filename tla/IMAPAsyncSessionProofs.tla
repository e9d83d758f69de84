----------------------- MODULE IMAPAsyncSessionProofs -----------------------
(***************************************************************************)
(* Proofs, for any operations, folders and limit, that an account keeps its *)
(* limit of connections, that what it says of its running state is true,    *)
(* and that it reports a disconnection only when all of it was done.        *)
(*                                                                         *)
(* The last of these rests on a count: the answers received and the parts   *)
(* still in the queues are together no more than the parts that were made,  *)
(* and a connection has one part at most.                                   *)
(***************************************************************************)
EXTENDS IMAPAsyncSession, QueueLemmas, FiniteSetTheorems, TLAPS

AnyOp == Requests \cup {Disconnect, AutoDisconnect}

(* The part of the disconnection that a connection still has. *)
InQueue(c) == \E k \in DOMAIN c.queue : c.queue[k].op = Disconnect
HasPart(c) == InQueue(c) \/ c.current = Disconnect
OnePart(c) ==
    /\ \A k, l \in DOMAIN c.queue :
          c.queue[k].op = Disconnect /\ c.queue[l].op = Disconnect => k = l
    /\ c.current = Disconnect => ~ InQueue(c)
    /\ c.thread # "after" => c.current = NoOperation

Good(c) ==
    /\ c \in Connection
    /\ c.isQueueRunning <=> c.thread # "off"
    /\ c.thread = "main" => c.queue # <<>>
    /\ OnePart(c)

Pending == {i \in DOMAIN mSessions : HasPart(mSessions[i])}

AccountAgrees == mQueueRunning = AnyRunning(mSessions)

PartsCounted ==
    /\ multi.operations <= Len(mSessions)
    /\ multi.state \in {"none", "made"} => Pending = {} /\ multi.count = 0
    /\ multi.count + Cardinality(Pending) <= multi.operations
    /\ multi.state = "finished" => multi.count = multi.operations

IInv ==
    /\ PoolTypeOK
    /\ PoolBound
    /\ \A i \in DOMAIN mSessions : Good(mSessions[i])
    /\ AccountAgrees
    /\ PartsCounted

-----------------------------------------------------------------------------
(* What the operators on connections do. *)

LEMMA GoodSession == Good(session) /\ ~ HasPart(session)
<1>1. session \in Connection
  <2>1. <<>> \in Seq(Operation)
    BY EmptySeq
  <2> QED BY <2>1 DEF session, Connection, Thread
<1>2. DOMAIN session.queue = {}
  BY DEF session
<1>3. /\ session.current = NoOperation
      /\ session.isQueueRunning = FALSE
      /\ session.thread = "off"
  BY DEF session
<1>4. ~ InQueue(session)
  BY <1>2 DEF InQueue
<1>5. NoOperation # Disconnect
  BY DEF NoOperation, Disconnect
<1> HIDE DEF session
<1> QED BY <1>1, <1>2, <1>3, <1>4, <1>5 DEF Good, OnePart, HasPart

LEMMA GoodStartThread ==
    ASSUME NEW c, Good(c)
    PROVE  /\ Good(StartThread(c))
           /\ StartThread(c).isQueueRunning
           /\ HasPart(StartThread(c)) <=> HasPart(c)
  BY DEF StartThread, Good, OnePart, HasPart, InQueue, Connection, Thread

LEMMA GoodRunOperation ==
    ASSUME NEW c, Good(c), NEW op \in AnyOp, op = Disconnect => ~ HasPart(c)
    PROVE  /\ Good(RunOperation(c, op))
           /\ RunOperation(c, op).isQueueRunning
           /\ HasPart(RunOperation(c, op)) <=> HasPart(c) \/ op = Disconnect
<1> DEFINE e == [op |-> op, cancelled |-> FALSE]
           d == [c EXCEPT !.scheduledAutomaticDisconnect = FALSE,
                          !.queue = Append(@, e)]
<1>1. c.queue \in Seq(Operation) /\ e \in Operation
  BY DEF Good, Connection, Operation, AnyOp
<1>2. QueueFacts(Operation, c.queue) /\ QueueFacts(Operation, Append(c.queue, e))
  BY <1>1, QueueLemma, AppendProperties
<1>3. d \in Connection /\ d.queue = Append(c.queue, e) /\ d.current = c.current
      /\ d.thread = c.thread /\ d.isQueueRunning = c.isQueueRunning
  BY <1>1, <1>2 DEF Good, Connection, QueueFacts
<1>4. /\ DOMAIN d.queue = 1 .. (Len(c.queue) + 1)
      /\ DOMAIN c.queue = 1 .. Len(c.queue)
      /\ Len(c.queue) \in Nat
      /\ \A k \in DOMAIN c.queue : d.queue[k] = c.queue[k]
      /\ d.queue[Len(c.queue) + 1].op = op
      /\ d.queue # <<>>
  BY <1>1, <1>2, <1>3 DEF QueueFacts
<1>5. InQueue(d) <=> InQueue(c) \/ op = Disconnect
  BY <1>4 DEF InQueue
<1>6. OnePart(d)
  <2>1. OnePart(c)
    BY DEF Good
  <2>2. ASSUME NEW k \in DOMAIN d.queue, NEW l \in DOMAIN d.queue,
               d.queue[k].op = Disconnect, d.queue[l].op = Disconnect
        PROVE  k = l
    BY <1>4, <2>1, <2>2 DEF OnePart, HasPart, InQueue
  <2>3. d.current = Disconnect => ~ InQueue(d)
    BY <1>3, <1>5, <2>1 DEF OnePart, HasPart
  <2> QED BY <1>3, <2>1, <2>2, <2>3 DEF OnePart
<1>7. Good(d) /\ (HasPart(d) <=> HasPart(c) \/ op = Disconnect)
  BY <1>3, <1>4, <1>5, <1>6 DEF Good, HasPart
<1>8. RunOperation(c, op) = StartThread(d)
  BY DEF RunOperation
<1> HIDE DEF d, e
<1> QED BY <1>7, <1>8, GoodStartThread

LEMMA GoodSetLastFolder ==
    ASSUME NEW c, Good(c), NEW folder \in Folders \cup {NoFolder}
    PROVE  /\ Good(SetLastFolder(c, folder))
           /\ HasPart(SetLastFolder(c, folder)) <=> HasPart(c)
           /\ SetLastFolder(c, folder).isQueueRunning = c.isQueueRunning
  BY DEF SetLastFolder, Good, OnePart, HasPart, InQueue, Connection

(* The first operation leaves the queue. *)
LEMMA TailParts ==
    ASSUME NEW c, Good(c), c.queue # <<>>
    PROVE  /\ Tail(c.queue) \in Seq(Operation)
           /\ Head(c.queue) \in Operation
           /\ \A k \in DOMAIN Tail(c.queue) :
                 /\ k + 1 \in DOMAIN c.queue
                 /\ k \in Nat
                 /\ Tail(c.queue)[k] = c.queue[k + 1]
           /\ Head(c.queue).op = Disconnect =>
                 \A k \in DOMAIN Tail(c.queue) : Tail(c.queue)[k].op # Disconnect
<1>1. QueueFacts(Operation, c.queue)
  BY QueueLemma DEF Good, Connection
<1>2. /\ Tail(c.queue) \in Seq(Operation)
      /\ Len(c.queue) \in Nat
      /\ Len(Tail(c.queue)) = Len(c.queue) - 1
      /\ \A k \in 1 .. Len(Tail(c.queue)) : Tail(c.queue)[k] = c.queue[k + 1]
      /\ DOMAIN c.queue = 1 .. Len(c.queue)
  BY <1>1 DEF QueueFacts
<1>t. DOMAIN Tail(c.queue) = 1 .. Len(Tail(c.queue))
  BY <1>2, LenProperties
<1>3. \A k \in DOMAIN Tail(c.queue) :
         k + 1 \in DOMAIN c.queue /\ k \in Nat /\ Tail(c.queue)[k] = c.queue[k + 1] /\ k + 1 # 1
  BY <1>2, <1>t
<1>4. 1 \in DOMAIN c.queue /\ Head(c.queue) = c.queue[1]
  BY <1>1 DEF QueueFacts
<1>5. OnePart(c)
  BY DEF Good
<1> QED BY <1>1, <1>2, <1>3, <1>4, <1>5 DEF QueueFacts, OnePart

-----------------------------------------------------------------------------
(* The choice of a connection. *)

(* The loop of sessionWithMinQueue finds one of those it may choose. *)
LEMMA MinQueueChooses ==
    ASSUME PoolTypeOK, NEW S, S \subseteq DOMAIN mSessions, S # {}
    PROVE  SessionWithMinQueue(S) \in S
<1>1. DOMAIN mSessions \subseteq Nat
  BY LenProperties DEF PoolTypeOK
<1>2. \A i \in S : OperationsCount(i) \in Nat
  <2> SUFFICES ASSUME NEW i \in S PROVE OperationsCount(i) \in Nat
    OBVIOUS
  <2>1. mSessions[i] \in Connection
    BY ElementOfSeq, LenProperties DEF PoolTypeOK
  <2> QED BY <2>1, LenProperties DEF OperationsCount, Connection
<1> DEFINE counts == {OperationsCount(i) : i \in S}
<1>3. PICK m \in counts : \A y \in counts : m <= y
  <2>1. counts \subseteq Nat /\ counts # {}
    BY <1>2
  <2> HIDE DEF counts
  <2> QED BY <2>1, SmallestNumber
<1> DEFINE fewest == {i \in S : OperationsCount(i) = m}
<1>4. PICK i \in fewest : \A j \in fewest : i <= j
  <2>1. fewest \subseteq Nat /\ fewest # {}
    BY <1>1, <1>3
  <2> HIDE DEF fewest
  <2> QED BY <2>1, SmallestNumber
<1>5. ASSUME NEW j \in S
      PROVE  \/ OperationsCount(i) < OperationsCount(j)
             \/ OperationsCount(i) = OperationsCount(j) /\ i <= j
  <2>1. OperationsCount(i) <= OperationsCount(j)
    BY <1>3
  <2>2. OperationsCount(j) = OperationsCount(i) => i <= j
    BY <1>4
  <2> QED BY <2>1, <2>2, <1>2
<1>6. \E k \in S : \A j \in S :
         \/ OperationsCount(k) < OperationsCount(j)
         \/ OperationsCount(k) = OperationsCount(j) /\ k <= j
  BY <1>4, <1>5
<1> QED BY <1>6 DEF SessionWithMinQueue

(* A connection of the account, or a new one that the limit allows. *)
Usable(i) ==
    \/ i \in DOMAIN mSessions
    \/ /\ i = Len(mSessions) + 1
       /\ MaximumConnections = 0 \/ Len(mSessions) < MaximumConnections

LEMMA AvailableIsUsable == PoolTypeOK => Usable(AvailableSession)
<1> SUFFICES ASSUME PoolTypeOK PROVE Usable(AvailableSession)
  OBVIOUS
<1>1. CASE DOMAIN mSessions = {}
  <2>1. Len(mSessions) = 0
    BY <1>1, LenProperties DEF PoolTypeOK
  <2>2. SessionWithMinQueue(DOMAIN mSessions) = 0
    BY <1>1 DEF SessionWithMinQueue
  <2>3. AvailableSession = Len(mSessions) + 1
    BY <2>1, <2>2, PoolAssumption DEF AvailableSession
  <2> QED BY <2>1, <2>3, PoolAssumption DEF Usable
<1>2. CASE DOMAIN mSessions # {}
  <2>1. SessionWithMinQueue(DOMAIN mSessions) \in DOMAIN mSessions
    BY <1>2, MinQueueChooses
  <2> QED BY <2>1 DEF AvailableSession, Usable
<1> QED BY <1>1, <1>2

LEMMA SelectedSubset == \A folder : LastSelected(folder) \subseteq DOMAIN mSessions
  BY DEF LastSelected

LEMMA MatchingIsUsable ==
    ASSUME PoolTypeOK, NEW folder
    PROVE  Usable(MatchingSessionForFolder(folder))
<1>1. \A f : LastSelected(f) # {} => Usable(SessionWithMinQueue(LastSelected(f)))
  BY MinQueueChooses, SelectedSubset DEF Usable
<1> QED BY <1>1, AvailableIsUsable DEF MatchingSessionForFolder

LEMMA SessionForFolderIsUsable ==
    ASSUME PoolTypeOK, NEW folder, NEW urgent
    PROVE  Usable(SessionForFolder(folder, urgent))
<1>1. \A f : LastSelected(f) # {} => Usable(SessionWithMinQueue(LastSelected(f)))
  BY MinQueueChooses, SelectedSubset DEF Usable
<1>2. \A f : LastSelected(f) = {} => SessionWithMinQueue(LastSelected(f)) = 0
  BY DEF SessionWithMinQueue
<1> QED BY <1>1, <1>2, AvailableIsUsable, MatchingIsUsable DEF SessionForFolder

-----------------------------------------------------------------------------
(* The account after a step. *)

(* The account says that it runs exactly when one of its connections does,  *)
(* also after connections were added.                                       *)
LEMMA AccountStillAgrees ==
    ASSUME AccountAgrees, OperationRunningStateChanged,
           DOMAIN mSessions \subseteq DOMAIN mSessions'
    PROVE  AccountAgrees'
  BY DEF AccountAgrees, OperationRunningStateChanged, AnyRunning

LEMMA PendingFinite == PoolTypeOK => IsFiniteSet(Pending) /\ Cardinality(Pending) \in Nat
<1> SUFFICES ASSUME PoolTypeOK PROVE IsFiniteSet(Pending) /\ Cardinality(Pending) \in Nat
  OBVIOUS
<1>1. Len(mSessions) \in Nat /\ Pending \subseteq 1 .. Len(mSessions)
  BY LenProperties DEF PoolTypeOK, Pending
<1>2. IsFiniteSet(1 .. Len(mSessions))
  BY <1>1, FS_Interval
<1> QED BY <1>1, <1>2, FS_Subset, FS_CardinalityType

(* One connection changes, and does not get a part it had not. *)
LEMMA OneChanges ==
    ASSUME IInv, NEW i \in DOMAIN mSessions, NEW c, Good(c),
           HasPart(c) => HasPart(mSessions[i]),
           mSessions' = [mSessions EXCEPT ![i] = c]
    PROVE  /\ mSessions' \in Seq(Connection)
           /\ Len(mSessions') = Len(mSessions)
           /\ DOMAIN mSessions' = DOMAIN mSessions
           /\ PoolBound'
           /\ \A j \in DOMAIN mSessions' : Good(mSessions'[j])
           /\ mSessions'[i] = c
           /\ Pending' = IF HasPart(c) THEN Pending ELSE Pending \ {i}
<1>1. /\ mSessions \in Seq(Connection)
      /\ i \in 1 .. Len(mSessions)
      /\ c \in Connection
  BY LenProperties DEF IInv, PoolTypeOK, Good
<1>2. /\ mSessions' \in Seq(Connection)
      /\ Len(mSessions') = Len(mSessions)
      /\ \A j \in 1 .. Len(mSessions) : mSessions'[j] = IF j = i THEN c ELSE mSessions[j]
  BY <1>1, ExceptSeq
<1>3. DOMAIN mSessions' = DOMAIN mSessions /\ DOMAIN mSessions = 1 .. Len(mSessions)
  BY <1>1, <1>2, LenProperties
<1>4. PoolBound'
  BY <1>2 DEF IInv, PoolBound
<1>5. \A j \in DOMAIN mSessions' : Good(mSessions'[j])
  BY <1>2, <1>3 DEF IInv
<1>6. Pending' = IF HasPart(c) THEN Pending ELSE Pending \ {i}
  BY <1>2, <1>3 DEF Pending
<1> QED BY <1>1, <1>2, <1>3, <1>4, <1>5, <1>6

(* Then nothing is counted that was not. *)
LEMMA CountKept ==
    ASSUME IInv, NEW i \in DOMAIN mSessions, UNCHANGED multi, Len(mSessions') = Len(mSessions),
           Pending' = Pending \/ Pending' = Pending \ {i}
    PROVE  PartsCounted'
<1>1. /\ IsFiniteSet(Pending)
      /\ Cardinality(Pending) \in Nat
  BY PendingFinite DEF IInv
<1>2. Cardinality(Pending') \in Nat /\ Cardinality(Pending') <= Cardinality(Pending)
  <2>1. CASE Pending' = Pending
    BY <1>1, <2>1
  <2>2. CASE Pending' = Pending \ {i}
    <3>1. /\ IsFiniteSet(Pending')
          /\ Cardinality(Pending') = IF i \in Pending THEN Cardinality(Pending) - 1
                                                     ELSE Cardinality(Pending)
      BY <1>1, <2>2, FS_RemoveElement
    <3>2. Cardinality(Pending') \in Nat
      BY <3>1, FS_CardinalityType
    <3> QED BY <1>1, <3>1, <3>2
  <2> QED BY <2>1, <2>2
<1>3. Pending = {} => Pending' = {}
  OBVIOUS
<1>4. multi.count \in Nat /\ multi.operations \in Nat
  BY DEF IInv, PoolTypeOK
<1> QED BY <1>1, <1>2, <1>3, <1>4 DEF IInv, PartsCounted

-----------------------------------------------------------------------------
(* The steps. *)

LEMMA InitIInv == Init => IInv
<1> SUFFICES ASSUME Init PROVE IInv
  OBVIOUS
<1>1. mSessions \in Seq(Connection) /\ Len(mSessions) = 0 /\ DOMAIN mSessions = {}
  BY EmptySeq DEF Init
<1>2. PoolTypeOK
  <2>1. mQueueRunning \in BOOLEAN /\ startable \subseteq Requests
    BY DEF Init
  <2>2. multi \in [state : {"none", "made", "started", "finished"},
                   operations : Nat, count : Nat]
        /\ multi.count <= multi.operations
    BY DEF Init
  <2>3. cancels \in 0 .. MaxCancels
    BY PoolAssumption DEF Init
  <2> QED BY <1>1, <2>1, <2>2, <2>3 DEF PoolTypeOK
<1>3. PoolBound
  BY <1>1, PoolAssumption DEF PoolBound
<1>4. AccountAgrees
  BY <1>1 DEF Init, AccountAgrees, AnyRunning
<1>5. PartsCounted
  <2>1. Pending = {}
    BY <1>1 DEF Pending
  <2> QED BY <1>1, <2>1, FS_EmptySet DEF Init, PartsCounted
<1> QED BY <1>1, <1>2, <1>3, <1>4, <1>5 DEF IInv

LEMMA StartIInv ==
    ASSUME IInv, NEW r \in Requests, Start(r)
    PROVE  IInv'
<1> DEFINE folder == FolderOf[r]
           i == SessionForFolder(folder, r \in Urgent)
           sessions == IF i \in DOMAIN mSessions THEN mSessions ELSE Append(mSessions, session)
           c == RunOperation(SetLastFolder(sessions[i], folder), r)
<1>1. /\ mSessions' = [sessions EXCEPT ![i] = c]
      /\ OperationRunningStateChanged
      /\ UNCHANGED <<multi, cancels>>
      /\ startable' \subseteq startable
  BY DEF Start
<1>2. folder \in Folders \cup {NoFolder}
  BY PoolAssumption
<1>3. Usable(i)
  BY SessionForFolderIsUsable DEF IInv
<1>4. /\ mSessions \in Seq(Connection)
      /\ QueueFacts(Connection, mSessions)
      /\ session \in Connection
  BY QueueLemma, GoodSession DEF IInv, PoolTypeOK, Good
<1> HIDE DEF folder, i
<1>5. /\ sessions \in Seq(Connection)
      /\ Len(sessions) >= Len(mSessions)
      /\ Len(sessions) \in Nat
      /\ DOMAIN sessions = 1 .. Len(sessions)
      /\ i \in 1 .. Len(sessions)
      /\ MaximumConnections # 0 => Len(sessions) <= MaximumConnections
      /\ \A j \in 1 .. Len(sessions) :
            \/ j \in DOMAIN mSessions /\ sessions[j] = mSessions[j]
            \/ j \notin DOMAIN mSessions /\ sessions[j] = session
      /\ DOMAIN mSessions \subseteq 1 .. Len(sessions)
  <2>1. CASE i \in DOMAIN mSessions
    BY <1>4, <2>1 DEF QueueFacts, IInv, PoolBound
  <2>2. CASE i \notin DOMAIN mSessions
    <3>1. i = Len(mSessions) + 1
          /\ (MaximumConnections = 0 \/ Len(mSessions) < MaximumConnections)
      BY <1>3, <2>2 DEF Usable
    <3>2. sessions = Append(mSessions, session)
      BY <2>2
    <3>3. /\ sessions \in Seq(Connection)
          /\ Len(sessions) = Len(mSessions) + 1
          /\ Len(mSessions) \in Nat
          /\ sessions[Len(mSessions) + 1] = session
          /\ \A j \in 1 .. Len(mSessions) : sessions[j] = mSessions[j]
          /\ DOMAIN mSessions = 1 .. Len(mSessions)
      BY <1>4, <3>2 DEF QueueFacts
    <3>4. DOMAIN sessions = 1 .. Len(sessions)
      BY <3>3, LenProperties
    <3> HIDE DEF sessions
    <3> QED BY <3>1, <3>3, <3>4, PoolAssumption
  <2> QED BY <2>1, <2>2
<1>6. /\ \A j \in 1 .. Len(sessions) : Good(sessions[j])
      /\ \A j \in 1 .. Len(sessions) :
            HasPart(sessions[j]) <=> j \in Pending
  BY <1>5, GoodSession DEF IInv, Pending
<1>7. /\ Good(c)
      /\ HasPart(c) <=> HasPart(sessions[i])
  <2>1. r \in AnyOp /\ r # Disconnect
    BY RequestsAssumption DEF AnyOp
  <2> HIDE DEF sessions
  <2> QED BY <1>2, <1>5, <1>6, <2>1, GoodSetLastFolder, GoodRunOperation
<1> HIDE DEF sessions, c
<1>8. /\ mSessions' \in Seq(Connection)
      /\ Len(mSessions') = Len(sessions)
      /\ \A j \in 1 .. Len(sessions) : mSessions'[j] = IF j = i THEN c ELSE sessions[j]
  BY <1>1, <1>5, <1>7, ExceptSeq DEF Good
<1>9. DOMAIN mSessions' = 1 .. Len(sessions)
  BY <1>8, LenProperties
<1>10. Pending' = Pending
  <2>1. \A j \in 1 .. Len(sessions) : HasPart(mSessions'[j]) <=> j \in Pending
    BY <1>5, <1>6, <1>7, <1>8
  <2>2. Pending \subseteq 1 .. Len(sessions)
    BY <1>5 DEF Pending
  <2> QED BY <1>9, <2>1, <2>2 DEF Pending
<1>11. \A j \in DOMAIN mSessions' : Good(mSessions'[j])
  BY <1>6, <1>7, <1>8, <1>9
<1>12. PoolBound'
  BY <1>5, <1>8 DEF PoolBound
<1>13. AccountAgrees'
  BY <1>1, <1>5, <1>9, AccountStillAgrees DEF IInv
<1>14. PoolTypeOK'
  <2>1. mQueueRunning' \in BOOLEAN
    BY <1>13 DEF AccountAgrees, AnyRunning
  <2> QED BY <1>1, <1>8, <2>1 DEF IInv, PoolTypeOK
<1>15. PartsCounted'
  BY <1>1, <1>4, <1>5, <1>8, <1>10 DEF IInv, PartsCounted, PoolTypeOK, QueueFacts
<1> QED BY <1>11, <1>12, <1>13, <1>14, <1>15 DEF IInv

LEMMA DisconnectOperationIInv ==
    ASSUME IInv, DisconnectOperation
    PROVE  IInv'
<1>1. /\ mSessions' = mSessions
      /\ multi' = [state |-> "made", operations |-> Len(mSessions), count |-> 0]
      /\ multi.state = "none"
      /\ UNCHANGED <<mQueueRunning, startable, cancels>>
  BY DEF DisconnectOperation
<1>2. Len(mSessions) \in Nat
  BY LenProperties DEF IInv, PoolTypeOK
<1>3. Pending = {} /\ Pending' = Pending /\ Cardinality({}) = 0
  BY <1>1, FS_EmptySet DEF IInv, PartsCounted, Pending
<1>4. PartsCounted'
  BY <1>1, <1>2, <1>3 DEF PartsCounted
<1>5. PoolTypeOK' /\ PoolBound' /\ AccountAgrees'
  BY <1>1, <1>2 DEF IInv, PoolTypeOK, PoolBound, AccountAgrees
<1> QED BY <1>1, <1>4, <1>5 DEF IInv

(* A function on the indexes of a sequence is a sequence of its length. *)
LEMMA IndexedSeq ==
    ASSUME NEW S, NEW n \in Nat, NEW f, f \in [1 .. n -> S]
    PROVE  f \in Seq(S) /\ Len(f) = n /\ DOMAIN f = 1 .. n
<1>1. f \in Seq(S)
  BY DEF Seq
<1>2. DOMAIN f = 1 .. n
  OBVIOUS
<1> QED BY <1>1, <1>2, LenProperties

(* All connections may change at once. *)
LEMMA AllChange ==
    ASSUME IInv, NEW f, f \in [DOMAIN mSessions -> Connection], mSessions' = f,
           \A i \in DOMAIN mSessions : Good(f[i])
    PROVE  /\ mSessions' \in Seq(Connection)
           /\ Len(mSessions') = Len(mSessions)
           /\ DOMAIN mSessions' = DOMAIN mSessions
           /\ DOMAIN mSessions = 1 .. Len(mSessions)
           /\ Len(mSessions) \in Nat
           /\ PoolBound'
           /\ \A j \in DOMAIN mSessions' : Good(mSessions'[j])
<1>1. Len(mSessions) \in Nat /\ DOMAIN mSessions = 1 .. Len(mSessions)
  BY LenProperties DEF IInv, PoolTypeOK
<1>2. f \in Seq(Connection) /\ Len(f) = Len(mSessions) /\ DOMAIN f = 1 .. Len(mSessions)
  BY <1>1, IndexedSeq
<1>3. PoolBound'
  BY <1>2 DEF IInv, PoolBound
<1> QED BY <1>1, <1>2, <1>3

LEMMA StartDisconnectIInv ==
    ASSUME IInv, StartDisconnect
    PROVE  IInv'
<1> DEFINE f == [i \in DOMAIN mSessions |->
                   IF i <= multi.operations THEN RunOperation(mSessions[i], Disconnect)
                                            ELSE mSessions[i]]
<1>1. /\ mSessions' = f
      /\ multi.state = "made"
      /\ multi' = [multi EXCEPT !.state = IF multi.operations = 0 THEN "finished" ELSE "started"]
      /\ OperationRunningStateChanged
      /\ UNCHANGED <<startable, cancels>>
  BY DEF StartDisconnect
<1>2. /\ Pending = {}
      /\ multi.count = 0
      /\ multi.operations \in Nat
      /\ multi.operations <= Len(mSessions)
      /\ multi' \in [state : {"none", "made", "started", "finished"}, operations : Nat, count : Nat]
      /\ multi'.operations = multi.operations
      /\ multi'.count = 0
      /\ multi'.state \in {"started", "finished"}
      /\ multi'.state = "finished" => multi.operations = 0
  BY <1>1 DEF IInv, PartsCounted, PoolTypeOK
<1>3. ASSUME NEW i \in DOMAIN mSessions
      PROVE  /\ Good(f[i])
             /\ HasPart(f[i]) => i <= multi.operations
  <2>1. Good(mSessions[i]) /\ ~ HasPart(mSessions[i])
    BY <1>2 DEF IInv, Pending
  <2>2. Disconnect \in AnyOp
    BY DEF AnyOp
  <2> QED BY <2>1, <2>2, GoodRunOperation
<1>4. f \in [DOMAIN mSessions -> Connection]
  BY <1>3 DEF Good
<1>5. \A i \in DOMAIN mSessions : HasPart(f[i]) => i <= multi.operations
  BY <1>3
<1>6. \A i \in DOMAIN mSessions : Good(f[i])
  BY <1>3
<1> HIDE DEF f
<1>7. /\ mSessions' \in Seq(Connection)
      /\ Len(mSessions') = Len(mSessions)
      /\ DOMAIN mSessions' = DOMAIN mSessions
      /\ DOMAIN mSessions = 1 .. Len(mSessions)
      /\ Len(mSessions) \in Nat
      /\ PoolBound'
      /\ \A j \in DOMAIN mSessions' : Good(mSessions'[j])
  BY <1>1, <1>4, <1>6, AllChange
<1>8. AccountAgrees'
  BY <1>1, <1>7, AccountStillAgrees DEF IInv
<1>9. PoolTypeOK'
  <2>1. mQueueRunning' \in BOOLEAN
    BY <1>8 DEF AccountAgrees, AnyRunning
  <2> QED BY <1>1, <1>2, <1>7, <2>1 DEF IInv, PoolTypeOK
<1>10. PartsCounted'
  <2>1. Pending' \subseteq 1 .. multi.operations
    <3>1. \A i \in 1 .. Len(mSessions) : HasPart(mSessions'[i]) => i <= multi.operations
      BY <1>1, <1>5, <1>7
    <3>2. \A i \in 1 .. Len(mSessions) : i <= multi.operations => i \in 1 .. multi.operations
      BY <1>2, <1>7
    <3> QED BY <1>7, <3>1, <3>2 DEF Pending
  <2>2. IsFiniteSet(1 .. multi.operations) /\ Cardinality(1 .. multi.operations) = multi.operations
    <3>1. multi.operations \in Nat
      BY <1>2
    <3> DEFINE n == multi.operations
    <3>2. n \in Int /\ 1 \in Int /\ (IF 1 > n THEN 0 ELSE n - 1 + 1) = n
      BY <3>1
    <3> HIDE DEF n
    <3>3. IsFiniteSet(1 .. n) /\ Cardinality(1 .. n) = n
      BY <3>2, FS_Interval
    <3> QED BY <3>3 DEF n
  <2>3. Cardinality(Pending') \in Nat /\ Cardinality(Pending') <= multi.operations
    <3>1. IsFiniteSet(Pending') /\ Cardinality(Pending') <= Cardinality(1 .. multi.operations)
      BY <2>1, <2>2, FS_Subset
    <3> QED BY <2>2, <3>1, FS_CardinalityType
  <2> QED BY <1>2, <1>7, <2>3 DEF PartsCounted
<1> QED BY <1>7, <1>8, <1>9, <1>10 DEF IInv

LEMMA CancelAllOperationsIInv ==
    ASSUME IInv, CancelAllOperations
    PROVE  IInv'
<1> DEFINE f == [i \in DOMAIN mSessions |-> [mSessions[i] EXCEPT !.queue = Cancelled(@)]]
<1>1. /\ mSessions' = f
      /\ UNCHANGED <<mQueueRunning, startable, multi>>
      /\ cancels' \in 0 .. MaxCancels
  BY PoolAssumption DEF CancelAllOperations, IInv, PoolTypeOK
<1>2. ASSUME NEW i \in DOMAIN mSessions
      PROVE  /\ Good(f[i])
             /\ HasPart(f[i]) <=> HasPart(mSessions[i])
             /\ f[i].isQueueRunning = mSessions[i].isQueueRunning
  <2> DEFINE c == mSessions[i]
             q == Cancelled(c.queue)
             d == [c EXCEPT !.queue = q]
  <2>1. Good(c) /\ f[i] = d
    BY DEF IInv
  <2>2. c.queue \in Seq(Operation) /\ c \in Connection
    BY <2>1 DEF Good, Connection
  <2>3. DOMAIN c.queue = 1 .. Len(c.queue) /\ Len(c.queue) \in Nat
        /\ \A k \in DOMAIN c.queue : c.queue[k] \in Operation
    BY <2>2, LenProperties, ElementOfSeq
  <2>4. q \in [1 .. Len(c.queue) -> Operation]
        /\ \A k \in DOMAIN c.queue : q[k].op = c.queue[k].op
    BY <2>3 DEF Cancelled, Operation
  <2>5. q \in Seq(Operation) /\ DOMAIN q = DOMAIN c.queue /\ (c.queue # <<>> => q # <<>>)
    <3>1. q \in Seq(Operation) /\ DOMAIN q = DOMAIN c.queue /\ Len(q) = Len(c.queue)
      BY <2>3, <2>4, IndexedSeq
    <3> HIDE DEF q
    <3> QED BY <2>2, <3>1, EmptySeq
  <2> HIDE DEF q
  <2>6. d \in Connection /\ d.queue = q /\ d.current = c.current /\ d.thread = c.thread
        /\ d.isQueueRunning = c.isQueueRunning
    BY <2>2, <2>5 DEF Connection
  <2> HIDE DEF c, d, f
  <2>7. InQueue(d) <=> InQueue(c)
    BY <2>4, <2>5, <2>6 DEF InQueue
  <2>8. OnePart(d)
    BY <2>1, <2>4, <2>5, <2>6, <2>7 DEF OnePart, Good
  <2> USE DEF c
  <2> QED BY <2>1, <2>5, <2>6, <2>7, <2>8 DEF Good, HasPart
<1>3. f \in [DOMAIN mSessions -> Connection] /\ \A i \in DOMAIN mSessions : Good(f[i])
  BY <1>2 DEF Good
<1>4. /\ \A i \in DOMAIN mSessions : HasPart(f[i]) <=> HasPart(mSessions[i])
      /\ \A i \in DOMAIN mSessions : f[i].isQueueRunning = mSessions[i].isQueueRunning
  BY <1>2
<1> HIDE DEF f
<1>5. /\ mSessions' \in Seq(Connection)
      /\ Len(mSessions') = Len(mSessions)
      /\ DOMAIN mSessions' = DOMAIN mSessions
      /\ PoolBound'
      /\ \A j \in DOMAIN mSessions' : Good(mSessions'[j])
  BY <1>1, <1>3, AllChange
<1>6. Pending' = Pending
  BY <1>1, <1>4, <1>5 DEF Pending
<1>7. AccountAgrees'
  BY <1>1, <1>4, <1>5 DEF IInv, AccountAgrees, AnyRunning
<1>8. PoolTypeOK' /\ PartsCounted'
  BY <1>1, <1>5, <1>6 DEF IInv, PoolTypeOK, PartsCounted
<1> QED BY <1>5, <1>7, <1>8 DEF IInv

(* A step of one connection that leaves the disconnection as it is, and     *)
(* either keeps the running marks or has the account look at them again.    *)
LEMMA ConnectionStepIInv ==
    ASSUME IInv, NEW i \in DOMAIN mSessions, NEW c, Good(c),
           HasPart(c) => HasPart(mSessions[i]),
           mSessions' = [mSessions EXCEPT ![i] = c],
           UNCHANGED <<startable, multi, cancels>>,
           \/ OperationRunningStateChanged
           \/ c.isQueueRunning = mSessions[i].isQueueRunning /\ mQueueRunning' = mQueueRunning
    PROVE  IInv'
<1>1. /\ mSessions' \in Seq(Connection)
      /\ Len(mSessions') = Len(mSessions)
      /\ DOMAIN mSessions' = DOMAIN mSessions
      /\ PoolBound'
      /\ \A j \in DOMAIN mSessions' : Good(mSessions'[j])
      /\ mSessions'[i] = c
      /\ Pending' = Pending \/ Pending' = Pending \ {i}
  BY OneChanges
<1>2. PartsCounted'
  BY <1>1, CountKept
<1>3. AccountAgrees'
  <2>1. CASE OperationRunningStateChanged
    BY <1>1, <2>1, AccountStillAgrees DEF IInv
  <2>2. CASE c.isQueueRunning = mSessions[i].isQueueRunning /\ mQueueRunning' = mQueueRunning
    <3>1. \A j \in DOMAIN mSessions :
             mSessions'[j].isQueueRunning = mSessions[j].isQueueRunning
      BY <1>1, <2>2
    <3> QED BY <1>1, <2>2, <3>1 DEF IInv, AccountAgrees, AnyRunning
  <2> QED BY <2>1, <2>2
<1>4. PoolTypeOK'
  <2>1. mQueueRunning' \in BOOLEAN
    BY <1>3 DEF AccountAgrees, AnyRunning
  <2> QED BY <1>1, <2>1 DEF IInv, PoolTypeOK
<1> QED BY <1>1, <1>2, <1>3, <1>4 DEF IInv

(* The connection that a step of it leaves behind. *)
LEMMA ThreadChanges ==
    ASSUME NEW c, Good(c), NEW t \in Thread, t # "off", c.thread # "off", c.thread # "after",
           t # "after", t = "main" => c.queue # <<>>
    PROVE  /\ Good([c EXCEPT !.thread = t])
           /\ HasPart([c EXCEPT !.thread = t]) <=> HasPart(c)
           /\ [c EXCEPT !.thread = t].isQueueRunning = c.isQueueRunning
  BY DEF Good, OnePart, HasPart, InQueue, Connection

LEMMA ExecuteIInv ==
    ASSUME IInv, NEW i \in DOMAIN mSessions, Execute(i)
    PROVE  IInv'
<1> DEFINE c == [mSessions[i] EXCEPT !.thread = "main"]
<1>1. Good(mSessions[i])
  BY DEF IInv
<1>2. /\ mSessions' = [mSessions EXCEPT ![i] = c]
      /\ mSessions[i].thread = "ready"
      /\ mSessions[i].queue # <<>>
      /\ UNCHANGED <<mQueueRunning, startable, multi, cancels>>
  BY DEF Execute
<1>3. /\ Good(c)
      /\ HasPart(c) <=> HasPart(mSessions[i])
      /\ c.isQueueRunning = mSessions[i].isQueueRunning
  BY <1>1, <1>2, ThreadChanges DEF Thread
<1> HIDE DEF c
<1> QED BY <1>2, <1>3, ConnectionStepIInv

LEMMA StopThreadIInv ==
    ASSUME IInv, NEW i \in DOMAIN mSessions, StopThread(i)
    PROVE  IInv'
<1> DEFINE c == [mSessions[i] EXCEPT !.thread = "stopping"]
<1>1. Good(mSessions[i])
  BY DEF IInv
<1>2. /\ mSessions' = [mSessions EXCEPT ![i] = c]
      /\ mSessions[i].thread = "ready"
      /\ UNCHANGED <<mQueueRunning, startable, multi, cancels>>
  BY DEF StopThread
<1>3. /\ Good(c)
      /\ HasPart(c) <=> HasPart(mSessions[i])
      /\ c.isQueueRunning = mSessions[i].isQueueRunning
  BY <1>1, <1>2, ThreadChanges DEF Thread
<1> HIDE DEF c
<1> QED BY <1>2, <1>3, ConnectionStepIInv

LEMMA SkipIInv ==
    ASSUME IInv, NEW i \in DOMAIN mSessions, Skip(i)
    PROVE  IInv'
<1> DEFINE c == mSessions[i]
           d == [c EXCEPT !.queue = Tail(@)]
<1>1. Good(c) /\ c.queue # <<>> /\ c.thread = "ready"
  BY DEF IInv, Skip
<1>2. /\ mSessions' = [mSessions EXCEPT ![i] = d]
      /\ UNCHANGED <<mQueueRunning, startable, multi, cancels>>
  BY DEF Skip
<1>3. /\ d \in Connection
      /\ d.queue = Tail(c.queue)
      /\ d.current = c.current
      /\ d.thread = c.thread
      /\ d.isQueueRunning = c.isQueueRunning
  BY <1>1, TailParts DEF Good, Connection
<1> HIDE DEF c, d
<1>4. InQueue(d) => InQueue(c)
  BY <1>1, <1>3, TailParts DEF InQueue
<1>5. OnePart(d)
  <2>1. ASSUME NEW k \in DOMAIN d.queue, NEW l \in DOMAIN d.queue,
               d.queue[k].op = Disconnect, d.queue[l].op = Disconnect
        PROVE  k = l
    <3>1. k + 1 = l + 1 /\ k \in Nat /\ l \in Nat
      BY <1>1, <1>3, <2>1, TailParts DEF Good, OnePart
    <3> QED BY <3>1
  <2> QED BY <1>1, <1>3, <1>4, <2>1 DEF Good, OnePart
<1>6. Good(d) /\ (HasPart(d) => HasPart(c))
  BY <1>1, <1>3, <1>4, <1>5 DEF Good, HasPart
<1> USE DEF c
<1> QED BY <1>2, <1>3, <1>6, ConnectionStepIInv

LEMMA LeaveIInv ==
    ASSUME IInv, NEW i \in DOMAIN mSessions, Leave(i)
    PROVE  IInv'
<1> DEFINE c == mSessions[i]
           op == Head(c.queue)
<1>1. Good(c) /\ c.queue # <<>> /\ c.thread = "main"
  BY DEF IInv, Leave, Good
<1>2. PICK connected \in ConnectedAfter(op.op) :
         mSessions' = [mSessions EXCEPT ![i] =
             [c EXCEPT !.queue = Tail(@), !.connected = connected,
                       !.current = IF op.cancelled THEN NoOperation ELSE op.op,
                       !.thread = IF op.cancelled THEN "ready" ELSE "after"]]
  BY DEF Leave
<1> DEFINE d == [c EXCEPT !.queue = Tail(@), !.connected = connected,
                          !.current = IF op.cancelled THEN NoOperation ELSE op.op,
                          !.thread = IF op.cancelled THEN "ready" ELSE "after"]
<1>3. /\ mSessions' = [mSessions EXCEPT ![i] = d]
      /\ UNCHANGED <<mQueueRunning, startable, multi, cancels>>
  BY <1>2 DEF Leave
<1>4. connected \in BOOLEAN
  BY DEF ConnectedAfter
<1>5. op \in Operation
  BY <1>1, TailParts
<1>6. /\ d \in Connection
      /\ d.queue = Tail(c.queue)
      /\ d.current = IF op.cancelled THEN NoOperation ELSE op.op
      /\ d.thread = IF op.cancelled THEN "ready" ELSE "after"
      /\ d.isQueueRunning = c.isQueueRunning
  BY <1>1, <1>4, <1>5, TailParts DEF Good, Connection, Operation, Thread
<1>7. op = c.queue[1] /\ 1 \in DOMAIN c.queue
  BY <1>1, QueueLemma DEF Good, Connection, QueueFacts
<1> HIDE DEF d
<1>8. InQueue(d) => InQueue(c)
  BY <1>1, <1>6, TailParts DEF InQueue
<1>9. d.current = Disconnect => InQueue(c) /\ ~ InQueue(d)
  <2>1. NoOperation # Disconnect
    BY DEF NoOperation, Disconnect
  <2>2. op.op = Disconnect => ~ InQueue(d)
    BY <1>1, <1>6, TailParts DEF InQueue
  <2> QED BY <1>6, <1>7, <2>1, <2>2 DEF InQueue
<1>10. OnePart(d)
  <2>1. ASSUME NEW k \in DOMAIN d.queue, NEW l \in DOMAIN d.queue,
               d.queue[k].op = Disconnect, d.queue[l].op = Disconnect
        PROVE  k = l
    <3>1. k + 1 = l + 1 /\ k \in Nat /\ l \in Nat
      BY <1>1, <1>6, <2>1, TailParts DEF Good, OnePart
    <3> QED BY <3>1
  <2>2. d.thread # "after" => d.current = NoOperation
    BY <1>6
  <2> HIDE DEF c, op
  <2> QED BY <1>9, <2>1, <2>2 DEF OnePart
<1> HIDE DEF op
<1>11. Good(d) /\ (HasPart(d) => HasPart(c))
  BY <1>1, <1>6, <1>8, <1>9, <1>10 DEF Good, HasPart
<1> QED BY <1>3, <1>6, <1>11, ConnectionStepIInv

LEMMA StoppedIInv ==
    ASSUME IInv, NEW i \in DOMAIN mSessions, Stopped(i)
    PROVE  IInv'
<1> DEFINE c == QueueStoppedRunning(mSessions[i])
           d == IF c.queue = <<>> THEN c ELSE StartThread(c)
<1>1. Good(mSessions[i]) /\ mSessions[i].thread = "stopping"
  BY DEF IInv, Stopped
<1>2. Good(c) /\ (HasPart(c) <=> HasPart(mSessions[i]))
  BY <1>1 DEF QueueStoppedRunning, Good, OnePart, HasPart, InQueue, Connection, Thread
<1>3. /\ mSessions' = [mSessions EXCEPT ![i] = d]
      /\ OperationRunningStateChanged
      /\ UNCHANGED <<startable, multi, cancels>>
  BY DEF Stopped
<1> HIDE DEF c
<1>4. Good(d) /\ (HasPart(d) <=> HasPart(mSessions[i]))
  BY <1>2, GoodStartThread
<1> HIDE DEF d
<1> QED BY <1>3, <1>4, ConnectionStepIInv

LEMMA AutomaticDisconnectIInv ==
    ASSUME IInv, NEW i \in DOMAIN mSessions, TryAutomaticDisconnectAfterDelay(i)
    PROVE  IInv'
<1> DEFINE d == RunOperation(mSessions[i], AutoDisconnect)
<1>1. Good(mSessions[i]) /\ AutoDisconnect \in AnyOp /\ AutoDisconnect # Disconnect
  BY DEF IInv, AnyOp, AutoDisconnect, Disconnect
<1>2. /\ mSessions' = [mSessions EXCEPT ![i] = d]
      /\ OperationRunningStateChanged
      /\ UNCHANGED <<startable, multi, cancels>>
  BY DEF TryAutomaticDisconnectAfterDelay
<1>3. Good(d) /\ (HasPart(d) <=> HasPart(mSessions[i]))
  BY <1>1, GoodRunOperation
<1> HIDE DEF d
<1> QED BY <1>2, <1>3, ConnectionStepIInv

(* The only step that counts an answer: a part less is pending. *)
LEMMA CallBackIInv ==
    ASSUME IInv, NEW i \in DOMAIN mSessions, CallBack(i)
    PROVE  IInv'
<1> DEFINE c == mSessions[i]
           d == [c EXCEPT !.thread = "ready", !.current = NoOperation]
<1>1. Good(c) /\ c.thread = "after"
  BY DEF IInv, CallBack
<1>2. /\ mSessions' = [mSessions EXCEPT ![i] = d]
      /\ UNCHANGED <<mQueueRunning, startable, cancels>>
      /\ c.current = Disconnect => OperationFinished
      /\ c.current # Disconnect => UNCHANGED multi
  <2>1. mSessions \in [DOMAIN mSessions -> Connection]
    BY LenProperties DEF IInv, PoolTypeOK
  <2> QED BY <2>1 DEF CallBack
<1>3. /\ Good(d)
      /\ d.isQueueRunning = c.isQueueRunning
      /\ HasPart(d) <=> InQueue(c)
  <2>1. d \in Connection /\ d.queue = c.queue /\ d.thread = "ready" /\ d.current = NoOperation
        /\ d.isQueueRunning = c.isQueueRunning
    BY <1>1 DEF Good, Connection, Thread
  <2>2. NoOperation # Disconnect
    BY DEF NoOperation, Disconnect
  <2> HIDE DEF d, c
  <2>3. InQueue(d) <=> InQueue(c)
    BY <2>1 DEF InQueue
  <2> QED BY <1>1, <2>1, <2>2, <2>3 DEF Good, OnePart, HasPart
<1>4. CASE c.current # Disconnect
  <2> HIDE DEF d
  <2> QED BY <1>2, <1>3, <1>4, ConnectionStepIInv DEF HasPart
<1>5. CASE c.current = Disconnect
  <2>1. ~ HasPart(d) /\ HasPart(c)
    BY <1>1, <1>3, <1>5 DEF Good, OnePart, HasPart
  <2> HIDE DEF d
  <2>2. /\ mSessions' \in Seq(Connection)
        /\ Len(mSessions') = Len(mSessions)
        /\ DOMAIN mSessions' = DOMAIN mSessions
        /\ PoolBound'
        /\ \A j \in DOMAIN mSessions' : Good(mSessions'[j])
        /\ mSessions'[i] = d
        /\ Pending' = Pending \ {i}
    BY <1>2, <1>3, <2>1, OneChanges
  <2>3. i \in Pending /\ IsFiniteSet(Pending) /\ Cardinality(Pending) \in Nat
    BY <2>1, PendingFinite DEF IInv, Pending
  <2>4. Cardinality(Pending') = Cardinality(Pending) - 1 /\ Cardinality(Pending') \in Nat
    BY <2>2, <2>3, FS_RemoveElement, FS_CardinalityType
  <2>5. /\ multi.count \in Nat
        /\ multi.operations \in Nat
        /\ multi.state = "started"
        /\ multi.count + Cardinality(Pending) <= multi.operations
        /\ multi.operations <= Len(mSessions)
    BY <2>3, <2>4 DEF IInv, PartsCounted, PoolTypeOK
  <2>6. multi' = [multi EXCEPT !.count = @ + 1,
                               !.state = IF multi.count + 1 = multi.operations
                                         THEN "finished" ELSE @]
    BY <1>2, <1>5 DEF OperationFinished
  <2>7. /\ multi' \in [state : {"none", "made", "started", "finished"},
                        operations : Nat, count : Nat]
        /\ multi'.operations = multi.operations
        /\ multi'.count = multi.count + 1
        /\ multi'.state \in {"started", "finished"}
        /\ multi'.state = "finished" => multi.count + 1 = multi.operations
    <3>1. multi \in [state : {"none", "made", "started", "finished"},
                     operations : Nat, count : Nat]
      BY DEF IInv, PoolTypeOK
    <3> DEFINE n == multi.count + 1
               t == IF n = multi.operations THEN "finished" ELSE "started"
    <3>2. n \in Nat /\ t \in {"started", "finished"}
      BY <2>5
    <3>3. multi' = [multi EXCEPT !.count = n, !.state = t]
      BY <2>5, <2>6
    <3>4. t = "finished" => n = multi.operations
      OBVIOUS
    <3> HIDE DEF n, t
    <3>5. /\ multi' \in [state : {"none", "made", "started", "finished"},
                          operations : Nat, count : Nat]
          /\ multi'.operations = multi.operations
          /\ multi'.count = n
          /\ multi'.state = t
      BY <3>1, <3>2, <3>3
    <3> USE DEF n
    <3> QED BY <3>2, <3>4, <3>5
  <2>a. /\ multi.count + 1 + Cardinality(Pending') <= multi.operations
        /\ multi.count + 1 <= multi.operations
        /\ multi.count + 1 \in Nat
    BY <2>3, <2>4, <2>5
  <2>8. PartsCounted'
    BY <2>2, <2>4, <2>5, <2>7, <2>a DEF PartsCounted
  <2>9. PoolTypeOK'
    BY <1>2, <2>2, <2>7, <2>a DEF IInv, PoolTypeOK
  <2>10. AccountAgrees'
    <3>1. \A j \in DOMAIN mSessions :
             mSessions'[j].isQueueRunning = mSessions[j].isQueueRunning
      <4>1. \A j \in DOMAIN mSessions : j # i => mSessions'[j] = mSessions[j]
        BY <1>2
      <4> QED BY <1>3, <2>2, <4>1
    <3> QED BY <1>2, <2>2, <3>1 DEF IInv, AccountAgrees, AnyRunning
  <2> QED BY <2>2, <2>8, <2>9, <2>10 DEF IInv
<1> QED BY <1>4, <1>5

LEMMA NextIInv == IInv /\ [Next]_vars => IInv'
<1> SUFFICES ASSUME IInv, [Next]_vars PROVE IInv'
  OBVIOUS
<1>1. ASSUME NEW r \in Requests, Start(r) PROVE IInv'
  BY <1>1, StartIInv
<1>2. CASE DisconnectOperation
  BY <1>2, DisconnectOperationIInv
<1>3. CASE StartDisconnect
  BY <1>3, StartDisconnectIInv
<1>4. CASE CancelAllOperations
  BY <1>4, CancelAllOperationsIInv
<1>5. ASSUME NEW i \in DOMAIN mSessions, Work(i) PROVE IInv'
  BY <1>5, ExecuteIInv, SkipIInv, LeaveIInv, CallBackIInv, StopThreadIInv, StoppedIInv,
     AutomaticDisconnectIInv DEF Work
<1>6. CASE UNCHANGED vars
  BY <1>6 DEF vars, IInv, PoolTypeOK, PoolBound, AccountAgrees, PartsCounted, Pending
<1> QED BY <1>1, <1>2, <1>3, <1>4, <1>5, <1>6 DEF Next

(* The inductive invariant holds in every behaviour. *)
THEOREM PoolInvariance == Spec => []IInv
  BY InitIInv, NextIInv, PTL DEF Spec

(* Connections, their queues and the disconnection are what the code takes  *)
(* them for; no more answers are counted than parts were made.              *)
THEOREM PoolTypeCorrectness == Spec => []PoolTypeOK
<1>1. IInv => PoolTypeOK
  BY DEF IInv
<1> QED BY <1>1, PoolInvariance, PTL

(* For every limit and all operations, maximumConnections is respected.     *)
THEOREM LimitRespected == Spec => []PoolBound
<1>1. IInv => PoolBound
  BY DEF IInv
<1> QED BY <1>1, PoolInvariance, PTL

(* isOperationQueueRunning is true exactly while a connection has a thread. *)
THEOREM RunningStateTrue == Spec => []RunningStateAgrees
<1>1. IInv => RunningStateAgrees
  BY DEF IInv, Good, AccountAgrees, AnyRunning, RunningStateAgrees
<1> QED BY <1>1, PoolInvariance, PTL

(* A disconnection that was reported has no part left in a queue.           *)
THEOREM DisconnectionComplete == Spec => []FinishedMeansDisconnected
<1>1. IInv => FinishedMeansDisconnected
  <2> SUFFICES ASSUME IInv, multi.state = "finished",
                      NEW i \in DOMAIN mSessions, NEW k \in DOMAIN mSessions[i].queue
               PROVE  mSessions[i].queue[k].op # Disconnect
    BY DEF FinishedMeansDisconnected
  <2>1. IsFiniteSet(Pending) /\ Cardinality(Pending) \in Nat
    BY PendingFinite DEF IInv
  <2>2. Cardinality(Pending) = 0
    BY <2>1 DEF IInv, PartsCounted, PoolTypeOK
  <2>3. Pending = {}
    BY <2>1, <2>2, FS_EmptySet
  <2> QED BY <2>3 DEF Pending, HasPart, InQueue
<1> QED BY <1>1, PoolInvariance, PTL
=============================================================================
