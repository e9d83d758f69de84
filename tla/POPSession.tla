----------------------------- MODULE POPSession -----------------------------
(***************************************************************************)
(* A POP account: the session (core/pop/MCPOPSession.cpp), the operations   *)
(* that call it one after the other (async/pop/MCPOP*Operation.cpp), and    *)
(* the maildrop at the server.                                              *)
(*                                                                         *)
(* A function of the session is an operator from a session to the set of    *)
(* its outcomes; an action performs one operation.  The server numbers the  *)
(* messages at the login, and removes the marked ones when it gets QUIT.    *)
(***************************************************************************)
EXTENDS Integers, Sequences, SequencesExt

CONSTANTS
    Uids,           \* messages
    FirstMail       \* the maildrop at the beginning

VARIABLES
    session,
    known,          \* the uids by index, as the user listed them last
    result          \* the error the last operation reported

vars == <<session, known, result>>

Errors == {"Connection", "Other"}

Session ==
    [state : {"DISCONNECTED", "CONNECTED", "LOGGEDIN", "LISTED"},
     pop : {"NULL", "up", "down"},                  \* mPop and its stream
     peer : {"nobody", "greeted", "transaction"},   \* the server's side
     numbered : Seq(Uids),                          \* its numbers of the messages
     marked : SUBSET Uids,
     maildrop : Seq(Uids)]

-----------------------------------------------------------------------------
(* Outcomes *)

Out(s, e) == [s |-> s, err |-> e]

\* "if (* pError != ErrorNone) return".
Then(outs, Op(_)) == UNION {IF o.err = "None" THEN Op(o.s) ELSE {o} : o \in outs}

Lost(s) == [s EXCEPT !.pop = "down", !.peer = "nobody", !.marked = {}]

\* One command.  A server that is not ready for it refuses.
Command(s, ready, done) ==
    CASE s.pop = "NULL" -> {Out(s, "NullPop")}
      [] s.pop = "down" -> {Out(s, "Connection")}
      [] s.pop = "up" -> {Out(Lost(s), "Connection"), Out(s, "Other")}
                            \cup (IF ready THEN {Out(done, "None")} ELSE {})

(* A failure leaves the state, and an mPop that the next call forgets.      *)
Connect(s) ==
    LET up == [s EXCEPT !.pop = "up", !.peer = "greeted"]
    IN  {Out([s EXCEPT !.pop = "down", !.peer = "nobody"], "Connection"),
         Out(up, "Other"),                          \* StartTLS or certificate
         Out([up EXCEPT !.state = "CONNECTED"], "None")}

ConnectIfNeeded(s) == IF s.state = "DISCONNECTED" THEN Connect(s) ELSE {Out(s, "None")}

Login(s) ==
    Command(s, s.peer = "greeted",
            [s EXCEPT !.state = "LOGGEDIN", !.peer = "transaction", !.numbered = s.maildrop])

LoginIfNeeded(s) ==
    Then(ConnectIfNeeded(s), LAMBDA t : IF t.state = "CONNECTED" THEN Login(t) ELSE {Out(t, "None")})

InTransaction(s) == s.peer = "transaction"

FetchMessages(s) ==
    Then(LoginIfNeeded(s),
         LAMBDA t : Command(t, InTransaction(t), [t EXCEPT !.state = "LISTED"]))

ListIfNeeded(s) == IF s.state = "LISTED" THEN {Out(s, "None")} ELSE FetchMessages(s)

Has(s, i) == InTransaction(s) /\ i \in DOMAIN s.numbered /\ s.numbered[i] \notin s.marked

\* fetchHeader and fetchMessage.
FetchMessage(s, i) == Then(ListIfNeeded(s), LAMBDA t : Command(t, Has(t, i), t))

DeleteMessage(s, i) ==
    Then(ListIfNeeded(s),
         LAMBDA t : Command(t, Has(t, i),
                            IF i \in DOMAIN t.numbered
                            THEN [t EXCEPT !.marked = @ \cup {t.numbered[i]}] ELSE t))

Committed(s) ==
    LET kept[i \in 0..Len(s.maildrop)] ==
            IF i = 0 THEN <<>>
            ELSE IF s.maildrop[i] \in s.marked THEN kept[i - 1]
            ELSE Append(kept[i - 1], s.maildrop[i])
    IN  kept[Len(s.maildrop)]

Gone(s) == [s EXCEPT !.state = "DISCONNECTED", !.pop = "NULL", !.peer = "nobody",
                     !.numbered = <<>>, !.marked = {}]

(* QUIT, whose result is not looked at: the server may not have got it.     *)
Disconnect(s) ==
    IF s.pop = "NULL" THEN {s}
    ELSE {Gone(s)} \cup (IF s.pop = "up" THEN {[Gone(s) EXCEPT !.maildrop = Committed(s)]} ELSE {})

\* The loop over an index set, in its order, up to the first error.
MarkEach(s, indexes, last) ==
    LET after[i \in 0..last] ==
            IF i = 0 THEN {Out(s, "None")}
            ELSE IF i \in indexes THEN Then(after[i - 1], LAMBDA t : DeleteMessage(t, i))
            ELSE after[i - 1]
    IN  after[last]

\* Mutant: the session stays connected after an error.
DeleteMessagesLeaves(s, indexes, last) ==
    UNION {IF o.err = "None" THEN {Out(t, o.err) : t \in Disconnect(o.s)} ELSE {o} :
              o \in MarkEach(s, indexes, last)}

(* The marks, and then QUIT: those before an error are deleted.             *)
DeleteMessages(s, indexes, last) ==
    UNION {{Out(t, o.err) : t \in Disconnect(o.s)} : o \in MarkEach(s, indexes, last)}

(* Without mPop the error is not set: the caller's is uninitialised.  A     *)
(* refusal is not an error.                                                 *)
Noop(s) ==
    IF s.pop = "NULL" THEN {Out(s, e) : e \in Errors \cup {"None"}}
    ELSE Then(LoginIfNeeded(s),
              LAMBDA t : {IF o.err = "Other" THEN Out(o.s, "None") ELSE o :
                            o \in Command(t, InTransaction(t), t)})

-----------------------------------------------------------------------------
(* Operations *)

Init ==
    /\ session = [state |-> "DISCONNECTED", pop |-> "NULL", peer |-> "nobody",
                  numbered |-> <<>>, marked |-> {}, maildrop |-> FirstMail]
    /\ known = <<>>
    /\ result = "None"

Perform(outs) == \E o \in outs : session' = o.s /\ result' = o.err

FetchMessagesOperation ==
    /\ Perform(FetchMessages(session))
    /\ known' = IF result' = "None" THEN session'.numbered ELSE known

FetchMessageOperation(i) == Perform(FetchMessage(session, i)) /\ UNCHANGED known

(* An empty index set only disconnects.                                     *)
DeleteMessagesOperation(indexes) ==
    Perform(DeleteMessages(session, indexes, Len(known))) /\ UNCHANGED known

CheckAccountOperation == Perform(LoginIfNeeded(session)) /\ UNCHANGED known

NoopOperation == Perform(Noop(session)) /\ UNCHANGED known

(* Mail arrives at the end of the maildrop; a session keeps its numbers.    *)
NewMail ==
    /\ \E uid \in Uids \ (ToSet(FirstMail) \cup ToSet(session.maildrop)) :
          session' = [session EXCEPT !.maildrop = Append(@, uid)]
    /\ UNCHANGED <<known, result>>

(* The server closes the connection.                                        *)
ConnectionLost ==
    /\ session.pop = "up"
    /\ session' = Lost(session)
    /\ UNCHANGED <<known, result>>

Next ==
    \/ FetchMessagesOperation \/ CheckAccountOperation \/ NoopOperation
    \/ \E i \in DOMAIN known : FetchMessageOperation(i)
    \/ \E indexes \in SUBSET DOMAIN known : DeleteMessagesOperation(indexes)
    \/ NewMail \/ ConnectionLost

Spec == Init /\ [][Next]_vars

-----------------------------------------------------------------------------
(* Properties. *)

(* A session that takes itself for connected has an mPop to use, whatever   *)
(* operations came before.                                                  *)
NeverWithoutPop == session.state # "DISCONNECTED" => session.pop # "NULL"

(* While the stream is up the session and the server are in the same state, *)
(* whatever failed before.                                                  *)
StateAgreesWithServer ==
    session.pop = "up" =>
        (session.peer = "transaction" <=> session.state \in {"LOGGEDIN", "LISTED"})

(* Between two operations no message is marked: a deletion is committed or  *)
(* given up before anything else runs.                                      *)
NoDeletionPending == session.marked = {}

(* What the session believes is so, whatever failed before.                 *)
BeliefTrue == NeverWithoutPop /\ StateAgreesWithServer /\ NoDeletionPending
=============================================================================
