---------------------------- MODULE IMAPSession ----------------------------
(***************************************************************************)
(* One connection to an IMAP server as IMAPSession drives it               *)
(* (core/imap/MCIMAPSession.cpp), called by the operations of the          *)
(* connection's queue one after the other (async/imap/MCIMAP*Operation).   *)
(*                                                                         *)
(* A function of the session is an operator from a session to the set of   *)
(* its outcomes: the session it leaves behind and the error it reports.    *)
(* The server's answers, and a network that fails at any exchange, are     *)
(* what makes an outcome a set.  An action performs one operation.         *)
(* mAutomaticConfigurationEnabled is true, as init() leaves it.            *)
(***************************************************************************)
EXTENDS Integers, FiniteSets

CONSTANTS
    Folders,      \* names of folders
    NoFolder,     \* mCurrentFolder is NULL
    INBOX,        \* the folder selected before folders are managed
    Fold,         \* Fold[f]: what caseInsensitiveCompare compares
    Offers,       \* what a server may announce: its extensions and "PREAUTH"
    MaxRelogins   \* logins nested in a login that are followed

Extensions == {"IDLE", "ID", "NAMESPACE", "COMPRESS", "CONDSTORE"}
States == {"DISCONNECTED", "CONNECTED", "LOGGEDIN", "SELECTED"}
Announced == Extensions \cup {"PREAUTH"}
Faults == {"AssertFailed", "NullImap", "NullNamespace"}
Errors == {"None", "Connection", "Parse", "Other"}

VARIABLES
    session,      \* the session and the server at the other end
    last          \* the last operation, the folder it obtained its result from, its error

vars == <<session, last>>

Session ==
    [state : States,
     stream : {"none", "up", "down"},  \* mImap and its stream
     closing : BOOLEAN,                \* mShouldDisconnect
     folder : Folders \cup {NoFolder}, \* mCurrentFolder
     caps : SUBSET Extensions,         \* mIdleEnabled, mIdentityEnabled...
     namespace : BOOLEAN,              \* mDefaultNamespace is known
     delimiter : BOOLEAN,              \* mDelimiter is known
     configured : BOOLEAN,             \* a login was completed
     mbox : BOOLEAN,                   \* mNeedsMboxMailWorkaround
     peer : {"nobody", "greeted", "preauthenticated", "authenticated"} \cup Folders, \* the server's side
     offers : SUBSET Announced]

-----------------------------------------------------------------------------
(* Outcomes *)

Out(s, e) == [s |-> s, err |-> e, got |-> e = "None"]
Stop(s, fault) == {Out(s, fault)}

\* "if (* pError != ErrorNone) return": only success goes on.
Then(outs, Op(_)) ==
    UNION {IF o.err = "None" THEN Op(o.s) ELSE {o} : o \in outs}

\* An error that the caller does not look at.
Ignored(outs) ==
    {IF o.err \in Faults THEN o ELSE Out(o.s, "None") : o \in outs}

\* The server has answered a login; or it needs none.
LoginAnswered(s) == s.peer \in {"authenticated"} \cup Folders
Authenticated(s) == LoginAnswered(s) \/ s.peer = "preauthenticated"
Selected(s) == s.peer \in Folders

\* One command and its response.  A server that is not ready for it refuses.
Answer(s, ready) ==
    CASE s.stream = "none" -> Stop(s, "NullImap")
      [] s.stream = "down" -> {Out(s, "Connection")}
      [] OTHER -> {Out([s EXCEPT !.stream = "down"], "Connection"), Out(s, "Parse"), Out(s, "Other")}
                      \cup (IF ready THEN {Out(s, "None")} ELSE {})

\* Mutant: a response that cannot be parsed does not close the connection.
ReportedStreamOnly(outs) ==
    {IF o.err = "Connection" THEN [o EXCEPT !.s.closing = TRUE] ELSE o : o \in outs}

\* Mutant: the next command uses the broken stream again.
ReportedNot(outs) == outs

\* What nearly every function does with MAILIMAP_ERROR_STREAM and _PARSE.
Reported(outs) ==
    {IF o.err \in {"Connection", "Parse"} THEN [o EXCEPT !.s.closing = TRUE] ELSE o : o \in outs}

Command(s, ready) == Reported(Answer(s, ready))

-----------------------------------------------------------------------------
(* Connecting *)

Unsetup(s) ==
    [s EXCEPT !.stream = "none", !.state = "DISCONNECTED", !.caps = @ \ {"IDLE"}, !.peer = "nobody"]

ApplyCapabilities(s) == [s EXCEPT !.caps = @ \cup (s.offers \cap Extensions)]

\* The body of capability(), after connectIfNeeded.
AskCapability(s) == Then(Command(s, TRUE), LAMBDA t : {Out(ApplyCapabilities(t), "None")})

\* A server that greets with PREAUTH is one that is greeted: hasError() takes
\* the two greetings for the same, and the session is connected, no more.
Greeting(s) == IF "PREAUTH" \in s.offers THEN "preauthenticated" ELSE "greeted"
Greeted(s) == [s EXCEPT !.stream = "up", !.state = "CONNECTED", !.peer = Greeting(s)]

\* Mutant: a failed connect() returns without going to close.
ConnectWithoutClose(s) ==
    IF s.stream # "none" \/ s.state # "DISCONNECTED"
    THEN Stop(s, "AssertFailed")
    ELSE {Out([s EXCEPT !.stream = "down"], "Connection"), Out(ApplyCapabilities(Greeted(s)), "None")}

Connect(s) ==
    LET closed(o) == IF o.err \in {"None"} \cup Faults THEN o ELSE [o EXCEPT !.s = Unsetup(o.s)]
    IN  IF s.stream # "none" \/ s.state # "DISCONNECTED"
        THEN Stop(s, "AssertFailed")
        ELSE {Out(Unsetup(s), e) : e \in {"Connection", "Other"}}
             \cup {Out(ApplyCapabilities(Greeted(s)), "None")}
             \cup {closed(o) : o \in AskCapability(Greeted(s))}

ConnectIfNeeded(s) ==
    LET t == IF s.closing THEN [Unsetup(s) EXCEPT !.closing = FALSE] ELSE s
    IN  IF t.state = "DISCONNECTED" THEN Connect(t) ELSE {Out(t, "None")}

Capability(s) == Then(ConnectIfNeeded(s), AskCapability)
Identity(s) == Then(ConnectIfNeeded(s), LAMBDA t : Command(t, TRUE))

-----------------------------------------------------------------------------
(* Logging in *)

\* The authentication itself, which a server that greeted with PREAUTH refuses;
\* a server that is "temporarily unavailable" has the connection closed, any
\* other refusal leaves it up.
Authenticate(s) ==
    {IF o.err = "None"
     THEN [o EXCEPT !.s.state = "LOGGEDIN", !.s.peer = "authenticated"]
     ELSE o : o \in Command(s, s.peer = "greeted")}
    \cup (IF s.stream = "up" THEN {Out([s EXCEPT !.closing = TRUE], "Connection")} ELSE {})

\* The error of enableCompression is logged; that of enableFeature is dropped.
EnableFeatures(s) ==
    LET compressed == IF "COMPRESS" \in s.caps THEN Ignored(Command(s, TRUE)) ELSE {Out(s, "None")}
        enable(t) == IF "CONDSTORE" \in t.caps THEN Ignored(Answer(t, TRUE)) ELSE {Out(t, "None")}
    IN  Then(compressed, enable)

Configured(s) == [s EXCEPT !.namespace = TRUE, !.delimiter = TRUE]

\* Without a namespace the first folder of the list tells the delimiter.  The
\* errors of this list do not set mShouldDisconnect.
ListForDelimiter(s) ==
    Then(Answer(s, Authenticated(s)),
         LAMBDA t : {Out(t, "Other"), Out(Configured(t), "None")})

\* In the following login[t] are the outcomes of login(), called for t.
LoginIfNeeded(s, login) ==
    Then(ConnectIfNeeded(s), LAMBDA t : IF t.state = "CONNECTED" THEN login[t] ELSE {Out(t, "None")})

\* fetchNamespace() logs in if needed, although login() calls it.
FetchNamespace(s, login) ==
    Then(LoginIfNeeded(s, login), LAMBDA t : Command(t, Authenticated(t)))

Capabilities(s) == {Out(ApplyCapabilities(s), "None")} \cup AskCapability(s)

DefaultNamespace(s, login) ==
    IF "NAMESPACE" \in s.caps
    THEN Then(FetchNamespace(s, login), LAMBDA t : {Out(Configured(t), "None")} \cup ListForDelimiter(t))
    ELSE ListForDelimiter(s)

ServerIdentity(s) == IF "ID" \in s.caps THEN Ignored(Identity(s)) ELSE {Out(s, "None")}

LoginOnce(s, login) ==
    IF s.state # "CONNECTED" THEN Stop(s, "AssertFailed")
    ELSE LET features == Then(Then(Authenticate(s), Capabilities), EnableFeatures)
             named == Then(features, LAMBDA t : DefaultNamespace(t, login))
         IN  Then(Then(named, ServerIdentity), LAMBDA t : {Out([t EXCEPT !.configured = TRUE], "None")})

\* Logins[n] has up to n logins in one another; deeper ones are not followed.
Logins[n \in 0..(MaxRelogins + 1)] ==
    [s \in Session |-> IF n = 0 THEN {} ELSE LoginOnce(s, Logins[n - 1])]

Login == Logins[MaxRelogins + 1]
LogIn(s) == LoginIfNeeded(s, Login)

-----------------------------------------------------------------------------
(* Folders *)

Select(s, f) ==
    LET refused(o) == [o EXCEPT !.s.state = "LOGGEDIN", !.s.folder = NoFolder, !.s.peer = "authenticated"]
        selected(o) == [o EXCEPT !.s.state = "SELECTED", !.s.folder = f, !.s.peer = f]
        parse(o) == [o EXCEPT !.s.peer = f]
    IN  IF s.state \notin {"LOGGEDIN", "SELECTED"}
        THEN Stop(s, "AssertFailed")
        ELSE {CASE o.err = "None" -> selected(o)
                [] o.err = "Other" -> refused(o)
                [] o.err = "Parse" -> parse(o)
                [] OTHER -> o : o \in Command(s, Authenticated(s))}

\* Mutant: any selected folder will do.
SelectUnlessSelected(s, f) ==
    Then(LogIn(s), LAMBDA t : IF t.state = "LOGGEDIN" THEN Select(t, f) ELSE {Out(t, "None")})

SelectIfNeeded(s, f) ==
    Then(LogIn(s),
         LAMBDA t : CASE t.state = "SELECTED" -> IF t.folder = NoFolder THEN Stop(t, "AssertFailed")
                                                 ELSE IF Fold[t.folder] = Fold[f] THEN {Out(t, "None")}
                                                 ELSE Select(t, f)
                      [] t.state = "LOGGEDIN" -> Select(t, f)
                      [] OTHER -> {Out(t, "None")})

\* selectIfNeeded and a command that works on the selected folder.
InFolder(s, f) == Then(SelectIfNeeded(s, f), LAMBDA t : Command(t, Selected(t)))

\* selectIfNeeded("INBOX") and a command about another folder.
FromInbox(s) == Then(SelectIfNeeded(s, INBOX), LAMBDA t : Command(t, Authenticated(t)))

-----------------------------------------------------------------------------
(* The operations, as main() of their classes calls them *)

\* getQuota(), after the loginIfNeeded of IMAPQuotaOperation.
Quota(s) == Then(LogIn(s), LAMBDA t : Command(t, Authenticated(t)))

FolderStatus(s) ==
    Then(LogIn(s), LAMBDA t : IF t.state \in {"LOGGEDIN", "SELECTED"}
                              THEN Command(t, Authenticated(t))
                              ELSE Stop(t, "AssertFailed"))

FolderInfo(s, f) == Then(LogIn(s), LAMBDA t : Select(t, f))

\* storedCapabilities() does without the server if it has announced them.
StoredOrAskedCapability(s) ==
    (IF s.stream # "none" THEN {Out(ApplyCapabilities(s), "None")} ELSE {})
    \cup Then(LogIn(s), Capability)

CustomCommand(s) == Then(LogIn(s), LAMBDA t : Command(t, TRUE))

\* Without a connection nothing sets the error that main() declares.  With
\* one, a response that cannot be parsed is no error.
Noop(s) ==
    IF s.stream = "none"
    THEN {Out(s, e) : e \in Errors}
    ELSE Then(LogIn(s), LAMBDA t : {IF o.err = "Parse" THEN Out(o.s, "None") ELSE o : o \in Answer(t, TRUE)})

FetchDelimiterIfNeeded(s) ==
    IF s.delimiter
    THEN {Out(s, "None")}
    ELSE Then(Command(s, Authenticated(s)),
              LAMBDA t : {Out(t, "None"), Out([t EXCEPT !.delimiter = TRUE], "None")})

FetchSubscribedFolders(s) ==
    Then(Then(LogIn(s), FetchDelimiterIfNeeded),
         LAMBDA t : IF t.namespace THEN Command(t, Authenticated(t)) ELSE Stop(t, "NullNamespace"))

\* A list without an INBOX is completed by a second one.
FetchAllFolders(s) ==
    Then(Then(Then(LogIn(s), FetchDelimiterIfNeeded), LAMBDA t : Command(t, Authenticated(t))),
         LAMBDA t : {Out(t, "None")} \cup Command(t, Authenticated(t)))

RenameFolder(s) == FromInbox(s)
DeleteFolder(s) == FromInbox(s)
SubscribeFolder(s) == FromInbox(s)
UnsubscribeFolder(s) == FromInbox(s)
CreateFolder(s) == Then(FromInbox(s), SubscribeFolder)

AppendMessage(s, f) == Then(SelectIfNeeded(s, f), LAMBDA t : Command(t, Authenticated(t)))
Expunge(s, f) == InFolder(s, f)
Search(s, f) == InFolder(s, f)
FetchMessageNumberUIDMapping(s, f) == InFolder(s, f)
FetchMessage(s, f) == InFolder(s, f)
FetchAttachment(s, f) == InFolder(s, f)
FetchAttachmentToFile(s, f) == Then(SelectIfNeeded(s, f), LAMBDA t : InFolder(t, f))

\* A set of messages is sent in batches: none, one, or one after the other.
InBatches(s, f) ==
    LET batch(t) == Command(t, Selected(t))
    IN  Then(SelectIfNeeded(s, f), LAMBDA t : {Out(t, "None")} \cup batch(t) \cup Then(batch(t), batch))

CopyMessages(s, f) == InBatches(s, f)
MoveMessages(s, f) == InBatches(s, f)
StoreFlags(s, f) == InBatches(s, f)
StoreLabels(s, f) == InBatches(s, f)

\* Headers that were asked for and did not come are asked for again in
\* another way; what this second attempt reports is overwritten.
FetchMessages(s, f) ==
    LET fetch(t) == Then(SelectIfNeeded(t, f), LAMBDA u : Command(u, Selected(u)))
        again(t) ==
            {CASE o.err \in Faults -> o
               [] o.err = "None" -> [o EXCEPT !.s.mbox = TRUE]
               [] OTHER -> [o EXCEPT !.err = "None"] : o \in fetch(t)}
    IN  Then(fetch(s), LAMBDA t : {Out(t, "None")} \cup (IF t.mbox THEN {} ELSE again(t)))

\* The session selects the folder, and once more in idle() (line 3555) after
\* the operation was set up, unless it was interrupted or there is no IDLE.
\* Messages newer than the last known one make idling unnecessary.  The wait
\* between IDLE and DONE ends well, or with an error or a cancellation.
Idle(s, f) ==
    LET wait(t) == {Out(t, "None"), Out([t EXCEPT !.closing = TRUE], "Connection")}
        command(t) == Command(t, Selected(t))
        waited(t) == Then(Then(command(t), wait), command)
        idle(t) == Then(SelectIfNeeded(t, f),
                        LAMBDA u : waited(u) \cup Then(InFolder(u, f), LAMBDA v : {Out(v, "None")} \cup waited(v)))
    IN  Then(SelectIfNeeded(s, f),
             LAMBDA t : {Out(t, "None")} \cup (IF "IDLE" \in t.caps THEN idle(t) ELSE {}))

-----------------------------------------------------------------------------
(* The connection, one operation after the other *)

\* A failed assertion or a NULL pointer ends the program.  Only noop, which a
\* property names, is told from the other commands.
Perform(op, f, outs) ==
    /\ last.err \notin Faults
    /\ \E o \in outs : /\ session' = o.s
                       /\ last' = [op |-> op, folder |-> IF o.got THEN f ELSE NoFolder, err |-> o.err]

\* The default namespace may be known from another connection of the account.
Init ==
    /\ \E offers \in Offers, known \in BOOLEAN :
           session = [state |-> "DISCONNECTED", stream |-> "none", closing |-> FALSE, folder |-> NoFolder,
                      caps |-> {}, namespace |-> known, delimiter |-> FALSE, configured |-> FALSE,
                      mbox |-> FALSE, peer |-> "nobody", offers |-> offers]
    /\ last = [op |-> "none", folder |-> NoFolder, err |-> "None"]

Account ==
    \/ Perform("command", NoFolder, ConnectIfNeeded(session))
    \/ Perform("command", NoFolder, LogIn(session))
    \/ Perform("command", NoFolder, {Out(Unsetup(session), "None")})
    \/ Perform("noop", NoFolder, Noop(session))
    \/ Perform("command", NoFolder, Quota(session))
    \/ Perform("command", NoFolder, StoredOrAskedCapability(session))
    \/ Perform("command", NoFolder, Identity(session))
    \/ Perform("command", NoFolder, FetchNamespace(session, Login))
    \/ Perform("command", NoFolder, CustomCommand(session))

Management ==
    \/ Perform("command", NoFolder, FolderStatus(session))
    \/ Perform("command", NoFolder, FetchSubscribedFolders(session))
    \/ Perform("command", NoFolder, FetchAllFolders(session))
    \/ Perform("command", INBOX, RenameFolder(session))
    \/ Perform("command", INBOX, DeleteFolder(session))
    \/ Perform("command", INBOX, CreateFolder(session))
    \/ Perform("command", INBOX, SubscribeFolder(session))
    \/ Perform("command", INBOX, UnsubscribeFolder(session))

Messages(f) ==
    \/ Perform("command", f, FolderInfo(session, f))
    \/ Perform("command", f, AppendMessage(session, f))
    \/ Perform("command", f, CopyMessages(session, f))
    \/ Perform("command", f, MoveMessages(session, f))
    \/ Perform("command", f, Expunge(session, f))
    \/ Perform("command", f, FetchMessageNumberUIDMapping(session, f))
    \/ Perform("command", f, FetchMessages(session, f))
    \/ Perform("command", f, FetchMessage(session, f))
    \/ Perform("command", f, FetchAttachment(session, f))
    \/ Perform("command", f, FetchAttachmentToFile(session, f))
    \/ Perform("command", f, Search(session, f))
    \/ Perform("command", f, StoreFlags(session, f))
    \/ Perform("command", f, StoreLabels(session, f))
    \/ Perform("command", f, Idle(session, f))

Next == Account \/ Management \/ \E f \in Folders : Messages(f)

Spec == Init /\ [][Next]_vars

-----------------------------------------------------------------------------
(* Properties *)

\* An operation on a folder that obtained its result was carried out while the
\* server had that folder selected (or one that differs only in case): the
\* cached mCurrentFolder of selectIfNeeded (line 1070) is never taken for
\* another folder's, whatever failed and was reconnected before.
OperatesInItsFolder ==
    last.folder # NoFolder
        => session.peer \in Folders /\ Fold[session.peer] = Fold[last.folder]

\* On a stream that is up and will be used again, the session believes to be
\* logged in, and in a folder, exactly when the server has answered so.
SelectionAgrees ==
    session.stream = "up" /\ ~ session.closing
        => /\ session.state = "SELECTED" <=> Selected(session)
           /\ session.state = "SELECTED" => session.folder = session.peer
           /\ session.state \in {"LOGGEDIN", "SELECTED"} <=> LoginAnswered(session)

\* A login that ignores the errors of both COMPRESS and ID may report success
\* without being logged in (see MCIMAPLogin): a server that does not announce
\* both keeps them separate.
Separate(offers) == ~ ({"COMPRESS", "ID"} \subseteq offers)

\* The folder that the session takes for selected is the one it works in.
SelectedFolderTrue == Separate(session.offers) => OperatesInItsFolder /\ SelectionAgrees

\* What can stop the program is known.  An assertion fails, or a command goes
\* through a NULL mImap, only after the login of a server that announces both
\* COMPRESS and ID.  fetchSubscribedFolders() goes through a NULL
\* defaultNamespace() (line 1498; line 1537 tests it) only as long as no login
\* was completed: after one that failed in its LIST (979-1033) the session is
\* logged in and has none; one that was completed has one for good.
OnlyKnownFaults ==
    /\ last.err \in {"AssertFailed", "NullImap"} => ~ Separate(session.offers)
    /\ last.err = "NullNamespace" => ~ session.configured
    /\ session.configured => session.namespace

\* Whatever was done before, the second attempt at an operation on a folder
\* can succeed: no sequence of failures leaves the session in a state it does
\* not leave by reconnecting.  With a server that greets with PREAUTH no
\* attempt can: it is sent a login (line 775), which it refuses.
SecondAttemptCanSucceed ==
    last.op # "none" /\ last.err \notin Faults
    /\ Separate(session.offers) /\ "PREAUTH" \notin session.offers =>
        \A f \in Folders :
            \E o \in InFolder(session, f) :
                \/ o.err = "None"
                \/ \E p \in InFolder(o.s, f) : p.err = "None"

\* An operation on a session that was logged in, and that reports a broken
\* stream, leaves a session that reconnects before its next command; only
\* noop does not.
BrokenStreamIsLeft ==
    [][( /\ last'.err \in {"Connection", "Parse"}
         /\ last'.op # "noop"
         /\ session.state \in {"LOGGEDIN", "SELECTED"}
         /\ ~ session.closing
         /\ Separate(session.offers) )
       => session'.closing]_vars

=============================================================================
