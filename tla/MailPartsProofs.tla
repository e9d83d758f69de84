--------------------------- MODULE MailPartsProofs ---------------------------
(***************************************************************************)
(* Proofs about parts of mailcore2, for any folders, servers, operations,   *)
(* sizes, messages and numbers of services: the session of an IMAP account, *)
(* the interruption of IDLE, the download of an attachment, the session of  *)
(* a POP account and the search of the validator of accounts.               *)
(*                                                                          *)
(* The parts share nothing; each has the invariant it needs.                *)
(***************************************************************************)
EXTENDS MailParts, QueueLemmas, FiniteSetTheorems

-----------------------------------------------------------------------------
(* IMAPSession: the states that the session can be in. *)

(* The session believes to be logged in, and in a folder, exactly when the   *)
(* server does. *)
Agrees(s) ==
    /\ s.state = "SELECTED" <=> s.peer \in Folders
    /\ s.state = "SELECTED" => s.folder = s.peer
    /\ s.state \in {"LOGGEDIN", "SELECTED"} <=> IMAP!LoginAnswered(s)
    /\ s.state = "CONNECTED" => s.peer = IMAP!Greeting(s)

(* The servers that do not announce both COMPRESS and ID, whose errors       *)
(* login() ignores.                                                          *)
Servers == {F \in Offers : IMAP!Separate(F)}

(* The sessions of a server that announces F: there is a stream unless the   *)
(* session is disconnected, and a session that will not be closed agrees     *)
(* with its server. *)
Fine(F) ==
    {s \in IMAP!Session :
        /\ s.offers = F /\ s.caps \subseteq F
        /\ s.stream = "none" <=> s.state = "DISCONNECTED"
        /\ s.state = "SELECTED" => s.folder # NoFolder
        /\ ~ s.closing => Agrees(s)}

(* Those that were logged in, or are in a folder, whether they will be       *)
(* closed or not; with c, those that will not.                               *)
LoggedIn(F, c) ==
    {s \in Fine(F) : s.state \in {"LOGGEDIN", "SELECTED"} /\ Agrees(s) /\ (c => ~ s.closing)}

(* Those that are in folder f, or in one that differs from it in case only.  *)
Within(F, c, f) ==
    {s \in LoggedIn(F, c) : s.state = "SELECTED" /\ Fold[s.peer] = Fold[f]}

(* The outcomes of what a session of F does, success leaving one of K; with  *)
(* c, an error of the stream leaves a session that will be closed.           *)
Ends(F, c, K) ==
    {o \in [s : Fine(F), err : IMAP!Errors, got : BOOLEAN] :
        /\ o.err = "None" => o.s \in K
        /\ o.got => o.err = "None"
        /\ c /\ o.err \in {"Connection", "Parse"} => o.s.closing}

(* Any outcomes at all. *)
Typed == [s : IMAP!Session, err : IMAP!Errors \cup IMAP!Faults, got : BOOLEAN]

Down(s) == [s EXCEPT !.stream = "down"]
Closing(s) == [s EXCEPT !.closing = TRUE]

(* A stream that breaks and a session that is to be closed stay what they    *)
(* were otherwise. *)
LEMMA DownFine ==
    ASSUME NEW F, NEW s \in Fine(F), s.state # "DISCONNECTED"
    PROVE  /\ Down(s) \in Fine(F) /\ Closing(s) \in Fine(F) /\ Closing(Down(s)) \in Fine(F)
           /\ Closing(s).closing /\ Closing(Down(s)).closing
           /\ \A c : s \in LoggedIn(F, c) =>
                 /\ Down(s) \in LoggedIn(F, c) /\ Closing(s) \in LoggedIn(F, FALSE)
                 /\ Closing(Down(s)) \in LoggedIn(F, FALSE)
<1>1. s \in IMAP!Session
  BY DEF Fine
<1>2. /\ Down(s) \in IMAP!Session /\ Closing(s) \in IMAP!Session /\ Closing(Down(s)) \in IMAP!Session
      /\ Down(s).stream = "down" /\ Down(s).closing = s.closing
      /\ Closing(s).stream = s.stream /\ Closing(s).closing
      /\ Closing(Down(s)).stream = "down" /\ Closing(Down(s)).closing
  BY <1>1 DEF Down, Closing, IMAP!Session
<1>3. \A t \in {Down(s), Closing(s), Closing(Down(s))} :
          /\ t.state = s.state /\ t.folder = s.folder /\ t.peer = s.peer
          /\ t.offers = s.offers /\ t.caps = s.caps
  BY <1>1 DEF Down, Closing, IMAP!Session
<1>4. \A t \in {Down(s), Closing(s), Closing(Down(s))} : Agrees(s) => Agrees(t)
  BY <1>3 DEF Agrees, IMAP!LoginAnswered, IMAP!Greeting
<1> QED BY <1>1, <1>2, <1>3, <1>4 DEF Fine, LoggedIn

(* An outcome is what it is made of.                                         *)
LEMMA OutTyped ==
    \A s \in IMAP!Session, e \in IMAP!Errors \cup IMAP!Faults :
        /\ IMAP!Out(s, e) \in Typed
        /\ IMAP!Out(s, e).s = s /\ IMAP!Out(s, e).err = e /\ IMAP!Out(s, e).got = (e = "None")
BY DEF IMAP!Out, Typed

(* What a command and its response come to. *)
LEMMA AnswerTyped ==
    ASSUME NEW s \in IMAP!Session, NEW r \in BOOLEAN
    PROVE  IMAP!Answer(s, r) \subseteq Typed
<1>1. Down(s) \in IMAP!Session
  BY DEF Down, IMAP!Session
<1> QED BY <1>1, OutTyped DEF IMAP!Answer, IMAP!Stop, IMAP!Errors, IMAP!Faults, Down

(* An answer leaves the session as it was, or with a broken stream.          *)
LEMMA AnswerEnds ==
    ASSUME NEW F, NEW s \in Fine(F), s.state # "DISCONNECTED",
           NEW r \in BOOLEAN, NEW o \in IMAP!Answer(s, r)
    PROVE  /\ o \in [s : Fine(F), err : IMAP!Errors, got : BOOLEAN]
           /\ o.got <=> o.err = "None"
           /\ o.err # "Connection" => o.s = s
           /\ o.s \in {s, Down(s)}
<1>1. s \in IMAP!Session /\ s.stream # "none" /\ Down(s) \in IMAP!Session /\ Down(s) \in Fine(F)
  BY DownFine DEF Fine
<1>2. \/ o = IMAP!Out(s, "Connection") \/ o = IMAP!Out(Down(s), "Connection")
      \/ o = IMAP!Out(s, "Parse") \/ o = IMAP!Out(s, "Other") \/ o = IMAP!Out(s, "None")
  BY <1>1 DEF IMAP!Answer, IMAP!Session, Down
<1> QED BY <1>1, <1>2, OutTyped DEF Typed, IMAP!Errors

(* Reported outcomes are the outcomes, with a session to be closed.          *)
LEMMA ReportedTyped ==
    ASSUME NEW outs \in SUBSET Typed
    PROVE  /\ IMAP!Reported(outs) \subseteq Typed
           /\ \A p \in IMAP!Reported(outs) : \E o \in outs :
                 /\ p.err = o.err /\ p.got = o.got
                 /\ p.s = IF o.err \in {"Connection", "Parse"} THEN Closing(o.s) ELSE o.s
<1> SUFFICES ASSUME NEW p \in IMAP!Reported(outs)
             PROVE  p \in Typed /\ \E o \in outs :
                         /\ p.err = o.err /\ p.got = o.got
                         /\ p.s = IF o.err \in {"Connection", "Parse"} THEN Closing(o.s) ELSE o.s
  OBVIOUS
<1>1. PICK o \in outs : p = IF o.err \in {"Connection", "Parse"} THEN [o EXCEPT !.s.closing = TRUE] ELSE o
  BY DEF IMAP!Reported
<1>2. o \in Typed
  OBVIOUS
<1>3. o.s \in IMAP!Session /\ Closing(o.s) \in IMAP!Session
  BY <1>2 DEF Typed, Closing, IMAP!Session
<1>4. CASE o.err \in {"Connection", "Parse"}
  <2>1. p = [o EXCEPT !.s = Closing(o.s)]
    BY <1>1, <1>4 DEF Closing
  <2>2. p.s = Closing(o.s) /\ p.err = o.err /\ p.got = o.got /\ p \in Typed
    BY <1>2, <1>3, <2>1 DEF Typed
  <2> QED BY <1>4, <2>2
<1>5. CASE o.err \notin {"Connection", "Parse"}
  BY <1>1, <1>2, <1>5
<1> QED BY <1>4, <1>5

(* A command on any session has outcomes of the type.                        *)
LEMMA CommandTyped ==
    ASSUME NEW s \in IMAP!Session, NEW r \in BOOLEAN
    PROVE  IMAP!Command(s, r) \subseteq Typed
BY AnswerTyped, ReportedTyped DEF IMAP!Command

(* A command on a session that is connected: an error of the stream leaves   *)
(* a session that will be closed, anything else leaves it as it was.         *)
LEMMA CommandEnds ==
    ASSUME NEW F, NEW s \in Fine(F), s.state # "DISCONNECTED",
           NEW r \in BOOLEAN, NEW o \in IMAP!Command(s, r)
    PROVE  /\ o \in Ends(F, TRUE, {s})
           /\ o.err \in {"Connection", "Parse"} => o.s \in {Closing(s), Closing(Down(s))}
           /\ o.err \notin {"Connection", "Parse"} => o.s = s
<1>1. s \in IMAP!Session /\ IMAP!Answer(s, r) \in SUBSET Typed
  BY AnswerTyped DEF Fine
<1>2. o \in Typed /\ \E p \in IMAP!Answer(s, r) :
                 /\ o.err = p.err /\ o.got = p.got
                 /\ o.s = IF p.err \in {"Connection", "Parse"} THEN Closing(p.s) ELSE p.s
  BY <1>1, ReportedTyped DEF IMAP!Command
<1>3. PICK p \in IMAP!Answer(s, r) :
                 /\ o.err = p.err /\ o.got = p.got
                 /\ o.s = IF p.err \in {"Connection", "Parse"} THEN Closing(p.s) ELSE p.s
  BY <1>2
<1>4. /\ p \in [s : Fine(F), err : IMAP!Errors, got : BOOLEAN]
      /\ p.got <=> p.err = "None"
      /\ p.err # "Connection" => p.s = s
      /\ p.s \in {s, Down(s)}
  BY AnswerEnds
<1>5. /\ o.err \in {"Connection", "Parse"} => o.s \in {Closing(s), Closing(Down(s))}
      /\ o.err \notin {"Connection", "Parse"} => o.s = s
  BY <1>3, <1>4
<1>6. o.s \in Fine(F) /\ (o.err \in {"Connection", "Parse"} => o.s.closing)
  BY <1>5, DownFine
<1>7. o \in [s : Fine(F), err : IMAP!Errors, got : BOOLEAN]
  BY <1>2, <1>3, <1>4, <1>6 DEF Typed
<1> QED BY <1>3, <1>4, <1>5, <1>6, <1>7 DEF Ends

(* Connecting.                                                               *)
Open(s) == [IMAP!Unsetup(s) EXCEPT !.closing = FALSE]

(* The sessions that have a connection to go on with.                        *)
Ready(F) == {s \in Fine(F) : ~ s.closing /\ s.state # "DISCONNECTED"}

(* A session that is closed, and one that may be opened again.               *)
LEMMA UnsetupFine ==
    /\ \A s \in IMAP!Session :
          /\ IMAP!Unsetup(s) \in IMAP!Session /\ Open(s) \in IMAP!Session
          /\ IMAP!Greeted(s) \in IMAP!Session /\ IMAP!ApplyCapabilities(s) \in IMAP!Session
    /\ \A F : \A s \in Fine(F) :
          /\ IMAP!Unsetup(s) \in Fine(F) /\ Open(s) \in Fine(F)
          /\ Open(s).state = "DISCONNECTED" /\ Open(s).stream = "none" /\ ~ Open(s).closing
<1>1. ASSUME NEW s \in IMAP!Session
      PROVE  /\ IMAP!Unsetup(s) \in IMAP!Session /\ Open(s) \in IMAP!Session
             /\ IMAP!Greeted(s) \in IMAP!Session /\ IMAP!ApplyCapabilities(s) \in IMAP!Session
  <2>1. IMAP!Unsetup(s) \in IMAP!Session
    BY DEF IMAP!Unsetup, IMAP!Session, IMAP!States
  <2>2. Open(s) \in IMAP!Session
    BY <2>1 DEF Open, IMAP!Session
  <2>3. IMAP!Greeted(s) \in IMAP!Session
    BY DEF IMAP!Greeted, IMAP!Greeting, IMAP!Session, IMAP!States
  <2>4. IMAP!ApplyCapabilities(s) \in IMAP!Session
    BY DEF IMAP!ApplyCapabilities, IMAP!Session
  <2> QED BY <2>1, <2>2, <2>3, <2>4
<1>2. ASSUME NEW F, NEW s \in Fine(F)
      PROVE  /\ IMAP!Unsetup(s) \in Fine(F) /\ Open(s) \in Fine(F)
             /\ Open(s).state = "DISCONNECTED" /\ Open(s).stream = "none" /\ ~ Open(s).closing
  <2>1. s \in IMAP!Session /\ s.offers = F /\ s.caps \subseteq F
    BY DEF Fine
  <2>2. IMAP!Unsetup(s) \in IMAP!Session /\ Open(s) \in IMAP!Session
    BY <1>1, <2>1
  <2> DEFINE u == IMAP!Unsetup(s)
  <2>6. /\ u.state = "DISCONNECTED" /\ u.stream = "none" /\ u.peer = "nobody"
        /\ u.offers = F /\ u.caps \subseteq F
    BY <2>1 DEF IMAP!Unsetup, IMAP!Session
  <2>7. /\ Open(s).state = u.state /\ Open(s).stream = u.stream /\ Open(s).peer = u.peer
        /\ Open(s).offers = u.offers /\ Open(s).caps = u.caps
    <3> HIDE DEF u
    <3>1. u \in IMAP!Session /\ Open(s) = [u EXCEPT !.closing = FALSE]
      BY <2>2 DEF Open, u
    <3> QED BY <3>1 DEF IMAP!Session
  <2>3. \A t \in {IMAP!Unsetup(s), Open(s)} :
            /\ t.state = "DISCONNECTED" /\ t.stream = "none" /\ t.peer = "nobody"
            /\ t.offers = F /\ t.caps \subseteq F
    BY <2>6, <2>7
  <2>4. \A t \in {IMAP!Unsetup(s), Open(s)} : Agrees(t)
    BY <2>3, FoldersAssumption DEF Agrees, IMAP!LoginAnswered, IMAP!Greeting
  <2>5. ~ Open(s).closing
    BY <2>1, <2>2 DEF Open, IMAP!Unsetup, IMAP!Session
  <2> QED BY <2>2, <2>3, <2>4, <2>5 DEF Fine
<1> QED BY <1>1, <1>2

(* A session that was just connected and greeted.                            *)
LEMMA UpReady ==
    ASSUME NEW F \in SUBSET IMAP!Announced, NEW s \in Fine(F), s.state = "DISCONNECTED", ~ s.closing
    PROVE  IMAP!Greeted(s) \in Ready(F) /\ IMAP!Greeted(s).state = "CONNECTED"
<1>1. s \in IMAP!Session /\ s.offers = F /\ s.caps \subseteq F /\ IMAP!Greeted(s) \in IMAP!Session
  BY UnsetupFine DEF Fine
<1>2. /\ IMAP!Greeted(s).state = "CONNECTED" /\ IMAP!Greeted(s).stream = "up"
      /\ IMAP!Greeted(s).peer = IMAP!Greeting(s)
      /\ IMAP!Greeted(s).offers = F /\ IMAP!Greeted(s).caps \subseteq F /\ ~ IMAP!Greeted(s).closing
  BY <1>1 DEF IMAP!Greeted, IMAP!Session
<1>3. /\ IMAP!Greeting(IMAP!Greeted(s)) = IMAP!Greeting(s)
      /\ IMAP!Greeting(s) \in {"greeted", "preauthenticated"}
  BY <1>1, <1>2 DEF IMAP!Greeting
<1>4. Agrees(IMAP!Greeted(s))
  BY <1>2, <1>3, FoldersAssumption DEF Agrees, IMAP!LoginAnswered
<1> QED BY <1>1, <1>2, <1>4 DEF Fine, Ready

(* Capabilities that the server announced change nothing else.               *)
LEMMA ApplyFine ==
    ASSUME NEW F, NEW s \in Fine(F)
    PROVE  /\ IMAP!ApplyCapabilities(s) \in Fine(F)
           /\ IMAP!ApplyCapabilities(s).state = s.state
           /\ IMAP!ApplyCapabilities(s).closing = s.closing
           /\ \A c : s \in LoggedIn(F, c) => IMAP!ApplyCapabilities(s) \in LoggedIn(F, c)
<1> DEFINE t == IMAP!ApplyCapabilities(s)
<1>1. s \in IMAP!Session /\ t \in IMAP!Session
  BY UnsetupFine DEF Fine
<1>2. /\ t.state = s.state /\ t.stream = s.stream /\ t.closing = s.closing /\ t.folder = s.folder
      /\ t.peer = s.peer /\ t.offers = s.offers /\ t.caps \subseteq s.caps \cup s.offers
  BY <1>1 DEF IMAP!ApplyCapabilities, IMAP!Session
<1>3. Agrees(s) => Agrees(t)
  BY <1>2 DEF Agrees, IMAP!LoginAnswered, IMAP!Greeting
<1> QED BY <1>1, <1>2, <1>3 DEF Fine, LoggedIn

(* capability() leaves the session in the state that it was in.              *)
LEMMA AskEnds ==
    ASSUME NEW F, NEW s \in Fine(F), s.state # "DISCONNECTED"
    PROVE  IMAP!AskCapability(s) \subseteq Ends(F, TRUE, {IMAP!ApplyCapabilities(s)})
<1> SUFFICES ASSUME NEW o \in IMAP!AskCapability(s)
             PROVE  o \in Ends(F, TRUE, {IMAP!ApplyCapabilities(s)})
  OBVIOUS
<1>1. PICK p \in IMAP!Command(s, TRUE) :
          o \in IF p.err = "None" THEN {IMAP!Out(IMAP!ApplyCapabilities(p.s), "None")} ELSE {p}
  BY DEF IMAP!AskCapability, IMAP!Then
<1>2. p \in Ends(F, TRUE, {s})
  BY CommandEnds
<1>3. CASE p.err = "None"
  <2>1. p.s = s /\ o = IMAP!Out(IMAP!ApplyCapabilities(s), "None")
    BY <1>1, <1>2, <1>3 DEF Ends
  <2>2. IMAP!ApplyCapabilities(s) \in Fine(F)
    BY ApplyFine
  <2> QED BY <2>1, <2>2 DEF IMAP!Out, Ends, IMAP!Errors
<1>4. CASE p.err # "None"
  BY <1>1, <1>2, <1>4 DEF Ends
<1> QED BY <1>3, <1>4

(* An outcome ends well if its session is one of those it may leave.         *)
LEMMA OutEnds ==
    ASSUME NEW F, NEW t \in Fine(F), NEW e \in IMAP!Errors, NEW K, NEW c,
           e = "None" => t \in K, c /\ e \in {"Connection", "Parse"} => t.closing
    PROVE  IMAP!Out(t, e) \in Ends(F, c, K)
<1> DEFINE o == IMAP!Out(t, e)
<1>1. o.s = t /\ o.err = e /\ o.got = (e = "None") /\ o \in [s : Fine(F), err : IMAP!Errors, got : BOOLEAN]
  BY DEF IMAP!Out
<1> HIDE DEF o
<1>2. o \in Ends(F, c, K)
  BY <1>1 DEF Ends
<1> QED BY <1>2 DEF o

(* connect() of a disconnected session leaves it connected, or disconnected. *)
LEMMA ConnectEnds ==
    ASSUME NEW F \in SUBSET IMAP!Announced, NEW s \in Fine(F), s.state = "DISCONNECTED", ~ s.closing
    PROVE  IMAP!Connect(s) \subseteq Ends(F, FALSE, Ready(F))
<1> SUFFICES ASSUME NEW o \in IMAP!Connect(s) PROVE o \in Ends(F, FALSE, Ready(F))
  OBVIOUS
<1>1. IMAP!Greeted(s) \in Ready(F) /\ IMAP!Greeted(s).state = "CONNECTED" /\ IMAP!Greeted(s) \in Fine(F) /\ IMAP!Unsetup(s) \in Fine(F)
  BY UpReady, UnsetupFine DEF Ready
<1>2. IMAP!ApplyCapabilities(IMAP!Greeted(s)) \in Ready(F)
  BY <1>1, ApplyFine DEF Ready
<1>3. IMAP!AskCapability(IMAP!Greeted(s)) \subseteq Ends(F, TRUE, {IMAP!ApplyCapabilities(IMAP!Greeted(s))})
  BY <1>1, AskEnds
<1>4. \/ \E e \in {"Connection", "Other"} : o = IMAP!Out(IMAP!Unsetup(s), e)
      \/ o = IMAP!Out(IMAP!ApplyCapabilities(IMAP!Greeted(s)), "None")
      \/ \E p \in IMAP!AskCapability(IMAP!Greeted(s)) :
            o = IF p.err \in {"None"} \cup IMAP!Faults THEN p ELSE [p EXCEPT !.s = IMAP!Unsetup(p.s)]
  BY DEF IMAP!Connect, Fine
<1>5. CASE \E e \in {"Connection", "Other"} : o = IMAP!Out(IMAP!Unsetup(s), e)
  BY <1>1, <1>5, OutEnds DEF IMAP!Errors
<1>6. CASE o = IMAP!Out(IMAP!ApplyCapabilities(IMAP!Greeted(s)), "None")
  BY <1>2, <1>6, OutEnds DEF IMAP!Errors, Ready
<1>7. CASE \E p \in IMAP!AskCapability(IMAP!Greeted(s)) :
            o = IF p.err \in {"None"} \cup IMAP!Faults THEN p ELSE [p EXCEPT !.s = IMAP!Unsetup(p.s)]
  <2>1. PICK p \in Ends(F, TRUE, {IMAP!ApplyCapabilities(IMAP!Greeted(s))}) :
            o = IF p.err \in {"None"} \cup IMAP!Faults THEN p ELSE [p EXCEPT !.s = IMAP!Unsetup(p.s)]
    BY <1>3, <1>7
  <2>2. IMAP!Unsetup(p.s) \in Fine(F)
    BY UnsetupFine DEF Ends
  <2>3. CASE p.err = "None"
    BY <1>2, <2>1, <2>3 DEF Ends
  <2>4. CASE p.err # "None"
    <3>1. p.err \notin {"None"} \cup IMAP!Faults
      BY <2>1, <2>4 DEF Ends, IMAP!Errors, IMAP!Faults
    <3>2. o = [p EXCEPT !.s = IMAP!Unsetup(p.s)]
      BY <2>1, <3>1
    <3> QED BY <2>1, <2>2, <2>4, <3>2 DEF Ends
  <2> QED BY <2>3, <2>4
<1> QED BY <1>4, <1>5, <1>6, <1>7

(* A session that has a connection goes on with it.                          *)
LEMMA ReadyGoesOn ==
    ASSUME NEW F, NEW s \in Ready(F)
    PROVE  IMAP!ConnectIfNeeded(s) = {IMAP!Out(s, "None")}
BY DEF Ready, IMAP!ConnectIfNeeded

(* connectIfNeeded() leaves a session that is ready for a command.           *)
LEMMA ConnectIfNeededEnds ==
    ASSUME NEW F \in SUBSET IMAP!Announced, NEW s \in Fine(F)
    PROVE  IMAP!ConnectIfNeeded(s) \subseteq Ends(F, FALSE, Ready(F))
<1>1. CASE s.closing
  <2>1. /\ Open(s) \in Fine(F) /\ Open(s).state = "DISCONNECTED" /\ ~ Open(s).closing
    BY UnsetupFine
  <2>2. IMAP!ConnectIfNeeded(s) = IMAP!Connect(Open(s))
    BY <1>1, <2>1 DEF IMAP!ConnectIfNeeded, Open
  <2> QED BY <2>1, <2>2, ConnectEnds
<1>2. CASE ~ s.closing /\ s.state = "DISCONNECTED"
  <2>1. IMAP!ConnectIfNeeded(s) = IMAP!Connect(s)
    BY <1>2 DEF IMAP!ConnectIfNeeded
  <2> QED BY <1>2, <2>1, ConnectEnds
<1>3. CASE ~ s.closing /\ s.state # "DISCONNECTED"
  <2>1. s \in Ready(F)
    BY <1>3 DEF Ready
  <2> QED BY <2>1, ReadyGoesOn, OutEnds DEF IMAP!Errors
<1> QED BY <1>1, <1>2, <1>3

(* What is the end of one is the end of another. *)
LEMMA EndsOf ==
    ASSUME NEW F, NEW c \in BOOLEAN, NEW K, NEW o \in Ends(F, c, K)
    PROVE  /\ o.s \in Fine(F) /\ o \in Ends(F, FALSE, K)
           /\ o.err = "None" => o.s \in K
           /\ o.err # "None" => \A L : o \in Ends(F, c, L)
           /\ \A L : K \subseteq L => o \in Ends(F, c, L)
BY DEF Ends

(* Logging in: the steps of login(), of any session.                         *)
LEMMA IgnoredOf ==
    ASSUME NEW outs \in SUBSET Typed, NEW o \in IMAP!Ignored(outs)
    PROVE  /\ o \in Typed
           /\ \E p \in outs : o = IF p.err \in IMAP!Faults THEN p ELSE IMAP!Out(p.s, "None")
<1>1. PICK p \in outs : o = IF p.err \in IMAP!Faults THEN p ELSE IMAP!Out(p.s, "None")
  BY DEF IMAP!Ignored
<1>2. p \in Typed /\ p.s \in IMAP!Session
  BY DEF Typed
<1>3. o \in Typed
  BY <1>1, <1>2, OutTyped DEF IMAP!Errors
<1> QED BY <1>1, <1>3

Admitted(s) == [s EXCEPT !.state = "LOGGEDIN", !.peer = "authenticated"]
Entered(s, f) == [s EXCEPT !.state = "SELECTED", !.folder = f, !.peer = f]
Refused(s) == [s EXCEPT !.state = "LOGGEDIN", !.folder = NoFolder, !.peer = "authenticated"]
Unknown(s, f) == [s EXCEPT !.peer = f]
Told(s) == [s EXCEPT !.delimiter = TRUE]
Marked(s) == [s EXCEPT !.mbox = TRUE]

(* The outcomes of the authentication, taken apart.                          *)
LEMMA AuthenticateOf ==
    ASSUME NEW s \in IMAP!Session, NEW o \in IMAP!Authenticate(s)
    PROVE  /\ o \in Typed
           /\ \/ \E p \in IMAP!Command(s, s.peer = "greeted") :
                    /\ o.err = p.err /\ o.got = p.got
                    /\ o.s = IF p.err = "None" THEN Admitted(p.s) ELSE p.s
              \/ s.stream = "up" /\ o = IMAP!Out(Closing(s), "Connection")
<1>1. CASE s.stream = "up" /\ o = IMAP!Out(Closing(s), "Connection")
  <2>1. Closing(s) \in IMAP!Session
    BY DEF Closing, IMAP!Session
  <2> QED BY <1>1, <2>1, OutTyped DEF IMAP!Errors
<1>2. CASE \E p \in IMAP!Command(s, s.peer = "greeted") :
              o = IF p.err = "None"
                  THEN [p EXCEPT !.s.state = "LOGGEDIN", !.s.peer = "authenticated"] ELSE p
  <2>1. PICK p \in IMAP!Command(s, s.peer = "greeted") :
              o = IF p.err = "None"
                  THEN [p EXCEPT !.s.state = "LOGGEDIN", !.s.peer = "authenticated"] ELSE p
    BY <1>2
  <2>2. p \in Typed
    BY CommandTyped
  <2>3. p.s \in IMAP!Session
    BY <2>2 DEF Typed
  <2>4. Admitted(p.s) \in IMAP!Session
    BY <2>3 DEF Admitted, IMAP!Session, IMAP!States
  <2>5. CASE p.err = "None"
    <3>1. o = [p EXCEPT !.s = Admitted(p.s)]
      BY <2>1, <2>2, <2>3, <2>5 DEF Admitted, Typed
    <3>2. o.s = Admitted(p.s) /\ o.err = p.err /\ o.got = p.got /\ o \in Typed
      BY <2>2, <2>4, <3>1 DEF Typed
    <3> QED BY <2>5, <3>2
  <2>6. CASE p.err # "None"
    BY <2>1, <2>2, <2>6
  <2> QED BY <2>5, <2>6
<1> QED BY <1>1, <1>2 DEF IMAP!Authenticate, Closing

(* Logging in, whatever the server announces: the sessions of one server     *)
(* that know their default namespace if H.known, and, if H.sound, if a login *)
(* was completed; and the outcomes that leave such a session.  With H.sound  *)
(* a namespace that is NULL is used only before a login was completed.       *)
Held(H) ==
    {s \in IMAP!Session :
        /\ s.offers = H.offers
        /\ H.known => s.namespace
        /\ H.sound => (s.configured => s.namespace)}

Outs(H) ==
    {o \in Typed : /\ o.s \in Held(H)
                   /\ H.sound /\ o.err = "NullNamespace" => ~ o.s.configured}

(* What is held depends on three fields only.                                *)
LEMMA HeldAlike ==
    ASSUME NEW H, NEW s \in Held(H), NEW t \in IMAP!Session,
           t.offers = s.offers, s.namespace => t.namespace, t.configured => s.configured \/ t.namespace
    PROVE  t \in Held(H)
BY DEF Held

(* So that what happens to the connection does not matter.                   *)
Changes(s) ==
    {Down(s), Closing(s), IMAP!Unsetup(s), Open(s), IMAP!Greeted(s), IMAP!ApplyCapabilities(s),
     Admitted(s), IMAP!Configured(s), Told(s), Marked(s), Refused(s)}
        \cup {Entered(s, f) : f \in Folders} \cup {Unknown(s, f) : f \in Folders}

LEMMA ChangesHeld ==
    ASSUME NEW H, NEW s \in Held(H)
    PROVE  /\ s \in IMAP!Session /\ Changes(s) \subseteq Held(H)
           /\ IMAP!Configured(s).namespace
<1>1. s \in IMAP!Session
  BY DEF Held
<1>2. /\ IMAP!Unsetup(s) \in IMAP!Session /\ Open(s) \in IMAP!Session
      /\ IMAP!Greeted(s) \in IMAP!Session /\ IMAP!ApplyCapabilities(s) \in IMAP!Session
  BY <1>1, UnsetupFine
<1>3. /\ Down(s) \in IMAP!Session /\ Closing(s) \in IMAP!Session /\ Admitted(s) \in IMAP!Session
  BY <1>1 DEF Down, Closing, Admitted, IMAP!Session, IMAP!States
<1>4. /\ IMAP!Configured(s) \in IMAP!Session /\ Told(s) \in IMAP!Session /\ Marked(s) \in IMAP!Session
  BY <1>1 DEF IMAP!Configured, Told, Marked, IMAP!Session
<1>5. /\ Refused(s) \in IMAP!Session
      /\ \A f \in Folders : Entered(s, f) \in IMAP!Session /\ Unknown(s, f) \in IMAP!Session
  BY <1>1 DEF Refused, Entered, Unknown, IMAP!Session, IMAP!States
<1>6. \A t \in {Down(s), Closing(s), Admitted(s), Told(s), Marked(s), Refused(s)} :
          t.offers = s.offers /\ t.namespace = s.namespace /\ t.configured = s.configured
  BY <1>1 DEF Down, Closing, Admitted, Told, Marked, Refused, IMAP!Session
<1>7. \A t \in {IMAP!Unsetup(s), IMAP!Greeted(s), IMAP!ApplyCapabilities(s)} :
          t.offers = s.offers /\ t.namespace = s.namespace /\ t.configured = s.configured
  BY <1>1 DEF IMAP!Unsetup, IMAP!Greeted, IMAP!ApplyCapabilities, IMAP!Session
<1>8. Open(s).offers = s.offers /\ Open(s).namespace = s.namespace /\ Open(s).configured = s.configured
  <2> DEFINE u == IMAP!Unsetup(s)
  <2>1. u \in IMAP!Session /\ u.offers = s.offers /\ u.namespace = s.namespace /\ u.configured = s.configured
    BY <1>2, <1>7
  <2>2. Open(s) = [u EXCEPT !.closing = FALSE]
    BY DEF Open
  <2> HIDE DEF u
  <2> QED BY <2>1, <2>2 DEF IMAP!Session
<1>9. ASSUME NEW f \in Folders
      PROVE  /\ Entered(s, f).offers = s.offers /\ Entered(s, f).namespace = s.namespace
             /\ Entered(s, f).configured = s.configured
             /\ Unknown(s, f).offers = s.offers /\ Unknown(s, f).namespace = s.namespace
             /\ Unknown(s, f).configured = s.configured
  BY <1>1 DEF Entered, Unknown, IMAP!Session
<1>10. /\ IMAP!Configured(s).offers = s.offers /\ IMAP!Configured(s).namespace
       /\ IMAP!Configured(s).configured = s.configured
  BY <1>1 DEF IMAP!Configured, IMAP!Session
<1>11. ASSUME NEW t \in Changes(s)
       PROVE  /\ t \in IMAP!Session /\ t.offers = s.offers /\ t.configured = s.configured
              /\ s.namespace => t.namespace
  <2>1. \/ t \in {Down(s), Closing(s), Admitted(s), Told(s), Marked(s), Refused(s)}
        \/ t \in {IMAP!Unsetup(s), IMAP!Greeted(s), IMAP!ApplyCapabilities(s)}
        \/ t = Open(s) \/ t = IMAP!Configured(s)
        \/ \E f \in Folders : t = Entered(s, f) \/ t = Unknown(s, f)
    BY <1>11 DEF Changes
  <2>2. t \in IMAP!Session
    BY <1>2, <1>3, <1>4, <1>5, <2>1
  <2>3. t.offers = s.offers /\ t.configured = s.configured /\ (s.namespace => t.namespace)
    BY <1>6, <1>7, <1>8, <1>9, <1>10, <2>1
  <2> QED BY <2>2, <2>3
<1>12. \A t \in Changes(s) : t \in Held(H)
  BY <1>11, HeldAlike
<1> QED BY <1>1, <1>10, <1>12

(* An outcome is held with its session.                                      *)
LEMMA OutHeld ==
    ASSUME NEW H, NEW s \in Held(H), NEW e \in IMAP!Errors \cup {"AssertFailed", "NullImap"}
    PROVE  IMAP!Out(s, e) \in Outs(H)
<1>1. s \in IMAP!Session /\ e \in IMAP!Errors \cup IMAP!Faults /\ e # "NullNamespace"
  BY DEF Held, IMAP!Errors, IMAP!Faults
<1> QED BY <1>1, OutTyped DEF Outs

(* The session of an outcome is held, and one that is exchanged for it.      *)
LEMMA OutsHeld ==
    ASSUME NEW H, NEW p \in Outs(H)
    PROVE  /\ p \in Typed /\ p.s \in Held(H) /\ p.s \in IMAP!Session
           /\ \A t \in Held(H) : p.err # "NullNamespace" => [p EXCEPT !.s = t] \in Outs(H)
<1>1. p \in Typed /\ p.s \in Held(H) /\ p.s \in IMAP!Session
  BY DEF Outs, Held
<1>2. ASSUME NEW t \in Held(H), p.err # "NullNamespace" PROVE [p EXCEPT !.s = t] \in Outs(H)
  <2> DEFINE q == [p EXCEPT !.s = t]
  <2>1. t \in IMAP!Session
    BY DEF Held
  <2>2. q \in Typed /\ q.s = t /\ q.err = p.err
    BY <1>1, <2>1 DEF Typed
  <2> HIDE DEF q
  <2>3. q \in Outs(H)
    BY <1>2, <2>2 DEF Outs
  <2> QED BY <2>3 DEF q
<1> QED BY <1>1, <1>2

(* An answer and a command hold the session.                                 *)
LEMMA CommandHeld ==
    ASSUME NEW H, NEW s \in Held(H), NEW r \in BOOLEAN
    PROVE  IMAP!Answer(s, r) \subseteq Outs(H) /\ IMAP!Command(s, r) \subseteq Outs(H)
<1>1. Down(s) \in Held(H)
  BY ChangesHeld DEF Changes
<1>2. IMAP!Answer(s, r) \subseteq Outs(H)
  BY <1>1, OutHeld DEF IMAP!Answer, IMAP!Stop, IMAP!Errors, Down
<1>3. ASSUME NEW o \in IMAP!Command(s, r) PROVE o \in Outs(H)
  <2>1. PICK p \in IMAP!Answer(s, r) :
            o = IF p.err \in {"Connection", "Parse"} THEN [p EXCEPT !.s.closing = TRUE] ELSE p
    BY DEF IMAP!Command, IMAP!Reported
  <2>2. p \in Outs(H) /\ p \in Typed /\ p.s \in Held(H) /\ p.s \in IMAP!Session
    BY <1>2, <2>1, OutsHeld
  <2>3. Closing(p.s) \in Held(H)
    BY <2>2, ChangesHeld DEF Changes
  <2>4. [p EXCEPT !.s.closing = TRUE] = [p EXCEPT !.s = Closing(p.s)]
    BY DEF Closing
  <2> QED BY <2>1, <2>2, <2>3, <2>4, OutsHeld
<1> QED BY <1>2, <1>3

(* The three things that a command depends on are so or not.                 *)
LEMMA ReadyOrNot ==
    \A s : /\ IMAP!Authenticated(s) \in BOOLEAN /\ IMAP!Selected(s) \in BOOLEAN
           /\ (s.peer = "greeted") \in BOOLEAN /\ TRUE \in BOOLEAN
BY DEF IMAP!Authenticated, IMAP!LoginAnswered, IMAP!Selected

(* Errors that are ignored.                                                  *)
LEMMA IgnoredHeld ==
    ASSUME NEW H, NEW outs, outs \subseteq Outs(H)
    PROVE  IMAP!Ignored(outs) \subseteq Outs(H)
<1> SUFFICES ASSUME NEW o \in IMAP!Ignored(outs) PROVE o \in Outs(H)
  OBVIOUS
<1>1. PICK p \in outs : o = IF p.err \in IMAP!Faults THEN p ELSE IMAP!Out(p.s, "None")
  BY DEF IMAP!Ignored
<1> QED BY <1>1, OutsHeld, OutHeld DEF IMAP!Errors

(* The capabilities.                                                         *)
LEMMA CapabilitiesHeld ==
    ASSUME NEW H, NEW s \in Held(H)
    PROVE  /\ IMAP!AskCapability(s) \subseteq Outs(H)
           /\ IMAP!Capabilities(s) \subseteq Outs(H)
<1>1. \A t \in Held(H) : IMAP!Out(IMAP!ApplyCapabilities(t), "None") \in Outs(H)
  BY ChangesHeld, OutHeld DEF Changes, IMAP!Errors
<1>2. ASSUME NEW o \in IMAP!AskCapability(s) PROVE o \in Outs(H)
  <2>1. PICK p \in IMAP!Command(s, TRUE) :
            o \in IF p.err = "None" THEN {IMAP!Out(IMAP!ApplyCapabilities(p.s), "None")} ELSE {p}
    BY DEF IMAP!AskCapability, IMAP!Then
  <2>2. p \in Outs(H) /\ p.s \in Held(H)
    BY <2>1, CommandHeld, OutsHeld
  <2> QED BY <1>1, <2>1, <2>2
<1> QED BY <1>1, <1>2 DEF IMAP!Capabilities

(* connect().                                                                *)
LEMMA ConnectHeld ==
    ASSUME NEW H, NEW s \in Held(H), NEW o \in IMAP!Connect(s)
    PROVE  o \in Outs(H)
<1>1. /\ IMAP!Greeted(s) \in Held(H) /\ IMAP!Unsetup(s) \in Held(H)
      /\ \A t \in Held(H) : IMAP!Unsetup(t) \in Held(H) /\ IMAP!ApplyCapabilities(t) \in Held(H)
  BY ChangesHeld DEF Changes
<1>2. \/ \E e \in {"Connection", "Other"} : o = IMAP!Out(IMAP!Unsetup(s), e)
      \/ o = IMAP!Out(IMAP!ApplyCapabilities(IMAP!Greeted(s)), "None")
      \/ o = IMAP!Out(s, "AssertFailed")
      \/ \E p \in IMAP!AskCapability(IMAP!Greeted(s)) :
            o = IF p.err \in {"None"} \cup IMAP!Faults THEN p ELSE [p EXCEPT !.s = IMAP!Unsetup(p.s)]
  BY DEF IMAP!Connect, IMAP!Stop
<1>3. CASE \E p \in IMAP!AskCapability(IMAP!Greeted(s)) :
            o = IF p.err \in {"None"} \cup IMAP!Faults THEN p ELSE [p EXCEPT !.s = IMAP!Unsetup(p.s)]
  <2>1. PICK p \in Outs(H) :
            o = IF p.err \in {"None"} \cup IMAP!Faults THEN p ELSE [p EXCEPT !.s = IMAP!Unsetup(p.s)]
    BY <1>1, <1>3, CapabilitiesHeld
  <2>2. IMAP!Unsetup(p.s) \in Held(H)
    BY <1>1, OutsHeld
  <2> QED BY <2>1, <2>2, OutsHeld DEF IMAP!Faults
<1> QED BY <1>1, <1>2, <1>3, OutHeld DEF IMAP!Errors

(* connectIfNeeded().                                                        *)
LEMMA ConnectIfNeededHeld ==
    ASSUME NEW H, NEW s \in Held(H), NEW o \in IMAP!ConnectIfNeeded(s)
    PROVE  o \in Outs(H)
<1>1. \E t \in Held(H) : IMAP!ConnectIfNeeded(s) \in {IMAP!Connect(t), {IMAP!Out(t, "None")}}
  BY ChangesHeld DEF Changes, IMAP!ConnectIfNeeded, Open
<1> QED BY <1>1, ConnectHeld, OutHeld DEF IMAP!Errors

(* The authentication.                                                       *)
LEMMA AuthenticateHeld ==
    ASSUME NEW H, NEW s \in Held(H), NEW o \in IMAP!Authenticate(s)
    PROVE  o \in Outs(H)
<1>1. s \in IMAP!Session /\ Closing(s) \in Held(H) /\ \A t \in Held(H) : Admitted(t) \in Held(H)
  BY ChangesHeld DEF Changes
<1>2. CASE o = IMAP!Out(Closing(s), "Connection")
  BY <1>1, <1>2, OutHeld DEF IMAP!Errors
<1>3. CASE \E p \in IMAP!Command(s, s.peer = "greeted") :
               /\ o.err = p.err /\ o.got = p.got
               /\ o.s = IF p.err = "None" THEN Admitted(p.s) ELSE p.s
  <2>1. PICK p \in Outs(H) :
               /\ o.err = p.err /\ o.got = p.got
               /\ o.s = IF p.err = "None" THEN Admitted(p.s) ELSE p.s
    BY <1>3, CommandHeld, ReadyOrNot
  <2>2. o.s \in Held(H) /\ o \in Typed
    BY <1>1, <2>1, OutsHeld, AuthenticateOf
  <2>3. H.sound /\ o.err = "NullNamespace" => ~ o.s.configured
    BY <2>1 DEF Outs
  <2> QED BY <2>2, <2>3 DEF Outs
<1> QED BY <1>1, <1>2, <1>3, AuthenticateOf

(* The extensions that login() enables.                                      *)
LEMMA EnableFeaturesHeld ==
    ASSUME NEW H, NEW s \in Held(H), NEW o \in IMAP!EnableFeatures(s)
    PROVE  o \in Outs(H)
<1> DEFINE compressed == IF "COMPRESS" \in s.caps THEN IMAP!Ignored(IMAP!Command(s, TRUE))
                                                  ELSE {IMAP!Out(s, "None")}
<1>1. compressed \subseteq Outs(H)
  BY CommandHeld, IgnoredHeld, OutHeld DEF IMAP!Errors
<1>2. PICK p \in compressed :
          o \in IF p.err = "None"
                THEN IF "CONDSTORE" \in p.s.caps THEN IMAP!Ignored(IMAP!Answer(p.s, TRUE))
                                                 ELSE {IMAP!Out(p.s, "None")}
                ELSE {p}
  BY DEF IMAP!EnableFeatures, IMAP!Then
<1> HIDE DEF compressed
<1>3. p \in Outs(H) /\ p.s \in Held(H)
  BY <1>1, <1>2, OutsHeld
<1>4. IMAP!Ignored(IMAP!Answer(p.s, TRUE)) \subseteq Outs(H) /\ IMAP!Out(p.s, "None") \in Outs(H)
  BY <1>3, CommandHeld, IgnoredHeld, OutHeld DEF IMAP!Errors
<1> QED BY <1>2, <1>3, <1>4

(* The list that tells the delimiter, which when it succeeds tells the       *)
(* namespace too.                                                            *)
LEMMA ListHeld ==
    ASSUME NEW H, NEW s \in Held(H), NEW o \in IMAP!ListForDelimiter(s)
    PROVE  o \in Outs(H) /\ (o.err = "None" => o.s.namespace)
<1>1. PICK p \in IMAP!Answer(s, IMAP!Authenticated(s)) :
          o \in IF p.err = "None"
                THEN {IMAP!Out(p.s, "Other"), IMAP!Out(IMAP!Configured(p.s), "None")} ELSE {p}
  BY DEF IMAP!ListForDelimiter, IMAP!Then
<1>2. p \in Outs(H) /\ p.s \in Held(H)
  BY <1>1, CommandHeld, ReadyOrNot, OutsHeld
<1>3. IMAP!Configured(p.s) \in Held(H) /\ IMAP!Configured(p.s).namespace
  BY <1>2, ChangesHeld DEF Changes
<1>4. /\ IMAP!Out(p.s, "Other") \in Outs(H) /\ IMAP!Out(p.s, "Other").err = "Other"
      /\ IMAP!Out(IMAP!Configured(p.s), "None") \in Outs(H)
      /\ IMAP!Out(IMAP!Configured(p.s), "None").s = IMAP!Configured(p.s)
  BY <1>2, <1>3, OutHeld DEF IMAP!Errors, IMAP!Out
<1> QED BY <1>1, <1>2, <1>3, <1>4

(* The functions that login() may be.                                        *)
Holds(login) == \A H : \A s \in Held(H) : login[s] \subseteq Outs(H)
Logs == {login \in [IMAP!Session -> SUBSET Typed] : Holds(login)}

(* loginIfNeeded(), whatever login() does.                                   *)
LEMMA LoginIfNeededHeld ==
    ASSUME NEW login, Holds(login), NEW H, NEW s \in Held(H), NEW o \in IMAP!LoginIfNeeded(s, login)
    PROVE  o \in Outs(H)
<1>1. PICK p \in IMAP!ConnectIfNeeded(s) :
          o \in IF p.err = "None"
                THEN IF p.s.state = "CONNECTED" THEN login[p.s] ELSE {IMAP!Out(p.s, "None")}
                ELSE {p}
  BY DEF IMAP!LoginIfNeeded, IMAP!Then
<1>2. p \in Outs(H) /\ p.s \in Held(H)
  BY <1>1, ConnectIfNeededHeld, OutsHeld
<1>3. login[p.s] \subseteq Outs(H) /\ IMAP!Out(p.s, "None") \in Outs(H)
  BY <1>2, OutHeld DEF Holds, IMAP!Errors
<1> QED BY <1>1, <1>2, <1>3

(* fetchNamespace().                                                         *)
LEMMA FetchNamespaceHeld ==
    ASSUME NEW login, Holds(login), NEW H, NEW s \in Held(H), NEW o \in IMAP!FetchNamespace(s, login)
    PROVE  o \in Outs(H)
<1>1. PICK p \in IMAP!LoginIfNeeded(s, login) :
          o \in IF p.err = "None" THEN IMAP!Command(p.s, IMAP!Authenticated(p.s)) ELSE {p}
  BY DEF IMAP!FetchNamespace, IMAP!Then
<1>2. p \in Outs(H) /\ p.s \in Held(H)
  BY <1>1, LoginIfNeededHeld, OutsHeld
<1> QED BY <1>1, <1>2, CommandHeld, ReadyOrNot

(* The search for the default namespace, which when it succeeds has one.     *)
LEMMA DefaultNamespaceHeld ==
    ASSUME NEW login, Holds(login), NEW H, NEW s \in Held(H), NEW o \in IMAP!DefaultNamespace(s, login)
    PROVE  o \in Outs(H) /\ (o.err = "None" => o.s.namespace)
<1>1. CASE "NAMESPACE" \in s.caps
  <2>1. PICK p \in IMAP!FetchNamespace(s, login) :
            o \in IF p.err = "None"
                  THEN {IMAP!Out(IMAP!Configured(p.s), "None")} \cup IMAP!ListForDelimiter(p.s)
                  ELSE {p}
    BY <1>1 DEF IMAP!DefaultNamespace, IMAP!Then
  <2>2. p \in Outs(H) /\ p.s \in Held(H)
    BY <2>1, FetchNamespaceHeld, OutsHeld
  <2>3. IMAP!Configured(p.s) \in Held(H) /\ IMAP!Configured(p.s).namespace
    BY <2>2, ChangesHeld DEF Changes
  <2>4. /\ IMAP!Out(IMAP!Configured(p.s), "None") \in Outs(H)
        /\ IMAP!Out(IMAP!Configured(p.s), "None").s = IMAP!Configured(p.s)
    BY <2>3, OutHeld DEF IMAP!Errors, IMAP!Out
  <2> QED BY <2>1, <2>2, <2>3, <2>4, ListHeld
<1>2. CASE "NAMESPACE" \notin s.caps
  BY <1>2, ListHeld DEF IMAP!DefaultNamespace
<1> QED BY <1>1, <1>2

(* identity(), and as login() calls it.                                      *)
LEMMA IdentityHeld ==
    ASSUME NEW H, NEW s \in Held(H)
    PROVE  IMAP!Identity(s) \subseteq Outs(H) /\ IMAP!ServerIdentity(s) \subseteq Outs(H)
<1>1. ASSUME NEW o \in IMAP!Identity(s) PROVE o \in Outs(H)
  <2>1. PICK p \in IMAP!ConnectIfNeeded(s) :
            o \in IF p.err = "None" THEN IMAP!Command(p.s, TRUE) ELSE {p}
    BY DEF IMAP!Identity, IMAP!Then
  <2>2. p \in Outs(H) /\ p.s \in Held(H)
    BY <2>1, ConnectIfNeededHeld, OutsHeld
  <2> QED BY <2>1, <2>2, CommandHeld
<1> QED BY <1>1, IgnoredHeld, OutHeld DEF IMAP!ServerIdentity, IMAP!Errors

Done(s) == [s EXCEPT !.configured = TRUE]

(* The steps of login(), one after the other, until one reports an error.    *)
LEMMA LoginSteps ==
    ASSUME NEW login, NEW s, s.state = "CONNECTED", NEW o \in IMAP!LoginOnce(s, login)
    PROVE  \E a \in IMAP!Authenticate(s) :
              \/ a.err # "None" /\ o = a
              \/ /\ a.err = "None"
                 /\ \E b \in IMAP!Capabilities(a.s) :
                       \/ b.err # "None" /\ o = b
                       \/ /\ b.err = "None"
                          /\ \E d \in IMAP!EnableFeatures(b.s) :
                                \/ d.err # "None" /\ o = d
                                \/ /\ d.err = "None"
                                   /\ \E n \in IMAP!DefaultNamespace(d.s, login) :
                                         \/ n.err # "None" /\ o = n
                                         \/ /\ n.err = "None"
                                            /\ \E i \in IMAP!ServerIdentity(n.s) :
                                                  \/ i.err # "None" /\ o = i
                                                  \/ i.err = "None" /\ o = IMAP!Out(Done(i.s), "None")
<1> DEFINE asked == IMAP!Then(IMAP!Authenticate(s), IMAP!Capabilities)
           features == IMAP!Then(asked, IMAP!EnableFeatures)
           named == IMAP!Then(features, LAMBDA t : IMAP!DefaultNamespace(t, login))
           known1 == IMAP!Then(named, IMAP!ServerIdentity)
<1>1. PICK i \in known1 : o \in IF i.err = "None" THEN {IMAP!Out(Done(i.s), "None")} ELSE {i}
  BY DEF IMAP!LoginOnce, IMAP!Then, Done
<1>2. PICK n \in named : i \in IF n.err = "None" THEN IMAP!ServerIdentity(n.s) ELSE {n}
  <2> HIDE DEF named
  <2> QED BY <1>1 DEF IMAP!Then
<1>3. PICK d \in features : n \in IF d.err = "None" THEN IMAP!DefaultNamespace(d.s, login) ELSE {d}
  <2> HIDE DEF features
  <2> QED BY <1>2 DEF IMAP!Then
<1>4. PICK b \in asked : d \in IF b.err = "None" THEN IMAP!EnableFeatures(b.s) ELSE {b}
  <2> HIDE DEF asked
  <2> QED BY <1>3 DEF IMAP!Then
<1>5. PICK a \in IMAP!Authenticate(s) : b \in IF a.err = "None" THEN IMAP!Capabilities(a.s) ELSE {a}
  BY <1>4 DEF IMAP!Then
<1> QED
  <2> HIDE DEF known1, named, features, asked
  <2>1. CASE a.err # "None"
    BY <1>1, <1>2, <1>3, <1>4, <1>5, <2>1
  <2>2. CASE a.err = "None" /\ b.err # "None"
    BY <1>1, <1>2, <1>3, <1>4, <1>5, <2>2
  <2>3. CASE a.err = "None" /\ b.err = "None" /\ d.err # "None"
    BY <1>1, <1>2, <1>3, <1>4, <1>5, <2>3
  <2>4. CASE a.err = "None" /\ b.err = "None" /\ d.err = "None"
    BY <1>1, <1>2, <1>3, <1>4, <1>5, <2>4
  <2> QED BY <2>1, <2>2, <2>3, <2>4

(* login(): when it was completed the namespace is known, because the search *)
(* for it succeeded and nothing forgets it.                                  *)
LEMMA LoginOnceHeld ==
    ASSUME NEW login, Holds(login), NEW H, NEW s \in Held(H), NEW o \in IMAP!LoginOnce(s, login)
    PROVE  o \in Outs(H)
<1>1. CASE s.state # "CONNECTED"
  <2>1. o = IMAP!Out(s, "AssertFailed")
    BY <1>1 DEF IMAP!LoginOnce, IMAP!Stop
  <2> QED BY <2>1, OutHeld
<1>2. CASE s.state = "CONNECTED"
  <2> DEFINE K == [offers |-> H.offers, known |-> TRUE, sound |-> H.sound]
  <2>1. PICK a \in IMAP!Authenticate(s) :
              \/ o = a
              \/ \E b \in IMAP!Capabilities(a.s) :
                     \/ o = b
                     \/ \E d \in IMAP!EnableFeatures(b.s) :
                            \/ o = d
                            \/ \E n \in IMAP!DefaultNamespace(d.s, login) :
                                   \/ o = n
                                   \/ /\ n.err = "None"
                                      /\ \E i \in IMAP!ServerIdentity(n.s) :
                                             o = i \/ o = IMAP!Out(Done(i.s), "None")
    <3>1. \E a \in IMAP!Authenticate(s) :
              \/ a.err # "None" /\ o = a
              \/ /\ a.err = "None"
                 /\ \E b \in IMAP!Capabilities(a.s) :
                       \/ b.err # "None" /\ o = b
                       \/ /\ b.err = "None"
                          /\ \E d \in IMAP!EnableFeatures(b.s) :
                                \/ d.err # "None" /\ o = d
                                \/ /\ d.err = "None"
                                   /\ \E n \in IMAP!DefaultNamespace(d.s, login) :
                                         \/ n.err # "None" /\ o = n
                                         \/ /\ n.err = "None"
                                            /\ \E i \in IMAP!ServerIdentity(n.s) :
                                                  \/ i.err # "None" /\ o = i
                                                  \/ i.err = "None" /\ o = IMAP!Out(Done(i.s), "None")
      BY <1>2, LoginSteps
    <3> QED BY <3>1, Zenon
  <2>2. a \in Outs(H) /\ a.s \in Held(H)
    BY AuthenticateHeld, OutsHeld
  <2>3. CASE o = a
    BY <2>2, <2>3
  <2>4. CASE o # a
    <3>1. PICK b \in IMAP!Capabilities(a.s) :
              \/ o = b
              \/ \E d \in IMAP!EnableFeatures(b.s) :
                     \/ o = d
                     \/ \E n \in IMAP!DefaultNamespace(d.s, login) :
                            \/ o = n
                            \/ /\ n.err = "None"
                               /\ \E i \in IMAP!ServerIdentity(n.s) :
                                      o = i \/ o = IMAP!Out(Done(i.s), "None")
      BY <2>1, <2>4
    <3>2. b \in Outs(H) /\ b.s \in Held(H)
      BY <2>2, <3>1, CapabilitiesHeld, OutsHeld
    <3>3. SUFFICES ASSUME o # b PROVE o \in Outs(H)
      BY <3>2
    <3>4. PICK d \in IMAP!EnableFeatures(b.s) :
              \/ o = d
              \/ \E n \in IMAP!DefaultNamespace(d.s, login) :
                     \/ o = n
                     \/ /\ n.err = "None"
                        /\ \E i \in IMAP!ServerIdentity(n.s) :
                               o = i \/ o = IMAP!Out(Done(i.s), "None")
      BY <3>1, <3>3
    <3>5. d \in Outs(H) /\ d.s \in Held(H)
      BY <3>2, <3>4, EnableFeaturesHeld, OutsHeld
    <3>6. SUFFICES ASSUME o # d PROVE o \in Outs(H)
      BY <3>5
    <3>7. PICK n \in IMAP!DefaultNamespace(d.s, login) :
              \/ o = n
              \/ /\ n.err = "None"
                 /\ \E i \in IMAP!ServerIdentity(n.s) :
                        o = i \/ o = IMAP!Out(Done(i.s), "None")
      BY <3>4, <3>6
    <3>8. n \in Outs(H) /\ n.s \in Held(H) /\ (n.err = "None" => n.s.namespace)
      BY <3>5, <3>7, DefaultNamespaceHeld, OutsHeld
    <3>9. SUFFICES ASSUME o # n PROVE o \in Outs(H)
      BY <3>8
    <3>10. PICK i \in IMAP!ServerIdentity(n.s) : o = i \/ o = IMAP!Out(Done(i.s), "None")
      BY <3>7, <3>9
    <3>11. n.s \in Held(K)
      BY <3>7, <3>8, <3>9 DEF Held
    <3>12. i \in Outs(K) /\ i.s \in Held(K)
      BY <3>10, <3>11, IdentityHeld, OutsHeld
    <3>13. i \in Outs(H)
      BY <3>12, <3>8, <3>10, IdentityHeld
    <3>14. i.s \in IMAP!Session /\ i.s.offers = H.offers /\ i.s.namespace
      BY <3>12 DEF Held
    <3>15. Done(i.s) \in IMAP!Session /\ Done(i.s).offers = H.offers /\ Done(i.s).namespace
      BY <3>14 DEF Done, IMAP!Session
    <3>16. Done(i.s) \in Held(H)
      BY <3>15 DEF Held
    <3> QED BY <3>10, <3>13, <3>16, OutHeld DEF IMAP!Errors
  <2> QED BY <2>3, <2>4
<1> QED BY <1>1, <1>2

(* A login that may be nested in a login is one again.                       *)
LEMMA NestedInLogs ==
    ASSUME NEW login \in Logs
    PROVE  [s \in IMAP!Session |-> IMAP!LoginOnce(s, login)] \in Logs
<1>1. \A H : \A s \in Held(H) : IMAP!LoginOnce(s, login) \subseteq Outs(H)
  BY LoginOnceHeld DEF Logs
<1>2. ASSUME NEW s \in IMAP!Session PROVE IMAP!LoginOnce(s, login) \in SUBSET Typed
  <2> DEFINE H == [offers |-> s.offers, known |-> FALSE, sound |-> FALSE]
  <2>1. s \in Held(H)
    BY DEF Held
  <2>2. Outs(H) \subseteq Typed
    BY DEF Outs
  <2> HIDE DEF H
  <2> QED BY <1>1, <2>1, <2>2
<1>3. \A H : Held(H) \subseteq IMAP!Session
  BY DEF Held
<1> QED BY <1>1, <1>2, <1>3 DEF Logs, Holds

(* A login[n] of the recursive function is made of login[n - 1].             *)
LEMMA LoginsRun ==
    \A n \in 1 .. (MaxRelogins + 1), s \in IMAP!Session :
        /\ IMAP!Logins[n][s] = IMAP!LoginOnce(s, IMAP!Logins[n - 1])
        /\ IMAP!Logins[0][s] = {}
<1> DEFINE m == MaxRelogins + 1
           Nested(login) == [s \in IMAP!Session |-> IMAP!LoginOnce(s, login)]
           none == [s \in IMAP!Session |-> {}]
           F(f) == [n \in 0 .. m |-> [s \in IMAP!Session |->
                        IF n = 0 THEN {} ELSE IMAP!LoginOnce(s, f[n - 1])]]
           G == [n \in 1 .. m |-> [login \in Logs |-> Nested(login)]]
<1>1. m \in Nat /\ none \in Logs
  <2>1. m \in Nat
    BY OffersAssumption
  <2>2. \A H : \A s \in Held(H) : none[s] = {}
    BY DEF Held
  <2>3. none \in [IMAP!Session -> SUBSET Typed]
    OBVIOUS
  <2> HIDE DEF none
  <2>4. Holds(none)
    BY <2>2 DEF Holds
  <2> QED BY <2>1, <2>3, <2>4 DEF Logs
<1>2. \A login \in Logs : Nested(login) \in Logs
  BY NestedInLogs
<1>3. IMAP!Logins = CHOOSE f : f = F(f)
  BY DEF IMAP!Logins
<1>4. \E f : f = F(f)
  <2>1. G \in [1 .. m -> [Logs -> Logs]]
    BY <1>2
  <2>2. PICK f : RunOf(f, m, Logs, none, G)
    <3> HIDE DEF G, m, none
    <3> QED BY <1>1, <2>1, RunExists
  <2>3. ASSUME NEW n \in 0 .. m
        PROVE  f[n] = [s \in IMAP!Session |-> IF n = 0 THEN {} ELSE IMAP!LoginOnce(s, f[n - 1])]
    <3>1. CASE n = 0
      <4>1. f[n] = none
        BY <2>2, <3>1 DEF RunOf
      <4>2. f[n] = [s \in IMAP!Session |-> {}]
        BY <4>1
      <4> QED BY <3>1, <4>2
    <3>2. CASE n # 0
      <4>1. n \in 1 .. m /\ n - 1 \in 0 .. m
        BY <1>1, <3>2
      <4>2. f[n] = G[n][f[n - 1]] /\ f[n - 1] \in Logs
        <5> HIDE DEF G
        <5> QED BY <2>2, <4>1 DEF RunOf
      <4>3. f[n] = [s \in IMAP!Session |-> IMAP!LoginOnce(s, f[n - 1])]
        BY <4>1, <4>2
      <4> QED BY <3>2, <4>3
    <3> QED BY <3>1, <3>2
  <2>4. f = F(f)
    BY <2>2, <2>3 DEF RunOf
  <2> HIDE DEF F
  <2> QED BY <2>4
<1>5. IMAP!Logins = F(IMAP!Logins)
  <2> HIDE DEF F
  <2> QED BY <1>3, <1>4
<1> SUFFICES ASSUME NEW n \in 1 .. m, NEW s \in IMAP!Session
             PROVE  /\ IMAP!Logins[n][s] = IMAP!LoginOnce(s, IMAP!Logins[n - 1])
                    /\ IMAP!Logins[0][s] = {}
  OBVIOUS
<1>6. n \in 0 .. m /\ 0 \in 0 .. m /\ n # 0
  BY <1>1
<1> DEFINE R(f, k) == [t \in IMAP!Session |-> IF k = 0 THEN {} ELSE IMAP!LoginOnce(t, f[k - 1])]
<1>7. \A k \in 0 .. m : IMAP!Logins[k] = R(IMAP!Logins, k)
  BY <1>5
<1>8. IMAP!Logins[n] = R(IMAP!Logins, n) /\ IMAP!Logins[0] = R(IMAP!Logins, 0)
  <2> HIDE DEF R, m
  <2> QED BY <1>6, <1>7
<1>9. IMAP!Logins[0][s] = {}
  BY <1>8
<1>10. R(IMAP!Logins, n)[s] = IMAP!LoginOnce(s, IMAP!Logins[n - 1])
  BY <1>6
<1> QED BY <1>8, <1>9, <1>10

(* However many logins are in one another.                                   *)
LEMMA LoginHolds == Holds(IMAP!Login)
<1> DEFINE m == MaxRelogins + 1
           Good == {login \in {IMAP!Logins[k] : k \in 0 .. m} : Holds(login)}
<1>1. m \in Nat /\ 1 \in 1 .. m /\ m \in 0 .. m /\ 0 \in 0 .. m
  BY OffersAssumption
<1>2. \A H : Held(H) \subseteq IMAP!Session
  BY DEF Held
<1>3. IMAP!Logins[0] \in Good
  <2>1. \A s \in IMAP!Session : IMAP!Logins[0][s] = {}
    BY <1>1, LoginsRun
  <2>2. Holds(IMAP!Logins[0])
    BY <1>2, <2>1 DEF Holds
  <2> QED BY <1>1, <2>2
<1>4. ASSUME NEW k \in 1 .. m, IMAP!Logins[k - 1] \in Good PROVE IMAP!Logins[k] \in Good
  <2>1. Holds(IMAP!Logins[k - 1])
    BY <1>4
  <2>2. ASSUME NEW H, NEW s \in Held(H) PROVE IMAP!Logins[k][s] \subseteq Outs(H)
    <3>1. IMAP!Logins[k][s] = IMAP!LoginOnce(s, IMAP!Logins[k - 1])
      BY <1>2, LoginsRun
    <3> QED BY <2>1, <3>1, LoginOnceHeld
  <2>3. k \in 0 .. m
    BY <1>1
  <2> QED BY <2>2, <2>3 DEF Holds
<1>5. \A k \in 0 .. m : IMAP!Logins[k] \in Good
  <2> HIDE DEF Good, m
  <2> QED BY <1>1, <1>3, <1>4, RunStays
<1>6. Holds(IMAP!Logins[m])
  BY <1>1, <1>5
<1> QED BY <1>6 DEF IMAP!Login

(* loginIfNeeded() with login() as it is.                                    *)
LEMMA LogInHeld ==
    ASSUME NEW H, NEW s \in Held(H), NEW o \in IMAP!LogIn(s)
    PROVE  o \in Outs(H)
BY LoginHolds, LoginIfNeededHeld DEF IMAP!LogIn

(* select().                                                                 *)
LEMMA SelectHeld ==
    ASSUME NEW H, NEW s \in Held(H), NEW f \in Folders, NEW o \in IMAP!Select(s, f)
    PROVE  o \in Outs(H)
<1>1. CASE s.state \notin {"LOGGEDIN", "SELECTED"}
  <2>1. o = IMAP!Out(s, "AssertFailed")
    BY <1>1 DEF IMAP!Select, IMAP!Stop
  <2> QED BY <2>1, OutHeld
<1>2. CASE s.state \in {"LOGGEDIN", "SELECTED"}
  <2>1. PICK p \in IMAP!Command(s, IMAP!Authenticated(s)) :
          o = CASE p.err = "None" ->
                       [p EXCEPT !.s.state = "SELECTED", !.s.folder = f, !.s.peer = f]
                [] p.err = "Other" ->
                       [p EXCEPT !.s.state = "LOGGEDIN", !.s.folder = NoFolder, !.s.peer = "authenticated"]
                [] p.err = "Parse" -> [p EXCEPT !.s.peer = f]
                [] OTHER -> p
    BY <1>2, Zenon DEF IMAP!Select
  <2>2. p \in Outs(H) /\ p \in Typed /\ p.s \in Held(H) /\ p.s \in IMAP!Session
    BY <2>1, CommandHeld, ReadyOrNot, OutsHeld
  <2>3. Entered(p.s, f) \in Held(H) /\ Refused(p.s) \in Held(H) /\ Unknown(p.s, f) \in Held(H)
    BY <2>2, ChangesHeld DEF Changes
  <2>4. CASE p.err = "None"
    <3>1. o = [p EXCEPT !.s.state = "SELECTED", !.s.folder = f, !.s.peer = f]
      BY <2>1, <2>4
    <3>2. o = [p EXCEPT !.s = Entered(p.s, f)]
      BY <2>2, <3>1 DEF Entered, IMAP!Session, Typed
    <3> QED BY <2>2, <2>3, <2>4, <3>2, OutsHeld
  <2>5. CASE p.err = "Other"
    <3>1. o = [p EXCEPT !.s.state = "LOGGEDIN", !.s.folder = NoFolder, !.s.peer = "authenticated"]
      BY <2>1, <2>5
    <3>2. o = [p EXCEPT !.s = Refused(p.s)]
      BY <2>2, <3>1 DEF Refused, IMAP!Session, Typed
    <3> QED BY <2>2, <2>3, <2>5, <3>2, OutsHeld
  <2>6. CASE p.err = "Parse"
    <3>1. o = [p EXCEPT !.s.peer = f]
      BY <2>1, <2>6
    <3>2. o = [p EXCEPT !.s = Unknown(p.s, f)]
      BY <2>2, <3>1 DEF Unknown, IMAP!Session, Typed
    <3> QED BY <2>2, <2>3, <2>6, <3>2, OutsHeld
  <2>7. CASE p.err \notin {"None", "Other", "Parse"}
    <3>1. o = p
      BY <2>1, <2>7
    <3> QED BY <2>2, <3>1
  <2> QED BY <2>4, <2>5, <2>6, <2>7
<1> QED BY <1>1, <1>2

(* selectIfNeeded().                                                         *)
LEMMA SelectIfNeededHeld ==
    ASSUME NEW H, NEW s \in Held(H), NEW f \in Folders, NEW o \in IMAP!SelectIfNeeded(s, f)
    PROVE  o \in Outs(H)
<1> DEFINE A(t) == CASE t.state = "SELECTED" ->
                           IF t.folder = NoFolder THEN IMAP!Stop(t, "AssertFailed")
                           ELSE IF Fold[t.folder] = Fold[f] THEN {IMAP!Out(t, "None")}
                           ELSE IMAP!Select(t, f)
                     [] t.state = "LOGGEDIN" -> IMAP!Select(t, f)
                     [] OTHER -> {IMAP!Out(t, "None")}
<1>1. PICK p \in IMAP!LogIn(s) : o \in IF p.err = "None" THEN A(p.s) ELSE {p}
  BY DEF IMAP!SelectIfNeeded, IMAP!Then
<1>2. p \in Outs(H) /\ p.s \in Held(H)
  BY LogInHeld, OutsHeld
<1>3. A(p.s) \subseteq {IMAP!Out(p.s, "AssertFailed"), IMAP!Out(p.s, "None")} \cup IMAP!Select(p.s, f)
  BY DEF IMAP!Stop
<1> HIDE DEF A
<1> QED BY <1>1, <1>2, <1>3, SelectHeld, OutHeld DEF IMAP!Errors

(* A command in a folder, or about one.                                      *)
LEMMA InFolderHeld ==
    ASSUME NEW H, NEW s \in Held(H), NEW f \in Folders,
           NEW o \in IMAP!InFolder(s, f) \cup IMAP!AppendMessage(s, f)
    PROVE  o \in Outs(H)
<1>1. PICK p \in IMAP!SelectIfNeeded(s, f) :
          \/ o \in IF p.err = "None" THEN IMAP!Command(p.s, IMAP!Selected(p.s)) ELSE {p}
          \/ o \in IF p.err = "None" THEN IMAP!Command(p.s, IMAP!Authenticated(p.s)) ELSE {p}
  BY DEF IMAP!InFolder, IMAP!AppendMessage, IMAP!Then
<1>2. p \in Outs(H) /\ p.s \in Held(H)
  BY SelectIfNeededHeld, OutsHeld
<1> QED BY <1>1, <1>2, CommandHeld, ReadyOrNot

(* Commands about other folders than the selected one, INBOX.                *)
LEMMA FromInboxHeld ==
    ASSUME NEW H, NEW s \in Held(H), NEW o \in IMAP!FromInbox(s) \cup IMAP!CreateFolder(s)
    PROVE  o \in Outs(H)
<1>1. IMAP!FromInbox(s) = IMAP!AppendMessage(s, INBOX) /\ \A t : IMAP!FromInbox(t) = IMAP!AppendMessage(t, INBOX)
  BY DEF IMAP!FromInbox, IMAP!AppendMessage
<1>2. \A t \in Held(H) : IMAP!FromInbox(t) \subseteq Outs(H)
  BY <1>1, InFolderHeld, FoldersAssumption
<1>3. CASE o \in IMAP!CreateFolder(s)
  <2>1. PICK p \in IMAP!FromInbox(s) : o \in IF p.err = "None" THEN IMAP!FromInbox(p.s) ELSE {p}
    BY <1>3 DEF IMAP!CreateFolder, IMAP!SubscribeFolder, IMAP!Then
  <2> QED BY <1>2, <2>1, OutsHeld
<1> QED BY <1>2, <1>3

(* A command after a login.                                                  *)
LEMMA AccountHeld ==
    ASSUME NEW H, NEW s \in Held(H), NEW f \in Folders,
           NEW o \in IMAP!Quota(s) \cup IMAP!CustomCommand(s) \cup IMAP!FolderStatus(s) \cup IMAP!FolderInfo(s, f)
    PROVE  o \in Outs(H)
<1>1. PICK p \in IMAP!LogIn(s) :
          \/ o \in IF p.err = "None" THEN IMAP!Command(p.s, IMAP!Authenticated(p.s)) ELSE {p}
          \/ o \in IF p.err = "None" THEN IMAP!Command(p.s, TRUE) ELSE {p}
          \/ o \in IF p.err = "None"
                   THEN IF p.s.state \in {"LOGGEDIN", "SELECTED"}
                        THEN IMAP!Command(p.s, IMAP!Authenticated(p.s)) ELSE IMAP!Stop(p.s, "AssertFailed")
                   ELSE {p}
          \/ o \in IF p.err = "None" THEN IMAP!Select(p.s, f) ELSE {p}
  BY DEF IMAP!Quota, IMAP!CustomCommand, IMAP!FolderStatus, IMAP!FolderInfo, IMAP!Then
<1>2. p \in Outs(H) /\ p.s \in Held(H)
  BY LogInHeld, OutsHeld
<1>3. /\ IMAP!Command(p.s, IMAP!Authenticated(p.s)) \subseteq Outs(H) /\ IMAP!Command(p.s, TRUE) \subseteq Outs(H)
      /\ IMAP!Stop(p.s, "AssertFailed") \subseteq Outs(H) /\ IMAP!Select(p.s, f) \subseteq Outs(H)
  BY <1>2, CommandHeld, ReadyOrNot, OutHeld, SelectHeld DEF IMAP!Stop
<1> QED BY <1>1, <1>2, <1>3

(* The capabilities, from memory or from the server.                         *)
LEMMA CapabilityOperationHeld ==
    ASSUME NEW H, NEW s \in Held(H), NEW o \in IMAP!StoredOrAskedCapability(s)
    PROVE  o \in Outs(H)
<1>1. ASSUME NEW t \in Held(H), NEW q \in IMAP!Capability(t) PROVE q \in Outs(H)
  <2>1. PICK p \in IMAP!ConnectIfNeeded(t) : q \in IF p.err = "None" THEN IMAP!AskCapability(p.s) ELSE {p}
    BY <1>1 DEF IMAP!Capability, IMAP!Then
  <2> QED BY <2>1, ConnectIfNeededHeld, CapabilitiesHeld, OutsHeld
<1>2. CASE o = IMAP!Out(IMAP!ApplyCapabilities(s), "None")
  BY <1>2, ChangesHeld, OutHeld DEF Changes, IMAP!Errors
<1>3. CASE \E p \in IMAP!LogIn(s) : o \in IF p.err = "None" THEN IMAP!Capability(p.s) ELSE {p}
  BY <1>1, <1>3, LogInHeld, OutsHeld
<1> QED BY <1>2, <1>3 DEF IMAP!StoredOrAskedCapability, IMAP!Then

(* noop().                                                                   *)
LEMMA NoopHeld ==
    ASSUME NEW H, NEW s \in Held(H), NEW o \in IMAP!Noop(s)
    PROVE  o \in Outs(H)
<1>1. CASE s.stream = "none"
  BY <1>1, OutHeld DEF IMAP!Noop
<1>2. CASE s.stream # "none"
  <2>1. PICK p \in IMAP!LogIn(s) :
            o \in IF p.err = "None"
                  THEN {IF q.err = "Parse" THEN IMAP!Out(q.s, "None") ELSE q : q \in IMAP!Answer(p.s, TRUE)}
                  ELSE {p}
    BY <1>2 DEF IMAP!Noop, IMAP!Then
  <2>2. p \in Outs(H) /\ p.s \in Held(H)
    BY LogInHeld, OutsHeld
  <2>3. IMAP!Answer(p.s, TRUE) \subseteq Outs(H)
    BY <2>2, CommandHeld
  <2>4. \A q \in Outs(H) : IMAP!Out(q.s, "None") \in Outs(H)
    BY OutsHeld, OutHeld DEF IMAP!Errors
  <2> QED BY <2>1, <2>2, <2>3, <2>4
<1> QED BY <1>1, <1>2

(* A login followed by fetchDelimiterIfNeeded().                             *)
LEMMA DelimiterHeld ==
    ASSUME NEW H, NEW s \in Held(H), NEW o \in IMAP!Then(IMAP!LogIn(s), IMAP!FetchDelimiterIfNeeded)
    PROVE  o \in Outs(H)
<1>1. PICK p \in IMAP!LogIn(s) : o \in IF p.err = "None" THEN IMAP!FetchDelimiterIfNeeded(p.s) ELSE {p}
  BY DEF IMAP!Then
<1>2. p \in Outs(H) /\ p.s \in Held(H)
  BY LogInHeld, OutsHeld
<1>3. ASSUME NEW t \in Held(H) PROVE IMAP!Out(t, "None") \in Outs(H) /\ IMAP!Out(Told(t), "None") \in Outs(H)
  BY ChangesHeld, OutHeld DEF Changes, IMAP!Errors
<1>4. ASSUME NEW q \in IMAP!FetchDelimiterIfNeeded(p.s) PROVE q \in Outs(H)
  <2>1. \/ q = IMAP!Out(p.s, "None")
        \/ \E v \in IMAP!Command(p.s, IMAP!Authenticated(p.s)) :
              q \in IF v.err = "None" THEN {IMAP!Out(v.s, "None"), IMAP!Out(Told(v.s), "None")} ELSE {v}
    BY DEF IMAP!FetchDelimiterIfNeeded, IMAP!Then, Told
  <2>2. IMAP!Command(p.s, IMAP!Authenticated(p.s)) \subseteq Outs(H)
    BY <1>2, CommandHeld, ReadyOrNot
  <2> QED BY <1>2, <1>3, <2>1, <2>2, OutsHeld
<1> QED BY <1>1, <1>2, <1>4

(* fetchSubscribedFolders(): a session without a namespace has completed no  *)
(* login.                                                                    *)
LEMMA SubscribedFoldersHeld ==
    ASSUME NEW H, NEW s \in Held(H), NEW o \in IMAP!FetchSubscribedFolders(s)
    PROVE  o \in Outs(H)
<1> DEFINE ready == IMAP!Then(IMAP!LogIn(s), IMAP!FetchDelimiterIfNeeded)
<1>1. ready \subseteq Outs(H)
  BY DelimiterHeld
<1> HIDE DEF ready
<1>2. PICK p \in ready :
          o \in IF p.err = "None"
                THEN IF p.s.namespace THEN IMAP!Command(p.s, IMAP!Authenticated(p.s))
                                      ELSE {IMAP!Out(p.s, "NullNamespace")}
                ELSE {p}
  BY DEF IMAP!FetchSubscribedFolders, IMAP!Then, IMAP!Stop, ready
<1>3. p \in Outs(H) /\ p.s \in Held(H) /\ p.s \in IMAP!Session
  BY <1>1, OutsHeld
<1>4. IMAP!Command(p.s, IMAP!Authenticated(p.s)) \subseteq Outs(H)
  BY <1>3, CommandHeld, ReadyOrNot
<1>5. CASE o = IMAP!Out(p.s, "NullNamespace") /\ ~ p.s.namespace
  <2>1. o \in Typed /\ o.s = p.s
    BY <1>3, <1>5, OutTyped DEF IMAP!Faults
  <2>2. H.sound => ~ p.s.configured
    BY <1>3, <1>5 DEF Held
  <2> QED BY <1>3, <2>1, <2>2 DEF Outs
<1> QED BY <1>2, <1>3, <1>4, <1>5

(* fetchAllFolders().                                                        *)
LEMMA AllFoldersHeld ==
    ASSUME NEW H, NEW s \in Held(H), NEW o \in IMAP!FetchAllFolders(s)
    PROVE  o \in Outs(H)
<1> DEFINE ready == IMAP!Then(IMAP!LogIn(s), IMAP!FetchDelimiterIfNeeded)
           listed == IMAP!Then(ready, LAMBDA t : IMAP!Command(t, IMAP!Authenticated(t)))
<1>1. ready \subseteq Outs(H)
  BY DelimiterHeld
<1>2. \A p \in Outs(H) : IMAP!Command(p.s, IMAP!Authenticated(p.s)) \subseteq Outs(H)
  BY CommandHeld, ReadyOrNot, OutsHeld
<1>3. ASSUME NEW q \in listed PROVE q \in Outs(H)
  <2> HIDE DEF ready
  <2>1. PICK p \in ready : q \in IF p.err = "None" THEN IMAP!Command(p.s, IMAP!Authenticated(p.s)) ELSE {p}
    BY <1>3 DEF IMAP!Then
  <2> QED BY <1>1, <1>2, <2>1
<1>4. PICK q \in listed :
          o \in IF q.err = "None"
                THEN {IMAP!Out(q.s, "None")} \cup IMAP!Command(q.s, IMAP!Authenticated(q.s)) ELSE {q}
  BY DEF IMAP!FetchAllFolders, IMAP!Then
<1> HIDE DEF listed
<1>5. q \in Outs(H) /\ IMAP!Out(q.s, "None") \in Outs(H)
  BY <1>3, <1>4, OutsHeld, OutHeld DEF IMAP!Errors
<1> QED BY <1>2, <1>4, <1>5

(* fetchMessageAttachmentToFile().                                           *)
LEMMA ToFileHeld ==
    ASSUME NEW H, NEW s \in Held(H), NEW f \in Folders, NEW o \in IMAP!FetchAttachmentToFile(s, f)
    PROVE  o \in Outs(H)
<1>1. PICK p \in IMAP!SelectIfNeeded(s, f) : o \in IF p.err = "None" THEN IMAP!InFolder(p.s, f) ELSE {p}
  BY DEF IMAP!FetchAttachmentToFile, IMAP!Then
<1> QED BY <1>1, SelectIfNeededHeld, InFolderHeld, OutsHeld

(* Batches.                                                                  *)
LEMMA InBatchesHeld ==
    ASSUME NEW H, NEW s \in Held(H), NEW f \in Folders, NEW o \in IMAP!InBatches(s, f)
    PROVE  o \in Outs(H)
<1> DEFINE batch(t) == IMAP!Command(t, IMAP!Selected(t))
<1>1. PICK p \in IMAP!SelectIfNeeded(s, f) :
          o \in IF p.err = "None"
                THEN {IMAP!Out(p.s, "None")} \cup batch(p.s) \cup IMAP!Then(batch(p.s), batch) ELSE {p}
  BY DEF IMAP!InBatches, IMAP!Then
<1>2. p \in Outs(H) /\ p.s \in Held(H)
  BY SelectIfNeededHeld, OutsHeld
<1>3. \A t \in Held(H) : batch(t) \subseteq Outs(H) /\ IMAP!Out(t, "None") \in Outs(H)
  BY CommandHeld, ReadyOrNot, OutHeld DEF IMAP!Errors
<1>4. ASSUME NEW v \in IMAP!Then(batch(p.s), batch) PROVE v \in Outs(H)
  <2>1. PICK q \in batch(p.s) : v \in IF q.err = "None" THEN batch(q.s) ELSE {q}
    BY DEF IMAP!Then
  <2> HIDE DEF batch
  <2> QED BY <1>2, <1>3, <2>1, OutsHeld
<1> HIDE DEF batch
<1> QED BY <1>1, <1>2, <1>3, <1>4

(* fetchMessages(), whose second attempt may not matter.                     *)
LEMMA FetchMessagesHeld ==
    ASSUME NEW H, NEW s \in Held(H), NEW f \in Folders, NEW o \in IMAP!FetchMessages(s, f)
    PROVE  o \in Outs(H)
<1> DEFINE again(t) ==
            {CASE q.err \in IMAP!Faults -> q
               [] q.err = "None" -> [q EXCEPT !.s.mbox = TRUE]
               [] OTHER -> [q EXCEPT !.err = "None"] : q \in IMAP!InFolder(t, f)}
<1>1. PICK p \in IMAP!InFolder(s, f) :
          o \in IF p.err = "None" THEN {IMAP!Out(p.s, "None")} \cup (IF p.s.mbox THEN {} ELSE again(p.s)) ELSE {p}
  BY DEF IMAP!FetchMessages, IMAP!InFolder, IMAP!Then
<1>2. p \in Outs(H) /\ p.s \in Held(H) /\ IMAP!Out(p.s, "None") \in Outs(H)
  BY InFolderHeld, OutsHeld, OutHeld DEF IMAP!Errors
<1>3. CASE o \in again(p.s)
  <2>1. PICK q \in IMAP!InFolder(p.s, f) :
            o = CASE q.err \in IMAP!Faults -> q
                  [] q.err = "None" -> [q EXCEPT !.s.mbox = TRUE]
                  [] OTHER -> [q EXCEPT !.err = "None"]
    BY <1>3
  <2>2. q \in Outs(H) /\ q \in Typed /\ q.s \in Held(H) /\ q.s \in IMAP!Session
    BY <1>2, <2>1, InFolderHeld, OutsHeld
  <2>3. CASE q.err \in IMAP!Faults
    <3>2. q.err # "None"
      BY <2>3 DEF IMAP!Faults
    <3>1. o = q
      BY <2>1, <2>3, <3>2
    <3> QED BY <2>2, <3>1
  <2>4. CASE q.err = "None"
    <3>3. q.err \notin IMAP!Faults
      BY <2>4 DEF IMAP!Faults
    <3>1. o = [q EXCEPT !.s = Marked(q.s)]
      BY <2>1, <2>4, <3>3 DEF Marked
    <3>2. Marked(q.s) \in Held(H)
      BY <2>2, ChangesHeld DEF Changes
    <3> QED BY <2>2, <2>4, <3>1, <3>2, OutsHeld
  <2>5. CASE q.err \notin IMAP!Faults /\ q.err # "None"
    <3>1. o = [q EXCEPT !.err = "None"]
      BY <2>1, <2>5
    <3>2. o.s = q.s /\ o.err = "None" /\ o \in Typed
      BY <2>2, <3>1 DEF Typed, IMAP!Errors
    <3> QED BY <2>2, <3>2 DEF Outs
  <2> QED BY <2>3, <2>4, <2>5
<1> HIDE DEF again
<1> QED BY <1>1, <1>2, <1>3

(* The IDLE operation.                                                       *)
LEMMA IdleHeld ==
    ASSUME NEW H, NEW s \in Held(H), NEW f \in Folders, NEW o \in IMAP!Idle(s, f)
    PROVE  o \in Outs(H)
<1> DEFINE E == Outs(H)
           W == Held(H)
           command(t) == IMAP!Command(t, IMAP!Selected(t))
           wait(t) == {IMAP!Out(t, "None"), IMAP!Out(Closing(t), "Connection")}
           waiting(t) == IMAP!Then(command(t), wait)
           waited(t) == IMAP!Then(waiting(t), command)
           after(t) == IMAP!Then(IMAP!InFolder(t, f), LAMBDA v : {IMAP!Out(v, "None")} \cup waited(v))
           idle(t) == IMAP!Then(IMAP!SelectIfNeeded(t, f), LAMBDA u : waited(u) \cup after(u))
<1>1. PICK p \in IMAP!SelectIfNeeded(s, f) :
          o \in IF p.err = "None"
                THEN {IMAP!Out(p.s, "None")} \cup (IF "IDLE" \in p.s.caps THEN idle(p.s) ELSE {}) ELSE {p}
  BY DEF IMAP!Idle, IMAP!Then, Closing
<1>2. p \in E
  BY SelectIfNeededHeld
<1>3. \A t \in W : command(t) \subseteq E /\ IMAP!Out(t, "None") \in E
  BY CommandHeld, ReadyOrNot, OutHeld DEF IMAP!Errors
<1>4. \A t \in W : wait(t) \subseteq E
  BY ChangesHeld, OutHeld DEF Changes, IMAP!Errors
<1>5. \A q \in E : q.s \in W
  BY OutsHeld
<1>6. \A t \in W : IMAP!SelectIfNeeded(t, f) \subseteq E /\ IMAP!InFolder(t, f) \subseteq E
  BY SelectIfNeededHeld, InFolderHeld
<1> HIDE DEF W, E, command, wait
<1>7. ASSUME NEW t \in W PROVE waited(t) \subseteq E
  <2> SUFFICES ASSUME NEW r \in waited(t) PROVE r \in E
    OBVIOUS
  <2>1. PICK q \in waiting(t) : r \in IF q.err = "None" THEN command(q.s) ELSE {q}
    <3> HIDE DEF waiting
    <3> QED BY DEF IMAP!Then
  <2>2. PICK v \in command(t) : q \in IF v.err = "None" THEN wait(v.s) ELSE {v}
    BY <2>1 DEF IMAP!Then
  <2>3. v \in E
    BY <1>3, <1>7, <2>2
  <2>4. q \in E
    BY <1>4, <1>5, <2>2, <2>3
  <2> QED BY <1>3, <1>5, <2>1, <2>4
<1> HIDE DEF waited
<1>8. ASSUME NEW t \in W PROVE after(t) \subseteq E
  <2> SUFFICES ASSUME NEW r \in after(t) PROVE r \in E
    OBVIOUS
  <2>1. PICK v \in IMAP!InFolder(t, f) : r \in IF v.err = "None" THEN {IMAP!Out(v.s, "None")} \cup waited(v.s) ELSE {v}
    BY DEF IMAP!Then
  <2>2. v \in E
    BY <1>6, <1>8, <2>1
  <2> QED BY <1>3, <1>5, <1>7, <2>1, <2>2
<1> HIDE DEF after
<1>9. ASSUME NEW t \in W PROVE idle(t) \subseteq E
  <2> SUFFICES ASSUME NEW r \in idle(t) PROVE r \in E
    OBVIOUS
  <2>1. PICK v \in IMAP!SelectIfNeeded(t, f) : r \in IF v.err = "None" THEN waited(v.s) \cup after(v.s) ELSE {v}
    BY DEF IMAP!Then
  <2>2. v \in E
    BY <1>6, <1>9, <2>1
  <2> QED BY <1>5, <1>7, <1>8, <2>1, <2>2
<1> HIDE DEF idle
<1>10. o \in E
  BY <1>1, <1>2, <1>3, <1>5, <1>9
<1> QED BY <1>10 DEF E

(* Logging in: the sessions that the steps of login() leave.  A server that  *)
(* announces ID, of those in Servers, announces no COMPRESS, so that its      *)
(* session is not closed before identity().                                  *)
Start(F, c) == {s \in Fine(F) : c => s \in LoggedIn(F, TRUE)}

(* What is logged in and will not be closed is logged in.                    *)
LEMMA Stays ==
    ASSUME NEW F, NEW c \in BOOLEAN
    PROVE  /\ LoggedIn(F, c) \subseteq LoggedIn(F, FALSE) /\ LoggedIn(F, TRUE) \subseteq LoggedIn(F, c)
           /\ LoggedIn(F, c) \subseteq Start(F, c) /\ LoggedIn(F, c) \subseteq Fine(F)
           /\ Start(F, c) \subseteq Fine(F) /\ LoggedIn(F, TRUE) \subseteq Ready(F)
           /\ \A s \in LoggedIn(F, c) : s.state # "DISCONNECTED" /\ s \in IMAP!Session
BY DEF LoggedIn, Start, Ready, Fine

(* A session ready for it that authenticates is logged in.                   *)
LEMMA AdmittedLoggedIn ==
    ASSUME NEW F, NEW s \in Ready(F)
    PROVE  Admitted(s) \in LoggedIn(F, TRUE)
<1> DEFINE t == Admitted(s)
<1>1. s \in IMAP!Session /\ s \in Fine(F)
  BY DEF Ready, Fine
<1>2. t \in IMAP!Session
  BY <1>1 DEF Admitted, IMAP!Session, IMAP!States
<1>3. /\ t.state = "LOGGEDIN" /\ t.peer = "authenticated" /\ t.closing = s.closing
      /\ t.stream = s.stream /\ t.offers = s.offers /\ t.caps = s.caps
  BY <1>1 DEF Admitted, IMAP!Session
<1>4. Agrees(t)
  BY <1>3, FoldersAssumption DEF Agrees, IMAP!LoginAnswered, IMAP!Greeting
<1> HIDE DEF t
<1>5. t \in LoggedIn(F, TRUE)
  BY <1>1, <1>2, <1>3, <1>4 DEF Ready, Fine, LoggedIn
<1> QED BY <1>5 DEF t

(* Fields that only say what has been configured. *)
LEMMA ConfiguredKept ==
    ASSUME NEW F, NEW c, NEW s \in LoggedIn(F, c)
    PROVE  IMAP!Configured(s) \in LoggedIn(F, c) /\ Done(s) \in LoggedIn(F, c)
<1>1. s \in IMAP!Session /\ s \in Fine(F)
  BY DEF LoggedIn, Fine
<1>2. IMAP!Configured(s) \in IMAP!Session /\ Done(s) \in IMAP!Session
  BY <1>1 DEF IMAP!Configured, Done, IMAP!Session
<1>3. \A t \in {IMAP!Configured(s), Done(s)} :
          /\ t.state = s.state /\ t.peer = s.peer /\ t.closing = s.closing /\ t.folder = s.folder
          /\ t.stream = s.stream /\ t.offers = s.offers /\ t.caps = s.caps
  BY <1>1 DEF IMAP!Configured, Done, IMAP!Session
<1>4. \A t \in {IMAP!Configured(s), Done(s)} : Agrees(t)
  BY <1>3 DEF LoggedIn, Agrees, IMAP!LoginAnswered, IMAP!Greeting
<1> QED BY <1>1, <1>2, <1>3, <1>4 DEF Fine, LoggedIn

(* The authentication leaves a session that is logged in.                    *)
LEMMA AuthenticateEnds ==
    ASSUME NEW F, NEW s \in Ready(F)
    PROVE  IMAP!Authenticate(s) \subseteq Ends(F, FALSE, LoggedIn(F, TRUE))
<1> SUFFICES ASSUME NEW o \in IMAP!Authenticate(s) PROVE o \in Ends(F, FALSE, LoggedIn(F, TRUE))
  OBVIOUS
<1>1. s \in Fine(F) /\ s.state # "DISCONNECTED" /\ s \in IMAP!Session /\ Admitted(s) \in LoggedIn(F, TRUE)
  BY AdmittedLoggedIn DEF Ready, Fine
<1>2. CASE s.stream = "up" /\ o = IMAP!Out(Closing(s), "Connection")
  <2>1. Closing(s) \in Fine(F)
    BY <1>1, DownFine
  <2> QED BY <1>2, <2>1, OutEnds DEF IMAP!Errors
<1>3. CASE \E p \in IMAP!Command(s, s.peer = "greeted") :
              /\ o.err = p.err /\ o.got = p.got
              /\ o.s = IF p.err = "None" THEN Admitted(p.s) ELSE p.s
  <2>1. PICK p \in IMAP!Command(s, s.peer = "greeted") :
              /\ o.err = p.err /\ o.got = p.got
              /\ o.s = IF p.err = "None" THEN Admitted(p.s) ELSE p.s
    BY <1>3
  <2>2. p \in Ends(F, TRUE, {s}) /\ o \in Typed
    BY <1>1, CommandEnds, ReadyOrNot, AuthenticateOf
  <2>3. /\ p.err = "None" => p.s = s
        /\ p.got => p.err = "None"
        /\ p.s \in Fine(F) /\ p.err \in IMAP!Errors /\ p.got \in BOOLEAN
    BY <2>2 DEF Ends
  <2>4. o.s \in Fine(F) /\ (o.err = "None" => o.s \in LoggedIn(F, TRUE))
    BY <1>1, <2>1, <2>3, Stays
  <2> QED BY <2>1, <2>2, <2>3, <2>4 DEF Typed, Ends
<1> QED BY <1>1, <1>2, <1>3, AuthenticateOf

(* Asking for the capabilities keeps it logged in.                           *)
LEMMA CapabilitiesEnds ==
    ASSUME NEW F, NEW s \in LoggedIn(F, TRUE)
    PROVE  IMAP!Capabilities(s) \subseteq Ends(F, FALSE, LoggedIn(F, TRUE))
<1>1. s \in Fine(F) /\ s.state # "DISCONNECTED"
  BY Stays
<1>2. IMAP!ApplyCapabilities(s) \in LoggedIn(F, TRUE) /\ IMAP!ApplyCapabilities(s) \in Fine(F)
  BY <1>1, ApplyFine
<1>3. IMAP!Out(IMAP!ApplyCapabilities(s), "None") \in Ends(F, FALSE, LoggedIn(F, TRUE))
  BY <1>2, OutEnds DEF IMAP!Errors
<1>4. ASSUME NEW o \in IMAP!AskCapability(s) PROVE o \in Ends(F, FALSE, LoggedIn(F, TRUE))
  <2>1. o \in Ends(F, TRUE, {IMAP!ApplyCapabilities(s)})
    BY <1>1, AskEnds
  <2> QED BY <1>2, <2>1 DEF Ends
<1> QED BY <1>3, <1>4 DEF IMAP!Capabilities

(* Enabling the extensions keeps it logged in; only COMPRESS, whose error is *)
(* ignored, may leave a session that will be closed.                         *)
LEMMA EnableFeaturesEnds ==
    ASSUME NEW F \in Servers, NEW s \in LoggedIn(F, TRUE)
    PROVE  IMAP!EnableFeatures(s) \subseteq Ends(F, FALSE, LoggedIn(F, "ID" \in F))
<1> DEFINE c == "ID" \in F
           compressed == IF "COMPRESS" \in s.caps THEN IMAP!Ignored(IMAP!Command(s, TRUE))
                                                  ELSE {IMAP!Out(s, "None")}
<1> SUFFICES ASSUME NEW o \in IMAP!EnableFeatures(s) PROVE o \in Ends(F, FALSE, LoggedIn(F, c))
  OBVIOUS
<1>1. s \in Fine(F) /\ s.state # "DISCONNECTED" /\ s \in IMAP!Session /\ s.caps \subseteq F /\ c \in BOOLEAN
  <2>1. s \in Fine(F) /\ s.state # "DISCONNECTED" /\ s \in IMAP!Session
    BY Stays
  <2>2. s.caps \subseteq F
    BY <2>1 DEF Fine
  <2> QED BY <2>1, <2>2
<1>2. PICK p \in compressed :
          o \in IF p.err = "None"
                THEN IF "CONDSTORE" \in p.s.caps THEN IMAP!Ignored(IMAP!Answer(p.s, TRUE))
                                                 ELSE {IMAP!Out(p.s, "None")}
                ELSE {p}
  BY DEF IMAP!EnableFeatures, IMAP!Then
<1>3. \E t \in LoggedIn(F, c) : p = IMAP!Out(t, "None")
  <2>1. CASE "COMPRESS" \in s.caps
    <3>1. c = FALSE
      BY <1>1, <2>1 DEF Servers, IMAP!Separate
    <3>2. IMAP!Command(s, TRUE) \in SUBSET Typed /\ p \in IMAP!Ignored(IMAP!Command(s, TRUE))
      BY <1>1, <1>2, <2>1, CommandTyped
    <3>3. PICK q \in IMAP!Command(s, TRUE) : p = IF q.err \in IMAP!Faults THEN q ELSE IMAP!Out(q.s, "None")
      BY <3>2 DEF IMAP!Ignored
    <3>4. q \in Ends(F, TRUE, {s}) /\ q.s \in {s, Closing(s), Closing(Down(s))}
      BY <1>1, CommandEnds
    <3>5. q.err \notin IMAP!Faults
      BY <3>4 DEF Ends, IMAP!Errors, IMAP!Faults
    <3>6. q.s \in LoggedIn(F, FALSE)
      BY <1>1, <3>4, DownFine, Stays
    <3> QED BY <3>1, <3>3, <3>5, <3>6
  <2>2. CASE "COMPRESS" \notin s.caps
    BY <1>1, <1>2, <2>2, Stays
  <2> QED BY <2>1, <2>2
<1> HIDE DEF c, compressed
<1>4. PICK t \in LoggedIn(F, c) : p = IMAP!Out(t, "None")
  BY <1>3
<1>5. t \in Fine(F) /\ t.state # "DISCONNECTED" /\ t \in IMAP!Session
  BY <1>1, Stays
<1>6. p.s = t /\ p.err = "None"
  BY <1>4, <1>5, OutTyped DEF IMAP!Errors
<1>7. CASE o = IMAP!Out(t, "None")
  BY <1>5, <1>7, OutEnds DEF IMAP!Errors
<1>8. CASE o \in IMAP!Ignored(IMAP!Answer(t, TRUE))
  <2>1. IMAP!Answer(t, TRUE) \in SUBSET Typed
    BY <1>5, AnswerTyped
  <2>2. PICK q \in IMAP!Answer(t, TRUE) : o = IF q.err \in IMAP!Faults THEN q ELSE IMAP!Out(q.s, "None")
    BY <1>8 DEF IMAP!Ignored
  <2>0. \A r \in BOOLEAN : \A a \in IMAP!Answer(t, r) : a.err \in IMAP!Errors /\ a.s \in {t, Down(t)}
    BY <1>5, AnswerEnds
  <2>3. q.err \in IMAP!Errors /\ q.s \in {t, Down(t)}
    BY <2>0
  <2>4. q.err \notin IMAP!Faults
    BY <2>3 DEF IMAP!Errors, IMAP!Faults
  <2>6. Down(t) \in LoggedIn(F, c)
    BY <1>4, <1>5, DownFine
  <2>7. LoggedIn(F, c) \subseteq Fine(F)
    BY <1>1, Stays
  <2>5. q.s \in LoggedIn(F, c) /\ q.s \in Fine(F)
    BY <1>4, <2>3, <2>6, <2>7
  <2> QED BY <2>2, <2>4, <2>5, OutEnds DEF IMAP!Errors
<1> QED BY <1>2, <1>6, <1>7, <1>8

(* Listing the folders for the delimiter keeps it logged in.                 *)
LEMMA ListEnds ==
    ASSUME NEW F, NEW c \in BOOLEAN, NEW s \in LoggedIn(F, c)
    PROVE  IMAP!ListForDelimiter(s) \subseteq Ends(F, FALSE, LoggedIn(F, c))
<1> SUFFICES ASSUME NEW o \in IMAP!ListForDelimiter(s) PROVE o \in Ends(F, FALSE, LoggedIn(F, c))
  OBVIOUS
<1>0. IMAP!Authenticated(s) \in BOOLEAN
  BY DEF IMAP!Authenticated
<1>1. IMAP!Authenticated(s) \in BOOLEAN /\ s \in Fine(F) /\ s.state # "DISCONNECTED"
  BY <1>0, Stays
<1>2. PICK p \in IMAP!Answer(s, IMAP!Authenticated(s)) :
          o \in IF p.err = "None"
                THEN {IMAP!Out(p.s, "Other"), IMAP!Out(IMAP!Configured(p.s), "None")} ELSE {p}
  BY DEF IMAP!ListForDelimiter, IMAP!Then
<1>3. /\ p \in [s : Fine(F), err : IMAP!Errors, got : BOOLEAN]
      /\ p.got <=> p.err = "None"
      /\ p.err # "Connection" => p.s = s
  BY <1>1, AnswerEnds
<1>4. CASE p.err = "None"
  <2>1. p.s = s /\ IMAP!Configured(s) \in LoggedIn(F, c) /\ IMAP!Configured(s) \in Fine(F)
    BY <1>3, <1>4, ConfiguredKept, Stays
  <2>2. IMAP!Out(s, "Other") \in Ends(F, FALSE, LoggedIn(F, c))
    BY <1>1, OutEnds DEF IMAP!Errors
  <2>3. IMAP!Out(IMAP!Configured(s), "None") \in Ends(F, FALSE, LoggedIn(F, c))
    BY <2>1, OutEnds DEF IMAP!Errors
  <2> QED BY <1>2, <1>4, <2>1, <2>2, <2>3
<1>5. CASE p.err # "None"
  BY <1>2, <1>3, <1>5 DEF Ends
<1> QED BY <1>4, <1>5

(* The logins that leave a session that is logged in.                        *)
LogsIn(F, login) ==
    \A s \in Ready(F) : s.state = "CONNECTED" => login[s] \subseteq Ends(F, FALSE, LoggedIn(F, FALSE))

(* loginIfNeeded() leaves a session that is logged in.                       *)
LEMMA LoginIfNeededEnds ==
    ASSUME NEW F \in SUBSET IMAP!Announced, NEW c \in BOOLEAN, NEW s \in Start(F, c),
           NEW login, LogsIn(F, login)
    PROVE  /\ IMAP!LoginIfNeeded(s, login) \subseteq Ends(F, c, LoggedIn(F, c))
           /\ c => IMAP!LoginIfNeeded(s, login) = {IMAP!Out(s, "None")}
<1>1. ASSUME s \in LoggedIn(F, TRUE) PROVE IMAP!LoginIfNeeded(s, login) = {IMAP!Out(s, "None")}
  <2>1. IMAP!ConnectIfNeeded(s) = {IMAP!Out(s, "None")} /\ s.state # "CONNECTED"
    BY <1>1, ReadyGoesOn, Stays DEF LoggedIn
  <2>2. IMAP!Out(s, "None").err = "None" /\ IMAP!Out(s, "None").s = s
    BY DEF IMAP!Out
  <2> QED BY <2>1, <2>2 DEF IMAP!LoginIfNeeded, IMAP!Then
<1>2. CASE c
  <2>1. s \in LoggedIn(F, TRUE) /\ s \in LoggedIn(F, c) /\ s \in Fine(F)
    BY <1>2, Stays DEF Start
  <2>2. IMAP!Out(s, "None") \in Ends(F, c, LoggedIn(F, c))
    BY <2>1, OutEnds DEF IMAP!Errors
  <2> QED BY <1>1, <2>1, <2>2
<1>3. CASE ~ c
  <2> SUFFICES ASSUME NEW o \in IMAP!LoginIfNeeded(s, login)
               PROVE  o \in Ends(F, FALSE, LoggedIn(F, FALSE))
    BY <1>3
  <2>1. PICK p \in IMAP!ConnectIfNeeded(s) :
            o \in IF p.err = "None"
                  THEN IF p.s.state = "CONNECTED" THEN login[p.s] ELSE {IMAP!Out(p.s, "None")}
                  ELSE {p}
    BY DEF IMAP!LoginIfNeeded, IMAP!Then
  <2>2. p \in Ends(F, FALSE, Ready(F))
    BY Stays, ConnectIfNeededEnds
  <2>3. CASE p.err # "None"
    BY <2>1, <2>2, <2>3 DEF Ends
  <2>4. CASE p.err = "None" /\ p.s.state = "CONNECTED"
    <3>1. p.s \in Ready(F)
      BY <2>2, <2>4 DEF Ends
    <3> QED BY <2>1, <2>4, <3>1 DEF LogsIn
  <2>5. CASE p.err = "None" /\ p.s.state # "CONNECTED"
    <3>1. p.s \in Ready(F) /\ o = IMAP!Out(p.s, "None")
      BY <2>1, <2>2, <2>5 DEF Ends
    <3>2. p.s \in LoggedIn(F, FALSE) /\ p.s \in Fine(F)
      BY <2>5, <3>1 DEF Ready, LoggedIn, Fine, IMAP!Session, IMAP!States
    <3> QED BY <3>1, <3>2, OutEnds DEF IMAP!Errors
  <2> QED BY <2>3, <2>4, <2>5
<1> QED BY <1>2, <1>3

(* A command leaves the session as it is when it succeeds.                   *)
LEMMA CommandKeeps ==
    ASSUME NEW F, NEW c \in BOOLEAN, NEW K, NEW s \in K, s \in Fine(F), s.state # "DISCONNECTED",
           NEW r \in BOOLEAN
    PROVE  IMAP!Command(s, r) \subseteq Ends(F, c, K)
BY CommandEnds DEF Ends

(* fetchNamespace() leaves it logged in.                                     *)
LEMMA FetchNamespaceEnds ==
    ASSUME NEW F \in SUBSET IMAP!Announced, NEW c \in BOOLEAN, NEW s \in Start(F, c),
           NEW login, LogsIn(F, login)
    PROVE  IMAP!FetchNamespace(s, login) \subseteq Ends(F, c, LoggedIn(F, c))
<1> SUFFICES ASSUME NEW o \in IMAP!FetchNamespace(s, login) PROVE o \in Ends(F, c, LoggedIn(F, c))
  OBVIOUS
<1>1. PICK p \in IMAP!LoginIfNeeded(s, login) :
          o \in IF p.err = "None" THEN IMAP!Command(p.s, IMAP!Authenticated(p.s)) ELSE {p}
  BY DEF IMAP!FetchNamespace, IMAP!Then
<1>2. p \in Ends(F, c, LoggedIn(F, c))
  BY <1>1, LoginIfNeededEnds
<1>3. CASE p.err = "None"
  <2>1. p.s \in LoggedIn(F, c) /\ p.s \in Fine(F) /\ p.s.state # "DISCONNECTED"
    BY <1>2, <1>3, EndsOf, Stays
  <2>2. IMAP!Authenticated(p.s) \in BOOLEAN
    BY DEF IMAP!Authenticated
  <2> QED BY <1>1, <1>3, <2>1, <2>2, CommandKeeps
<1>4. CASE p.err # "None"
  BY <1>1, <1>2, <1>4, EndsOf
<1> QED BY <1>3, <1>4

(* So does the search for the default namespace.                             *)
LEMMA DefaultNamespaceEnds ==
    ASSUME NEW F \in SUBSET IMAP!Announced, NEW c \in BOOLEAN, NEW s \in LoggedIn(F, c),
           NEW login, LogsIn(F, login)
    PROVE  IMAP!DefaultNamespace(s, login) \subseteq Ends(F, FALSE, LoggedIn(F, c))
<1>1. CASE "NAMESPACE" \in s.caps
  <2> SUFFICES ASSUME NEW o \in IMAP!DefaultNamespace(s, login)
               PROVE  o \in Ends(F, FALSE, LoggedIn(F, c))
    OBVIOUS
  <2>1. PICK p \in IMAP!FetchNamespace(s, login) :
            o \in IF p.err = "None"
                  THEN {IMAP!Out(IMAP!Configured(p.s), "None")} \cup IMAP!ListForDelimiter(p.s)
                  ELSE {p}
    BY <1>1 DEF IMAP!DefaultNamespace, IMAP!Then
  <2>2. p \in Ends(F, c, LoggedIn(F, c))
    BY <2>1, FetchNamespaceEnds, Stays
  <2>3. CASE p.err = "None"
    <3>1. p.s \in LoggedIn(F, c) /\ IMAP!Configured(p.s) \in LoggedIn(F, c)
      BY <2>2, <2>3, EndsOf, ConfiguredKept
    <3>2. IMAP!Out(IMAP!Configured(p.s), "None") \in Ends(F, FALSE, LoggedIn(F, c))
      BY <3>1, OutEnds, Stays DEF IMAP!Errors
    <3> QED BY <2>1, <2>3, <3>1, <3>2, ListEnds
  <2>4. CASE p.err # "None"
    BY <2>1, <2>2, <2>4 DEF Ends
  <2> QED BY <2>3, <2>4
<1>2. CASE "NAMESPACE" \notin s.caps
  BY <1>2, ListEnds DEF IMAP!DefaultNamespace
<1> QED BY <1>1, <1>2

(* identity() keeps a session logged in that will not be closed.             *)
LEMMA ServerIdentityEnds ==
    ASSUME NEW F \in Servers, NEW s \in LoggedIn(F, "ID" \in F)
    PROVE  IMAP!ServerIdentity(s) \subseteq Ends(F, FALSE, LoggedIn(F, FALSE))
<1> SUFFICES ASSUME NEW o \in IMAP!ServerIdentity(s) PROVE o \in Ends(F, FALSE, LoggedIn(F, FALSE))
  OBVIOUS
<1>0. s \in LoggedIn(F, FALSE) /\ s \in Fine(F) /\ s.state # "DISCONNECTED" /\ s \in IMAP!Session
      /\ s.caps \subseteq F
  <2>1. s \in LoggedIn(F, FALSE)
    BY DEF LoggedIn
  <2>2. s \in Fine(F) /\ s.state # "DISCONNECTED" /\ s \in IMAP!Session
    BY <2>1, Stays
  <2>3. s.caps \subseteq F
    BY <2>2 DEF Fine
  <2> QED BY <2>1, <2>2, <2>3
<1>1. CASE "ID" \in s.caps
  <2>1. s \in LoggedIn(F, TRUE)
    BY <1>0, <1>1
  <2>2. IMAP!ConnectIfNeeded(s) = {IMAP!Out(s, "None")}
    BY <2>1, ReadyGoesOn, Stays
  <2>3. IMAP!Out(s, "None").err = "None" /\ IMAP!Out(s, "None").s = s
    BY DEF IMAP!Out
  <2>4. IMAP!Identity(s) = IMAP!Command(s, TRUE)
    BY <2>2, <2>3 DEF IMAP!Identity, IMAP!Then
  <2>5. o \in IMAP!Ignored(IMAP!Command(s, TRUE)) /\ IMAP!Command(s, TRUE) \in SUBSET Typed
    BY <1>0, <1>1, <2>4, CommandTyped DEF IMAP!ServerIdentity
  <2>6. PICK q \in IMAP!Command(s, TRUE) : o = IF q.err \in IMAP!Faults THEN q ELSE IMAP!Out(q.s, "None")
    BY <2>5 DEF IMAP!Ignored
  <2>7. q \in Ends(F, TRUE, {s}) /\ q.s \in {s, Closing(s), Closing(Down(s))}
    BY <1>0, CommandEnds
  <2>8. q.err \notin IMAP!Faults
    BY <2>7 DEF Ends, IMAP!Errors, IMAP!Faults
  <2>9. q.s \in LoggedIn(F, FALSE) /\ q.s \in Fine(F)
    BY <1>0, <2>7, DownFine
  <2> QED BY <2>6, <2>8, <2>9, OutEnds DEF IMAP!Errors
<1>2. CASE "ID" \notin s.caps
  <2>1. o = IMAP!Out(s, "None")
    BY <1>2 DEF IMAP!ServerIdentity
  <2> QED BY <1>0, <2>1, OutEnds DEF IMAP!Errors
<1> QED BY <1>1, <1>2

(* login() leaves a session that is logged in, if those nested in it do.     *)
LEMMA LoginOnceEnds ==
    ASSUME NEW F \in Servers, NEW s \in Ready(F), s.state = "CONNECTED", NEW login, LogsIn(F, login)
    PROVE  IMAP!LoginOnce(s, login) \subseteq Ends(F, FALSE, LoggedIn(F, FALSE))
<1> SUFFICES ASSUME NEW o \in IMAP!LoginOnce(s, login) PROVE o \in Ends(F, FALSE, LoggedIn(F, FALSE))
  OBVIOUS
<1> DEFINE L == LoggedIn(F, FALSE)
           I == LoggedIn(F, "ID" \in F)
           T == LoggedIn(F, TRUE)
           Bad(p) == p.err # "None" /\ p = o
<1>0. F \in SUBSET IMAP!Announced /\ ("ID" \in F) \in BOOLEAN
  BY OffersAssumption DEF Servers, IMAP!Announced, IMAP!Extensions
<1>1. PICK a \in IMAP!Authenticate(s) :
          \/ Bad(a)
          \/ /\ a.err = "None"
             /\ \E b \in IMAP!Capabilities(a.s) :
                   \/ Bad(b)
                   \/ /\ b.err = "None"
                      /\ \E d \in IMAP!EnableFeatures(b.s) :
                            \/ Bad(d)
                            \/ /\ d.err = "None"
                               /\ \E n \in IMAP!DefaultNamespace(d.s, login) :
                                     \/ Bad(n)
                                     \/ /\ n.err = "None"
                                        /\ \E i \in IMAP!ServerIdentity(n.s) :
                                              \/ Bad(i)
                                              \/ i.err = "None" /\ o = IMAP!Out(Done(i.s), "None")
  BY LoginSteps
<1>2. a \in Ends(F, FALSE, T)
  BY AuthenticateEnds
<1>3. SUFFICES ASSUME a.err = "None" PROVE o \in Ends(F, FALSE, L)
  BY <1>1, <1>2, EndsOf
<1>4. PICK b \in IMAP!Capabilities(a.s) :
          \/ Bad(b)
          \/ /\ b.err = "None"
             /\ \E d \in IMAP!EnableFeatures(b.s) :
                   \/ Bad(d)
                   \/ /\ d.err = "None"
                      /\ \E n \in IMAP!DefaultNamespace(d.s, login) :
                            \/ Bad(n)
                            \/ /\ n.err = "None"
                               /\ \E i \in IMAP!ServerIdentity(n.s) :
                                     \/ Bad(i)
                                     \/ i.err = "None" /\ o = IMAP!Out(Done(i.s), "None")
  BY <1>1, <1>3
<1>5. b \in Ends(F, FALSE, T)
  <2>1. a.s \in T
    BY <1>2, <1>3, EndsOf
  <2> QED BY <2>1, CapabilitiesEnds
<1>6. SUFFICES ASSUME b.err = "None" PROVE o \in Ends(F, FALSE, L)
  BY <1>4, <1>5, EndsOf
<1>7. PICK d \in IMAP!EnableFeatures(b.s) :
          \/ Bad(d)
          \/ /\ d.err = "None"
             /\ \E n \in IMAP!DefaultNamespace(d.s, login) :
                   \/ Bad(n)
                   \/ /\ n.err = "None"
                      /\ \E i \in IMAP!ServerIdentity(n.s) :
                            \/ Bad(i)
                            \/ i.err = "None" /\ o = IMAP!Out(Done(i.s), "None")
  BY <1>4, <1>6
<1>8. d \in Ends(F, FALSE, I)
  <2>1. b.s \in T
    BY <1>5, <1>6, EndsOf
  <2> QED BY <2>1, EnableFeaturesEnds
<1>9. SUFFICES ASSUME d.err = "None" PROVE o \in Ends(F, FALSE, L)
  BY <1>7, <1>8, EndsOf
<1>10. PICK n \in IMAP!DefaultNamespace(d.s, login) :
           \/ Bad(n)
           \/ /\ n.err = "None"
              /\ \E i \in IMAP!ServerIdentity(n.s) :
                    \/ Bad(i)
                    \/ i.err = "None" /\ o = IMAP!Out(Done(i.s), "None")
  BY <1>7, <1>9
<1>11. n \in Ends(F, FALSE, I)
  <2>1. d.s \in I
    BY <1>8, <1>9, EndsOf
  <2> QED BY <1>0, <2>1, DefaultNamespaceEnds
<1>12. SUFFICES ASSUME n.err = "None" PROVE o \in Ends(F, FALSE, L)
  BY <1>10, <1>11, EndsOf
<1>13. PICK i \in IMAP!ServerIdentity(n.s) :
           \/ Bad(i)
           \/ i.err = "None" /\ o = IMAP!Out(Done(i.s), "None")
  BY <1>10, <1>12
<1>14. i \in Ends(F, FALSE, L)
  <2>1. n.s \in I
    BY <1>11, <1>12, EndsOf
  <2> QED BY <2>1, ServerIdentityEnds
<1>15. SUFFICES ASSUME i.err = "None" PROVE o \in Ends(F, FALSE, L)
  BY <1>13, <1>14
<1>16. i.s \in L
  BY <1>14, <1>15, EndsOf
<1>17. Done(i.s) \in L /\ Done(i.s) \in Fine(F)
  BY <1>16, ConfiguredKept, Stays
<1> QED BY <1>13, <1>15, <1>17, OutEnds DEF IMAP!Errors

(* However many logins were in one another, the session is logged in.        *)
LEMMA LoginEnds == \A F \in Servers : LogsIn(F, IMAP!Login)
<1> SUFFICES ASSUME NEW F \in Servers PROVE LogsIn(F, IMAP!Login)
  OBVIOUS
<1> DEFINE m == MaxRelogins + 1
           Good == {login \in {IMAP!Logins[k] : k \in 0 .. m} : LogsIn(F, login)}
<1>1. m \in Nat /\ 1 \in 1 .. m /\ m \in 0 .. m
  BY OffersAssumption
<1>2. \A s \in Ready(F) : s \in IMAP!Session
  BY DEF Ready, Fine
<1>3. IMAP!Logins[0] \in Good
  <2>1. \A s \in Ready(F) : IMAP!Logins[0][s] = {}
    BY <1>1, <1>2, LoginsRun
  <2>2. 0 \in 0 .. m
    BY <1>1
  <2>3. LogsIn(F, IMAP!Logins[0])
    BY <2>1 DEF LogsIn
  <2> QED BY <2>2, <2>3
<1>4. ASSUME NEW k \in 1 .. m, IMAP!Logins[k - 1] \in Good PROVE IMAP!Logins[k] \in Good
  <2>1. LogsIn(F, IMAP!Logins[k - 1])
    BY <1>4
  <2>2. ASSUME NEW s \in Ready(F), s.state = "CONNECTED"
        PROVE  IMAP!Logins[k][s] \subseteq Ends(F, FALSE, LoggedIn(F, FALSE))
    <3>1. IMAP!Logins[k][s] = IMAP!LoginOnce(s, IMAP!Logins[k - 1])
      BY <1>2, LoginsRun
    <3> QED BY <2>1, <2>2, <3>1, LoginOnceEnds
  <2>3. k \in 0 .. m
    BY <1>1
  <2> QED BY <2>2, <2>3 DEF LogsIn
<1>5. \A k \in 0 .. m : IMAP!Logins[k] \in Good
  <2> HIDE DEF Good, m
  <2> QED BY <1>1, <1>3, <1>4, RunStays
<1>6. LogsIn(F, IMAP!Logins[m])
  BY <1>1, <1>5
<1> QED BY <1>6 DEF IMAP!Login

(* The operations: what they leave behind of a session that may be anything, *)
(* or with c of one that is logged in and will not be closed.                *)
LEMMA Extended == Servers \subseteq SUBSET IMAP!Announced
BY OffersAssumption DEF Servers, IMAP!Announced, IMAP!Extensions

(* loginIfNeeded() with login() as it is.                                    *)
LEMMA LogInEnds ==
    ASSUME NEW F \in Servers, NEW c \in BOOLEAN, NEW s \in Start(F, c)
    PROVE  IMAP!LogIn(s) \subseteq Ends(F, c, LoggedIn(F, c))
BY LoginEnds, LoginIfNeededEnds, Extended DEF IMAP!LogIn

(* A command on a session of K leaves one of K.                              *)
LEMMA CommandIn ==
    ASSUME NEW F, NEW c \in BOOLEAN, NEW K, K \subseteq LoggedIn(F, c), NEW s \in K
    PROVE  /\ \A r \in BOOLEAN : IMAP!Command(s, r) \subseteq Ends(F, c, K)
           /\ IMAP!Command(s, IMAP!Authenticated(s)) \subseteq Ends(F, c, K)
           /\ IMAP!Command(s, IMAP!Selected(s)) \subseteq Ends(F, c, K)
           /\ IMAP!Command(s, TRUE) \subseteq Ends(F, c, K)
           /\ IMAP!Out(s, "None") \in Ends(F, c, K)
<1>1. s \in Fine(F) /\ s.state # "DISCONNECTED"
  BY Stays
<1>2. \A r \in BOOLEAN : IMAP!Command(s, r) \subseteq Ends(F, c, K)
  BY <1>1, CommandKeeps
<1>3. IMAP!Authenticated(s) \in BOOLEAN /\ IMAP!Selected(s) \in BOOLEAN
  BY DEF IMAP!Authenticated, IMAP!Selected
<1>4. IMAP!Out(s, "None") \in Ends(F, c, K)
  BY <1>1, OutEnds DEF IMAP!Errors
<1> QED BY <1>2, <1>3, <1>4

(* What is in a folder is logged in.                                         *)
LEMMA WithinIn ==
    ASSUME NEW F, NEW c \in BOOLEAN, NEW f
    PROVE  /\ Within(F, c, f) \subseteq LoggedIn(F, c) /\ Within(F, c, f) \subseteq Within(F, FALSE, f)
           /\ Within(F, c, f) \subseteq Start(F, c) /\ Within(F, c, f) \subseteq Fine(F)
<1>1. Within(F, c, f) \subseteq LoggedIn(F, c)
  BY DEF Within
<1>2. Within(F, c, f) \subseteq Within(F, FALSE, f)
  BY Stays DEF Within
<1> QED BY <1>1, <1>2, Stays

(* A folder that was entered, and one that was refused.                      *)
LEMMA EnteredKept ==
    ASSUME NEW F, NEW c \in BOOLEAN, NEW s \in LoggedIn(F, c), NEW f \in Folders
    PROVE  /\ Entered(s, f) \in Within(F, c, f)
           /\ Refused(s) \in LoggedIn(F, c)
<1>1. s \in Fine(F) /\ s \in IMAP!Session
  BY Stays
<1>2. Entered(s, f) \in IMAP!Session /\ Refused(s) \in IMAP!Session
  BY <1>1 DEF Entered, Refused, IMAP!Session, IMAP!States
<1>3. /\ Entered(s, f).state = "SELECTED" /\ Entered(s, f).folder = f /\ Entered(s, f).peer = f
      /\ Refused(s).state = "LOGGEDIN" /\ Refused(s).peer = "authenticated"
  BY <1>1 DEF Entered, Refused, IMAP!Session
<1>4. \A t \in {Entered(s, f), Refused(s)} :
          t.closing = s.closing /\ t.stream = s.stream /\ t.offers = s.offers /\ t.caps = s.caps
  BY <1>1 DEF Entered, Refused, IMAP!Session
<1>5. Agrees(Entered(s, f)) /\ Agrees(Refused(s))
  BY <1>3, FoldersAssumption DEF Agrees, IMAP!LoginAnswered, IMAP!Greeting
<1>6. \A t \in {Entered(s, f), Refused(s)} : t \in LoggedIn(F, c)
  BY <1>1, <1>2, <1>3, <1>4, <1>5, FoldersAssumption DEF LoggedIn, Fine
<1> QED BY <1>3, <1>6 DEF Within

(* A session that will be closed and may be in a folder or not.              *)
LEMMA UnknownFine ==
    ASSUME NEW F, NEW s \in Fine(F), s.closing, NEW f \in Folders
    PROVE  Unknown(s, f) \in Fine(F) /\ Unknown(s, f).closing
<1>1. s \in IMAP!Session
  BY DEF Fine
<1>2. Unknown(s, f) \in IMAP!Session
  BY <1>1 DEF Unknown, IMAP!Session
<1>3. /\ Unknown(s, f).closing = s.closing /\ Unknown(s, f).stream = s.stream
      /\ Unknown(s, f).state = s.state /\ Unknown(s, f).folder = s.folder
      /\ Unknown(s, f).offers = s.offers /\ Unknown(s, f).caps = s.caps
  BY <1>1 DEF Unknown, IMAP!Session
<1> QED BY <1>2, <1>3 DEF Fine

(* select() leaves a session in the folder.                                  *)
LEMMA SelectEnds ==
    ASSUME NEW F, NEW c \in BOOLEAN, NEW s \in LoggedIn(F, c), NEW f \in Folders
    PROVE  IMAP!Select(s, f) \subseteq Ends(F, c, Within(F, c, f))
<1> SUFFICES ASSUME NEW o \in IMAP!Select(s, f) PROVE o \in Ends(F, c, Within(F, c, f))
  OBVIOUS
<1>0. IMAP!Authenticated(s) \in BOOLEAN
  BY DEF IMAP!Authenticated
<1>1. s.state \in {"LOGGEDIN", "SELECTED"} /\ s \in Fine(F) /\ s.state # "DISCONNECTED"
  BY DEF LoggedIn
<1>2. PICK p \in IMAP!Command(s, IMAP!Authenticated(s)) :
          o = CASE p.err = "None" ->
                       [p EXCEPT !.s.state = "SELECTED", !.s.folder = f, !.s.peer = f]
                [] p.err = "Other" ->
                       [p EXCEPT !.s.state = "LOGGEDIN", !.s.folder = NoFolder, !.s.peer = "authenticated"]
                [] p.err = "Parse" -> [p EXCEPT !.s.peer = f]
                [] OTHER -> p
  BY <1>1, Zenon DEF IMAP!Select
<1>3. /\ p \in Ends(F, TRUE, {s})
      /\ p.err \in {"Connection", "Parse"} => p.s \in {Closing(s), Closing(Down(s))}
      /\ p.err \notin {"Connection", "Parse"} => p.s = s
  <2>1. \A r \in BOOLEAN : \A q \in IMAP!Command(s, r) :
           /\ q \in Ends(F, TRUE, {s})
           /\ q.err \in {"Connection", "Parse"} => q.s \in {Closing(s), Closing(Down(s))}
           /\ q.err \notin {"Connection", "Parse"} => q.s = s
    BY <1>1, CommandEnds
  <2> QED BY <1>0, <2>1
<1>4. p \in [s : Fine(F), err : IMAP!Errors, got : BOOLEAN] /\ p.s \in Fine(F) /\ p.s \in IMAP!Session
      /\ (p.got => p.err = "None") /\ (p.err \in {"Connection", "Parse"} => p.s.closing)
  BY <1>3 DEF Ends, Fine
<1>5. CASE p.err = "None"
  <2>1. o = [p EXCEPT !.s.state = "SELECTED", !.s.folder = f, !.s.peer = f]
    BY <1>2, <1>5
  <2>2. o = [p EXCEPT !.s = Entered(p.s, f)]
    BY <1>4, <2>1 DEF Entered, IMAP!Session
  <2>3. o.s = Entered(s, f) /\ o.err = "None" /\ o.got = p.got
    BY <1>3, <1>4, <1>5, <2>2
  <2>4. Entered(s, f) \in Within(F, c, f) /\ Entered(s, f) \in Fine(F)
    BY EnteredKept, WithinIn
  <2>5. o \in [s : Fine(F), err : IMAP!Errors, got : BOOLEAN]
    BY <1>3, <1>4, <1>5, <2>2, <2>4
  <2> QED BY <2>3, <2>4, <2>5 DEF Ends
<1>6. CASE p.err = "Other"
  <2>1. o = [p EXCEPT !.s.state = "LOGGEDIN", !.s.folder = NoFolder, !.s.peer = "authenticated"]
    BY <1>2, <1>6
  <2>2. o = [p EXCEPT !.s = Refused(p.s)]
    BY <1>4, <2>1 DEF Refused, IMAP!Session
  <2>3. o.err = "Other" /\ o.got = p.got
    BY <1>4, <1>6, <2>2
  <2>4. Refused(s) \in Fine(F)
    BY EnteredKept, Stays
  <2>5. o \in [s : Fine(F), err : IMAP!Errors, got : BOOLEAN]
    BY <1>3, <1>4, <1>6, <2>2, <2>4
  <2> QED BY <1>4, <1>6, <2>3, <2>5 DEF Ends
<1>7. CASE p.err = "Parse"
  <2>1. o = [p EXCEPT !.s.peer = f]
    BY <1>2, <1>7
  <2>2. o = [p EXCEPT !.s = Unknown(p.s, f)]
    BY <1>4, <2>1 DEF Unknown, IMAP!Session
  <2>3. o.err = "Parse" /\ o.got = p.got /\ o.s = Unknown(p.s, f)
    BY <1>4, <1>7, <2>2
  <2>4. Unknown(p.s, f) \in Fine(F) /\ Unknown(p.s, f).closing
    BY <1>4, <1>7, UnknownFine
  <2>5. o \in [s : Fine(F), err : IMAP!Errors, got : BOOLEAN]
    BY <1>4, <2>2, <2>4
  <2> QED BY <1>4, <1>7, <2>3, <2>4, <2>5 DEF Ends
<1>8. CASE p.err \notin {"None", "Other", "Parse"}
  <2>1. o = p
    BY <1>2, <1>8
  <2> QED BY <1>4, <1>8, <2>1 DEF Ends
<1> QED BY <1>5, <1>6, <1>7, <1>8

(* selectIfNeeded() leaves a session in the folder, or in one that differs   *)
(* from it in case only.                                                     *)
LEMMA SelectIfNeededEnds ==
    ASSUME NEW F \in Servers, NEW c \in BOOLEAN, NEW s \in Start(F, c), NEW f \in Folders
    PROVE  IMAP!SelectIfNeeded(s, f) \subseteq Ends(F, c, Within(F, c, f))
<1> SUFFICES ASSUME NEW o \in IMAP!SelectIfNeeded(s, f) PROVE o \in Ends(F, c, Within(F, c, f))
  OBVIOUS
<1> DEFINE A(t) == CASE t.state = "SELECTED" ->
                           IF t.folder = NoFolder THEN IMAP!Stop(t, "AssertFailed")
                           ELSE IF Fold[t.folder] = Fold[f] THEN {IMAP!Out(t, "None")}
                           ELSE IMAP!Select(t, f)
                     [] t.state = "LOGGEDIN" -> IMAP!Select(t, f)
                     [] OTHER -> {IMAP!Out(t, "None")}
<1>1. PICK p \in IMAP!LogIn(s) : o \in IF p.err = "None" THEN A(p.s) ELSE {p}
  BY DEF IMAP!SelectIfNeeded, IMAP!Then
<1>2. p \in Ends(F, c, LoggedIn(F, c))
  BY LogInEnds
<1>3. CASE p.err # "None"
  <2> HIDE DEF A
  <2>1. o = p
    BY <1>1, <1>3
  <2> QED BY <1>2, <1>3, <2>1, EndsOf
<1>4. CASE p.err = "None"
  <2>1. p.s \in LoggedIn(F, c)
    BY <1>2, <1>4, EndsOf
  <2>2. /\ p.s.state \in {"LOGGEDIN", "SELECTED"}
        /\ p.s.state = "SELECTED" => p.s.folder # NoFolder /\ p.s.folder = p.s.peer
    BY <2>1 DEF LoggedIn, Fine, Agrees
  <2>0. o \in A(p.s)
    <3> HIDE DEF A
    <3> QED BY <1>1, <1>4
  <2>3. CASE p.s.state = "SELECTED" /\ Fold[p.s.folder] = Fold[f]
    <3>1. o \in {IMAP!Out(p.s, "None")}
      BY <2>0, <2>2, <2>3
    <3>2. p.s \in Within(F, c, f)
      BY <2>1, <2>2, <2>3 DEF Within
    <3> QED BY <3>1, <3>2, CommandIn, WithinIn
  <2>4. CASE ~ (p.s.state = "SELECTED" /\ Fold[p.s.folder] = Fold[f])
    <3>1. o \in IMAP!Select(p.s, f)
      BY <2>0, <2>2, <2>4
    <3> QED BY <2>1, <3>1, SelectEnds
  <2> QED BY <2>3, <2>4
<1> QED BY <1>3, <1>4

(* An operation on a folder succeeds in that folder.                         *)
LEMMA InFolderEnds ==
    ASSUME NEW F \in Servers, NEW c \in BOOLEAN, NEW s \in Start(F, c), NEW f \in Folders
    PROVE  IMAP!InFolder(s, f) \subseteq Ends(F, c, Within(F, c, f))
<1> SUFFICES ASSUME NEW o \in IMAP!InFolder(s, f) PROVE o \in Ends(F, c, Within(F, c, f))
  OBVIOUS
<1>1. PICK p \in IMAP!SelectIfNeeded(s, f) :
          o \in IF p.err = "None" THEN IMAP!Command(p.s, IMAP!Selected(p.s)) ELSE {p}
  BY DEF IMAP!InFolder, IMAP!Then
<1>2. p \in Ends(F, c, Within(F, c, f))
  BY SelectIfNeededEnds
<1>3. p.err = "None" => p.s \in Within(F, c, f)
  BY <1>2, EndsOf
<1>4. Within(F, c, f) \subseteq LoggedIn(F, c)
  BY WithinIn
<1> QED BY <1>1, <1>2, <1>3, <1>4, CommandIn

(* An operation on another folder succeeds in INBOX.                         *)
LEMMA FromInboxEnds ==
    ASSUME NEW F \in Servers, NEW c \in BOOLEAN, NEW s \in Start(F, c)
    PROVE  IMAP!FromInbox(s) \subseteq Ends(F, c, Within(F, c, INBOX))
<1> SUFFICES ASSUME NEW o \in IMAP!FromInbox(s) PROVE o \in Ends(F, c, Within(F, c, INBOX))
  OBVIOUS
<1>1. PICK p \in IMAP!SelectIfNeeded(s, INBOX) :
          o \in IF p.err = "None" THEN IMAP!Command(p.s, IMAP!Authenticated(p.s)) ELSE {p}
  BY DEF IMAP!FromInbox, IMAP!Then
<1>2. p \in Ends(F, c, Within(F, c, INBOX))
  BY SelectIfNeededEnds, FoldersAssumption
<1>3. p.err = "None" => p.s \in Within(F, c, INBOX)
  BY <1>2, EndsOf
<1>4. Within(F, c, INBOX) \subseteq LoggedIn(F, c)
  BY WithinIn
<1> QED BY <1>1, <1>2, <1>3, <1>4, CommandIn

(* What an operation may come to: if it obtained its result, it was carried  *)
(* out in its folder.                                                        *)
Results(F, c, f) ==
    {o \in [s : Fine(F), err : IMAP!Errors \cup {"NullNamespace"}, got : BOOLEAN] :
        /\ o.got /\ f # NoFolder => o.s \in Within(F, FALSE, f)
        /\ c /\ o.err \in {"Connection", "Parse"} => o.s.closing}

(* What ends in the folder of the operation is a result.                     *)
LEMMA EndsAreResults ==
    ASSUME NEW F, NEW c \in BOOLEAN, NEW K, NEW f
    PROVE  /\ K \subseteq Within(F, c, f) => Ends(F, c, K) \subseteq Results(F, c, f)
           /\ Ends(F, c, K) \subseteq Results(F, c, NoFolder)
           /\ \A o \in Ends(F, c, K) : o.err # "None" => o \in Results(F, c, f)
<1>1. Within(F, c, f) \subseteq Within(F, FALSE, f)
  BY WithinIn
<1> QED BY <1>1 DEF Ends, Results

(* Operations on the account and on the folders.                             *)
OnFrom(F, c, s) == {t \in Ready(F) : c => t = s}

(* connectIfNeeded() from where an operation starts.                         *)
LEMMA ConnectIfNeededStarts ==
    ASSUME NEW F \in Servers, NEW c \in BOOLEAN, NEW s \in Start(F, c)
    PROVE  IMAP!ConnectIfNeeded(s) \subseteq Ends(F, c, OnFrom(F, c, s))
<1>1. CASE c
  <2>1. s \in LoggedIn(F, TRUE) /\ s \in Ready(F) /\ s \in Fine(F)
    BY <1>1, Stays DEF Start
  <2>2. s \in OnFrom(F, c, s)
    BY <2>1 DEF OnFrom
  <2>3. IMAP!Out(s, "None") \in Ends(F, c, OnFrom(F, c, s))
    BY <2>1, <2>2, OutEnds DEF IMAP!Errors
  <2> QED BY <2>1, <2>3, ReadyGoesOn
<1>2. CASE ~ c
  <2>1. IMAP!ConnectIfNeeded(s) \subseteq Ends(F, FALSE, Ready(F))
    BY ConnectIfNeededEnds, Extended, Stays
  <2>2. OnFrom(F, c, s) = Ready(F) /\ c = FALSE
    BY <1>2 DEF OnFrom
  <2> QED BY <2>1, <2>2
<1> QED BY <1>1, <1>2

(* identity() as an operation of its own.                                    *)
LEMMA IdentityEnds ==
    ASSUME NEW F \in Servers, NEW c \in BOOLEAN, NEW s \in Start(F, c)
    PROVE  IMAP!Identity(s) \subseteq Ends(F, c, Fine(F))
<1> SUFFICES ASSUME NEW o \in IMAP!Identity(s) PROVE o \in Ends(F, c, Fine(F))
  OBVIOUS
<1>1. PICK p \in IMAP!ConnectIfNeeded(s) :
          o \in IF p.err = "None" THEN IMAP!Command(p.s, TRUE) ELSE {p}
  BY DEF IMAP!Identity, IMAP!Then
<1>2. p \in Ends(F, c, OnFrom(F, c, s))
  BY ConnectIfNeededStarts
<1>3. CASE p.err = "None"
  <2>0. p.s \in OnFrom(F, c, s)
    BY <1>2, <1>3, EndsOf
  <2>1. p.s \in Fine(F) /\ p.s.state # "DISCONNECTED"
    BY <2>0 DEF OnFrom, Ready
  <2> QED BY <1>1, <1>3, <2>1, CommandKeeps
<1>4. CASE p.err # "None"
  <2>1. o = p
    BY <1>1, <1>4
  <2> QED BY <1>2, <1>4, <2>1 DEF Ends
<1> QED BY <1>3, <1>4

(* capability() as an operation of its own.                                  *)
LEMMA CapabilityEnds ==
    ASSUME NEW F \in Servers, NEW c \in BOOLEAN, NEW s \in Start(F, c)
    PROVE  IMAP!Capability(s) \subseteq Ends(F, c, Fine(F))
<1> SUFFICES ASSUME NEW o \in IMAP!Capability(s) PROVE o \in Ends(F, c, Fine(F))
  OBVIOUS
<1>1. PICK p \in IMAP!ConnectIfNeeded(s) :
          o \in IF p.err = "None" THEN IMAP!AskCapability(p.s) ELSE {p}
  BY DEF IMAP!Capability, IMAP!Then
<1>2. p \in Ends(F, c, OnFrom(F, c, s))
  BY ConnectIfNeededStarts
<1>3. CASE p.err = "None"
  <2>0. p.s \in OnFrom(F, c, s)
    BY <1>2, <1>3, EndsOf
  <2>1. p.s \in Fine(F) /\ p.s.state # "DISCONNECTED"
    BY <2>0 DEF OnFrom, Ready
  <2>2. o \in Ends(F, TRUE, {IMAP!ApplyCapabilities(p.s)})
    BY <1>1, <1>3, <2>1, AskEnds
  <2> QED BY <2>2 DEF Ends
<1>4. CASE p.err # "None"
  <2>1. o = p
    BY <1>1, <1>4
  <2> QED BY <1>2, <1>4, <2>1 DEF Ends
<1> QED BY <1>3, <1>4

(* getQuota(), folderStatus() and customCommand() after a login.             *)
LEMMA QuotaEnds ==
    ASSUME NEW F \in Servers, NEW c \in BOOLEAN, NEW s \in Start(F, c)
    PROVE  /\ IMAP!Quota(s) \subseteq Ends(F, c, LoggedIn(F, c))
           /\ IMAP!CustomCommand(s) \subseteq Ends(F, c, LoggedIn(F, c))
           /\ IMAP!FolderStatus(s) \subseteq Ends(F, c, LoggedIn(F, c))
<1> SUFFICES ASSUME NEW o \in IMAP!Quota(s) \cup IMAP!CustomCommand(s) \cup IMAP!FolderStatus(s)
             PROVE  o \in Ends(F, c, LoggedIn(F, c))
  OBVIOUS
<1>1. PICK p \in IMAP!LogIn(s) :
          \/ o \in IF p.err = "None" THEN IMAP!Command(p.s, IMAP!Authenticated(p.s)) ELSE {p}
          \/ o \in IF p.err = "None" THEN IMAP!Command(p.s, TRUE) ELSE {p}
          \/ o \in IF p.err = "None"
                   THEN IF p.s.state \in {"LOGGEDIN", "SELECTED"}
                        THEN IMAP!Command(p.s, IMAP!Authenticated(p.s)) ELSE IMAP!Stop(p.s, "AssertFailed")
                   ELSE {p}
  BY DEF IMAP!Quota, IMAP!CustomCommand, IMAP!FolderStatus, IMAP!Then
<1>2. p \in Ends(F, c, LoggedIn(F, c))
  BY LogInEnds
<1>3. CASE p.err = "None"
  <2>1. p.s \in LoggedIn(F, c)
    BY <1>2, <1>3, EndsOf
  <2>2. p.s.state \in {"LOGGEDIN", "SELECTED"}
    BY <2>1 DEF LoggedIn
  <2>3. o \in IMAP!Command(p.s, IMAP!Authenticated(p.s)) \cup IMAP!Command(p.s, TRUE)
    BY <1>1, <1>3, <2>2
  <2> QED BY <2>1, <2>3, CommandIn
<1>4. CASE p.err # "None"
  BY <1>1, <1>2, <1>4, EndsOf
<1> QED BY <1>3, <1>4

(* A folder that is opened for what select() tells of it.                    *)
LEMMA FolderInfoEnds ==
    ASSUME NEW F \in Servers, NEW c \in BOOLEAN, NEW s \in Start(F, c), NEW f \in Folders
    PROVE  IMAP!FolderInfo(s, f) \subseteq Ends(F, c, Within(F, c, f))
<1> SUFFICES ASSUME NEW o \in IMAP!FolderInfo(s, f) PROVE o \in Ends(F, c, Within(F, c, f))
  OBVIOUS
<1>1. PICK p \in IMAP!LogIn(s) : o \in IF p.err = "None" THEN IMAP!Select(p.s, f) ELSE {p}
  BY DEF IMAP!FolderInfo, IMAP!Then
<1>2. p \in Ends(F, c, LoggedIn(F, c))
  BY LogInEnds
<1>3. p.err = "None" => p.s \in LoggedIn(F, c)
  BY <1>2, EndsOf
<1>4. p.err # "None" => p \in Ends(F, c, Within(F, c, f))
  BY <1>2, EndsOf
<1> QED BY <1>1, <1>3, <1>4, SelectEnds

(* The capabilities, from memory or from the server.                         *)
LEMMA CapabilityOperationEnds ==
    ASSUME NEW F \in Servers, NEW c \in BOOLEAN, NEW s \in Start(F, c)
    PROVE  IMAP!StoredOrAskedCapability(s) \subseteq Ends(F, c, Fine(F))
<1> SUFFICES ASSUME NEW o \in IMAP!StoredOrAskedCapability(s) PROVE o \in Ends(F, c, Fine(F))
  OBVIOUS
<1>1. CASE o = IMAP!Out(IMAP!ApplyCapabilities(s), "None")
  BY <1>1, ApplyFine, Stays, OutEnds DEF IMAP!Errors
<1>2. CASE \E p \in IMAP!LogIn(s) : o \in IF p.err = "None" THEN IMAP!Capability(p.s) ELSE {p}
  <2>1. PICK p \in IMAP!LogIn(s) : o \in IF p.err = "None" THEN IMAP!Capability(p.s) ELSE {p}
    BY <1>2
  <2>2. p \in Ends(F, c, LoggedIn(F, c))
    BY LogInEnds
  <2>3. CASE p.err = "None"
    <3>1. p.s \in LoggedIn(F, c)
      BY <2>2, <2>3, EndsOf
    <3>2. p.s \in Start(F, c)
      BY <3>1, Stays
    <3> QED BY <2>1, <2>3, <3>2, CapabilityEnds
  <2>4. CASE p.err # "None"
    <3>1. o = p
      BY <2>1, <2>4
    <3> QED BY <2>2, <2>4, <3>1 DEF Ends
  <2> QED BY <2>3, <2>4
<1> QED BY <1>1, <1>2 DEF IMAP!StoredOrAskedCapability, IMAP!Then

(* noop(), which reports a broken stream and keeps it.                       *)
LEMMA NoopEnds ==
    ASSUME NEW F \in Servers, NEW s \in Fine(F)
    PROVE  IMAP!Noop(s) \subseteq Results(F, FALSE, NoFolder)
<1> SUFFICES ASSUME NEW o \in IMAP!Noop(s) PROVE o \in Results(F, FALSE, NoFolder)
  OBVIOUS
<1>1. ASSUME NEW t \in Fine(F), NEW e \in IMAP!Errors PROVE IMAP!Out(t, e) \in Results(F, FALSE, NoFolder)
  BY <1>1 DEF IMAP!Out, Results
<1>2. CASE s.stream = "none"
  <2>1. PICK e \in IMAP!Errors : o = IMAP!Out(s, e)
    BY <1>2 DEF IMAP!Noop
  <2> QED BY <1>1, <2>1
<1>3. CASE s.stream # "none"
  <2>1. PICK p \in IMAP!LogIn(s) :
            o \in IF p.err = "None"
                  THEN {IF q.err = "Parse" THEN IMAP!Out(q.s, "None") ELSE q : q \in IMAP!Answer(p.s, TRUE)}
                  ELSE {p}
    BY <1>3 DEF IMAP!Noop, IMAP!Then
  <2>2. s \in Start(F, FALSE)
    BY DEF Start
  <2>3. p \in Ends(F, FALSE, LoggedIn(F, FALSE))
    BY <2>2, LogInEnds
  <2>4. CASE p.err # "None"
    BY <2>1, <2>3, <2>4, EndsAreResults
  <2>5. CASE p.err = "None"
    <3>1. p.s \in Fine(F) /\ p.s.state # "DISCONNECTED"
      BY <2>3, <2>5, EndsOf, Stays
    <3>2. PICK q \in IMAP!Answer(p.s, TRUE) : o = IF q.err = "Parse" THEN IMAP!Out(q.s, "None") ELSE q
      BY <2>1, <2>5
    <3>3. q \in [s : Fine(F), err : IMAP!Errors, got : BOOLEAN]
      BY <3>1, AnswerEnds
    <3>4. CASE q.err = "Parse"
      BY <1>1, <3>2, <3>3, <3>4 DEF IMAP!Errors
    <3>5. CASE q.err # "Parse"
      BY <3>2, <3>3, <3>5 DEF Results
    <3> QED BY <3>4, <3>5
  <2> QED BY <2>4, <2>5
<1> QED BY <1>2, <1>3

(* fetchDelimiterIfNeeded() keeps a session logged in.                       *)
LEMMA DelimiterEnds ==
    ASSUME NEW F, NEW c \in BOOLEAN, NEW s \in LoggedIn(F, c)
    PROVE  IMAP!FetchDelimiterIfNeeded(s) \subseteq Ends(F, c, LoggedIn(F, c))
<1> SUFFICES ASSUME NEW o \in IMAP!FetchDelimiterIfNeeded(s) PROVE o \in Ends(F, c, LoggedIn(F, c))
  OBVIOUS
<1> DEFINE told(t) == [t EXCEPT !.delimiter = TRUE]
<1>1. ASSUME NEW t \in LoggedIn(F, c) PROVE told(t) \in LoggedIn(F, c) /\ told(t) \in Fine(F)
  <2> DEFINE u == told(t)
  <2>1. t \in Fine(F) /\ t \in IMAP!Session
    BY <1>1, Stays
  <2>2. /\ u \in IMAP!Session
        /\ u.state = t.state /\ u.peer = t.peer /\ u.closing = t.closing /\ u.folder = t.folder
        /\ u.stream = t.stream /\ u.offers = t.offers /\ u.caps = t.caps
    BY <2>1 DEF IMAP!Session
  <2> HIDE DEF u
  <2>3. Agrees(u)
    BY <1>1, <2>2 DEF LoggedIn, Agrees, IMAP!LoginAnswered, IMAP!Greeting
  <2>4. u \in LoggedIn(F, c)
    BY <1>1, <2>1, <2>2, <2>3 DEF LoggedIn, Fine
  <2> QED BY <2>4, Stays DEF u
<1> HIDE DEF told
<1>2. CASE o = IMAP!Out(s, "None")
  BY <1>2, CommandIn
<1>3. CASE \E p \in IMAP!Command(s, IMAP!Authenticated(s)) :
               o \in IF p.err = "None" THEN {IMAP!Out(p.s, "None"), IMAP!Out(told(p.s), "None")} ELSE {p}
  <2>1. PICK p \in IMAP!Command(s, IMAP!Authenticated(s)) :
               o \in IF p.err = "None" THEN {IMAP!Out(p.s, "None"), IMAP!Out(told(p.s), "None")} ELSE {p}
    BY <1>3
  <2>2. p \in Ends(F, c, LoggedIn(F, c))
    BY CommandIn
  <2>3. CASE p.err = "None"
    <3>1. /\ p.s \in LoggedIn(F, c) /\ told(p.s) \in LoggedIn(F, c)
          /\ p.s \in Fine(F) /\ told(p.s) \in Fine(F)
      BY <1>1, <2>2, <2>3, EndsOf, Stays
    <3>2. IMAP!Out(p.s, "None") \in Ends(F, c, LoggedIn(F, c))
      BY <3>1, OutEnds DEF IMAP!Errors
    <3>3. IMAP!Out(told(p.s), "None") \in Ends(F, c, LoggedIn(F, c))
      BY <3>1, OutEnds DEF IMAP!Errors
    <3> QED BY <2>1, <2>3, <3>2, <3>3
  <2>4. CASE p.err # "None"
    BY <2>1, <2>2, <2>4, EndsOf
  <2> QED BY <2>3, <2>4
<1> QED BY <1>2, <1>3 DEF IMAP!FetchDelimiterIfNeeded, IMAP!Then, told

(* A login followed by fetchDelimiterIfNeeded().                             *)
LEMMA LoggedInWithDelimiter ==
    ASSUME NEW F \in Servers, NEW c \in BOOLEAN, NEW s \in Start(F, c)
    PROVE  IMAP!Then(IMAP!LogIn(s), IMAP!FetchDelimiterIfNeeded) \subseteq Ends(F, c, LoggedIn(F, c))
<1> SUFFICES ASSUME NEW o \in IMAP!Then(IMAP!LogIn(s), IMAP!FetchDelimiterIfNeeded)
             PROVE  o \in Ends(F, c, LoggedIn(F, c))
  OBVIOUS
<1>1. PICK p \in IMAP!LogIn(s) : o \in IF p.err = "None" THEN IMAP!FetchDelimiterIfNeeded(p.s) ELSE {p}
  BY DEF IMAP!Then
<1>2. p \in Ends(F, c, LoggedIn(F, c))
  BY LogInEnds
<1> QED BY <1>1, <1>2, EndsOf, DelimiterEnds

(* fetchSubscribedFolders(), which needs a namespace.                        *)
LEMMA SubscribedFoldersEnds ==
    ASSUME NEW F \in Servers, NEW c \in BOOLEAN, NEW s \in Start(F, c)
    PROVE  IMAP!FetchSubscribedFolders(s) \subseteq Results(F, c, NoFolder)
<1> SUFFICES ASSUME NEW o \in IMAP!FetchSubscribedFolders(s) PROVE o \in Results(F, c, NoFolder)
  OBVIOUS
<1> DEFINE ready == IMAP!Then(IMAP!LogIn(s), IMAP!FetchDelimiterIfNeeded)
<1>0. ready \subseteq Ends(F, c, LoggedIn(F, c))
  BY LoggedInWithDelimiter
<1> HIDE DEF ready
<1>1. PICK p \in ready :
          o \in IF p.err = "None"
                THEN IF p.s.namespace THEN IMAP!Command(p.s, IMAP!Authenticated(p.s))
                                      ELSE {IMAP!Out(p.s, "NullNamespace")}
                ELSE {p}
  BY DEF IMAP!FetchSubscribedFolders, IMAP!Then, IMAP!Stop, ready
<1>2. p \in Ends(F, c, LoggedIn(F, c))
  BY <1>0
<1>3. CASE p.err # "None"
  BY <1>1, <1>2, <1>3, EndsAreResults
<1>4. CASE p.err = "None"
  <2>1. p.s \in LoggedIn(F, c) /\ p.s \in Fine(F)
    BY <1>2, <1>4, EndsOf, Stays
  <2>2. CASE o \in IMAP!Command(p.s, IMAP!Authenticated(p.s))
    BY <2>1, <2>2, CommandIn, EndsAreResults
  <2>3. CASE o = IMAP!Out(p.s, "NullNamespace")
    BY <2>1, <2>3 DEF IMAP!Out, Results
  <2> QED BY <1>1, <1>4, <2>2, <2>3
<1> QED BY <1>3, <1>4

(* fetchAllFolders(), with a second list.                                    *)
LEMMA AllFoldersEnds ==
    ASSUME NEW F \in Servers, NEW c \in BOOLEAN, NEW s \in Start(F, c)
    PROVE  IMAP!FetchAllFolders(s) \subseteq Ends(F, c, LoggedIn(F, c))
<1> SUFFICES ASSUME NEW o \in IMAP!FetchAllFolders(s) PROVE o \in Ends(F, c, LoggedIn(F, c))
  OBVIOUS
<1> DEFINE ready == IMAP!Then(IMAP!LogIn(s), IMAP!FetchDelimiterIfNeeded)
           listed == IMAP!Then(ready, LAMBDA t : IMAP!Command(t, IMAP!Authenticated(t)))
<1>1. ready \subseteq Ends(F, c, LoggedIn(F, c))
  BY LoggedInWithDelimiter
<1>2. ASSUME NEW q \in listed PROVE q \in Ends(F, c, LoggedIn(F, c))
  <2> HIDE DEF ready
  <2>1. PICK p \in ready : q \in IF p.err = "None" THEN IMAP!Command(p.s, IMAP!Authenticated(p.s)) ELSE {p}
    BY <1>2 DEF IMAP!Then
  <2>2. p \in Ends(F, c, LoggedIn(F, c))
    BY <1>1
  <2> QED BY <2>1, <2>2, EndsOf, CommandIn
<1>3. PICK q \in listed :
          o \in IF q.err = "None"
                THEN {IMAP!Out(q.s, "None")} \cup IMAP!Command(q.s, IMAP!Authenticated(q.s)) ELSE {q}
  BY DEF IMAP!FetchAllFolders, IMAP!Then
<1> HIDE DEF listed
<1>4. q \in Ends(F, c, LoggedIn(F, c))
  BY <1>2, <1>3
<1>5. q.err = "None" => q.s \in LoggedIn(F, c)
  BY <1>4, EndsOf
<1> QED BY <1>3, <1>4, <1>5, CommandIn

(* createFolder() goes on with a subscription.                               *)
LEMMA CreateFolderEnds ==
    ASSUME NEW F \in Servers, NEW c \in BOOLEAN, NEW s \in Start(F, c)
    PROVE  IMAP!CreateFolder(s) \subseteq Ends(F, c, Within(F, c, INBOX))
<1> SUFFICES ASSUME NEW o \in IMAP!CreateFolder(s) PROVE o \in Ends(F, c, Within(F, c, INBOX))
  OBVIOUS
<1>1. PICK p \in IMAP!FromInbox(s) : o \in IF p.err = "None" THEN IMAP!FromInbox(p.s) ELSE {p}
  BY DEF IMAP!CreateFolder, IMAP!SubscribeFolder, IMAP!Then
<1>2. p \in Ends(F, c, Within(F, c, INBOX))
  BY FromInboxEnds
<1>3. p.err = "None" => p.s \in Start(F, c)
  BY <1>2, EndsOf, WithinIn
<1> QED BY <1>1, <1>2, <1>3, EndsOf, FromInboxEnds


(* Operations on the messages of a folder.                                   *)
LEMMA AppendEnds ==
    ASSUME NEW F \in Servers, NEW c \in BOOLEAN, NEW s \in Start(F, c), NEW f \in Folders
    PROVE  IMAP!AppendMessage(s, f) \subseteq Ends(F, c, Within(F, c, f))
<1> SUFFICES ASSUME NEW o \in IMAP!AppendMessage(s, f) PROVE o \in Ends(F, c, Within(F, c, f))
  OBVIOUS
<1>1. PICK p \in IMAP!SelectIfNeeded(s, f) :
          o \in IF p.err = "None" THEN IMAP!Command(p.s, IMAP!Authenticated(p.s)) ELSE {p}
  BY DEF IMAP!AppendMessage, IMAP!Then
<1>2. p \in Ends(F, c, Within(F, c, f))
  BY SelectIfNeededEnds
<1> QED BY <1>1, <1>2, EndsOf, CommandIn, WithinIn

(* fetchMessageAttachmentToFile() selects twice.                             *)
LEMMA ToFileEnds ==
    ASSUME NEW F \in Servers, NEW c \in BOOLEAN, NEW s \in Start(F, c), NEW f \in Folders
    PROVE  IMAP!FetchAttachmentToFile(s, f) \subseteq Ends(F, c, Within(F, c, f))
<1> SUFFICES ASSUME NEW o \in IMAP!FetchAttachmentToFile(s, f) PROVE o \in Ends(F, c, Within(F, c, f))
  OBVIOUS
<1>1. PICK p \in IMAP!SelectIfNeeded(s, f) : o \in IF p.err = "None" THEN IMAP!InFolder(p.s, f) ELSE {p}
  BY DEF IMAP!FetchAttachmentToFile, IMAP!Then
<1>2. p \in Ends(F, c, Within(F, c, f))
  BY SelectIfNeededEnds
<1>3. p.err = "None" => p.s \in Start(F, c)
  BY <1>2, EndsOf, WithinIn
<1> QED BY <1>1, <1>2, <1>3, EndsOf, InFolderEnds

(* Batches are sent one after the other in one folder.                       *)
LEMMA InBatchesEnds ==
    ASSUME NEW F \in Servers, NEW c \in BOOLEAN, NEW s \in Start(F, c), NEW f \in Folders
    PROVE  IMAP!InBatches(s, f) \subseteq Ends(F, c, Within(F, c, f))
<1> SUFFICES ASSUME NEW o \in IMAP!InBatches(s, f) PROVE o \in Ends(F, c, Within(F, c, f))
  OBVIOUS
<1> DEFINE batch(t) == IMAP!Command(t, IMAP!Selected(t))
<1>1. PICK p \in IMAP!SelectIfNeeded(s, f) :
          o \in IF p.err = "None"
                THEN {IMAP!Out(p.s, "None")} \cup batch(p.s) \cup IMAP!Then(batch(p.s), batch) ELSE {p}
  BY DEF IMAP!InBatches, IMAP!Then
<1>2. p \in Ends(F, c, Within(F, c, f))
  BY SelectIfNeededEnds
<1>3. CASE p.err # "None"
  BY <1>1, <1>2, <1>3, EndsOf
<1>4. CASE p.err = "None"
  <2>1. \A t \in Within(F, c, f) :
            batch(t) \subseteq Ends(F, c, Within(F, c, f)) /\ IMAP!Out(t, "None") \in Ends(F, c, Within(F, c, f))
    BY CommandIn, WithinIn
  <2>2. p.s \in Within(F, c, f)
    BY <1>2, <1>4, EndsOf
  <2>3. CASE o \in IMAP!Then(batch(p.s), batch)
    <3>1. PICK q \in batch(p.s) : o \in IF q.err = "None" THEN batch(q.s) ELSE {q}
      BY <2>3 DEF IMAP!Then
    <3>2. q \in Ends(F, c, Within(F, c, f))
      BY <2>1, <2>2
    <3> HIDE DEF batch
    <3> QED BY <2>1, <3>1, <3>2, EndsOf
  <2> QED BY <1>1, <1>4, <2>1, <2>2, <2>3
<1> QED BY <1>3, <1>4

(* The wait between IDLE and DONE.                                           *)
LEMMA WaitEnds ==
    ASSUME NEW F, NEW c \in BOOLEAN, NEW f, NEW s \in Within(F, c, f),
           NEW o \in {IMAP!Out(s, "None"), IMAP!Out(Closing(s), "Connection")}
    PROVE  o \in Ends(F, c, Within(F, c, f))
<1>1. s \in LoggedIn(F, c) /\ s \in Fine(F)
  BY WithinIn
<1>2. Closing(s) \in Fine(F) /\ Closing(s).closing
  BY <1>1, DownFine, Stays
<1> QED BY <1>1, <1>2, OutEnds DEF IMAP!Errors

(* idle() stays in its folder.                                               *)
LEMMA IdleEnds ==
    ASSUME NEW F \in Servers, NEW c \in BOOLEAN, NEW s \in Start(F, c), NEW f \in Folders
    PROVE  IMAP!Idle(s, f) \subseteq Ends(F, c, Within(F, c, f))
<1> SUFFICES ASSUME NEW o \in IMAP!Idle(s, f) PROVE o \in Ends(F, c, Within(F, c, f))
  OBVIOUS
<1> DEFINE W == Within(F, c, f)
           E == Ends(F, c, W)
           command(t) == IMAP!Command(t, IMAP!Selected(t))
           wait(t) == {IMAP!Out(t, "None"), IMAP!Out(Closing(t), "Connection")}
           waiting(t) == IMAP!Then(command(t), wait)
           waited(t) == IMAP!Then(waiting(t), command)
           after(t) == IMAP!Then(IMAP!InFolder(t, f), LAMBDA v : {IMAP!Out(v, "None")} \cup waited(v))
           idle(t) == IMAP!Then(IMAP!SelectIfNeeded(t, f), LAMBDA u : waited(u) \cup after(u))
<1>1. PICK p \in IMAP!SelectIfNeeded(s, f) :
          o \in IF p.err = "None"
                THEN {IMAP!Out(p.s, "None")} \cup (IF "IDLE" \in p.s.caps THEN idle(p.s) ELSE {}) ELSE {p}
  BY DEF IMAP!Idle, IMAP!Then, Closing
<1>2. p \in E
  BY SelectIfNeededEnds
<1>3. \A t \in W : command(t) \subseteq E /\ IMAP!Out(t, "None") \in E
  BY CommandIn, WithinIn
<1>4. \A t \in W : wait(t) \subseteq E
  BY WaitEnds
<1>5. \A q \in E : (q.err = "None" => q.s \in W)
  BY EndsOf
<1>6. \A t \in W : IMAP!SelectIfNeeded(t, f) \subseteq E /\ IMAP!InFolder(t, f) \subseteq E
  BY SelectIfNeededEnds, InFolderEnds, WithinIn
<1> HIDE DEF W, E, command, wait
<1>7. ASSUME NEW t \in W PROVE waited(t) \subseteq E
  <2> SUFFICES ASSUME NEW r \in waited(t) PROVE r \in E
    OBVIOUS
  <2>1. PICK q \in waiting(t) : r \in IF q.err = "None" THEN command(q.s) ELSE {q}
    <3> HIDE DEF waiting
    <3> QED BY DEF IMAP!Then
  <2>2. PICK v \in command(t) : q \in IF v.err = "None" THEN wait(v.s) ELSE {v}
    BY <2>1 DEF IMAP!Then
  <2>3. v \in E
    BY <1>3, <1>7, <2>2
  <2>4. q \in E
    BY <1>4, <1>5, <2>2, <2>3
  <2> QED BY <1>3, <1>5, <2>1, <2>4
<1> HIDE DEF waited
<1>8. ASSUME NEW t \in W PROVE after(t) \subseteq E
  <2> SUFFICES ASSUME NEW r \in after(t) PROVE r \in E
    OBVIOUS
  <2>1. PICK v \in IMAP!InFolder(t, f) : r \in IF v.err = "None" THEN {IMAP!Out(v.s, "None")} \cup waited(v.s) ELSE {v}
    BY DEF IMAP!Then
  <2>2. v \in E
    BY <1>6, <1>8, <2>1
  <2> QED BY <1>3, <1>5, <1>7, <2>1, <2>2
<1> HIDE DEF after
<1>9. ASSUME NEW t \in W PROVE idle(t) \subseteq E
  <2> SUFFICES ASSUME NEW r \in idle(t) PROVE r \in E
    OBVIOUS
  <2>1. PICK v \in IMAP!SelectIfNeeded(t, f) : r \in IF v.err = "None" THEN waited(v.s) \cup after(v.s) ELSE {v}
    BY DEF IMAP!Then
  <2>2. v \in E
    BY <1>6, <1>9, <2>1
  <2> QED BY <1>5, <1>7, <1>8, <2>1, <2>2
<1> HIDE DEF idle
<1>10. o \in E
  BY <1>1, <1>2, <1>3, <1>5, <1>9
<1> QED BY <1>10 DEF E, W

(* The mark that the workaround for message boxes is needed. *)
LEMMA MboxKept ==
    ASSUME NEW F, NEW c \in BOOLEAN, NEW f, NEW s \in Within(F, c, f)
    PROVE  [s EXCEPT !.mbox = TRUE] \in Within(F, c, f)
<1> DEFINE t == [s EXCEPT !.mbox = TRUE]
<1>1. s \in LoggedIn(F, c) /\ s \in Fine(F) /\ s \in IMAP!Session
  BY WithinIn, Stays
<1>2. /\ t \in IMAP!Session
      /\ t.state = s.state /\ t.peer = s.peer /\ t.closing = s.closing /\ t.folder = s.folder
      /\ t.stream = s.stream /\ t.offers = s.offers /\ t.caps = s.caps
  BY <1>1 DEF IMAP!Session
<1> HIDE DEF t
<1>3. Agrees(t)
  BY <1>1, <1>2 DEF LoggedIn, Agrees, IMAP!LoginAnswered, IMAP!Greeting
<1>4. t \in LoggedIn(F, c)
  BY <1>1, <1>2, <1>3 DEF LoggedIn, Fine
<1>5. t \in Within(F, c, f)
  BY <1>2, <1>4 DEF Within
<1> QED BY <1>5 DEF t

(* fetchMessages() stays in its folder, also with a second attempt.          *)
LEMMA FetchMessagesEnds ==
    ASSUME NEW F \in Servers, NEW c \in BOOLEAN, NEW s \in Start(F, c), NEW f \in Folders
    PROVE  IMAP!FetchMessages(s, f) \subseteq Results(F, c, f)
<1> SUFFICES ASSUME NEW o \in IMAP!FetchMessages(s, f) PROVE o \in Results(F, c, f)
  OBVIOUS
<1> DEFINE W == Within(F, c, f)
           again(t) == {CASE q.err \in IMAP!Faults -> q
                          [] q.err = "None" -> [q EXCEPT !.s.mbox = TRUE]
                          [] OTHER -> [q EXCEPT !.err = "None"] : q \in IMAP!InFolder(t, f)}
<1>1. PICK p \in IMAP!InFolder(s, f) :
          o \in IF p.err = "None"
                THEN {IMAP!Out(p.s, "None")} \cup (IF p.s.mbox THEN {} ELSE again(p.s)) ELSE {p}
  BY DEF IMAP!FetchMessages, IMAP!InFolder, IMAP!Then
<1>2. p \in Ends(F, c, W)
  BY InFolderEnds
<1>3. Ends(F, c, W) \subseteq Results(F, c, f)
  BY EndsAreResults
<1>4. CASE p.err # "None"
  BY <1>1, <1>2, <1>3, <1>4
<1>5. CASE p.err = "None"
  <2>1. p.s \in W /\ p.s \in Start(F, c)
    BY <1>2, <1>5, EndsOf, WithinIn
  <2>2. CASE o = IMAP!Out(p.s, "None")
    BY <1>3, <2>1, <2>2, CommandIn, WithinIn
  <2>3. CASE o \in again(p.s)
    <3>1. PICK q \in IMAP!InFolder(p.s, f) :
              o = CASE q.err \in IMAP!Faults -> q
                    [] q.err = "None" -> [q EXCEPT !.s.mbox = TRUE]
                    [] OTHER -> [q EXCEPT !.err = "None"]
      BY <2>3
    <3>2. q \in Ends(F, c, W)
      BY <2>1, InFolderEnds
    <3>3. /\ q \in [s : Fine(F), err : IMAP!Errors, got : BOOLEAN]
          /\ q.got => q.err = "None"
          /\ q.err = "None" => q.s \in W
      BY <3>2 DEF Ends
    <3>4. q.err \notin IMAP!Faults
      BY <3>3 DEF IMAP!Errors, IMAP!Faults
    <3>5. CASE q.err = "None"
      <4> DEFINE t == [q.s EXCEPT !.mbox = TRUE]
      <4>1. o = [q EXCEPT !.s = t]
        BY <3>1, <3>4, <3>5
      <4>2. t \in W /\ t \in Within(F, FALSE, f) /\ t \in Fine(F)
        BY <3>3, <3>5, MboxKept, WithinIn
      <4> HIDE DEF t
      <4>3. o.s = t /\ o.err = "None" /\ o \in [s : Fine(F), err : IMAP!Errors, got : BOOLEAN]
        BY <3>3, <3>5, <4>1, <4>2
      <4> QED BY <4>2, <4>3 DEF Results
    <3>6. CASE q.err # "None"
      <4>1. o = [q EXCEPT !.err = "None"]
        BY <3>1, <3>4, <3>6
      <4>2. o.err = "None" /\ o.s = q.s /\ ~ o.got
            /\ o \in [s : Fine(F), err : IMAP!Errors, got : BOOLEAN]
        BY <3>3, <3>6, <4>1 DEF IMAP!Errors
      <4> QED BY <4>2 DEF Results
    <3> QED BY <3>5, <3>6
  <2> QED BY <1>1, <1>5, <2>2, <2>3
<1> QED BY <1>4, <1>5

(* The inductive invariant: a session that, if it completed a login, knows   *)
(* its default namespace; and for the servers that do not announce both      *)
(* COMPRESS and ID, a session that is one of those above, and the result of  *)
(* an operation only if the session is in the folder of the operation.       *)
Kept ==
    /\ imap \in IMAP!Session /\ imap.offers \in Offers
    /\ imap.configured => imap.namespace
    /\ last.err \in IMAP!Errors \cup IMAP!Faults
    /\ last.err = "NullNamespace" => ~ imap.configured

Well ==
    \E F \in Servers :
        /\ imap \in Fine(F)
        /\ last.err \in IMAP!Errors \cup {"NullNamespace"}
        /\ last.folder # NoFolder => imap \in Within(F, FALSE, last.folder)

ImapInv == Kept /\ (IMAP!Separate(imap.offers) => Well)

(* The invariant says what the properties say.                               *)
LEMMA ImapInvSays == ImapInv => SelectedFolderTrue /\ OnlyKnownFaults
<1> SUFFICES ASSUME ImapInv PROVE SelectedFolderTrue /\ OnlyKnownFaults
  OBVIOUS
<1>1. ASSUME IMAP!Separate(imap.offers)
      PROVE  /\ last.err \notin {"AssertFailed", "NullImap"}
             /\ IMAP!OperatesInItsFolder /\ IMAP!SelectionAgrees
  <2>1. PICK F \in Servers :
            /\ imap \in Fine(F)
            /\ last.err \in IMAP!Errors \cup {"NullNamespace"}
            /\ last.folder # NoFolder => imap \in Within(F, FALSE, last.folder)
    BY <1>1 DEF ImapInv, Well
  <2>2. last.err \notin {"AssertFailed", "NullImap"}
    BY <2>1 DEF IMAP!Errors
  <2>3. IMAP!OperatesInItsFolder
    BY <2>1 DEF IMAP!OperatesInItsFolder, Within, LoggedIn, Agrees
  <2>4. IMAP!SelectionAgrees
    BY <2>1 DEF IMAP!SelectionAgrees, Fine, Agrees, IMAP!Selected
  <2> QED BY <2>2, <2>3, <2>4
<1>2. SelectedFolderTrue
  BY <1>1 DEF SelectedFolderTrue, IMAP!SelectedFolderTrue
<1>3. OnlyKnownFaults
  BY <1>1 DEF OnlyKnownFaults, IMAP!OnlyKnownFaults, ImapInv, Kept
<1> QED BY <1>2, <1>3

(* It holds before the first operation.                                      *)
LEMMA InitImap == IMAP!Init => ImapInv
<1> SUFFICES ASSUME IMAP!Init PROVE ImapInv
  OBVIOUS
<1>1. PICK F \in Offers, known0 \in BOOLEAN :
          imap = [state |-> "DISCONNECTED", stream |-> "none", closing |-> FALSE, folder |-> NoFolder,
                  caps |-> {}, namespace |-> known0, delimiter |-> FALSE, configured |-> FALSE,
                  mbox |-> FALSE, peer |-> "nobody", offers |-> F]
  BY DEF IMAP!Init
<1>2. F \in SUBSET IMAP!Announced
  BY OffersAssumption DEF IMAP!Announced, IMAP!Extensions
<1>3. imap \in IMAP!Session
  BY <1>1, <1>2 DEF IMAP!Session, IMAP!States
<1>4. /\ imap.state = "DISCONNECTED" /\ imap.stream = "none" /\ imap.peer = "nobody"
      /\ imap.offers = F /\ imap.caps = {} /\ ~ imap.configured
  BY <1>1
<1>5. Agrees(imap)
  BY <1>4, FoldersAssumption DEF Agrees, IMAP!LoginAnswered
<1>6. imap \in Fine(F)
  BY <1>3, <1>4, <1>5 DEF Fine
<1>7. last.err = "None" /\ last.folder = NoFolder
  BY DEF IMAP!Init
<1>8. Kept
  BY <1>3, <1>4, <1>7 DEF Kept, IMAP!Errors
<1>9. IMAP!Separate(imap.offers) => Well
  BY <1>4, <1>6, <1>7 DEF Well, Servers, IMAP!Errors
<1> QED BY <1>8, <1>9 DEF ImapInv

(* Every operation, with any server, keeps what concerns the namespace.      *)
LEMMA NextKept ==
    ASSUME Kept, IMAP!Next
    PROVE  Kept' /\ imap'.offers = imap.offers
<1> DEFINE H == [offers |-> imap.offers, known |-> FALSE, sound |-> TRUE]
<1>1. imap \in Held(H)
  BY DEF Kept, Held
<1>2. ASSUME NEW op, NEW f, NEW outs, IMAP!Perform(op, f, outs), outs \subseteq Outs(H)
      PROVE  Kept' /\ imap'.offers = imap.offers
  <2>1. PICK o \in outs : imap' = o.s /\ last'.err = o.err
    BY <1>2 DEF IMAP!Perform
  <2>2. o \in Typed /\ o.s \in Held(H) /\ (o.err = "NullNamespace" => ~ o.s.configured)
    BY <1>2, <2>1 DEF Outs
  <2>3. imap' \in IMAP!Session /\ imap'.offers = imap.offers /\ (imap'.configured => imap'.namespace)
    BY <2>1, <2>2 DEF Held
  <2>4. last'.err \in IMAP!Errors \cup IMAP!Faults /\ (last'.err = "NullNamespace" => ~ imap'.configured)
    BY <2>1, <2>2 DEF Typed
  <2>5. imap'.offers \in Offers
    BY <2>3 DEF Kept
  <2> QED BY <2>3, <2>4, <2>5 DEF Kept, IMAP!Session, IMAP!States, IMAP!Announced, IMAP!Extensions,
                                     IMAP!Errors, IMAP!Faults
<1> HIDE DEF H
<1>3. CASE IMAP!Account
  <2>1. /\ IMAP!ConnectIfNeeded(imap) \subseteq Outs(H) /\ IMAP!LogIn(imap) \subseteq Outs(H)
        /\ IMAP!Noop(imap) \subseteq Outs(H) /\ IMAP!StoredOrAskedCapability(imap) \subseteq Outs(H)
        /\ IMAP!Identity(imap) \subseteq Outs(H) /\ IMAP!FetchNamespace(imap, IMAP!Login) \subseteq Outs(H)
    BY <1>1, ConnectIfNeededHeld, LogInHeld, NoopHeld, CapabilityOperationHeld, IdentityHeld,
       FetchNamespaceHeld, LoginHolds
  <2>2. IMAP!Quota(imap) \subseteq Outs(H) /\ IMAP!CustomCommand(imap) \subseteq Outs(H)
    BY <1>1, AccountHeld, FoldersAssumption
  <2>3. {IMAP!Out(IMAP!Unsetup(imap), "None")} \subseteq Outs(H)
    BY <1>1, ChangesHeld, OutHeld DEF Changes, IMAP!Errors
  <2>4. \E outs, op : IMAP!Perform(op, NoFolder, outs) /\ outs \subseteq Outs(H)
    BY <1>3, <2>1, <2>2, <2>3, Zenon DEF IMAP!Account
  <2> QED BY <1>2, <2>4
<1>4. CASE IMAP!Management
  <2>1. /\ IMAP!FolderStatus(imap) \subseteq Outs(H) /\ IMAP!FetchSubscribedFolders(imap) \subseteq Outs(H)
        /\ IMAP!FetchAllFolders(imap) \subseteq Outs(H)
        /\ IMAP!FromInbox(imap) \subseteq Outs(H) /\ IMAP!CreateFolder(imap) \subseteq Outs(H)
    BY <1>1, AccountHeld, FoldersAssumption, SubscribedFoldersHeld, AllFoldersHeld, FromInboxHeld
  <2>2. \E outs, f : IMAP!Perform("command", f, outs) /\ outs \subseteq Outs(H)
    BY <1>4, <2>1, Zenon DEF IMAP!Management, IMAP!RenameFolder, IMAP!DeleteFolder, IMAP!SubscribeFolder,
                             IMAP!UnsubscribeFolder
  <2> QED BY <1>2, <2>2
<1>5. ASSUME NEW f \in Folders, IMAP!Messages(f) PROVE Kept' /\ imap'.offers = imap.offers
  <2>1. /\ IMAP!FolderInfo(imap, f) \subseteq Outs(H) /\ IMAP!AppendMessage(imap, f) \subseteq Outs(H)
        /\ IMAP!InBatches(imap, f) \subseteq Outs(H) /\ IMAP!InFolder(imap, f) \subseteq Outs(H)
        /\ IMAP!FetchMessages(imap, f) \subseteq Outs(H) /\ IMAP!FetchAttachmentToFile(imap, f) \subseteq Outs(H)
        /\ IMAP!Idle(imap, f) \subseteq Outs(H)
    BY <1>1, AccountHeld, InFolderHeld, InBatchesHeld, FetchMessagesHeld, ToFileHeld, IdleHeld
  <2>2. \E outs : IMAP!Perform("command", f, outs) /\ outs \subseteq Outs(H)
    BY <1>5, <2>1, Zenon DEF IMAP!Messages, IMAP!CopyMessages, IMAP!MoveMessages, IMAP!StoreFlags,
                             IMAP!StoreLabels, IMAP!Expunge, IMAP!Search, IMAP!FetchMessageNumberUIDMapping,
                             IMAP!FetchMessage, IMAP!FetchAttachment
  <2> QED BY <1>2, <2>2
<1>6. IMAP!Account \/ IMAP!Management \/ \E f \in Folders : IMAP!Messages(f)
  BY DEF IMAP!Next
<1> QED BY <1>3, <1>4, <1>5, <1>6

(* What an operation comes to is what follows; only noop leaves a session    *)
(* that it found well with a broken stream and does not have it closed.      *)
Left(c) == c /\ last'.err \in {"Connection", "Parse"} /\ last'.op # "noop" => imap'.closing

(* An operation whose outcomes are results keeps it.                         *)
LEMMA PerformKeeps ==
    ASSUME NEW F \in Servers, NEW c \in BOOLEAN, NEW op, NEW f \in Folders \cup {NoFolder}, NEW outs,
           IMAP!Perform(op, f, outs),
           IF op = "noop" THEN outs \subseteq Results(F, FALSE, f) ELSE outs \subseteq Results(F, c, f)
    PROVE  Well' /\ Left(c)
<1>1. PICK o \in outs : imap' = o.s /\ last' = [op |-> op, folder |-> IF o.got THEN f ELSE NoFolder, err |-> o.err]
  BY DEF IMAP!Perform
<1>2. last'.op = op /\ last'.err = o.err /\ last'.folder = IF o.got THEN f ELSE NoFolder
  BY <1>1
<1>3. /\ o.s \in Fine(F) /\ o.err \in IMAP!Errors \cup {"NullNamespace"}
      /\ o.got /\ f # NoFolder => o.s \in Within(F, FALSE, f)
      /\ op # "noop" /\ c /\ o.err \in {"Connection", "Parse"} => o.s.closing
  BY <1>1 DEF Results
<1>4. \E G \in Servers : /\ imap' \in Fine(G)
                         /\ last'.err \in IMAP!Errors \cup {"NullNamespace"}
                         /\ last'.folder # NoFolder => imap' \in Within(G, FALSE, last'.folder)
  <2> WITNESS F \in Servers
  <2> QED BY <1>1, <1>2, <1>3
<1>5. Well'
  BY <1>4 DEF Well, Fine, Within, LoggedIn, Agrees, IMAP!LoginAnswered, IMAP!Greeting, IMAP!Separate, Servers
<1> QED BY <1>1, <1>2, <1>3, <1>5 DEF Left

(* Every operation keeps it, and leaves a stream that it reports broken.     *)
LEMMA NextImap ==
    ASSUME Well, IMAP!Next
    PROVE  Well' /\ Left(imap.state \in {"LOGGEDIN", "SELECTED"} /\ ~ imap.closing)
<1> DEFINE c == imap.state \in {"LOGGEDIN", "SELECTED"} /\ ~ imap.closing
<1>1. PICK F \in Servers : imap \in Fine(F)
  BY DEF Well
<1>2. c \in BOOLEAN /\ imap \in Start(F, c)
  BY <1>1 DEF Start, LoggedIn, Fine
<1> SUFFICES Well' /\ Left(c)
  OBVIOUS
<1> HIDE DEF c
<1>3. ASSUME NEW op, op # "noop", NEW f \in Folders \cup {NoFolder}, NEW outs,
             IMAP!Perform(op, f, outs), outs \subseteq Results(F, c, f)
      PROVE  Well' /\ Left(c)
  BY <1>2, <1>3, PerformKeeps
<1>4. ASSUME NEW K, NEW outs, IMAP!Perform("command", NoFolder, outs), outs \subseteq Ends(F, c, K)
      PROVE  Well' /\ Left(c)
  <2>1. outs \subseteq Results(F, c, NoFolder)
    BY <1>2, <1>4, EndsAreResults
  <2> QED BY <1>3, <1>4, <2>1
<1>5. ASSUME NEW f \in Folders, NEW outs,
             IMAP!Perform("command", f, outs), outs \subseteq Ends(F, c, Within(F, c, f))
      PROVE  Well' /\ Left(c)
  <2>1. outs \subseteq Results(F, c, f)
    BY <1>2, <1>5, EndsAreResults
  <2> QED BY <1>3, <1>5, <2>1
<1>6. CASE IMAP!Account
  <2>1. IMAP!ConnectIfNeeded(imap) \subseteq Ends(F, c, OnFrom(F, c, imap))
    BY <1>2, ConnectIfNeededStarts
  <2>2. IMAP!LogIn(imap) \subseteq Ends(F, c, LoggedIn(F, c))
    BY <1>2, LogInEnds
  <2>3. {IMAP!Out(IMAP!Unsetup(imap), "None")} \subseteq Ends(F, c, Fine(F))
    <3>1. IMAP!Unsetup(imap) \in Fine(F)
      BY <1>1, UnsetupFine
    <3> QED BY <3>1, OutEnds DEF IMAP!Errors
  <2>4. IMAP!Noop(imap) \subseteq Results(F, FALSE, NoFolder)
    BY <1>1, NoopEnds
  <2>5. /\ IMAP!Quota(imap) \subseteq Ends(F, c, LoggedIn(F, c))
        /\ IMAP!CustomCommand(imap) \subseteq Ends(F, c, LoggedIn(F, c))
    BY <1>2, QuotaEnds
  <2>6. IMAP!StoredOrAskedCapability(imap) \subseteq Ends(F, c, Fine(F))
    BY <1>2, CapabilityOperationEnds
  <2>7. IMAP!Identity(imap) \subseteq Ends(F, c, Fine(F))
    BY <1>2, IdentityEnds
  <2>8. IMAP!FetchNamespace(imap, IMAP!Login) \subseteq Ends(F, c, LoggedIn(F, c))
    BY <1>2, FetchNamespaceEnds, LoginEnds, Extended
  <2>9. CASE IMAP!Perform("noop", NoFolder, IMAP!Noop(imap))
    BY <1>2, <2>4, <2>9, PerformKeeps
  <2>10. \/ IMAP!Perform("command", NoFolder, IMAP!ConnectIfNeeded(imap))
         \/ IMAP!Perform("command", NoFolder, IMAP!LogIn(imap))
         \/ IMAP!Perform("command", NoFolder, {IMAP!Out(IMAP!Unsetup(imap), "None")})
         \/ IMAP!Perform("noop", NoFolder, IMAP!Noop(imap))
         \/ IMAP!Perform("command", NoFolder, IMAP!Quota(imap))
         \/ IMAP!Perform("command", NoFolder, IMAP!StoredOrAskedCapability(imap))
         \/ IMAP!Perform("command", NoFolder, IMAP!Identity(imap))
         \/ IMAP!Perform("command", NoFolder, IMAP!FetchNamespace(imap, IMAP!Login))
         \/ IMAP!Perform("command", NoFolder, IMAP!CustomCommand(imap))
    BY <1>6 DEF IMAP!Account
  <2>11. CASE IMAP!Perform("command", NoFolder, IMAP!ConnectIfNeeded(imap))
    BY <1>4, <2>1, <2>11
  <2>12. CASE IMAP!Perform("command", NoFolder, IMAP!LogIn(imap))
    BY <1>4, <2>2, <2>12
  <2>13. CASE IMAP!Perform("command", NoFolder, {IMAP!Out(IMAP!Unsetup(imap), "None")})
    BY <1>4, <2>3, <2>13
  <2>14. CASE IMAP!Perform("command", NoFolder, IMAP!Quota(imap))
    BY <1>4, <2>5, <2>14
  <2>15. CASE IMAP!Perform("command", NoFolder, IMAP!CustomCommand(imap))
    BY <1>4, <2>5, <2>15
  <2>16. CASE IMAP!Perform("command", NoFolder, IMAP!StoredOrAskedCapability(imap))
    BY <1>4, <2>6, <2>16
  <2>17. CASE IMAP!Perform("command", NoFolder, IMAP!Identity(imap))
    BY <1>4, <2>7, <2>17
  <2>18. CASE IMAP!Perform("command", NoFolder, IMAP!FetchNamespace(imap, IMAP!Login))
    BY <1>4, <2>8, <2>18
  <2> QED BY <2>9, <2>10, <2>11, <2>12, <2>13, <2>14, <2>15, <2>16, <2>17, <2>18
<1>7. CASE IMAP!Management
  <2>1. IMAP!FolderStatus(imap) \subseteq Ends(F, c, LoggedIn(F, c))
    BY <1>2, QuotaEnds
  <2>2. IMAP!FetchSubscribedFolders(imap) \subseteq Results(F, c, NoFolder)
    BY <1>2, SubscribedFoldersEnds
  <2>3. IMAP!FetchAllFolders(imap) \subseteq Ends(F, c, LoggedIn(F, c))
    BY <1>2, AllFoldersEnds
  <2>4. IMAP!FromInbox(imap) \subseteq Ends(F, c, Within(F, c, INBOX)) /\ INBOX \in Folders
    BY <1>2, FromInboxEnds, FoldersAssumption
  <2>5. IMAP!CreateFolder(imap) \subseteq Ends(F, c, Within(F, c, INBOX))
    BY <1>2, CreateFolderEnds
  <2>6. \/ IMAP!Perform("command", NoFolder, IMAP!FolderStatus(imap))
        \/ IMAP!Perform("command", NoFolder, IMAP!FetchSubscribedFolders(imap))
        \/ IMAP!Perform("command", NoFolder, IMAP!FetchAllFolders(imap))
        \/ IMAP!Perform("command", INBOX, IMAP!FromInbox(imap))
        \/ IMAP!Perform("command", INBOX, IMAP!CreateFolder(imap))
    BY <1>7 DEF IMAP!Management, IMAP!RenameFolder, IMAP!DeleteFolder, IMAP!SubscribeFolder,
                IMAP!UnsubscribeFolder
  <2>7. CASE IMAP!Perform("command", NoFolder, IMAP!FetchSubscribedFolders(imap))
    BY <1>2, <2>2, <2>7, PerformKeeps
  <2>8. CASE IMAP!Perform("command", NoFolder, IMAP!FolderStatus(imap))
    BY <1>4, <2>1, <2>8
  <2>9. CASE IMAP!Perform("command", NoFolder, IMAP!FetchAllFolders(imap))
    BY <1>4, <2>3, <2>9
  <2>10. CASE IMAP!Perform("command", INBOX, IMAP!FromInbox(imap))
    BY <1>5, <2>4, <2>10
  <2>11. CASE IMAP!Perform("command", INBOX, IMAP!CreateFolder(imap))
    BY <1>5, <2>4, <2>5, <2>11
  <2> QED BY <2>6, <2>7, <2>8, <2>9, <2>10, <2>11
<1>8. ASSUME NEW f \in Folders, IMAP!Messages(f) PROVE Well' /\ Left(c)
  <2>1. IMAP!FolderInfo(imap, f) \subseteq Ends(F, c, Within(F, c, f))
    BY <1>2, FolderInfoEnds
  <2>2. IMAP!AppendMessage(imap, f) \subseteq Ends(F, c, Within(F, c, f))
    BY <1>2, AppendEnds
  <2>3. IMAP!InBatches(imap, f) \subseteq Ends(F, c, Within(F, c, f))
    BY <1>2, InBatchesEnds
  <2>4. IMAP!InFolder(imap, f) \subseteq Ends(F, c, Within(F, c, f))
    BY <1>2, InFolderEnds
  <2>5. IMAP!FetchMessages(imap, f) \subseteq Results(F, c, f)
    BY <1>2, FetchMessagesEnds
  <2>6. IMAP!FetchAttachmentToFile(imap, f) \subseteq Ends(F, c, Within(F, c, f))
    BY <1>2, ToFileEnds
  <2>7. IMAP!Idle(imap, f) \subseteq Ends(F, c, Within(F, c, f))
    BY <1>2, IdleEnds
  <2>8. \/ IMAP!Perform("command", f, IMAP!FolderInfo(imap, f))
        \/ IMAP!Perform("command", f, IMAP!AppendMessage(imap, f))
        \/ IMAP!Perform("command", f, IMAP!InBatches(imap, f))
        \/ IMAP!Perform("command", f, IMAP!InFolder(imap, f))
        \/ IMAP!Perform("command", f, IMAP!FetchMessages(imap, f))
        \/ IMAP!Perform("command", f, IMAP!FetchAttachmentToFile(imap, f))
        \/ IMAP!Perform("command", f, IMAP!Idle(imap, f))
    BY <1>8 DEF IMAP!Messages, IMAP!CopyMessages, IMAP!MoveMessages, IMAP!StoreFlags, IMAP!StoreLabels,
                IMAP!Expunge, IMAP!Search, IMAP!FetchMessageNumberUIDMapping, IMAP!FetchMessage,
                IMAP!FetchAttachment
  <2>9. CASE IMAP!Perform("command", f, IMAP!FetchMessages(imap, f))
    BY <1>3, <2>5, <2>9
  <2> QED BY <1>5, <2>1, <2>2, <2>3, <2>4, <2>6, <2>7, <2>8, <2>9
<1>9. IMAP!Account \/ IMAP!Management \/ \E f \in Folders : IMAP!Messages(f)
  BY DEF IMAP!Next
<1>10. Well' /\ Left(c)
  BY <1>6, <1>7, <1>8, <1>9
<1> QED BY <1>10

(* Every step keeps the invariant.                                           *)
LEMMA NextImapStep == ImapInv /\ [IMAP!Next]_(IMAP!vars) => ImapInv'
<1> SUFFICES ASSUME ImapInv, [IMAP!Next]_(IMAP!vars) PROVE ImapInv'
  OBVIOUS
<1>1. CASE IMAP!Next
  <2>1. Kept' /\ imap'.offers = imap.offers
    BY <1>1, NextKept DEF ImapInv
  <2>2. IMAP!Separate(imap.offers) => Well'
    BY <1>1, NextImap DEF ImapInv
  <2>3. IMAP!Separate(imap.offers)' <=> IMAP!Separate(imap.offers)
    BY <2>1 DEF IMAP!Separate
  <2> QED BY <2>1, <2>2, <2>3 DEF ImapInv
<1>2. CASE UNCHANGED IMAP!vars
  BY <1>2 DEF IMAP!vars, ImapInv, Kept, Well, Servers, IMAP!Separate, Fine, Within, LoggedIn, Agrees,
              IMAP!LoginAnswered, IMAP!Greeting
<1> QED BY <1>1, <1>2

(* IMAPSession: whatever fails and is done again, an operation that obtained *)
(* its result was carried out in its folder, and a session that is not to be *)
(* closed is logged in, and in a folder, exactly when the server says so.    *)
THEOREM SelectedFolder == IMAP!Spec => []SelectedFolderTrue
<1>1. ImapInv => SelectedFolderTrue
  BY ImapInvSays
<1>2. IMAP!Init => ImapInv
  BY InitImap
<1>3. ImapInv /\ [IMAP!Next]_(IMAP!vars) => ImapInv'
  BY NextImapStep
<1> QED BY <1>1, <1>2, <1>3, PTL DEF IMAP!Spec

(* IMAPSession, with any server: an assertion of connect(), login(),         *)
(* selectIfNeeded() and select() fails, or a command goes through a NULL     *)
(* mImap, only with a server that announces both COMPRESS and ID; and        *)
(* fetchSubscribedFolders() goes through a NULL defaultNamespace() only      *)
(* before a login was completed.                                             *)
THEOREM FaultsAreKnown == IMAP!Spec => []OnlyKnownFaults
<1>1. ImapInv => OnlyKnownFaults
  BY ImapInvSays
<1>2. IMAP!Init => ImapInv
  BY InitImap
<1>3. ImapInv /\ [IMAP!Next]_(IMAP!vars) => ImapInv'
  BY NextImapStep
<1> QED BY <1>1, <1>2, <1>3, PTL DEF IMAP!Spec

(* IMAPSession: an operation on a session that was logged in, and that       *)
(* reports a broken stream, has the stream closed before the next command;   *)
(* only noop does not.                                                       *)
THEOREM StreamIsLeft == IMAP!Spec => BrokenStreamIsLeft
<1> DEFINE Leaves == ( /\ last'.err \in {"Connection", "Parse"}
                       /\ last'.op # "noop"
                       /\ imap.state \in {"LOGGEDIN", "SELECTED"}
                       /\ ~ imap.closing
                       /\ IMAP!Separate(imap.offers) )
                     => imap'.closing
<1>1. IMAP!Init => ImapInv
  BY InitImap
<1>2. ImapInv /\ [IMAP!Next]_(IMAP!vars) => ImapInv'
  BY NextImapStep
<1>3. ImapInv /\ [IMAP!Next]_(IMAP!vars) => [Leaves]_(IMAP!vars)
  BY NextImap DEF Left, ImapInv
<1>4. IMAP!Spec => [][Leaves]_(IMAP!vars)
  BY <1>1, <1>2, <1>3, PTL DEF IMAP!Spec
<1> QED BY <1>4 DEF BrokenStreamIsLeft, IMAP!BrokenStreamIsLeft

(* A second attempt: the sessions that are logged in over a stream that is   *)
(* up, and those that reach a server before they go on.                      *)
Alive(F) == {s \in LoggedIn(F, TRUE) : s.stream = "up"}
Reaching(F) == {s \in Fine(F) : s.closing \/ s.state = "DISCONNECTED" \/ s.stream = "up"}

(* Over a stream that is up, what the server is ready for can succeed.       *)
LEMMA CommandSucceeds ==
    ASSUME NEW s, s.stream = "up"
    PROVE  /\ IMAP!Out(s, "None") \in IMAP!Answer(s, TRUE)
           /\ IMAP!Out(s, "None") \in IMAP!Command(s, TRUE)
           /\ IMAP!Authenticated(s) =>
                 /\ IMAP!Out(s, "None") \in IMAP!Answer(s, IMAP!Authenticated(s))
                 /\ IMAP!Out(s, "None") \in IMAP!Command(s, IMAP!Authenticated(s))
           /\ IMAP!Selected(s) => IMAP!Out(s, "None") \in IMAP!Command(s, IMAP!Selected(s))
           /\ s.peer = "greeted" => IMAP!Out(s, "None") \in IMAP!Command(s, s.peer = "greeted")
<1>1. ASSUME NEW r \in BOOLEAN, r
      PROVE  /\ IMAP!Out(s, "None") \in IMAP!Answer(s, r)
             /\ IMAP!Out(s, "None") \in IMAP!Command(s, r)
  <2>1. IMAP!Out(s, "None") \in IMAP!Answer(s, r)
    BY <1>1 DEF IMAP!Answer
  <2>2. IMAP!Out(s, "None").err = "None"
    BY DEF IMAP!Out
  <2>3. IMAP!Out(s, "None") \in IMAP!Reported(IMAP!Answer(s, r))
    BY <2>1, <2>2 DEF IMAP!Reported
  <2> QED BY <2>1, <2>3 DEF IMAP!Command
<1> QED BY <1>1, ReadyOrNot

(* An error that is ignored does not hide a success.                         *)
LEMMA IgnoredSuccess ==
    ASSUME NEW outs, NEW s, IMAP!Out(s, "None") \in outs
    PROVE  IMAP!Out(s, "None") \in IMAP!Ignored(outs)
<1>1. /\ IMAP!Out(s, "None").err = "None" /\ IMAP!Out(s, "None").s = s
      /\ "None" \notin IMAP!Faults
  BY DEF IMAP!Out, IMAP!Faults
<1> QED BY <1>1 DEF IMAP!Ignored

(* The parts of an outcome, cited by name.                                   *)
LEMMA OutParts == \A s : IMAP!Out(s, "None").s = s /\ IMAP!Out(s, "None").err = "None"
BY DEF IMAP!Out

(* A success of which the session is replaced is a success.                  *)
LEMMA OutReplaced ==
    ASSUME NEW s \in IMAP!Session
    PROVE  /\ [IMAP!Out(s, "None") EXCEPT !.s.state = "LOGGEDIN", !.s.peer = "authenticated"]
                = IMAP!Out(Admitted(s), "None")
           /\ \A f : [IMAP!Out(s, "None") EXCEPT !.s.state = "SELECTED", !.s.folder = f, !.s.peer = f]
                = IMAP!Out(Entered(s, f), "None")
<1> DEFINE q == IMAP!Out(s, "None")
<1>1. q \in Typed /\ q.s = s
  BY OutTyped, OutParts DEF IMAP!Errors
<1>2. \A t : [q EXCEPT !.s = t] = IMAP!Out(t, "None")
  BY DEF IMAP!Out
<1> HIDE DEF q
<1>3. [q EXCEPT !.s.state = "LOGGEDIN", !.s.peer = "authenticated"] = [q EXCEPT !.s = Admitted(s)]
  BY <1>1 DEF Admitted, Typed
<1>4. \A f : [q EXCEPT !.s.state = "SELECTED", !.s.folder = f, !.s.peer = f]
               = [q EXCEPT !.s = Entered(s, f)]
  BY <1>1 DEF Entered, Typed
<1> QED BY <1>2, <1>3, <1>4 DEF q

(* A session that is logged in goes on without connecting or logging in.     *)
LEMMA AliveGoesOn ==
    ASSUME NEW F, NEW s \in Fine(F), ~ s.closing, s.state \in {"LOGGEDIN", "SELECTED"}, NEW login
    PROVE  /\ IMAP!Out(s, "None") \in IMAP!ConnectIfNeeded(s)
           /\ IMAP!Out(s, "None") \in IMAP!LoginIfNeeded(s, login)
<1>1. IMAP!Out(s, "None") \in IMAP!ConnectIfNeeded(s)
  BY DEF IMAP!ConnectIfNeeded
<1>2. s.state # "CONNECTED"
  OBVIOUS
<1>3. IMAP!Out(s, "None") \in IMAP!LoginIfNeeded(s, login)
  BY <1>1, <1>2, OutParts DEF IMAP!LoginIfNeeded, IMAP!Then
<1> QED BY <1>1, <1>3

(* Each step of login() after the authentication can succeed.                *)
LEMMA StepsSucceed ==
    ASSUME NEW F, NEW s \in Alive(F), NEW login
    PROVE  /\ IMAP!Out(s, "None") \in IMAP!EnableFeatures(s)
           /\ IMAP!Out(IMAP!Configured(s), "None") \in IMAP!DefaultNamespace(s, login)
           /\ IMAP!Out(s, "None") \in IMAP!ServerIdentity(s)
<1>1. /\ s \in Fine(F) /\ ~ s.closing /\ s.state \in {"LOGGEDIN", "SELECTED"} /\ s.stream = "up"
      /\ IMAP!Authenticated(s)
  BY DEF Alive, LoggedIn, Agrees, IMAP!Authenticated
<1> DEFINE good == IMAP!Out(s, "None")
<1>2. /\ good \in IMAP!Answer(s, TRUE) /\ good \in IMAP!Command(s, TRUE)
      /\ good \in IMAP!Answer(s, IMAP!Authenticated(s))
      /\ good \in IMAP!Command(s, IMAP!Authenticated(s))
  BY <1>1, CommandSucceeds
<1>3. good.s = s /\ good.err = "None"
  BY OutParts
<1>4. good \in IMAP!Ignored(IMAP!Answer(s, TRUE)) /\ good \in IMAP!Ignored(IMAP!Command(s, TRUE))
  BY <1>2, IgnoredSuccess
<1>5. good \in IMAP!ConnectIfNeeded(s) /\ good \in IMAP!LoginIfNeeded(s, login)
  BY <1>1, AliveGoesOn
<1>6. good \in IMAP!EnableFeatures(s)
  <2> DEFINE compressed == IF "COMPRESS" \in s.caps THEN IMAP!Ignored(IMAP!Command(s, TRUE)) ELSE {good}
             enable(t) == IF "CONDSTORE" \in t.caps THEN IMAP!Ignored(IMAP!Answer(t, TRUE))
                                                    ELSE {IMAP!Out(t, "None")}
  <2>1. good \in compressed /\ good \in enable(s)
    BY <1>4
  <2>2. good \in UNION {IF o.err = "None" THEN enable(o.s) ELSE {o} : o \in compressed}
    <3> HIDE DEF compressed, good, enable
    <3> QED BY <1>3, <2>1
  <2> QED BY <2>2 DEF IMAP!EnableFeatures, IMAP!Then
<1>7. IMAP!Out(IMAP!Configured(s), "None") \in IMAP!ListForDelimiter(s)
  <2> HIDE DEF good
  <2> QED BY <1>2, <1>3 DEF IMAP!ListForDelimiter, IMAP!Then
<1>8. good \in IMAP!FetchNamespace(s, login)
  <2> HIDE DEF good
  <2> QED BY <1>2, <1>3, <1>5 DEF IMAP!FetchNamespace, IMAP!Then
<1>9. IMAP!Out(IMAP!Configured(s), "None") \in IMAP!DefaultNamespace(s, login)
  <2> HIDE DEF good
  <2> QED BY <1>3, <1>7, <1>8 DEF IMAP!DefaultNamespace, IMAP!Then
<1>10. good \in IMAP!Identity(s)
  <2> HIDE DEF good
  <2> QED BY <1>2, <1>3, <1>5 DEF IMAP!Identity, IMAP!Then
<1>11. good \in IMAP!ServerIdentity(s)
  BY <1>10, IgnoredSuccess DEF IMAP!ServerIdentity
<1> QED BY <1>6, <1>9, <1>11

(* login() can succeed, without another login in it.                         *)
LEMMA LoginSucceeds ==
    ASSUME NEW F, "PREAUTH" \notin F, NEW s \in Ready(F), s.state = "CONNECTED", s.stream = "up",
           NEW login
    PROVE  \E t \in Alive(F) : IMAP!Out(t, "None") \in IMAP!LoginOnce(s, login)
<1> DEFINE a == Admitted(s)
           b == IMAP!ApplyCapabilities(a)
           n == IMAP!Configured(b)
           d == Done(n)
<1>1. s \in Fine(F) /\ s \in IMAP!Session
  BY DEF Ready, Fine
<1>2. a \in Alive(F)
  <2>1. a.stream = "up"
    BY <1>1 DEF Admitted, IMAP!Session
  <2> QED BY <2>1, AdmittedLoggedIn DEF Alive
<1>3. b \in Alive(F)
  <2>1. a \in Fine(F) /\ a \in LoggedIn(F, TRUE) /\ a \in IMAP!Session /\ a.stream = "up"
    BY <1>2, Stays DEF Alive
  <2>2. b.stream = "up"
    <3> HIDE DEF a
    <3> QED BY <2>1 DEF IMAP!ApplyCapabilities, IMAP!Session
  <2> QED BY <2>1, <2>2, ApplyFine DEF Alive
<1>4. n \in Alive(F) /\ d \in Alive(F)
  <2> HIDE DEF b
  <2>1. \A t \in Alive(F) :
            /\ IMAP!Configured(t) \in LoggedIn(F, TRUE) /\ Done(t) \in LoggedIn(F, TRUE)
            /\ IMAP!Configured(t).stream = "up" /\ Done(t).stream = "up"
    <3> SUFFICES ASSUME NEW t \in Alive(F)
                 PROVE  /\ IMAP!Configured(t) \in LoggedIn(F, TRUE) /\ Done(t) \in LoggedIn(F, TRUE)
                        /\ IMAP!Configured(t).stream = "up" /\ Done(t).stream = "up"
      OBVIOUS
    <3>1. t \in LoggedIn(F, TRUE) /\ t \in IMAP!Session /\ t.stream = "up"
      BY Stays DEF Alive
    <3>2. IMAP!Configured(t).stream = "up" /\ Done(t).stream = "up"
      BY <3>1 DEF IMAP!Configured, Done, IMAP!Session
    <3> QED BY <3>1, <3>2, ConfiguredKept
  <2> QED BY <1>3, <2>1 DEF Alive
<1> DEFINE asked == IMAP!Then(IMAP!Authenticate(s), IMAP!Capabilities)
           features == IMAP!Then(asked, IMAP!EnableFeatures)
           named == IMAP!Then(features, LAMBDA t : IMAP!DefaultNamespace(t, login))
           known1 == IMAP!Then(named, IMAP!ServerIdentity)
<1>5. IMAP!Out(a, "None") \in IMAP!Authenticate(s)
  <2> DEFINE q == IMAP!Out(s, "None")
             admitted(o) == IF o.err = "None"
                            THEN [o EXCEPT !.s.state = "LOGGEDIN", !.s.peer = "authenticated"] ELSE o
  <2>1. s.peer = "greeted"
    BY DEF Ready, Fine, Agrees, IMAP!Greeting
  <2>2. q \in IMAP!Command(s, s.peer = "greeted") /\ q.err = "None"
    BY <2>1, CommandSucceeds, OutParts
  <2>3. admitted(q) = IMAP!Out(a, "None")
    BY <1>1, <2>2, OutReplaced
  <2>4. {admitted(o) : o \in IMAP!Command(s, s.peer = "greeted")} \subseteq IMAP!Authenticate(s)
    BY DEF IMAP!Authenticate
  <2> HIDE DEF q, admitted
  <2>5. admitted(q) \in IMAP!Authenticate(s)
    BY <2>2, <2>4
  <2> QED BY <2>3, <2>5
<1>6. IMAP!Out(b, "None") \in IMAP!Capabilities(a)
  BY DEF IMAP!Capabilities
<1> HIDE DEF a, b, n, d
<1>7. IMAP!Out(b, "None") \in asked
  BY <1>5, <1>6, OutParts DEF IMAP!Then
<1>8. IMAP!Out(b, "None") \in features
  <2>1. IMAP!Out(b, "None") \in IMAP!EnableFeatures(b)
    BY <1>3, StepsSucceed
  <2> HIDE DEF asked
  <2> QED BY <1>7, <2>1, OutParts DEF IMAP!Then
<1>9. IMAP!Out(n, "None") \in named
  <2>1. IMAP!Out(n, "None") \in IMAP!DefaultNamespace(b, login)
    BY <1>3, StepsSucceed DEF n
  <2> HIDE DEF features
  <2> QED BY <1>8, <2>1, OutParts DEF IMAP!Then
<1>10. IMAP!Out(n, "None") \in known1
  <2>1. IMAP!Out(n, "None") \in IMAP!ServerIdentity(n)
    BY <1>4, StepsSucceed
  <2> HIDE DEF named
  <2> QED BY <1>9, <2>1, OutParts DEF IMAP!Then
<1>11. IMAP!Out(d, "None") \in IMAP!Then(known1, LAMBDA t : {IMAP!Out(Done(t), "None")})
  <2> HIDE DEF known1
  <2> QED BY <1>10, OutParts DEF IMAP!Then, d
<1>12. IMAP!Out(d, "None") \in IMAP!LoginOnce(s, login)
  BY <1>11 DEF IMAP!LoginOnce, IMAP!Then, Done
<1> QED BY <1>4, <1>12

(* A session that reaches a server can be logged in.                         *)
LEMMA LogInSucceeds ==
    ASSUME NEW F \in Servers, "PREAUTH" \notin F, NEW s \in Reaching(F)
    PROVE  \E t \in Alive(F) : IMAP!Out(t, "None") \in IMAP!LogIn(s)
<1>1. s \in Fine(F) /\ s \in IMAP!Session
  BY DEF Reaching, Fine
<1> DEFINE t == IF s.closing THEN Open(s) ELSE s
<1>2. t \in Fine(F) /\ ~ t.closing /\ (t.state = "DISCONNECTED" \/ t.stream = "up")
  BY <1>1, UnsetupFine DEF Reaching
<1>3. IMAP!ConnectIfNeeded(s)
        = IF t.state = "DISCONNECTED" THEN IMAP!Connect(t) ELSE {IMAP!Out(t, "None")}
  BY DEF IMAP!ConnectIfNeeded, Open
<1> HIDE DEF t
<1>4. \E u \in Ready(F) : u.stream = "up" /\ IMAP!Out(u, "None") \in IMAP!ConnectIfNeeded(s)
  <2>1. CASE t.state = "DISCONNECTED"
    <3> DEFINE u == IMAP!ApplyCapabilities(IMAP!Greeted(t))
    <3>1. IMAP!Greeted(t) \in Ready(F) /\ t \in IMAP!Session /\ t.stream = "none"
      BY <1>2, <2>1, Extended, UpReady DEF Fine
    <3>2. IMAP!Greeted(t).stream = "up" /\ IMAP!Greeted(t) \in Fine(F) /\ IMAP!Greeted(t) \in IMAP!Session /\ ~ IMAP!Greeted(t).closing
          /\ IMAP!Greeted(t).state # "DISCONNECTED"
      BY <3>1 DEF IMAP!Greeted, Ready, Fine, IMAP!Session
    <3>3. u.stream = "up"
      <4> DEFINE up == IMAP!Greeted(t)
      <4> HIDE DEF up
      <4>1. up.stream = "up" /\ up \in IMAP!Session
        BY <3>2 DEF up
      <4>2. IMAP!ApplyCapabilities(up).stream = "up"
        BY <4>1 DEF IMAP!ApplyCapabilities, IMAP!Session
      <4> QED BY <4>2 DEF up
    <3>4. u \in Ready(F)
      BY <3>2, ApplyFine DEF Ready
    <3>5. IMAP!Out(u, "None") \in IMAP!Connect(t)
      BY <2>1, <3>1 DEF IMAP!Connect
    <3> QED BY <1>3, <2>1, <3>3, <3>4, <3>5
  <2>2. CASE t.state # "DISCONNECTED"
    BY <1>2, <1>3, <2>2 DEF Ready
  <2> QED BY <2>1, <2>2
<1>5. PICK u \in Ready(F) : u.stream = "up" /\ IMAP!Out(u, "None") \in IMAP!ConnectIfNeeded(s)
  BY <1>4
<1>6. u \in Fine(F) /\ ~ u.closing /\ u.state # "DISCONNECTED" /\ u \in IMAP!Session
  BY DEF Ready, Fine
<1>7. CASE u.state = "CONNECTED"
  <2>1. MaxRelogins + 1 \in 1 .. (MaxRelogins + 1) /\ (MaxRelogins + 1) - 1 = MaxRelogins
    BY OffersAssumption
  <2>2. IMAP!Login[u] = IMAP!LoginOnce(u, IMAP!Logins[MaxRelogins])
    BY <1>6, <2>1, LoginsRun DEF IMAP!Login
  <2>3. PICK v \in Alive(F) : IMAP!Out(v, "None") \in IMAP!Login[u]
    BY <1>5, <1>7, <2>2, LoginSucceeds
  <2>4. IMAP!Out(v, "None") \in IMAP!LogIn(s)
    BY <1>5, <1>7, <2>3, OutParts DEF IMAP!LogIn, IMAP!LoginIfNeeded, IMAP!Then
  <2> QED BY <2>4
<1>8. CASE u.state # "CONNECTED"
  <2>1. u.state \in {"LOGGEDIN", "SELECTED"}
    BY <1>6, <1>8 DEF IMAP!Session, IMAP!States
  <2>2. u \in Alive(F)
    BY <1>5, <1>6, <2>1 DEF Alive, LoggedIn, Fine
  <2>3. IMAP!Out(u, "None") \in IMAP!LogIn(s)
    BY <1>5, <1>8, OutParts DEF IMAP!LogIn, IMAP!LoginIfNeeded, IMAP!Then
  <2> QED BY <2>2, <2>3
<1> QED BY <1>7, <1>8

(* What selectIfNeeded() does once the session is logged in.                 *)
SelectFrom(t, f) ==
    CASE t.state = "SELECTED" ->
             IF t.folder = NoFolder THEN IMAP!Stop(t, "AssertFailed")
             ELSE IF Fold[t.folder] = Fold[f] THEN {IMAP!Out(t, "None")}
             ELSE IMAP!Select(t, f)
      [] t.state = "LOGGEDIN" -> IMAP!Select(t, f)
      [] OTHER -> {IMAP!Out(t, "None")}

(* selectIfNeeded() comes to what it comes to after loginIfNeeded().         *)
LEMMA SelectsFrom ==
    ASSUME NEW s, NEW f, NEW t, IMAP!Out(t, "None") \in IMAP!LogIn(s), NEW o \in SelectFrom(t, f)
    PROVE  o \in IMAP!SelectIfNeeded(s, f)
<1>1. IMAP!SelectIfNeeded(s, f)
        = UNION {IF p.err = "None" THEN SelectFrom(p.s, f) ELSE {p} : p \in IMAP!LogIn(s)}
  BY DEF IMAP!SelectIfNeeded, IMAP!Then, SelectFrom
<1> QED BY <1>1, OutParts

(* An operation on a folder can succeed once the session reaches a server.   *)
LEMMA InFolderSucceeds ==
    ASSUME NEW F \in Servers, "PREAUTH" \notin F, NEW s \in Reaching(F), NEW f \in Folders
    PROVE  \E o \in IMAP!InFolder(s, f) : o.err = "None"
<1>1. PICK t \in Alive(F) : IMAP!Out(t, "None") \in IMAP!LogIn(s)
  BY LogInSucceeds
<1>2. /\ t \in Fine(F) /\ t \in IMAP!Session /\ t.state \in {"LOGGEDIN", "SELECTED"} /\ t.stream = "up"
      /\ IMAP!Authenticated(t)
      /\ t.state = "SELECTED" => t.folder # NoFolder /\ IMAP!Selected(t)
  BY DEF Alive, LoggedIn, Fine, Agrees, IMAP!Selected, IMAP!Authenticated
<1>3. \E u : u.stream = "up" /\ IMAP!Selected(u) /\ IMAP!Out(u, "None") \in SelectFrom(t, f)
  <2>1. CASE t.state = "SELECTED" /\ Fold[t.folder] = Fold[f]
    BY <1>2, <2>1 DEF SelectFrom
  <2>2. CASE ~ (t.state = "SELECTED" /\ Fold[t.folder] = Fold[f])
    <3>1. SelectFrom(t, f) = IMAP!Select(t, f)
      BY <1>2, <2>2 DEF SelectFrom
    <3>2. Entered(t, f).stream = "up" /\ IMAP!Selected(Entered(t, f))
      BY <1>2 DEF Entered, IMAP!Selected, IMAP!Session
    <3>3. IMAP!Out(t, "None") \in IMAP!Command(t, IMAP!Authenticated(t))
      BY <1>2, CommandSucceeds
    <3>4. [IMAP!Out(t, "None") EXCEPT !.s.state = "SELECTED", !.s.folder = f, !.s.peer = f]
            = IMAP!Out(Entered(t, f), "None")
      BY <1>2, OutReplaced
    <3>5. IMAP!Out(Entered(t, f), "None") \in IMAP!Select(t, f)
      <4> DEFINE q == IMAP!Out(t, "None")
                 r == IMAP!Out(Entered(t, f), "None")
                 A(o) == CASE o.err = "None" ->
                                  [o EXCEPT !.s.state = "SELECTED", !.s.folder = f, !.s.peer = f]
                           [] o.err = "Other" ->
                                  [o EXCEPT !.s.state = "LOGGEDIN", !.s.folder = NoFolder,
                                            !.s.peer = "authenticated"]
                           [] o.err = "Parse" -> [o EXCEPT !.s.peer = f]
                           [] OTHER -> o
      <4>1. q \in IMAP!Command(t, IMAP!Authenticated(t)) /\ q.err = "None"
        BY <3>3, OutParts
      <4>2. [q EXCEPT !.s.state = "SELECTED", !.s.folder = f, !.s.peer = f] = r
        BY <3>4
      <4>3. IMAP!Select(t, f) = {A(o) : o \in IMAP!Command(t, IMAP!Authenticated(t))}
        BY <1>2, Zenon DEF IMAP!Select
      <4> HIDE DEF q, r
      <4>4. A(q) = r
        BY <4>1, <4>2
      <4> HIDE DEF A
      <4>5. r \in IMAP!Select(t, f)
        BY <4>1, <4>3, <4>4
      <4> QED BY <4>5 DEF r
    <3> QED BY <3>1, <3>2, <3>5
  <2> QED BY <2>1, <2>2
<1>4. PICK u : u.stream = "up" /\ IMAP!Selected(u) /\ IMAP!Out(u, "None") \in SelectFrom(t, f)
  BY <1>3
<1>5. IMAP!Out(u, "None") \in IMAP!SelectIfNeeded(s, f)
  BY <1>1, <1>4, SelectsFrom
<1>6. IMAP!Out(u, "None") \in IMAP!Command(u, IMAP!Selected(u))
  BY <1>4, CommandSucceeds
<1>7. IMAP!Out(u, "None") \in IMAP!InFolder(s, f)
  BY <1>5, <1>6, OutParts DEF IMAP!InFolder, IMAP!Then
<1> QED BY <1>7, OutParts

(* The outcome of a command on a stream that broke.                          *)
Broken(s) == [IMAP!Out(s, "Connection") EXCEPT !.s.closing = TRUE]

(* A command on a stream that broke has the session closed.                  *)
LEMMA CommandBreaks ==
    ASSUME NEW s \in IMAP!Session, s.stream = "down"
    PROVE  /\ \A r : Broken(s) \in IMAP!Command(s, r)
           /\ Broken(s).s = Closing(s) /\ Broken(s).err = "Connection"
<1>1. \A r : IMAP!Answer(s, r) = {IMAP!Out(s, "Connection")}
  BY DEF IMAP!Answer
<1>2. IMAP!Out(s, "Connection").err = "Connection"
  BY DEF IMAP!Out
<1>3. \A r : Broken(s) \in IMAP!Reported(IMAP!Answer(s, r))
  BY <1>1, <1>2 DEF IMAP!Reported, Broken
<1>4. Broken(s).s = Closing(s) /\ Broken(s).err = "Connection"
  BY DEF Broken, Closing, IMAP!Out
<1> QED BY <1>3, <1>4 DEF IMAP!Command

(* On a stream that broke unnoticed, the first attempt notices.              *)
LEMMA FirstAttemptBreaks ==
    ASSUME NEW F \in Servers, NEW s \in Fine(F), ~ s.closing, s.state # "DISCONNECTED",
           s.stream = "down", NEW f \in Folders
    PROVE  \E o \in IMAP!InFolder(s, f) : o.s.closing
<1> DEFINE b == Broken(s)
<1>1. s \in IMAP!Session
  BY DEF Fine
<1>2. (\A r : b \in IMAP!Command(s, r)) /\ b.s = Closing(s) /\ b.err = "Connection"
  BY <1>1, CommandBreaks
<1>3. b.s.closing
  BY <1>1, <1>2 DEF Closing, IMAP!Session
<1> HIDE DEF b
<1>4. IMAP!Out(s, "None") \in IMAP!ConnectIfNeeded(s)
  BY DEF IMAP!ConnectIfNeeded
<1>5. CASE s.state = "CONNECTED"
  <2>1. b \in IMAP!Authenticate(s)
    BY <1>2 DEF IMAP!Authenticate
  <2>2. \A login : b \in IMAP!LoginOnce(s, login)
    <3> SUFFICES ASSUME NEW login PROVE b \in IMAP!LoginOnce(s, login)
      OBVIOUS
    <3> DEFINE asked == IMAP!Then(IMAP!Authenticate(s), IMAP!Capabilities)
               features == IMAP!Then(asked, IMAP!EnableFeatures)
               named == IMAP!Then(features, LAMBDA t : IMAP!DefaultNamespace(t, login))
               known1 == IMAP!Then(named, IMAP!ServerIdentity)
    <3>1. b \in asked
      BY <1>2, <2>1 DEF IMAP!Then
    <3>2. b \in features
      <4> HIDE DEF asked
      <4> QED BY <1>2, <3>1 DEF IMAP!Then
    <3>3. b \in named
      <4> HIDE DEF features
      <4> QED BY <1>2, <3>2 DEF IMAP!Then
    <3>4. b \in known1
      <4> HIDE DEF named
      <4> QED BY <1>2, <3>3 DEF IMAP!Then
    <3>5. b \in IMAP!Then(known1, LAMBDA t : {IMAP!Out([t EXCEPT !.configured = TRUE], "None")})
      <4> HIDE DEF known1
      <4> QED BY <1>2, <3>4 DEF IMAP!Then
    <3> QED BY <1>5, <3>5 DEF IMAP!LoginOnce, IMAP!Then
  <2>3. MaxRelogins + 1 \in 1 .. (MaxRelogins + 1)
    BY OffersAssumption
  <2>4. b \in IMAP!Login[s]
    BY <1>1, <2>2, <2>3, LoginsRun DEF IMAP!Login
  <2>5. b \in IMAP!LogIn(s)
    BY <1>4, <1>5, <2>4, OutParts DEF IMAP!LogIn, IMAP!LoginIfNeeded, IMAP!Then
  <2>6. b \in IMAP!SelectIfNeeded(s, f)
    BY <1>2, <2>5 DEF IMAP!SelectIfNeeded, IMAP!Then
  <2>7. b \in IMAP!InFolder(s, f)
    BY <1>2, <2>6 DEF IMAP!InFolder, IMAP!Then
  <2> QED BY <1>3, <2>7
<1>6. CASE s.state # "CONNECTED"
  <2>1. s.state \in {"LOGGEDIN", "SELECTED"} /\ (s.state = "SELECTED" => s.folder # NoFolder)
    BY <1>1, <1>6 DEF IMAP!Session, IMAP!States, Fine
  <2>2. IMAP!Out(s, "None") \in IMAP!LogIn(s)
    BY <2>1, AliveGoesOn DEF IMAP!LogIn
  <2>3. CASE s.state = "SELECTED" /\ Fold[s.folder] = Fold[f]
    <3>1. IMAP!Out(s, "None") \in SelectFrom(s, f)
      BY <2>1, <2>3 DEF SelectFrom
    <3>2. IMAP!Out(s, "None") \in IMAP!SelectIfNeeded(s, f)
      BY <2>2, <3>1, SelectsFrom
    <3>3. b \in IMAP!InFolder(s, f)
      BY <1>2, <3>2, OutParts DEF IMAP!InFolder, IMAP!Then
    <3> QED BY <1>3, <3>3
  <2>4. CASE ~ (s.state = "SELECTED" /\ Fold[s.folder] = Fold[f])
    <3>1. SelectFrom(s, f) = IMAP!Select(s, f)
      BY <2>1, <2>4 DEF SelectFrom
    <3>2. b \in IMAP!Select(s, f)
      <4> DEFINE A(o) == CASE o.err = "None" ->
                                  [o EXCEPT !.s.state = "SELECTED", !.s.folder = f, !.s.peer = f]
                           [] o.err = "Other" ->
                                  [o EXCEPT !.s.state = "LOGGEDIN", !.s.folder = NoFolder,
                                            !.s.peer = "authenticated"]
                           [] o.err = "Parse" -> [o EXCEPT !.s.peer = f]
                           [] OTHER -> o
      <4>1. b \in IMAP!Command(s, IMAP!Authenticated(s)) /\ A(b) = b
        BY <1>2
      <4>2. IMAP!Select(s, f) = {A(o) : o \in IMAP!Command(s, IMAP!Authenticated(s))}
        BY <2>1, Zenon DEF IMAP!Select
      <4> HIDE DEF A
      <4> QED BY <4>1, <4>2
    <3>3. b \in IMAP!SelectIfNeeded(s, f)
      BY <2>2, <3>1, <3>2, SelectsFrom
    <3>4. b \in IMAP!InFolder(s, f)
      BY <1>2, <3>3 DEF IMAP!InFolder, IMAP!Then
    <3> QED BY <1>3, <3>4
  <2> QED BY <2>3, <2>4
<1> QED BY <1>5, <1>6

(* What the invariant says of a second attempt.                              *)
LEMMA SecondAttemptSucceeds == ImapInv => SecondAttemptCanSucceed
<1> SUFFICES ASSUME NEW F \in Servers, "PREAUTH" \notin F, imap \in Fine(F), NEW f \in Folders
             PROVE  \E o \in IMAP!InFolder(imap, f) :
                        \/ o.err = "None"
                        \/ \E p \in IMAP!InFolder(o.s, f) : p.err = "None"
  BY DEF ImapInv, Well, Fine, SecondAttemptCanSucceed, IMAP!SecondAttemptCanSucceed
<1>1. CASE imap \in Reaching(F)
  BY <1>1, InFolderSucceeds
<1>2. CASE imap \notin Reaching(F)
  <2>1. ~ imap.closing /\ imap.state # "DISCONNECTED" /\ imap.stream # "up" /\ imap.stream # "none"
    BY <1>2 DEF Reaching, Fine
  <2>2. imap.stream = "down"
    BY <2>1 DEF Fine, IMAP!Session
  <2>3. PICK o \in IMAP!InFolder(imap, f) : o.s.closing
    BY <2>1, <2>2, FirstAttemptBreaks
  <2>4. o \in Ends(F, FALSE, Within(F, FALSE, f))
    <3>1. imap \in Start(F, FALSE)
      BY DEF Start
    <3> QED BY <3>1, InFolderEnds
  <2>5. o.s \in Reaching(F)
    BY <2>3, <2>4, EndsOf DEF Reaching
  <2> QED BY <2>5, InFolderSucceeds
<1> QED BY <1>1, <1>2

(* IMAPSession: whatever was done and failed before, the second attempt at   *)
(* an operation on a folder can succeed, for any folders and any server that *)
(* does not announce both COMPRESS and ID and does not greet with PREAUTH:   *)
(* no failure leaves the session in a state that it does not leave by        *)
(* connecting and logging in again.                                          *)
THEOREM SecondAttempt == IMAP!Spec => []SecondAttemptCanSucceed
<1>1. ImapInv => SecondAttemptCanSucceed
  BY SecondAttemptSucceeds
<1>2. IMAP!Init => ImapInv
  BY InitImap
<1>3. ImapInv /\ [IMAP!Next]_(IMAP!vars) => ImapInv'
  BY NextImapStep
<1> QED BY <1>1, <1>2, <1>3, PTL DEF IMAP!Spec

-----------------------------------------------------------------------------
(* IMAPIdle: the operations of the connection and the interruption of IDLE. *)

(* Where an operation is while it has the connection for itself, and where  *)
(* it is at all.                                                            *)
Active == {"select", "prepare"} \cup Idle!Idling
Places == {"new", "main", "finished"} \cup Active

(* The type of what the proof is about.                                     *)
IdleTypeOK ==
    /\ queue \in Seq(Ops)
    /\ stage \in [Ops -> Places]
    /\ mSetupSuccess \in [Ops -> BOOLEAN] /\ replaced \in [Ops -> BOOLEAN]
    /\ mIdleEnabled \in BOOLEAN
    /\ mIdle \in {"absent", "ready", "notified"}

(* The operation that is under way is the first of the queue. *)
OneIdles == \A op \in Ops : stage[op] \in Active => queue # <<>> /\ op = Head(queue)

(* The streams are made one after the other, and one is freed before the    *)
(* next is made. *)
Freed(n) ==
    /\ freed = 1 .. n
    /\ mImap \in {Idle!None, n + 1} /\ closing \in {Idle!None, n + 1}
    /\ mImap # Idle!None => closing = Idle!None

(* What the session says of its stream, and where selectIfNeeded() is then: *)
(* a stream that is to be freed is let go of, and another is made after it. *)
StreamsInTurn ==
    /\ \E n \in Nat : Freed(n)
    /\ mIdleEnabled => mImap # Idle!None
    /\ mIdle # "absent" => mIdleEnabled
    /\ selecting # "start" => \E op \in Ops : stage[op] \in Idle!Selects
    /\ closing # Idle!None => selecting \in {"close", "failed"}
    /\ selecting \in {"close", "connect", "failed"} => mImap = Idle!None
    /\ mState = "DISCONNECTED" => mImap = Idle!None \/ selecting = "refused"
    /\ mImap = Idle!None => mState = "DISCONNECTED" \/ selecting = "close"
    /\ selecting \in {"connect", "refused", "failed"} => mState = "DISCONNECTED"
    /\ selecting \in {"login", "select"} => mState # "DISCONNECTED"

(* An operation that idles has set up the stream, which is set up until it  *)
(* is let go of; no other operation has.                                    *)
SetUp ==
    /\ \A op \in Ops :
          /\ stage[op] \in Idle!Idling => mSetupSuccess[op] /\ (~ replaced[op] => mIdle # "absent")
          /\ stage[op] \in {"new", "main", "select", "prepare"} => ~ replaced[op]
    /\ mIdle # "absent" => \E op \in Ops : stage[op] \in Idle!Idling /\ ~ replaced[op]

(* The inductive invariant.                                                 *)
IdleInv == IdleTypeOK /\ OneIdles /\ StreamsInTurn /\ SetUp

(* It says what the property says.                                          *)
LEMMA IdleInvSafe == IdleInv => InterruptionSafe
<1> SUFFICES ASSUME IdleInv PROVE InterruptionSafe
  OBVIOUS
<1>1. Idle!InterruptedStreamAlive
  BY DEF IdleInv, StreamsInTurn, Freed, Idle!InterruptedStreamAlive, Idle!None
<1>2. Idle!SetUpExactlyWhileIdling
  BY DEF IdleInv, SetUp, Idle!SetUpExactlyWhileIdling
<1> QED BY <1>1, <1>2 DEF InterruptionSafe, Idle!InterruptionSafe

(* It holds when there is no connection.                                    *)
LEMMA InitIdle == Idle!Init => IdleInv
<1> SUFFICES ASSUME Idle!Init PROVE IdleInv
  OBVIOUS
<1>1. IdleTypeOK /\ OneIdles /\ SetUp
  BY EmptySeq DEF Idle!Init, IdleTypeOK, OneIdles, SetUp, Active, Places, Idle!Idling
<1>2. Freed(0)
  BY DEF Idle!Init, Freed, Idle!None
<1>3. StreamsInTurn
  BY <1>2 DEF Idle!Init, StreamsInTurn
<1> QED BY <1>1, <1>3 DEF IdleInv

(* What IMAPIdle counts is counted as in the library.                       *)
LEMMA SameCount == \A S : Idle!Cardinality(S) = Cardinality(S)
BY DEF Cardinality, Idle!Cardinality

(* The next stream has the number after that of the freed ones.             *)
LEMMA FreedAreCounted == \A n \in Nat : Cardinality(1 .. n) = n
BY FS_Interval

(* What a step of the operation under way does to the operations: it goes   *)
(* to another place, or is finished.                                        *)
Goes(op, s) ==
    /\ stage' = [stage EXCEPT ![op] = s]
    /\ queue' = queue \/ (queue' = Tail(queue) /\ s = "finished")

(* It neither begins nor ends to idle.                                      *)
Before == {"main", "select", "prepare"}
Remains(op, s) ==
    /\ s \in Places \ {"new"}
    /\ s \in Idle!Idling <=> stage[op] \in Idle!Idling
    /\ s \in Before => stage[op] \in Before

(* Every step of the two threads keeps it.                                  *)
LEMMA NextIdle == IdleInv /\ [Idle!Next]_(Idle!vars) => IdleInv'
<1> SUFFICES ASSUME IdleInv, [Idle!Next]_(Idle!vars) PROVE IdleInv'
  OBVIOUS
<1>typ. IdleTypeOK /\ OneIdles /\ StreamsInTurn /\ SetUp
  BY DEF IdleInv
<1>que. QueueFacts(Ops, queue)
  BY <1>typ, QueueLemma DEF IdleTypeOK
<1>sta. /\ stage \in [Ops -> Places]
        /\ mSetupSuccess \in [Ops -> BOOLEAN] /\ replaced \in [Ops -> BOOLEAN]
        /\ mIdle \in {"absent", "ready", "notified"} /\ mIdleEnabled \in BOOLEAN
  BY <1>typ DEF IdleTypeOK
<1>0. PICK n \in Nat : Freed(n)
  BY <1>typ DEF StreamsInTurn
<1>sel. Idle!Selects \subseteq Active /\ Idle!Idling \subseteq Active /\ Active \subseteq Places
  BY DEF Active, Places, Idle!Selects, Idle!Idling
<1>first. ASSUME NEW op \in Ops, Idle!Running(op), NEW s \in Places, Goes(op, s)
          PROVE  /\ stage' \in [Ops -> Places] /\ queue' \in Seq(Ops) /\ OneIdles'
                 /\ stage'[op] = s
                 /\ \A x \in Ops \ {op} : stage'[x] = stage[x] /\ stage[x] \notin Active
  <2>1. /\ stage' \in [Ops -> Places]
        /\ stage'[op] = s
        /\ \A x \in Ops \ {op} : stage'[x] = stage[x]
    BY <1>first, <1>sta DEF Goes
  <2>2. queue \in Seq(Ops) /\ queue # <<>> /\ op = Head(queue)
    BY <1>first, <1>typ DEF IdleTypeOK, Idle!Running
  <2>3. queue' \in Seq(Ops)
    BY <1>first, <1>que, <2>2 DEF QueueFacts, Goes
  <2>4. \A x \in Ops \ {op} : stage[x] \notin Active
    BY <2>2, <1>typ DEF OneIdles
  <2>5. "finished" \notin Active
    BY DEF Active, Idle!Idling
  <2>6. OneIdles'
    BY <1>first, <2>1, <2>2, <2>4, <2>5 DEF OneIdles, Goes
  <2> QED BY <2>1, <2>3, <2>4, <2>6
<1>stays. ASSUME NEW op \in Ops, Idle!Running(op), NEW s, Goes(op, s), Remains(op, s),
                 UNCHANGED <<mSetupSuccess, replaced, mIdle>>
          PROVE  SetUp'
  <2>1. /\ stage'[op] = s
        /\ \A x \in Ops \ {op} : stage'[x] = stage[x] /\ stage[x] \notin Active
    BY <1>first, <1>stays DEF Remains
  <2>2. \A x \in Ops : stage'[x] \in Idle!Idling <=> stage[x] \in Idle!Idling
    BY <1>stays, <2>1 DEF Remains
  <2>3. \A x \in Ops : stage'[x] \in {"new", "main", "select", "prepare"}
                         => stage[x] \in {"new", "main", "select", "prepare"}
    BY <1>stays, <2>1 DEF Remains, Before
  <2> QED BY <1>typ, <1>stays, <2>2, <2>3 DEF SetUp
<1>goes. ASSUME NEW op \in Ops, Idle!Running(op), NEW s, Goes(op, s), Remains(op, s),
                UNCHANGED <<mSetupSuccess, replaced, mIdle>>, mIdleEnabled' \in BOOLEAN, StreamsInTurn'
         PROVE  IdleInv'
  <2>1. s \in Places
    BY <1>goes DEF Remains
  <2>2. stage' \in [Ops -> Places] /\ queue' \in Seq(Ops) /\ OneIdles'
    BY <1>first, <1>goes, <2>1
  <2>3. IdleTypeOK'
    BY <1>sta, <1>goes, <2>2 DEF IdleTypeOK
  <2> QED BY <1>stays, <1>goes, <2>2, <2>3 DEF IdleInv
<1>here. ASSUME NEW op \in Ops, NEW w, Idle!In(op, w), UNCHANGED <<queue, stage>>
         PROVE  /\ Idle!Running(op) /\ Goes(op, stage[op]) /\ Remains(op, stage[op])
                /\ \E x \in Ops : stage'[x] \in Idle!Selects
  <2>1. Idle!Running(op) /\ stage[op] \in Idle!Selects /\ stage[op] \in Places
    BY <1>here, <1>sta DEF Idle!In
  <2>2. stage' = [stage EXCEPT ![op] = stage[op]]
    BY <1>here, <1>sta
  <2>3. stage[op] # "new"
    BY <2>1 DEF Idle!Selects
  <2> QED BY <1>here, <2>1, <2>2, <2>3 DEF Goes, Remains
<1>ends. ASSUME NEW op \in Ops, NEW w, Idle!In(op, w), Idle!Fail(op) \/ Idle!Succeed(op)
         PROVE  /\ Idle!Running(op) /\ selecting' = "start"
                /\ \E s : Goes(op, s) /\ Remains(op, s)
  <2>1. Idle!Running(op) /\ stage[op] \in Idle!Selects /\ selecting' = "start"
    BY <1>ends DEF Idle!In, Idle!Fail, Idle!Succeed, Idle!Return
  <2>2. CASE Idle!Fail(op)
    <3>1. CASE stage[op] = "select"
      <4>1. Goes(op, "finished") /\ Remains(op, "finished")
        BY <2>2, <3>1 DEF Idle!Fail, Idle!Finish, Goes, Remains, Before, Places, Active, Idle!Idling
      <4> QED BY <2>1, <4>1
    <3>2. CASE stage[op] # "select"
      <4>1. Goes(op, "unprepare") /\ Remains(op, "unprepare")
        BY <2>1, <2>2, <3>2
           DEF Idle!Fail, Idle!GoTo, Goes, Remains, Before, Places, Active, Idle!Idling, Idle!Selects
      <4> QED BY <2>1, <4>1
    <3> QED BY <3>1, <3>2
  <2>3. CASE Idle!Succeed(op)
    <3>1. \/ stage[op] = "select" /\ Goes(op, "prepare")
          \/ stage[op] = "idle" /\ \E next \in {"fetch", "command"} : Goes(op, next)
          \/ stage[op] = "fetch" /\ Goes(op, "list")
      BY <2>3 DEF Idle!Succeed, Idle!GoTo, Goes
    <3>2. \A s \in {"prepare", "fetch", "command", "list"} :
              (s = "prepare" <=> stage[op] = "select") /\ stage[op] \in Idle!Selects => Remains(op, s)
      BY DEF Remains, Before, Places, Active, Idle!Idling, Idle!Selects
    <3> QED BY <2>1, <3>1, <3>2
  <2> QED BY <1>ends, <2>2, <2>3
<1>letgo. ASSUME NEW op \in Ops, NEW w, Idle!In(op, w), UNCHANGED <<queue, stage, mSetupSuccess>>,
                 mIdle' = "absent", mIdleEnabled' = FALSE,
                 replaced' = [replaced EXCEPT ![op] = @ \/ stage[op] \in Idle!Idling], StreamsInTurn'
          PROVE  IdleInv'
  <2>1. \A x \in Ops : stage[x] \in Idle!Idling => x = op
    BY <1>letgo, <1>typ, <1>sel DEF Idle!In, Idle!Running, OneIdles
  <2>2. /\ replaced' \in [Ops -> BOOLEAN]
        /\ \A x \in Ops : replaced'[x] <=> replaced[x] \/ (x = op /\ stage[op] \in Idle!Idling)
    BY <1>letgo, <1>sta
  <2>3. IdleTypeOK' /\ OneIdles'
    BY <1>typ, <1>letgo, <2>2 DEF IdleTypeOK, OneIdles
  <2>4. \A x \in Ops : stage[x] \in {"new", "main", "select", "prepare"} => stage[x] \notin Idle!Idling
    BY DEF Idle!Idling
  <2>5. SetUp'
    BY <1>typ, <1>letgo, <2>1, <2>2, <2>4 DEF SetUp
  <2> QED BY <1>letgo, <2>3, <2>5 DEF IdleInv
<1>free. ASSUME Idle!Free, mImap = Idle!None
         PROVE  /\ \E k \in Nat : Freed(k)'
                /\ closing' = Idle!None /\ mState' = "DISCONNECTED" /\ UNCHANGED <<mImap, mIdleEnabled, mIdle>>
  <2>1. /\ freed' = freed \cup ({closing} \ {Idle!None}) /\ closing' = Idle!None
        /\ mState' = "DISCONNECTED" /\ UNCHANGED <<mImap, mIdleEnabled, mIdle>>
    BY <1>free DEF Idle!Free
  <2>2. CASE closing = Idle!None
    <3>1. Freed(n)'
      BY <1>0, <2>1, <2>2 DEF Freed
    <3> QED BY <2>1, <3>1
  <2>3. CASE closing # Idle!None
    <3>1. closing = n + 1 /\ freed' = 1 .. n + 1
      BY <1>0, <2>1, <2>3 DEF Freed
    <3>2. n + 1 \in Nat /\ Freed(n + 1)'
      BY <1>0, <1>free, <2>1, <3>1 DEF Freed
    <3> QED BY <2>1, <3>2
  <2> QED BY <2>2, <2>3
<1>1. ASSUME NEW op \in Ops, Idle!Start(op) PROVE IdleInv'
  <2>1. /\ stage' = [stage EXCEPT ![op] = "main"] /\ queue' = Append(queue, op) /\ stage[op] = "new"
        /\ UNCHANGED <<mSetupSuccess, replaced, selecting, mState, mImap, mIdleEnabled, mIdle, closing, freed>>
    BY <1>1 DEF Idle!Start, Idle!session, Idle!place, Idle!stream
  <2>2. \A x \in Ops : stage'[x] = IF x = op THEN "main" ELSE stage[x]
    BY <1>sta, <2>1
  <2>3. IdleTypeOK'
    BY <1>typ, <1>sta, <1>que, <2>1 DEF IdleTypeOK, QueueFacts, Places
  <2>4. OneIdles'
    BY <1>typ, <1>que, <2>1, <2>2 DEF OneIdles, QueueFacts, Active, Idle!Idling
  <2>5. \A x \in Ops : (stage[x] \in Idle!Selects <=> stage'[x] \in Idle!Selects)
                       /\ (stage[x] \in Idle!Idling <=> stage'[x] \in Idle!Idling)
    BY <2>1, <2>2 DEF Idle!Selects, Idle!Idling
  <2>6. StreamsInTurn'
    BY <1>typ, <2>1, <2>5 DEF StreamsInTurn, Freed
  <2>7. SetUp'
    BY <1>typ, <2>1, <2>2, <2>5 DEF SetUp
  <2> QED BY <2>3, <2>4, <2>6, <2>7 DEF IdleInv
<1>2. ASSUME NEW op \in Ops, Idle!InterruptIdle(op) PROVE IdleInv'
  <2>1. /\ UNCHANGED <<queue, stage, mSetupSuccess, replaced, selecting, mState, mImap, mIdleEnabled, closing, freed>>
        /\ mIdle' \in {"absent", "ready", "notified"} /\ (mIdle' = "absent" <=> mIdle = "absent")
    BY <1>2, <1>sta DEF Idle!InterruptIdle, Idle!place
  <2> QED BY <1>typ, <2>1 DEF IdleInv, IdleTypeOK, OneIdles, StreamsInTurn, Freed, SetUp
<1>3. ASSUME NEW op \in Ops, Idle!Main(op) PROVE IdleInv'
  <2>1. /\ Idle!Running(op) /\ stage[op] = "main"
        /\ UNCHANGED <<mSetupSuccess, replaced, selecting, mState, mImap, mIdleEnabled, mIdle, closing, freed>>
    BY <1>3 DEF Idle!Main, Idle!At, Idle!session, Idle!place, Idle!stream
  <2>2. PICK s \in {"finished", "select"} : Goes(op, s)
    BY <1>3 DEF Idle!Main, Idle!Finish, Idle!GoTo, Goes
  <2>3. Remains(op, s)
    BY <2>1, <2>2 DEF Remains, Before, Places, Active, Idle!Idling
  <2>4. /\ stage'[op] = s
        /\ \A x \in Ops \ {op} : stage'[x] = stage[x] /\ stage[x] \notin Active
    BY <1>first, <2>1, <2>2, <2>3 DEF Remains
  <2>5. stage[op] \notin Idle!Selects
    BY <2>1 DEF Idle!Selects
  <2>6. StreamsInTurn'
    BY <1>typ, <1>sel, <2>1, <2>4, <2>5 DEF StreamsInTurn, Freed
  <2> QED BY <1>goes, <1>sta, <2>1, <2>2, <2>3, <2>6
<1>4. ASSUME NEW op \in Ops, Idle!ConnectIfNeeded(op) PROVE IdleInv'
  <2>1. Idle!In(op, "start") /\ UNCHANGED <<queue, stage, mSetupSuccess, mState>>
    BY <1>4 DEF Idle!ConnectIfNeeded
  <2>2. /\ Idle!Running(op) /\ Goes(op, stage[op]) /\ Remains(op, stage[op])
        /\ \E x \in Ops : stage'[x] \in Idle!Selects
    BY <1>here, <2>1
  <2>3. selecting = "start" /\ closing = Idle!None
    BY <1>typ, <2>1 DEF StreamsInTurn, Idle!In
  <2>4. CASE mShouldDisconnect
    <3>1. /\ closing' = mImap /\ mImap' = Idle!None /\ mIdleEnabled' = FALSE /\ mIdle' = "absent"
          /\ freed' = freed /\ selecting' = "close"
          /\ replaced' = [replaced EXCEPT ![op] = @ \/ stage[op] \in Idle!Idling]
      BY <1>4, <2>4 DEF Idle!ConnectIfNeeded, Idle!LetGo, Idle!Continue
    <3>2. Freed(n)'
      BY <1>0, <3>1 DEF Freed
    <3>3. StreamsInTurn'
      BY <2>1, <2>2, <3>1, <3>2 DEF StreamsInTurn
    <3> QED BY <1>letgo, <2>1, <3>1, <3>3
  <2>5. CASE ~ mShouldDisconnect
    <3>1. /\ UNCHANGED <<replaced, mImap, mIdleEnabled, mIdle, closing, freed>>
          /\ selecting' \in {"connect", "login", "select"}
          /\ selecting' = "connect" => mState = "DISCONNECTED"
          /\ mState = "DISCONNECTED" => selecting' = "connect"
      BY <1>4, <2>5 DEF Idle!ConnectIfNeeded, Idle!stream, Idle!Continue
    <3>2. Freed(n)'
      BY <1>0, <3>1 DEF Freed
    <3>3. StreamsInTurn'
      BY <1>typ, <2>1, <2>2, <2>3, <3>1, <3>2 DEF StreamsInTurn
    <3> QED BY <1>goes, <1>sta, <2>1, <2>2, <3>1, <3>3
  <2> QED BY <2>4, <2>5
<1>5. ASSUME NEW op \in Ops, Idle!Disconnect(op) PROVE IdleInv'
  <2>1. /\ Idle!In(op, "close") /\ UNCHANGED <<queue, stage, mSetupSuccess, replaced>>
        /\ Idle!Free /\ selecting' = "connect"
    BY <1>5 DEF Idle!Disconnect, Idle!operations, Idle!Continue
  <2>2. /\ Idle!Running(op) /\ Goes(op, stage[op]) /\ Remains(op, stage[op])
        /\ \E x \in Ops : stage'[x] \in Idle!Selects
    BY <1>here, <2>1
  <2>3. mImap = Idle!None
    BY <1>typ, <2>1 DEF StreamsInTurn, Idle!In
  <2>4. /\ \E k \in Nat : Freed(k)'
        /\ closing' = Idle!None /\ mState' = "DISCONNECTED" /\ UNCHANGED <<mImap, mIdleEnabled, mIdle>>
    BY <1>free, <2>1, <2>3
  <2>5. StreamsInTurn'
    BY <1>typ, <2>1, <2>2, <2>3, <2>4 DEF StreamsInTurn
  <2> QED BY <1>goes, <1>sta, <2>1, <2>2, <2>4, <2>5
<1>6. ASSUME NEW op \in Ops, Idle!Connect(op) PROVE IdleInv'
  <2>1. Idle!In(op, "connect") /\ UNCHANGED <<mSetupSuccess, replaced, mIdle, closing, freed>>
    BY <1>6 DEF Idle!Connect
  <2>2. mImap = Idle!None /\ closing = Idle!None /\ ~ mIdleEnabled /\ mIdle = "absent" /\ mState = "DISCONNECTED"
    BY <1>typ, <2>1 DEF StreamsInTurn, Idle!In
  <2>3. Cardinality(freed) = n
    BY <1>0, FreedAreCounted DEF Freed
  <2>4. CASE UNCHANGED <<queue, stage>> /\ mIdleEnabled' \in BOOLEAN /\ mImap' = n + 1
             /\ \/ selecting' = "refused" /\ mState' = mState
                \/ selecting' = "login" /\ mState' = "CONNECTED"
    <3>1. /\ Idle!Running(op) /\ Goes(op, stage[op]) /\ Remains(op, stage[op])
          /\ \E x \in Ops : stage'[x] \in Idle!Selects
      BY <1>here, <2>1, <2>4
    <3>2. Freed(n)' /\ mImap' # Idle!None
      BY <1>0, <2>1, <2>2, <2>4 DEF Freed, Idle!None
    <3>3. StreamsInTurn'
      BY <2>1, <2>2, <2>4, <3>1, <3>2 DEF StreamsInTurn
    <3> QED BY <1>goes, <1>sta, <2>1, <2>4, <3>1, <3>3
  <2>5. CASE /\ Idle!Fail(op) \/ Idle!Succeed(op)
             /\ mIdleEnabled' \in BOOLEAN
             /\ \/ mImap' = n + 1 /\ mState' = "CONNECTED"
                \/ UNCHANGED <<mImap, mIdleEnabled, mState>>
    <3>1. PICK s : Goes(op, s) /\ Remains(op, s)
      BY <1>ends, <2>1, <2>5
    <3>2. Idle!Running(op) /\ selecting' = "start"
      BY <1>ends, <2>1, <2>5
    <3>3. Freed(n)' /\ (mImap' = n + 1 => mImap' # Idle!None)
      BY <1>0, <2>1, <2>2, <2>5 DEF Freed, Idle!None
    <3>4. StreamsInTurn'
      BY <2>1, <2>2, <2>5, <3>2, <3>3 DEF StreamsInTurn
    <3> QED BY <1>goes, <2>1, <2>5, <3>1, <3>2, <3>4
  <2> QED BY <1>6, <1>sta, <2>3, <2>4, <2>5, SameCount
          DEF Idle!Connect, Idle!ConnectFailed, Idle!Continue
<1>7. ASSUME NEW op \in Ops, Idle!Refuse(op) PROVE IdleInv'
  <2>0. mState = "DISCONNECTED"
    BY <1>typ, <1>7 DEF StreamsInTurn, Idle!Refuse, Idle!In
  <2>1. /\ Idle!In(op, "refused") /\ UNCHANGED <<queue, stage, mSetupSuccess, mState>>
        /\ selecting' = "failed"
        /\ closing' = mImap /\ mImap' = Idle!None /\ mIdleEnabled' = FALSE /\ mIdle' = "absent"
        /\ freed' = freed
        /\ replaced' = [replaced EXCEPT ![op] = @ \/ stage[op] \in Idle!Idling]
    BY <1>7 DEF Idle!Refuse, Idle!LetGo, Idle!Continue
  <2>2. \E x \in Ops : stage'[x] \in Idle!Selects
    BY <1>here, <2>1
  <2>3. Freed(n)'
    BY <1>0, <2>1 DEF Freed
  <2>4. StreamsInTurn'
    BY <2>0, <2>1, <2>2, <2>3 DEF StreamsInTurn
  <2> QED BY <1>letgo, <2>1, <2>4
<1>8. ASSUME NEW op \in Ops, Idle!ConnectClosed(op) PROVE IdleInv'
  <2>1. /\ Idle!In(op, "failed") /\ UNCHANGED <<mSetupSuccess, replaced>> /\ Idle!Free
        /\ Idle!Fail(op) \/ Idle!Succeed(op)
    BY <1>8 DEF Idle!ConnectClosed, Idle!ConnectFailed
  <2>2. PICK s : Goes(op, s) /\ Remains(op, s)
    BY <1>ends, <2>1
  <2>3. Idle!Running(op) /\ selecting' = "start"
    BY <1>ends, <2>1
  <2>4. mImap = Idle!None
    BY <1>typ, <2>1 DEF StreamsInTurn, Idle!In
  <2>5. /\ \E k \in Nat : Freed(k)'
        /\ closing' = Idle!None /\ mState' = "DISCONNECTED" /\ UNCHANGED <<mImap, mIdleEnabled, mIdle>>
    BY <1>free, <2>1, <2>4
  <2>6. StreamsInTurn'
    BY <1>typ, <2>3, <2>4, <2>5 DEF StreamsInTurn
  <2> QED BY <1>goes, <1>sta, <2>1, <2>2, <2>3, <2>5, <2>6
<1>9. ASSUME NEW op \in Ops, Idle!Login(op) PROVE IdleInv'
  <2>1. /\ Idle!In(op, "login") /\ UNCHANGED <<mSetupSuccess, replaced, mImap, mIdle, closing, freed>>
        /\ mIdleEnabled' = mIdleEnabled \/ mIdleEnabled' = TRUE
        /\ mState' # "DISCONNECTED"
    BY <1>9 DEF Idle!Login
  <2>b. mIdleEnabled' \in BOOLEAN /\ (mIdle' # "absent" => mIdleEnabled')
    <3>1. mIdleEnabled' \in BOOLEAN
      BY <1>sta, <2>1, Zenon
    <3>2. mIdle # "absent" => mIdleEnabled
      BY <1>typ DEF StreamsInTurn
    <3>3. mIdle' # "absent" => mIdleEnabled'
      <4>1. CASE mIdleEnabled' = mIdleEnabled
        BY <2>1, <3>2, <4>1
      <4>2. CASE mIdleEnabled' = TRUE
        BY <4>2
      <4> QED BY <2>1, <4>1, <4>2
    <3> QED BY <3>1, <3>3
  <2>2. mImap # Idle!None /\ closing = Idle!None
    BY <1>typ, <2>1 DEF StreamsInTurn, Idle!In
  <2>3. Freed(n)'
    BY <1>0, <2>1 DEF Freed
  <2>4. ASSUME \/ selecting' = "start"
               \/ selecting' = "select" /\ \E x \in Ops : stage'[x] \in Idle!Selects
        PROVE  StreamsInTurn'
    BY <2>1, <2>2, <2>3, <2>4, <2>b DEF StreamsInTurn
  <2>5. CASE /\ stage' = stage /\ queue' = queue
             /\ selecting' = "start" \/ selecting' = "select"
    <3>1. /\ Idle!Running(op) /\ Goes(op, stage[op]) /\ Remains(op, stage[op])
          /\ \E x \in Ops : stage'[x] \in Idle!Selects
      BY <1>here, <2>1, <2>5
    <3> QED BY <1>goes, <2>1, <2>b, <2>4, <2>5, <3>1
  <2>6. CASE Idle!Fail(op)
    <3>1. PICK s : Goes(op, s) /\ Remains(op, s)
      BY <1>ends, <2>1, <2>6
    <3>2. Idle!Running(op) /\ selecting' = "start"
      BY <1>ends, <2>1, <2>6
    <3> QED BY <1>goes, <2>1, <2>b, <2>4, <3>1, <3>2
  <2> QED BY <1>9, <2>5, <2>6 DEF Idle!Login, Idle!Continue
<1>10. ASSUME NEW op \in Ops, Idle!Select(op) PROVE IdleInv'
  <2>1. /\ Idle!In(op, "select")
        /\ Idle!Fail(op) \/ Idle!Succeed(op)
        /\ UNCHANGED <<mSetupSuccess, replaced, mImap, mIdleEnabled, mIdle, closing, freed>>
        /\ mState' \in {"LOGGEDIN", "SELECTED"} \/ mState' = mState
    BY <1>10 DEF Idle!Select, Idle!stream
  <2>2. PICK s : Goes(op, s) /\ Remains(op, s)
    BY <1>ends, <2>1
  <2>3. Idle!Running(op) /\ selecting' = "start"
    BY <1>ends, <2>1
  <2>4. mImap # Idle!None /\ closing = Idle!None /\ mState # "DISCONNECTED"
    BY <1>typ, <2>1 DEF StreamsInTurn, Idle!In
  <2>5. Freed(n)'
    BY <1>0, <2>1 DEF Freed
  <2>6. StreamsInTurn'
    BY <1>typ, <2>1, <2>3, <2>4, <2>5 DEF StreamsInTurn
  <2> QED BY <1>goes, <1>sta, <2>1, <2>2, <2>3, <2>6
<1>keeps. ASSUME NEW op \in Ops, Idle!Running(op), stage[op] \in Active \ Idle!Selects, NEW s \in Places, Goes(op, s),
                 UNCHANGED <<selecting, mState, mImap, mIdleEnabled, closing, freed>>,
                 mIdle' # "absent" => mIdleEnabled
          PROVE  StreamsInTurn'
  <2>1. \A x \in Ops \ {op} : stage'[x] = stage[x] /\ stage[x] \notin Active
    BY <1>first, <1>keeps
  <2>2. selecting = "start"
    BY <1>typ, <1>sel, <1>keeps, <2>1 DEF StreamsInTurn
  <2>3. Freed(n)'
    BY <1>0, <1>keeps DEF Freed
  <2> QED BY <1>typ, <1>keeps, <2>2, <2>3 DEF StreamsInTurn
<1>11. ASSUME NEW op \in Ops, Idle!Prepare(op) PROVE IdleInv'
  <2> DEFINE ready == ~ mInterrupted[op] /\ mIdleEnabled
  <2>1. /\ Idle!Running(op) /\ stage[op] = "prepare"
        /\ UNCHANGED <<replaced, selecting, mState, mImap, mIdleEnabled, closing, freed>>
        /\ mSetupSuccess' = [mSetupSuccess EXCEPT ![op] = ready]
        /\ \/ ready /\ mIdle' = "ready" /\ Goes(op, "idle")
           \/ ~ ready /\ mIdle' = mIdle /\ Goes(op, "finished")
    BY <1>11 DEF Idle!Prepare, Idle!At, Idle!GoTo, Idle!Finish, Idle!place, Goes
  <2>2. ready \in BOOLEAN /\ (ready => mIdleEnabled)
    BY <1>sta
  <2> HIDE DEF ready
  <2>3. PICK s \in {"idle", "finished"} : Goes(op, s) /\ (s = "idle" <=> ready)
                                          /\ mIdle' = IF ready THEN "ready" ELSE mIdle
    BY <2>1
  <2>4. s \in Places /\ stage[op] \in Active \ Idle!Selects /\ stage[op] \notin Idle!Idling
    BY <2>1 DEF Places, Active, Idle!Idling, Idle!Selects
  <2>5. /\ stage' \in [Ops -> Places] /\ queue' \in Seq(Ops) /\ OneIdles'
        /\ stage'[op] = s
        /\ \A x \in Ops \ {op} : stage'[x] = stage[x] /\ stage[x] \notin Active
    BY <1>first, <2>1, <2>3, <2>4
  <2>6. mSetupSuccess' \in [Ops -> BOOLEAN] /\ mSetupSuccess'[op] = ready
        /\ \A x \in Ops \ {op} : mSetupSuccess'[x] = mSetupSuccess[x]
    BY <1>sta, <2>1, <2>2
  <2>7. IdleTypeOK'
    BY <1>sta, <2>1, <2>3, <2>5, <2>6 DEF IdleTypeOK
  <2>8. StreamsInTurn'
    BY <1>keeps, <1>typ, <2>1, <2>2, <2>3, <2>4 DEF StreamsInTurn
  <2>9. SetUp'
    <3>1. \A x \in Ops : stage[x] \notin Idle!Idling
      BY <1>sel, <2>4, <2>5
    <3>2. mIdle = "absent" /\ ~ replaced[op]
      BY <1>typ, <2>1, <3>1 DEF SetUp
    <3>3. "idle" \in Idle!Idling /\ "finished" \notin Idle!Idling
      BY DEF Idle!Idling
    <3>4. CASE ready
      <4>1. s = "idle" /\ mIdle' = "ready" /\ stage'[op] \in Idle!Idling /\ ~ replaced'[op]
        BY <2>1, <2>3, <2>5, <3>2, <3>3, <3>4
      <4> QED BY <1>typ, <1>sel, <2>1, <2>5, <2>6, <3>1, <3>4, <4>1 DEF SetUp
    <3>5. CASE ~ ready
      <4>1. s = "finished" /\ mIdle' = "absent" /\ \A x \in Ops : stage'[x] \notin Idle!Idling
        BY <2>3, <2>5, <3>1, <3>2, <3>3, <3>5
      <4> QED BY <1>typ, <2>1, <2>5, <4>1 DEF SetUp
    <3> QED BY <3>4, <3>5
  <2> QED BY <2>5, <2>7, <2>8, <2>9 DEF IdleInv
<1>12. ASSUME NEW op \in Ops,
              Idle!List(op) \/ Idle!Idle(op) \/ Idle!WaitInterrupted(op) \/ Idle!WaitEnds(op) \/ Idle!IdleDone(op)
       PROVE  IdleInv'
  <2>1. /\ Idle!Running(op) /\ stage[op] \in {"list", "command", "waiting", "done"}
        /\ UNCHANGED <<mSetupSuccess, replaced, selecting, mState, mImap, mIdleEnabled, mIdle, closing, freed>>
        /\ \E s \in {"command", "waiting", "done", "unprepare"} : Goes(op, s)
    BY <1>12 DEF Idle!List, Idle!Idle, Idle!WaitInterrupted, Idle!WaitEnds, Idle!IdleDone, Idle!IdleFails,
                 Idle!At, Idle!GoTo, Idle!session, Idle!place, Idle!stream, Goes
  <2>2. PICK s \in {"command", "waiting", "done", "unprepare"} : Goes(op, s)
    BY <2>1
  <2>3. Remains(op, s) /\ s \in Places /\ stage[op] \in Active \ Idle!Selects
    BY <2>1 DEF Remains, Before, Places, Active, Idle!Idling, Idle!Selects
  <2>4. mIdle' # "absent" => mIdleEnabled
    BY <1>typ, <2>1 DEF StreamsInTurn
  <2>5. StreamsInTurn'
    BY <1>keeps, <2>1, <2>2, <2>3, <2>4
  <2> QED BY <1>goes, <1>sta, <2>1, <2>2, <2>3, <2>5
<1>13. ASSUME NEW op \in Ops, Idle!Unprepare(op) PROVE IdleInv'
  <2>1. /\ Idle!Running(op) /\ stage[op] = "unprepare" /\ Goes(op, "finished")
        /\ UNCHANGED <<mSetupSuccess, replaced, selecting, mState, mImap, mIdleEnabled, closing, freed>>
        /\ mIdle' = IF mSetupSuccess[op] /\ mIdleEnabled THEN "absent" ELSE mIdle
    BY <1>13 DEF Idle!Unprepare, Idle!At, Idle!Finish, Idle!place, Goes
  <2>2. "finished" \in Places /\ "finished" \notin Idle!Idling
        /\ stage[op] \in Active \ Idle!Selects /\ stage[op] \in Idle!Idling
    BY <2>1 DEF Places, Active, Idle!Idling, Idle!Selects
  <2>3. mIdle' = "absent"
    BY <1>typ, <2>1, <2>2 DEF SetUp, StreamsInTurn
  <2>4. /\ stage' \in [Ops -> Places] /\ queue' \in Seq(Ops) /\ OneIdles'
        /\ stage'[op] = "finished"
        /\ \A x \in Ops \ {op} : stage'[x] = stage[x] /\ stage[x] \notin Active
    BY <1>first, <2>1, <2>2
  <2>5. IdleTypeOK'
    BY <1>sta, <2>1, <2>3, <2>4 DEF IdleTypeOK
  <2>6. StreamsInTurn'
    BY <1>keeps, <2>1, <2>2, <2>3
  <2>7. SetUp'
    BY <1>typ, <1>sel, <2>1, <2>2, <2>3, <2>4 DEF SetUp
  <2> QED BY <2>4, <2>5, <2>6, <2>7 DEF IdleInv
<1>14. CASE UNCHANGED Idle!vars
  BY <1>typ, <1>14 DEF Idle!vars, Idle!operations, Idle!session, Idle!place, Idle!stream,
                       IdleInv, IdleTypeOK, OneIdles, StreamsInTurn, Freed, SetUp
<1> QED BY <1>1, <1>2, <1>3, <1>4, <1>5, <1>6, <1>7, <1>8, <1>9, <1>10, <1>11, <1>12, <1>13, <1>14
        DEF Idle!Next, Idle!Step, Idle!SelectIfNeeded

(* interruptIdle may be called on the main thread at any moment of the      *)
(* operations' lives: it never reaches into a stream that was let go of or   *)
(* freed, also when idle() itself disconnects and connects again             *)
(* (MCIMAPSession.cpp:3555), and a stream is set up exactly while one of     *)
(* them idles that still has it (MCIMAPIdleOperation.cpp:39-101;             *)
(* MCIMAPSession.cpp, setupIdle to unsetupIdle), for any operations and any  *)
(* number of connections.  An operation whose stream was replaced waits on   *)
(* one that is not set up: an interruption then does nothing.                *)
THEOREM IdleInterruption == Idle!Spec => []InterruptionSafe
<1> QED BY InitIdle, NextIdle, IdleInvSafe, PTL DEF Idle!Spec

-----------------------------------------------------------------------------
(* AttachmentDownload: the decoder and the chunks. *)

(* Joining, as an operator of which the algebra below knows these facts.    *)
Join(a, b) == a \o b

(* It gives a sequence.                                                     *)
LEMMA JoinSeq ==
    ASSUME NEW a \in Seq(Nat), NEW b \in Seq(Nat)
    PROVE  Join(a, b) \in Seq(Nat)
BY ConcatProperties DEF Join

(* It is associative.                                                       *)
LEMMA JoinAssociative ==
    ASSUME NEW a \in Seq(Nat), NEW b \in Seq(Nat), NEW c \in Seq(Nat)
    PROVE  Join(Join(a, b), c) = Join(a, Join(b, c))
BY ConcatAssociative, SMTT(30) DEF Join

(* The same of \o, and what joining nothing does.                            *)
LEMMA Joined == \A a, b \in Seq(Nat) : a \o b \in Seq(Nat) /\ a \o <<>> = a
<1> SUFFICES ASSUME NEW a \in Seq(Nat), NEW b \in Seq(Nat)
             PROVE  a \o b \in Seq(Nat) /\ a \o <<>> = a
  OBVIOUS
<1>1. a \o b \in Seq(Nat)
  BY ConcatProperties
<1>2. a \o <<>> = a
  BY ConcatEmptySeq
<1> QED BY <1>1, <1>2

(* What follows a file may be divided elsewhere.                            *)
LEMMA Rejoined ==
    ASSUME NEW a \in Seq(Nat), NEW b \in Seq(Nat), NEW c \in Seq(Nat),
           NEW d \in Seq(Nat), NEW e \in Seq(Nat), Join(d, e) = Join(b, c)
    PROVE  Join(Join(a, d), e) = Join(Join(a, b), c)
<1>1. Join(Join(a, d), e) = Join(a, Join(d, e))
  BY JoinAssociative
<1>2. Join(Join(a, b), c) = Join(a, Join(b, c))
  BY JoinAssociative
<1> QED BY <1>1, <1>2

(* A piece of the part is a sequence of numbers.                            *)
LEMMA PieceIsSeq == \A from, k \in Nat : Download!Piece(from, k) \in Seq(Nat) /\ Len(Download!Piece(from, k)) = k
<1> SUFFICES ASSUME NEW from \in Nat, NEW k \in Nat
             PROVE  Download!Piece(from, k) \in Seq(Nat) /\ Len(Download!Piece(from, k)) = k
  OBVIOUS
<1>1. Download!Piece(from, k) \in [1 .. k -> Nat]
  BY DEF Download!Piece
<1> QED BY <1>1, SeqDef, LenProperties

(* A piece that follows another makes a longer one.                         *)
LEMMA PieceFollows ==
    \A n, k \in Nat : Download!Piece(0, n) \o Download!Piece(n, k) = Download!Piece(0, n + k)
<1> SUFFICES ASSUME NEW n \in Nat, NEW k \in Nat
             PROVE  Download!Piece(0, n) \o Download!Piece(n, k) = Download!Piece(0, n + k)
  OBVIOUS
<1> DEFINE a == Download!Piece(0, n)
           b == Download!Piece(n, k)
           ab == a \o b
           c == Download!Piece(0, n + k)
<1>1. /\ a \in Seq(Nat) /\ Len(a) = n /\ b \in Seq(Nat) /\ Len(b) = k
      /\ c \in Seq(Nat) /\ Len(c) = n + k
  BY PieceIsSeq, SMTT(30)
<1>2. /\ \A i \in 1 .. n : a[i] = i
      /\ \A i \in 1 .. k : b[i] = n + i
      /\ \A i \in 1 .. n + k : c[i] = i
  BY DEF Download!Piece
<1> HIDE DEF a, b, c
<1>3. /\ ab \in Seq(Nat) /\ Len(ab) = n + k
      /\ \A i \in 1 .. n + k : (ab)[i] = IF i <= n THEN a[i] ELSE b[i - n]
  BY <1>1, ConcatProperties
<1> HIDE DEF ab
<1>4. ASSUME NEW i \in 1 .. n + k PROVE (ab)[i] = c[i]
  <2>1. CASE i <= n
    BY <1>2, <1>3, <2>1, SMTT(30)
  <2>2. CASE i > n
    <3>1. i - n \in 1 .. k /\ ~ (i <= n)
      BY <2>2
    <3>2. b[i - n] = n + (i - n)
      BY <1>2, <3>1
    <3> QED BY <1>2, <1>3, <3>1, <3>2
  <2> QED BY <2>1, <2>2
<1>6. Len(ab) = Len(c) /\ \A i \in 1 .. Len(ab) : ab[i] = c[i]
  <2>1. Len(ab) = n + k /\ Len(c) = n + k
    BY <1>1, <1>3
  <2>2. 1 .. Len(ab) = 1 .. n + k
    BY <2>1, Zenon
  <2>3. \A i \in 1 .. n + k : ab[i] = c[i]
    BY <1>4, Zenon
  <2> QED BY <2>1, <2>2, <2>3, Zenon
<1>5. ab = c
  BY <1>1, <1>3, <1>6, SeqEqual
<1> QED BY <1>5 DEF a, b, c, ab

(* The two parts into which the decoder divides what it has.                *)
LEMMA Divided ==
    ASSUME NEW q \in Seq(Nat), NEW n \in 0 .. Len(q)
    PROVE  /\ SubSeq(q, 1, n) \in Seq(Nat) /\ SubSeq(q, n + 1, Len(q)) \in Seq(Nat)
           /\ SubSeq(q, 1, n) \o SubSeq(q, n + 1, Len(q)) = q
<1>1. Len(q) \in Nat /\ \A i \in 1 .. Len(q) : q[i] \in Nat
  BY LenProperties, ElementOfSeq
<1>2. SubSeq(q, 1, n) \in Seq(Nat)
  <2>1. \A i \in 1 .. n : q[i] \in Nat
    BY <1>1
  <2> QED BY <2>1, SubSeqProperties
<1>3. SubSeq(q, n + 1, Len(q)) \in Seq(Nat)
  <2>1. \A i \in n + 1 .. Len(q) : q[i] \in Nat
    BY <1>1
  <2> QED BY <1>1, <2>1, SubSeqProperties
<1>4. SubSeq(q, 1, n) \o SubSeq(q, n + 1, Len(q)) = SubSeq(q, 1, Len(q))
  <2>1. 1 \in 1 .. Len(q) + 1 /\ n \in 1 - 1 .. Len(q) /\ Len(q) \in n .. Len(q)
    BY <1>1
  <2> QED BY <2>1, ConcatAdjacentSubSeq, Zenon
<1>5. SubSeq(q, 1, Len(q)) = q
  BY SubSeqFull
<1> QED BY <1>2, <1>3, <1>4, <1>5, Zenon

(* The decoder turns no more than it has.                                   *)
LEMMA DecodableWithin == \A q \in Seq(Nat) : Download!Decodable(q) \in 0 .. Len(q)
<1> SUFFICES ASSUME NEW q \in Seq(Nat) PROVE Download!Decodable(q) \in 0 .. Len(q)
  OBVIOUS
<1> DEFINE n == Len(q)
           d == n \div Quantum
<1>1. n \in Nat /\ Quantum \in Nat /\ Quantum > 0
  BY LenProperties, DownloadAssumption
<1>2. d \in Nat /\ Quantum * d <= n
  BY <1>1
<1>3. Quantum * d \in Nat
  BY <1>1, <1>2
<1> QED BY <1>1, <1>2, <1>3 DEF Download!Decodable

(* The inductive invariant: until it is flushed, the file and the rest are  *)
(* the part up to offset; later the error tells whether they were.          *)
DownloadInv ==
    /\ pc \in {"fetch", "flush", "release", "done"}
    /\ offset \in 0 .. Size /\ estimatedSize \in Nat
    /\ file \in Seq(Nat) /\ mRemainingData \in Seq(Nat)
    /\ pc \in {"fetch", "flush"} =>
          error = "None" /\ file \o mRemainingData = Download!Piece(0, offset)
    /\ pc # "fetch" /\ error = "None" /\ (mode = "stream" \/ estimatedSize >= Size) => offset = Size
    /\ pc \in {"release", "done"} /\ error = "None" /\ mode = "stream" => file = Download!Piece(0, Size)

(* It says what the property says.                                          *)
LEMMA DownloadInvKept == DownloadInv => PartKept
BY DEF DownloadInv, PartKept, Download!PartKept, Download!NothingLostOrRepeated,
   Download!SuccessMeansComplete, Download!StreamedMeansWritten, Download!Finished

(* It holds before the first fetch.                                         *)
LEMMA InitDownload == Download!Init => DownloadInv
<1> SUFFICES ASSUME Download!Init PROVE DownloadInv
  OBVIOUS
<1>1. /\ pc = "fetch" /\ offset = 0 /\ error = "None" /\ mRemainingData = <<>> /\ file = <<>>
      /\ estimatedSize \in Nat
  BY DownloadAssumption DEF Download!Init
<1>2. <<>> \in Seq(Nat) /\ <<>> \o <<>> = <<>>
  BY EmptySeq, Joined
<1>3. Download!Piece(0, 0) = <<>>
  BY PieceIsSeq, EmptySeq
<1> QED BY <1>1, <1>2, <1>3, DownloadAssumption DEF DownloadInv

(* appendData keeps what it is given behind what there is, or nothing       *)
(* changes and it fails.                                                    *)
LEMMA AppendDataKeeps ==
    ASSUME NEW k \in Nat, NEW res \in {"None", "File"}, offset \in Nat,
           file \in Seq(Nat), mRemainingData \in Seq(Nat),
           file \o mRemainingData = Download!Piece(0, offset),
           Download!AppendData(Download!Piece(offset, k), res)
    PROVE  /\ file' \in Seq(Nat) /\ mRemainingData' \in Seq(Nat)
           /\ res = "None" => file' \o mRemainingData' = Download!Piece(0, offset + k)
<1> DEFINE piece == Download!Piece(offset, k)
           all == mRemainingData \o piece
           n == Download!Decodable(all)
<1>1. piece \in Seq(Nat)
  BY PieceIsSeq
<1>2. all \in Seq(Nat)
  <2> HIDE DEF piece
  <2> QED BY <1>1, Joined
<1>3. n \in 0 .. Len(all)
  BY <1>2, DecodableWithin
<1>4. /\ SubSeq(all, 1, n) \in Seq(Nat) /\ SubSeq(all, n + 1, Len(all)) \in Seq(Nat)
      /\ SubSeq(all, 1, n) \o SubSeq(all, n + 1, Len(all)) = all
  <2> HIDE DEF all, n
  <2> QED BY <1>2, <1>3, Divided
<1>5. PICK first \in Seq(Nat), rest \in Seq(Nat) :
          /\ first = SubSeq(all, 1, n) /\ rest = SubSeq(all, n + 1, Len(all)) /\ first \o rest = all
  <2> HIDE DEF all, n
  <2> QED BY <1>4
<1>6. /\ mRemainingData' = IF res = "None" THEN rest ELSE mRemainingData
      /\ \/ res = "None" /\ file' = file /\ first = <<>>
         \/ res = "None" /\ file' = file \o first
         \/ res # "None" /\ file' = file
  BY <1>5 DEF Download!AppendData, Download!AppendDecodedData
<1>all. all = mRemainingData \o piece /\ piece = Download!Piece(offset, k)
  OBVIOUS
<1> HIDE DEF all, n, piece
<1>7. CASE res # "None"
  BY <1>6, <1>7
<1>8. CASE res = "None"
  <2>1. file' = file \o first
    BY <1>6, <1>8, Joined
  <2>2. mRemainingData' = rest
    BY <1>6, <1>8
  <2>3. file \o first \in Seq(Nat)
    BY Joined
  <2>4. Join(first, rest) = Join(mRemainingData, piece)
    BY <1>5, <1>all, Zenon DEF Join
  <2>5. Join(Join(file, first), rest) = Join(Join(file, mRemainingData), piece)
    BY <1>1, <2>4, Rejoined
  <2>6. (file \o first) \o rest = (file \o mRemainingData) \o piece
    BY <2>5, Zenon DEF Join
  <2>7. Download!Piece(0, offset) \o piece = Download!Piece(0, offset + k)
    BY <1>all, PieceFollows
  <2>8. file' \o mRemainingData' = Download!Piece(0, offset + k)
    BY <2>1, <2>2, <2>6, <2>7, Zenon
  <2>9. file' \in Seq(Nat) /\ mRemainingData' \in Seq(Nat)
    BY <2>1, <2>2, <2>3
  <2> QED BY <2>8, <2>9
<1> QED BY <1>7, <1>8

(* flushData writes the rest, or fails.                                     *)
LEMMA FlushDataKeeps ==
    ASSUME NEW res \in {"None", "File"}, file \in Seq(Nat), mRemainingData \in Seq(Nat),
           Download!FlushData(res)
    PROVE  /\ file' \in Seq(Nat) /\ mRemainingData' \in Seq(Nat)
           /\ res = "None" => file' = file \o mRemainingData
<1>1. file \o mRemainingData \in Seq(Nat) /\ <<>> \in Seq(Nat)
  BY Joined, EmptySeq
<1>2. CASE mRemainingData = <<>>
  <2>1. UNCHANGED <<file, mRemainingData>>
    BY <1>2 DEF Download!FlushData, Download!decoder
  <2>2. file \o <<>> = file
    BY Joined
  <2> QED BY <1>2, <2>1, <2>2
<1>3. CASE mRemainingData # <<>>
  BY <1>1, <1>3 DEF Download!FlushData, Download!AppendDecodedData
<1> QED BY <1>2, <1>3

(* Every step keeps it.                                                     *)
LEMMA NextDownload == DownloadInv /\ [Download!Next]_(Download!vars) => DownloadInv'
<1> SUFFICES ASSUME DownloadInv, [Download!Next]_(Download!vars) PROVE DownloadInv'
  OBVIOUS
<1>typ. /\ pc \in {"fetch", "flush", "release", "done"}
        /\ offset \in 0 .. Size /\ offset \in Nat /\ Size \in Nat /\ chunkSize \in Nat /\ estimatedSize \in Nat
        /\ file \in Seq(Nat) /\ mRemainingData \in Seq(Nat)
  BY DownloadAssumption DEF DownloadInv
<1>fet. pc \in {"fetch", "flush"} => error = "None" /\ file \o mRemainingData = Download!Piece(0, offset)
  BY DEF DownloadInv
<1>sto. ASSUME UNCHANGED <<mode, estimatedSize, offset>>, file' \in Seq(Nat), mRemainingData' \in Seq(Nat),
               pc' \in {"release", "done"}, error' # "None"
        PROVE  DownloadInv'
  BY <1>sto, <1>typ DEF DownloadInv
<1>1. CASE Download!FetchChunk
  <2>0. pc = "fetch" /\ mode = "chunks" /\ UNCHANGED <<mode, estimatedSize>>
    BY <1>1 DEF Download!FetchChunk
  <2>1. CASE \E e \in Download!Errors : Download!AfterFailure(e) /\ UNCHANGED <<offset, Download!decoder>>
    <3>1. PICK e \in Download!Errors : Download!AfterFailure(e) /\ UNCHANGED <<offset, file, mRemainingData>>
      BY <2>1 DEF Download!decoder
    <3>2. e # "None"
      BY DEF Download!Errors
    <3>3. UNCHANGED <<pc, error>> \/ (pc' = "release" /\ error' = e)
      BY <3>1 DEF Download!AfterFailure, Download!Stop
    <3>4. CASE UNCHANGED <<pc, error>>
      BY <2>0, <3>1, <3>4 DEF DownloadInv
    <3>5. CASE pc' = "release" /\ error' = e
      BY <1>sto, <1>typ, <2>0, <3>1, <3>2, <3>5
    <3> QED BY <3>3, <3>4, <3>5
  <2>2. CASE offset = Size /\ pc' = "flush" /\ UNCHANGED <<offset, error, Download!decoder>>
    <3>1. UNCHANGED <<file, mRemainingData>>
      BY <2>2 DEF Download!decoder
    <3> QED BY <1>typ, <1>fet, <2>0, <2>2, <3>1 DEF DownloadInv
  <2>3. ASSUME NEW k \in 1 .. chunkSize, NEW r \in {"None", "File"}, offset + k <= Size,
               Download!AppendData(Download!Piece(offset, k), r),
               IF r # "None" THEN Download!Stop(r) /\ UNCHANGED offset
               ELSE /\ offset' = offset + k
                    /\ pc' = IF Download!EndOfPart(k, offset') THEN "flush" ELSE pc
                    /\ UNCHANGED error
        PROVE  DownloadInv'
    <3>0. k \in Nat /\ k >= 1
      BY <1>typ
    <3>1. /\ file' \in Seq(Nat) /\ mRemainingData' \in Seq(Nat)
          /\ r = "None" => file' \o mRemainingData' = Download!Piece(0, offset + k)
      BY <1>typ, <1>fet, <2>0, <2>3, <3>0, AppendDataKeeps
    <3>2. CASE r # "None"
      BY <1>sto, <2>0, <2>3, <3>1, <3>2 DEF Download!Stop
    <3>3. CASE r = "None"
      <4>1. /\ offset' = offset + k /\ error' = "None" /\ pc' \in {"fetch", "flush"}
            /\ pc' = "flush" => Download!EndOfPart(k, offset')
        BY <1>fet, <2>0, <2>3, <3>3
      <4>2. offset' \in 0 .. Size
        BY <1>typ, <2>3, <3>0, <4>1
      <4>3. pc' = "flush" /\ estimatedSize >= Size => offset' = Size
        BY <1>typ, <2>3, <3>0, <4>1, <4>2 DEF Download!EndOfPart
      <4> QED BY <1>typ, <2>0, <3>1, <3>3, <4>1, <4>2, <4>3 DEF DownloadInv
    <3> QED BY <3>2, <3>3
  <2> QED BY <1>1, <2>1, <2>2, <2>3 DEF Download!FetchChunk
<1>2. CASE Download!FlushChunks
  <2>1. /\ pc = "flush" /\ mode = "chunks" /\ pc' = "release"
        /\ UNCHANGED <<mode, estimatedSize, offset, error>>
    BY <1>2 DEF Download!FlushChunks
  <2>2. file' \in Seq(Nat) /\ mRemainingData' \in Seq(Nat)
    BY <1>2, <1>typ, FlushDataKeeps DEF Download!FlushChunks
  <2> QED BY <1>typ, <2>1, <2>2 DEF DownloadInv
<1>3. CASE Download!SelectFails
  <2>1. /\ pc' = "done" /\ error' # "None"
        /\ UNCHANGED <<mode, estimatedSize, offset, file, mRemainingData>>
    BY <1>3 DEF Download!SelectFails, Download!Errors, Download!decoder
  <2> QED BY <1>sto, <1>typ, <2>1
<1>4. CASE Download!Receive
  <2>0. pc = "fetch" /\ mode = "stream" /\ UNCHANGED <<mode, estimatedSize>>
    BY <1>4 DEF Download!Receive
  <2>1. CASE \E e \in Download!Errors : Download!Stop(e) /\ UNCHANGED <<offset, Download!decoder>>
    <3>1. pc' = "release" /\ error' # "None" /\ UNCHANGED <<offset, file, mRemainingData>>
      BY <2>1 DEF Download!decoder, Download!Stop, Download!Errors
    <3> QED BY <1>sto, <1>typ, <2>0, <3>1
  <2>2. CASE offset = Size /\ pc' = "flush" /\ UNCHANGED <<offset, error, Download!decoder>>
    <3>1. UNCHANGED <<file, mRemainingData>>
      BY <2>2 DEF Download!decoder
    <3> QED BY <1>typ, <1>fet, <2>0, <2>2, <3>1 DEF DownloadInv
  <2>3. ASSUME NEW k \in 1 .. Size - offset, NEW r \in {"None", "File"},
               Download!AppendData(Download!Piece(offset, k), r),
               IF r # "None" THEN Download!Stop("Connection") /\ UNCHANGED offset
               ELSE offset' = offset + k /\ UNCHANGED <<pc, error>>
        PROVE  DownloadInv'
    <3>0. k \in Nat /\ k >= 1 /\ offset + k <= Size
      BY <1>typ
    <3>1. /\ file' \in Seq(Nat) /\ mRemainingData' \in Seq(Nat)
          /\ r = "None" => file' \o mRemainingData' = Download!Piece(0, offset + k)
      BY <1>typ, <1>fet, <2>0, <2>3, <3>0, AppendDataKeeps
    <3>2. CASE r # "None"
      BY <1>sto, <2>0, <2>3, <3>1, <3>2 DEF Download!Stop
    <3>3. CASE r = "None"
      <4>1. offset' = offset + k /\ error' = "None" /\ pc' = "fetch"
        BY <1>fet, <2>0, <2>3, <3>3
      <4>2. offset' \in 0 .. Size
        BY <1>typ, <3>0, <4>1
      <4> QED BY <1>typ, <2>0, <3>1, <3>3, <4>1, <4>2 DEF DownloadInv
    <3> QED BY <3>2, <3>3
  <2> QED BY <1>4, <2>1, <2>2, <2>3 DEF Download!Receive
<1>5. CASE Download!FlushStream
  <2>1. /\ pc = "flush" /\ mode = "stream" /\ pc' = "release"
        /\ UNCHANGED <<mode, estimatedSize, offset>>
    BY <1>5 DEF Download!FlushStream
  <2>2. PICK r \in {"None", "File"} : Download!FlushData(r) /\ error' = r
    BY <1>5 DEF Download!FlushStream
  <2>3. /\ file' \in Seq(Nat) /\ mRemainingData' \in Seq(Nat)
        /\ r = "None" => file' = file \o mRemainingData
    BY <1>typ, <2>2, FlushDataKeeps
  <2>4. offset = Size /\ file \o mRemainingData = Download!Piece(0, Size)
    <3>1. error = "None" /\ file \o mRemainingData = Download!Piece(0, offset)
      BY <1>fet, <2>1
    <3>2. offset = Size
      BY <2>1, <3>1 DEF DownloadInv
    <3> QED BY <3>1, <3>2
  <2> QED BY <1>typ, <2>1, <2>2, <2>3, <2>4 DEF DownloadInv
<1>6. CASE Download!Release
  BY <1>6 DEF Download!Release, DownloadInv
<1>7. CASE UNCHANGED Download!vars
  BY <1>7 DEF Download!vars, Download!decoder, DownloadInv
<1> QED BY <1>1, <1>2, <1>3, <1>4, <1>5, <1>6, <1>7 DEF Download!Next

(* Whatever fails and is tried again, and whatever the server returns of    *)
(* each chunk: the file is the part up to offset, once and in order, with   *)
(* the rest of a quantum carried over; a success is the whole part unless    *)
(* the estimate was too small, and what was streamed is in the file         *)
(* (MCIMAPSession.cpp, fetchMessageAttachmentToFile...; MCDataStreamDecoder  *)
(* .cpp), for any size of the part, of a chunk and of a quantum.            *)
THEOREM DownloadKeepsPart == Download!Spec => []PartKept
<1> QED BY InitDownload, NextDownload, DownloadInvKept, PTL DEF Download!Spec

-----------------------------------------------------------------------------
(* POPSession: what the session believes, through every operation. *)

(* The sessions that believe what is so, with marks of M: while messages    *)
(* are deleted any, and otherwise none.                                     *)
Sound(M) ==
    {t \in POP!Session :
        /\ t.marked \in M
        /\ t.state # "DISCONNECTED" => t.pop # "NULL"
        /\ t.state = "DISCONNECTED" => t.marked = {}
        /\ t.pop = "up" => (t.peer = "transaction" <=> t.state \in {"LOGGEDIN", "LISTED"})}

(* The outcomes of a function of the session that leaves such sessions.     *)
Outcome(M) == [s : Sound(M), err : {"None", "NullPop"} \cup POP!Errors]
Outcomes(M) == SUBSET Outcome(M)

(* deleteMessage may mark one more.                                         *)
Marking(M) == \A m \in M, uid \in Uids : m \cup {uid} \in M

(* A function that succeeds at once.                                        *)
LEMMA OutSound ==
    ASSUME NEW M, NEW s \in Sound(M)
    PROVE  {POP!Out(s, "None")} \in Outcomes(M)
BY DEF Outcomes, Outcome, POP!Out

(* A command leaves a session that believes what is so if it does when it   *)
(* succeeds.                                                                *)
LEMMA CommandSound ==
    ASSUME NEW M, {} \in M, NEW s \in Sound(M),
           NEW ready \in BOOLEAN, NEW done,
           s.pop = "up" /\ ready => done \in Sound(M)
    PROVE  POP!Command(s, ready, done) \in Outcomes(M)
<1>1. CASE s.pop = "NULL"
  BY <1>1 DEF POP!Command, Outcomes, Outcome, POP!Out
<1>2. CASE s.pop = "down"
  BY <1>2 DEF POP!Command, Outcomes, Outcome, POP!Out, POP!Errors
<1>3. CASE s.pop = "up"
  <2>1. POP!Lost(s) \in Sound(M)
    BY DEF POP!Lost, Sound, POP!Session
  <2>2. POP!Command(s, ready, done) =
            {POP!Out(POP!Lost(s), "Connection"), POP!Out(s, "Other")}
                \cup (IF ready THEN {POP!Out(done, "None")} ELSE {})
    BY <1>3 DEF POP!Command
  <2> QED BY <1>3, <2>1, <2>2 DEF Outcomes, Outcome, POP!Out, POP!Errors
<1> QED BY <1>1, <1>2, <1>3 DEF Sound, POP!Session

(* connectIfNeeded.                                                         *)
LEMMA ConnectSound ==
    ASSUME NEW M, {} \in M, NEW s \in Sound(M)
    PROVE  POP!ConnectIfNeeded(s) \in Outcomes(M)
<1>1. CASE s.state = "DISCONNECTED"
  <2> DEFINE down == [s EXCEPT !.pop = "down", !.peer = "nobody"]
             up == [s EXCEPT !.pop = "up", !.peer = "greeted"]
             connected == [up EXCEPT !.state = "CONNECTED"]
  <2>1. down \in Sound(M) /\ up \in Sound(M) /\ connected \in Sound(M)
    BY <1>1 DEF Sound, POP!Session
  <2>2. POP!ConnectIfNeeded(s) =
            {POP!Out(down, "Connection"), POP!Out(up, "Other"), POP!Out(connected, "None")}
    BY <1>1 DEF POP!ConnectIfNeeded, POP!Connect
  <2> HIDE DEF down, up, connected
  <2> QED BY <2>1, <2>2 DEF Outcomes, Outcome, POP!Out, POP!Errors
<1>2. CASE s.state # "DISCONNECTED"
  BY <1>2, OutSound DEF POP!ConnectIfNeeded
<1> QED BY <1>1, <1>2

(* loginIfNeeded.                                                           *)
LEMMA LoginSound ==
    ASSUME NEW M, {} \in M, NEW s \in Sound(M)
    PROVE  POP!LoginIfNeeded(s) \in Outcomes(M)
<1>1. ASSUME NEW t \in Sound(M), t.state = "CONNECTED"
      PROVE  POP!Login(t) \in Outcomes(M)
  <2> DEFINE done == [t EXCEPT !.state = "LOGGEDIN", !.peer = "transaction", !.numbered = t.maildrop]
  <2>1. t.pop = "up" => done \in Sound(M)
    BY DEF Sound, POP!Session
  <2> HIDE DEF done
  <2>2. POP!Command(t, t.peer = "greeted", done) \in Outcomes(M)
    BY <2>1, CommandSound
  <2> QED BY <2>2 DEF POP!Login, done
<1>2. POP!ConnectIfNeeded(s) \in Outcomes(M)
  BY ConnectSound
<1>3. ASSUME NEW t \in Sound(M)
      PROVE  (IF t.state = "CONNECTED" THEN POP!Login(t) ELSE {POP!Out(t, "None")}) \in Outcomes(M)
  BY <1>1, OutSound
<1> QED BY <1>2, <1>3 DEF POP!LoginIfNeeded, POP!Then, Outcomes, Outcome

(* fetchMessages, and listIfNeeded.                                         *)
LEMMA ListSound ==
    ASSUME NEW M, {} \in M, NEW s \in Sound(M)
    PROVE  /\ POP!FetchMessages(s) \in Outcomes(M)
           /\ POP!ListIfNeeded(s) \in Outcomes(M)
<1>1. ASSUME NEW t \in Sound(M)
      PROVE  POP!Command(t, POP!InTransaction(t), [t EXCEPT !.state = "LISTED"]) \in Outcomes(M)
  <2> DEFINE done == [t EXCEPT !.state = "LISTED"]
  <2>1. t.pop = "up" /\ POP!InTransaction(t) => done \in Sound(M)
    BY DEF Sound, POP!Session, POP!InTransaction
  <2> HIDE DEF done
  <2>2. POP!InTransaction(t) \in BOOLEAN
    BY DEF POP!InTransaction
  <2>3. POP!Command(t, POP!InTransaction(t), done) \in Outcomes(M)
    BY <2>1, <2>2, CommandSound
  <2> QED BY <2>3 DEF done
<1>2. POP!LoginIfNeeded(s) \in Outcomes(M)
  BY LoginSound
<1>3. POP!FetchMessages(s) \in Outcomes(M)
  BY <1>1, <1>2 DEF POP!FetchMessages, POP!Then, Outcomes, Outcome
<1> QED BY <1>3, OutSound DEF POP!ListIfNeeded

(* fetchHeader and fetchMessage.                                            *)
LEMMA FetchSound ==
    ASSUME NEW M, {} \in M, NEW s \in Sound(M), NEW i
    PROVE  POP!FetchMessage(s, i) \in Outcomes(M)
<1>1. ASSUME NEW t \in Sound(M)
      PROVE  POP!Command(t, POP!Has(t, i), t) \in Outcomes(M)
  <2>1. POP!Has(t, i) \in BOOLEAN
    BY DEF POP!Has
  <2> QED BY <2>1, CommandSound
<1>2. POP!ListIfNeeded(s) \in Outcomes(M)
  BY ListSound
<1> QED BY <1>1, <1>2 DEF POP!FetchMessage, POP!Then, Outcomes, Outcome

(* deleteMessage.                                                           *)
LEMMA DeleteSound ==
    ASSUME NEW M, {} \in M, Marking(M), NEW s \in Sound(M), NEW i
    PROVE  POP!DeleteMessage(s, i) \in Outcomes(M)
<1>1. ASSUME NEW t \in Sound(M)
      PROVE  POP!Command(t, POP!Has(t, i),
                         IF i \in DOMAIN t.numbered
                         THEN [t EXCEPT !.marked = @ \cup {t.numbered[i]}] ELSE t) \in Outcomes(M)
  <2> DEFINE more == t.marked \cup {t.numbered[i]}
             marked == [t EXCEPT !.marked = more]
             done == IF i \in DOMAIN t.numbered THEN marked ELSE t
  <2>1. i \in DOMAIN t.numbered => more \in M /\ more \in SUBSET Uids
    <3>1. i \in DOMAIN t.numbered => t.numbered[i] \in Uids
      BY ElementOfSeq DEF Sound, POP!Session
    <3> QED BY <3>1 DEF Sound, POP!Session, Marking
  <2>2. t.pop = "up" /\ POP!Has(t, i) /\ i \in DOMAIN t.numbered => marked \in Sound(M)
    <3> HIDE DEF more
    <3> QED BY <2>1 DEF Sound, POP!Session, POP!Has, POP!InTransaction
  <2>3. t.pop = "up" /\ POP!Has(t, i) => done \in Sound(M)
    BY <2>2
  <2>4. POP!Has(t, i) \in BOOLEAN
    BY DEF POP!Has
  <2>5. POP!Command(t, POP!Has(t, i), done) \in Outcomes(M)
    <3> HIDE DEF done
    <3> QED BY <2>3, <2>4, CommandSound
  <2> QED BY <2>5
<1>2. POP!ListIfNeeded(s) \in Outcomes(M)
  BY ListSound
<1> QED BY <1>1, <1>2 DEF POP!DeleteMessage, POP!Then, Outcomes, Outcome

(* noop.                                                                    *)
LEMMA NoopSound ==
    ASSUME NEW M, {} \in M, NEW s \in Sound(M)
    PROVE  POP!Noop(s) \in Outcomes(M)
<1>1. ASSUME NEW t \in Sound(M)
      PROVE  {IF o.err = "Other" THEN POP!Out(o.s, "None") ELSE o :
                o \in POP!Command(t, POP!InTransaction(t), t)} \in Outcomes(M)
  <2>1. POP!Command(t, POP!InTransaction(t), t) \in Outcomes(M)
    BY CommandSound DEF POP!InTransaction
  <2> QED BY <2>1 DEF Outcomes, Outcome, POP!Out
<1>2. POP!LoginIfNeeded(s) \in Outcomes(M)
  BY LoginSound
<1>3. CASE s.pop = "NULL"
  <2>1. \A e \in POP!Errors \cup {"None"} : POP!Out(s, e) \in Outcome(M)
    BY DEF Outcome, POP!Out
  <2>2. POP!Noop(s) = {POP!Out(s, e) : e \in POP!Errors \cup {"None"}}
    BY <1>3 DEF POP!Noop
  <2> QED BY <2>1, <2>2 DEF Outcomes
<1>4. CASE s.pop # "NULL"
  BY <1>1, <1>2, <1>4 DEF POP!Noop, POP!Then, Outcomes, Outcome
<1> QED BY <1>3, <1>4

(* The loop of deleteMessages marks what is in its lists.                   *)
LEMMA MarkEachSound ==
    ASSUME NEW M, {} \in M, Marking(M), NEW s \in Sound(M),
           NEW indexes, NEW n \in Nat
    PROVE  POP!MarkEach(s, indexes, n) \in Outcomes(M)
<1> DEFINE Q == Outcomes(M)
           b == {POP!Out(s, "None")}
           Next1(outs, k) == IF k \in indexes THEN POP!Then(outs, LAMBDA t : POP!DeleteMessage(t, k)) ELSE outs
           F(a) == [k \in 0 .. n |-> IF k = 0 THEN b ELSE Next1(a[k - 1], k)]
           after == CHOOSE a : a = F(a)
           G == [k \in 1 .. n |-> [outs \in Q |-> Next1(outs, k)]]
<1>1. POP!MarkEach(s, indexes, n) = after[n]
  BY DEF POP!MarkEach
<1>2. n \in Nat
  OBVIOUS
<1>3. ASSUME NEW outs \in Q, NEW k \in 1 .. n PROVE Next1(outs, k) \in Q
  <2>1. \A t \in Sound(M) : POP!DeleteMessage(t, k) \in Q
    BY DeleteSound
  <2> QED BY <2>1 DEF POP!Then, Outcomes, Outcome
<1>0. b \in Q
  BY OutSound
<1> HIDE DEF Next1, b, Q
<1>4. after = F(after)
  <2>1. G \in [1 .. n -> [Q -> Q]]
    BY <1>3
  <2>2. PICK f : RunOf(f, n, Q, b, G)
    <3> HIDE DEF G
    <3> QED BY <1>0, <1>2, <2>1, RunExists
  <2>3. ASSUME NEW k \in 0 .. n PROVE f[k] = IF k = 0 THEN b ELSE Next1(f[k - 1], k)
    <3>1. CASE k = 0
      BY <2>2, <3>1 DEF RunOf
    <3>2. CASE k # 0
      <4>1. k \in 1 .. n /\ k - 1 \in 0 .. n
        BY <1>2, <3>2
      <4>2. f[k - 1] \in Q
        BY <2>2, <4>1 DEF RunOf
      <4>3. G[k][f[k - 1]] = Next1(f[k - 1], k)
        BY <4>1, <4>2
      <4> QED BY <2>2, <3>2, <4>1, <4>3 DEF RunOf
    <3> QED BY <3>1, <3>2
  <2>4. f = F(f)
    BY <2>2, <2>3 DEF RunOf
  <2> HIDE DEF F
  <2> QED BY <2>4
<1>5. after[0] = b /\ \A k \in 1 .. n : after[k] = Next1(after[k - 1], k)
  <2> HIDE DEF after
  <2>1. \A k \in 0 .. n : after[k] = IF k = 0 THEN b ELSE Next1(after[k - 1], k)
    BY <1>4
  <2> QED BY <1>2, <2>1
<1>6. after[0] \in Q /\ \A k \in 1 .. n : after[k - 1] \in Q => after[k] \in Q
  <2> HIDE DEF after
  <2> QED BY <1>0, <1>3, <1>5
<1>7. \A k \in 0 .. n : after[k] \in Q
  <2> HIDE DEF after
  <2> QED BY <1>2, <1>6, RunStays
<1>8. n \in 0 .. n
  BY <1>2
<1>9. after[n] \in Q
  BY <1>7, <1>8
<1> QED BY <1>1, <1>9 DEF Q

(* What QUIT leaves of the maildrop is a maildrop.                          *)
LEMMA CommittedIsSeq ==
    ASSUME NEW s, s.maildrop \in Seq(Uids)
    PROVE  POP!Committed(s) \in Seq(Uids)
<1> DEFINE n == Len(s.maildrop)
           Q == Seq(Uids)
           Next1(q, k) == IF s.maildrop[k] \in s.marked THEN q ELSE Append(q, s.maildrop[k])
           F(a) == [k \in 0 .. n |-> IF k = 0 THEN <<>> ELSE Next1(a[k - 1], k)]
           kept == CHOOSE a : a = F(a)
           G == [k \in 1 .. n |-> [q \in Q |-> Next1(q, k)]]
<1>1. POP!Committed(s) = kept[n]
  BY DEF POP!Committed
<1>2. n \in Nat /\ \A k \in 1 .. n : s.maildrop[k] \in Uids
  BY LenProperties, ElementOfSeq
<1>3. ASSUME NEW q \in Q, NEW k \in 1 .. n PROVE Next1(q, k) \in Q
  BY <1>2, AppendProperties
<1>0. <<>> \in Q
  BY EmptySeq
<1> HIDE DEF Next1, Q
<1>4. kept = F(kept)
  <2>1. G \in [1 .. n -> [Q -> Q]]
    BY <1>3
  <2>2. PICK f : RunOf(f, n, Q, <<>>, G)
    <3> HIDE DEF G, n
    <3> QED BY <1>0, <1>2, <2>1, RunExists
  <2>3. ASSUME NEW k \in 0 .. n PROVE f[k] = IF k = 0 THEN <<>> ELSE Next1(f[k - 1], k)
    <3>1. CASE k = 0
      BY <2>2, <3>1 DEF RunOf
    <3>2. CASE k # 0
      <4>1. k \in 1 .. n /\ k - 1 \in 0 .. n
        BY <1>2, <3>2
      <4>2. f[k - 1] \in Q
        BY <2>2, <4>1 DEF RunOf
      <4>3. G[k][f[k - 1]] = Next1(f[k - 1], k)
        BY <4>1, <4>2
      <4> QED BY <2>2, <3>2, <4>1, <4>3 DEF RunOf
    <3> QED BY <3>1, <3>2
  <2>4. f = F(f)
    BY <2>2, <2>3 DEF RunOf
  <2> HIDE DEF F
  <2> QED BY <2>4
<1>5. kept[0] = <<>> /\ \A k \in 1 .. n : kept[k] = Next1(kept[k - 1], k)
  <2> HIDE DEF kept
  <2>1. \A k \in 0 .. n : kept[k] = IF k = 0 THEN <<>> ELSE Next1(kept[k - 1], k)
    BY <1>4
  <2> QED BY <1>2, <2>1
<1>6. kept[0] \in Q /\ \A k \in 1 .. n : kept[k - 1] \in Q => kept[k] \in Q
  <2> HIDE DEF kept
  <2> QED BY <1>0, <1>3, <1>5
<1>7. \A k \in 0 .. n : kept[k] \in Q
  <2> HIDE DEF kept, n
  <2> QED BY <1>2, <1>6, RunStays
<1>8. n \in 0 .. n
  BY <1>2
<1>9. kept[n] \in Q
  BY <1>7, <1>8
<1> QED BY <1>1, <1>9 DEF Q

(* The session without a connection has no list and no marks.               *)
LEMMA DisconnectSound ==
    ASSUME NEW M, NEW s \in Sound(M), NEW t \in POP!Disconnect(s)
    PROVE  t \in Sound({{}})
<1>1. CASE s.pop = "NULL"
  <2>1. t = s
    BY <1>1 DEF POP!Disconnect
  <2> QED BY <1>1, <2>1 DEF Sound, POP!Session
<1>2. CASE s.pop # "NULL"
  <2> DEFINE left == POP!Committed(s)
             gone == POP!Gone(s)
  <2>1. t = gone \/ t = [gone EXCEPT !.maildrop = left]
    BY <1>2 DEF POP!Disconnect
  <2>2. left \in Seq(Uids)
    BY CommittedIsSeq DEF Sound, POP!Session
  <2>3. gone \in Sound({{}}) /\ gone.state = "DISCONNECTED" /\ gone.pop = "NULL"
    BY EmptySeq DEF POP!Gone, Sound, POP!Session
  <2> HIDE DEF left, gone
  <2> QED BY <2>1, <2>2, <2>3 DEF Sound, POP!Session
<1> QED BY <1>1, <1>2

(* deleteMessages leaves no mark, whatever it did.                          *)
LEMMA DeleteMessagesSound ==
    ASSUME NEW M, {} \in M, Marking(M), NEW s \in Sound(M),
           NEW indexes, NEW n \in Nat, NEW o \in POP!DeleteMessages(s, indexes, n)
    PROVE  o.s \in Sound({{}})
<1>0. PICK p \in POP!MarkEach(s, indexes, n) : \E t \in POP!Disconnect(p.s) : o = POP!Out(t, p.err)
  BY DEF POP!DeleteMessages
<1>1. PICK t \in POP!Disconnect(p.s) : o = POP!Out(t, p.err)
  BY <1>0
<1>2. p.s \in Sound(M)
  BY MarkEachSound DEF Outcomes, Outcome
<1>3. t \in Sound({{}})
  BY <1>1, <1>2, DisconnectSound
<1>4. o.s = t
  BY <1>1 DEF POP!Out
<1> QED BY <1>3, <1>4

(* The inductive invariant: between two operations the session is sound and *)
(* nothing is marked.                                                       *)
POPInv == session \in Sound({{}}) /\ known \in Seq(Uids)

(* It says what the property says.                                          *)
LEMMA POPInvBelieves == POPInv => BeliefTrue
BY DEF POPInv, Sound, BeliefTrue, POP!BeliefTrue, POP!NeverWithoutPop,
   POP!StateAgreesWithServer, POP!NoDeletionPending

(* It holds of a new session.                                               *)
LEMMA InitPOP == POP!Init => POPInv
BY MaildropAssumption, EmptySeq DEF POP!Init, POPInv, Sound, POP!Session

(* What the operations that mark nothing leave.                             *)
LEMMA PerformSound ==
    ASSUME NEW outs \in Outcomes({{}}), POP!Perform(outs)
    PROVE  session' \in Sound({{}})
BY DEF POP!Perform, Outcomes, Outcome

(* Every step keeps it.                                                     *)
LEMMA NextPOP == POPInv /\ [POP!Next]_(POP!vars) => POPInv'
<1> SUFFICES ASSUME POPInv, [POP!Next]_(POP!vars) PROVE POPInv'
  OBVIOUS
<1> DEFINE None == {{}}
<1>1. session \in Sound(None) /\ known \in Seq(Uids) /\ {} \in None
  BY DEF POPInv
<1>2. session \in Sound(SUBSET Uids) /\ {} \in SUBSET Uids /\ Marking(SUBSET Uids)
  BY <1>1 DEF Sound, POP!Session, Marking
<1> HIDE DEF None
<1>3. CASE POP!FetchMessagesOperation
  <2>1. session' \in Sound(None)
    BY <1>1, <1>3, ListSound, PerformSound DEF POP!FetchMessagesOperation, None
  <2>2. session'.numbered \in Seq(Uids)
    BY <2>1 DEF Sound, POP!Session
  <2> QED BY <1>1, <1>3, <2>1, <2>2 DEF POP!FetchMessagesOperation, POPInv, None
<1>4. CASE POP!CheckAccountOperation
  BY <1>1, <1>4, LoginSound, PerformSound DEF POP!CheckAccountOperation, POPInv, None
<1>5. CASE POP!NoopOperation
  BY <1>1, <1>5, NoopSound, PerformSound DEF POP!NoopOperation, POPInv, None
<1>6. ASSUME NEW i \in DOMAIN known, POP!FetchMessageOperation(i) PROVE POPInv'
  BY <1>1, <1>6, FetchSound, PerformSound DEF POP!FetchMessageOperation, POPInv, None
<1>7. ASSUME NEW indexes \in SUBSET DOMAIN known, POP!DeleteMessagesOperation(indexes) PROVE POPInv'
  <2>1. Len(known) \in Nat
    BY <1>1, LenProperties
  <2>2. session' \in Sound({{}}) /\ UNCHANGED known
    BY <1>2, <1>7, <2>1, DeleteMessagesSound DEF POP!DeleteMessagesOperation, POP!Perform
  <2> QED BY <1>1, <2>2 DEF POPInv
<1>8. CASE POP!NewMail
  <2>1. PICK uid \in Uids : session' = [session EXCEPT !.maildrop = Append(@, uid)]
    BY <1>8 DEF POP!NewMail
  <2>2. Append(session.maildrop, uid) \in Seq(Uids)
    BY <1>1, AppendProperties DEF Sound, POP!Session
  <2>3. UNCHANGED known
    BY <1>8 DEF POP!NewMail
  <2>4. session' \in Sound(None)
    BY <1>1, <2>1, <2>2 DEF Sound, POP!Session
  <2> QED BY <1>1, <2>3, <2>4 DEF POPInv, None
<1>9. CASE POP!ConnectionLost
  BY <1>1, <1>9 DEF POP!ConnectionLost, POP!Lost, POPInv, Sound, POP!Session, None
<1>10. CASE UNCHANGED POP!vars
  BY <1>10 DEF POP!vars, POPInv
<1> QED BY <1>3, <1>4, <1>5, <1>6, <1>7, <1>8, <1>9, <1>10 DEF POP!Next

(* POP: whatever failed before, a session that is not disconnected has an   *)
(* mPop, a session and a server that are connected agree on the state, and  *)
(* no deletion is left pending between two operations (MCPOPSession.cpp,    *)
(* MCPOPDeleteMessagesOperation.cpp), for any messages.                     *)
THEOREM POPBelief == POP!Spec => []BeliefTrue
<1> QED BY InitPOP, NextPOP, POPInvBelieves, PTL DEF POP!Spec

-----------------------------------------------------------------------------
(* AccountValidator: one search after the other. *)

(* The type of the validator's variables.                                   *)
ValidatorTypeOK ==
    /\ account.enabled \subseteq Validator!Services
    /\ services \in [Validator!Services -> Nat]
    /\ account.provided \in Nat
    /\ mError \in [Validator!Services -> Validator!Answers \cup {"NoValidServerFound"}]
    /\ mServer \in [Validator!Services -> Nat]
    /\ answers \in [Validator!Services -> Seq(Validator!Answers)]
    /\ completions \in Nat
    /\ mCurrentServiceTested \in Nat /\ mCurrentServiceIndex \in Nat
    /\ operation \in [state : {"none", "running", "posted"}, cancelled : BOOLEAN,
                      error : Validator!Answers]
    /\ resolver \in [state : {"none", "running", "posted"}, cancelled : BOOLEAN, found : BOOLEAN]
    /\ started \in BOOLEAN /\ cancelled \in BOOLEAN /\ timer \in BOOLEAN

(* The search has not begun.                                                *)
NotBegun ==
    /\ mCurrentServiceTested = Validator!IMAP /\ mCurrentServiceIndex = 0
    /\ \A s \in Validator!Services : mServer[s] = 0 /\ Len(answers[s]) = 0
    /\ completions = 0 /\ operation.state = "none"

(* Nothing works for the validator before it is started; then the resolver  *)
(* and its timer do, both or neither, until the search begins.              *)
Waiting ==
    /\ ~ started => NotBegun /\ ~ timer /\ resolver.state = "none" /\ ~ resolver.cancelled
    /\ timer => NotBegun
    /\ timer <=> resolver.state # "none" /\ ~ resolver.cancelled

(* What is known of a service is final: its server, if it has one, is the   *)
(* only one that accepted the account, and the last that was asked.         *)
Settled(s) ==
    mServer[s] # 0 =>
        /\ Len(answers[s]) = mServer[s]
        /\ \A k \in 1 .. Len(answers[s]) : answers[s][k] = "None" <=> k = mServer[s]

(* Nothing is known of a service.                                           *)
Untried(s) == mServer[s] = 0 /\ Len(answers[s]) = 0

(* Server i of service t is being tried, and those before it refused.       *)
Trying(t, i) ==
    /\ t \in Validator!Services /\ t \in account.enabled /\ i < services[t]
    /\ mServer[t] = i + 1 /\ Len(answers[t]) = i
    /\ \A k \in 1 .. i : answers[t][k] # "None"
    /\ \A s \in Validator!Services : (s < t => Settled(s)) /\ (s > t => Untried(s))

(* While an operation works the search is at its server, and has not ended; *)
(* when it has ended all that it knows is final.                            *)
Searching ==
    /\ operation.state # "none" =>
          completions = 0 /\ Trying(mCurrentServiceTested, mCurrentServiceIndex)
    /\ completions > 0 => \A s \in Validator!Services : Settled(s)
    /\ completions <= 1

(* The inductive invariant.                                                 *)
ValidatorInv == ValidatorTypeOK /\ Waiting /\ Searching /\ Validator!RefusalReported

(* It says what the property says.                                          *)
LEMMA ValidatorInvCorrect == ValidatorInv => SearchCorrect
<1> SUFFICES ASSUME ValidatorInv PROVE SearchCorrect
  OBVIOUS
<1>1. ValidatorTypeOK /\ Waiting /\ Searching /\ Validator!RefusalReported
  BY DEF ValidatorInv
<1>2. Validator!CompletedOnce
  BY <1>1 DEF Searching, Validator!CompletedOnce
<1>3. Validator!OneSearch
  BY <1>1 DEF Waiting, Searching, NotBegun, Validator!OneSearch
<1>4. Validator!ReportedServerIsFirstThatWorks
  BY <1>1 DEF Searching, Settled, Validator!ReportedServerIsFirstThatWorks
<1> QED BY <1>1, <1>2, <1>3, <1>4 DEF SearchCorrect, Validator!SearchCorrect

(* It holds before the start.                                               *)
LEMMA InitValidator == Validator!Init => ValidatorInv
<1> SUFFICES ASSUME Validator!Init PROVE ValidatorInv
  OBVIOUS
<1>1. ValidatorTypeOK
  <2>1. /\ account.enabled \subseteq Validator!Services /\ account.provided \in Nat
        /\ services \in [Validator!Services -> Nat]
    BY CountsAssumption DEF Validator!Init
  <2>2. answers \in [Validator!Services -> Seq(Validator!Answers)]
    BY EmptySeq DEF Validator!Init
  <2>3. operation \in [state : {"none", "running", "posted"}, cancelled : BOOLEAN,
                       error : Validator!Answers]
    BY DEF Validator!Init, Validator!Idle, Validator!Answers
  <2> QED BY <2>1, <2>2, <2>3 DEF Validator!Init, ValidatorTypeOK, Validator!IMAP, Validator!Answers
<1>2. NotBegun
  BY DEF Validator!Init, NotBegun, Validator!Idle
<1>3. Waiting
  BY <1>2 DEF Validator!Init, Waiting
<1>4. Searching
  BY <1>2 DEF NotBegun, Searching
<1>5. Validator!RefusalReported
  <2>1. \A s \in Validator!Services : \A k : k \notin 1 .. Len(answers[s])
    BY <1>2 DEF NotBegun
  <2> QED BY <2>1 DEF Validator!RefusalReported
<1> QED BY <1>1, <1>3, <1>4, <1>5 DEF ValidatorInv

(* What checkNextHost finds at server i of service s: the services before s *)
(* settled, the servers of s before i refused, and nothing after them tried. *)
ReadyAt(count, s, i, got) ==
    \A t \in Validator!Services :
        /\ t < s => (mServer[t] # 0 =>
                        /\ Len(got[t]) = mServer[t]
                        /\ \A k \in 1 .. Len(got[t]) : got[t][k] = "None" <=> k = mServer[t])
        /\ t > s => mServer[t] = 0 /\ Len(got[t]) = 0
        /\ t = s => /\ i = 0 => mServer[t] = 0
                    /\ i # 0 => t \in account.enabled /\ count[t] > 0
                    /\ Len(got[t]) = i /\ \A k \in 1 .. i : got[t][k] # "None"

(* What it leaves.                                                          *)
HostChecked ==
    /\ mCurrentServiceTested' \in Nat /\ mCurrentServiceIndex' \in Nat
    /\ operation' \in [state : {"none", "running", "posted"}, cancelled : BOOLEAN,
                       error : Validator!Answers]
    /\ mServer' \in [Validator!Services -> Nat] /\ completions' \in Nat
    /\ Searching'

(* checkNextHost at server i of service s: if all before it is settled, the *)
(* servers of s before i refused and nothing after it was tried, it tries a *)
(* server of which that is so again, or ends with everything settled.       *)
LEMMA NextHost ==
    ASSUME NEW count \in [Validator!Services -> Nat], NEW s \in 0 .. 3, NEW i \in Nat,
           ValidatorTypeOK, completions = 0, services' = count, account' = account,
           answers' \in [Validator!Services -> Seq(Validator!Answers)],
           Validator!CheckNextHost(count, s, i),
           ReadyAt(count, s, i, answers')
    PROVE  HostChecked
<1>rea. \A t \in Validator!Services :
           /\ t < s => (mServer[t] # 0 =>
                           /\ Len(answers'[t]) = mServer[t]
                           /\ \A k \in 1 .. Len(answers'[t]) : answers'[t][k] = "None" <=> k = mServer[t])
           /\ t > s => mServer[t] = 0 /\ Len(answers'[t]) = 0
           /\ t = s => /\ i = 0 => mServer[t] = 0
                       /\ i # 0 => t \in account.enabled /\ count[t] > 0
                       /\ Len(answers'[t]) = i /\ \A k \in 1 .. i : answers'[t][k] # "None"
  BY DEF ReadyAt
<1> DEFINE open == {t \in Validator!Services : t >= s /\ t \in account.enabled /\ count[t] > 0}
           u == CHOOSE t \in open : \A v \in open : t <= v
           index == IF u = s THEN i ELSE 0
<1>typ. /\ mServer \in [Validator!Services -> Nat]
        /\ operation \in [state : {"none", "running", "posted"}, cancelled : BOOLEAN,
                          error : Validator!Answers]
  BY DEF ValidatorTypeOK
<1>ser. Validator!Services = {0, 1, 2}
  BY DEF Validator!Services, Validator!IMAP, Validator!POP, Validator!SMTP
<1>ans. \A t \in Validator!Services : Len(answers'[t]) \in Nat
  BY LenProperties
<1>1. CASE open = {}
  <2>1. /\ mCurrentServiceTested' = 3 /\ mCurrentServiceIndex' = 0 /\ mServer' = mServer
        /\ completions' = 1 /\ operation' = [operation EXCEPT !.state = "none"]
    BY <1>1 DEF Validator!CheckNextHost, Validator!Complete, Validator!SMTP
  <2>2. i # 0 => s \notin Validator!Services
    BY <1>1, <1>rea
  <2>3. \A t \in Validator!Services : Settled(t)'
    <3> SUFFICES ASSUME NEW t \in Validator!Services PROVE Settled(t)'
      OBVIOUS
    <3>1. t < s \/ t = s \/ t > s
      BY <1>ser
    <3>2. mServer[t] = 0 \/ t < s
      BY <1>rea, <2>2, <3>1
    <3>3. mServer'[t] = 0 \/ (t < s /\ mServer'[t] = mServer[t])
      BY <2>1, <3>2
    <3> QED BY <1>rea, <3>3 DEF Settled
  <2>4. operation' \in [state : {"none", "running", "posted"}, cancelled : BOOLEAN,
                        error : Validator!Answers] /\ operation'.state = "none"
    BY <1>typ, <2>1
  <2>5. Searching'
    BY <2>1, <2>3, <2>4 DEF Searching
  <2> QED BY <1>typ, <2>1, <2>4, <2>5 DEF HostChecked
<1>2. CASE open # {}
  <2>1. \E t \in open : \A v \in open : t <= v
    <3>1. open \subseteq Nat
      BY <1>ser
    <3> HIDE DEF open
    <3> QED BY <1>2, <3>1, SmallestNumber
  <2>2. u \in open /\ \A v \in open : u <= v
    <3> HIDE DEF open
    <3> QED BY <2>1
  <2>3. u \in Validator!Services /\ u >= s /\ u \in account.enabled /\ count[u] > 0 /\ index \in Nat
    <3> HIDE DEF u
    <3> QED BY <2>2
  <2>4. /\ mCurrentServiceTested' = u /\ mCurrentServiceIndex' = index
        /\ \/ /\ index < count[u]
              /\ operation' = [Validator!Idle EXCEPT !.state = "running"]
              /\ mServer' = [mServer EXCEPT ![u] = index + 1] /\ completions' = completions
           \/ /\ ~ (index < count[u])
              /\ completions' = completions + 1
              /\ operation' = [operation EXCEPT !.state = "none"]
              /\ mServer' = [mServer EXCEPT ![u] = 0]
    BY <1>2 DEF Validator!CheckNextHost, Validator!Complete
  <2>5. u # s => i = 0 \/ s \notin Validator!Services
    <3>1. s \in Validator!Services /\ i # 0 => s \in open
      BY <1>ser, <1>rea
    <3> HIDE DEF u, open
    <3> QED BY <1>ser, <2>2, <2>3, <3>1
  <2>p. PICK w \in Validator!Services, j \in Nat : w = u /\ j = index
    <3> HIDE DEF u
    <3> QED BY <2>3
  <2> HIDE DEF u, index
  <2>q. /\ w >= s /\ w \in account.enabled /\ count[w] > 0
        /\ w # s => (i = 0 \/ s \notin Validator!Services)
        /\ w = s => j = i
        /\ w # s => j = 0
    <3>1. j = IF w = s THEN i ELSE 0
      BY <2>p DEF index
    <3> QED BY <2>3, <2>5, <2>p, <3>1
  <2>r. /\ mCurrentServiceTested' = w /\ mCurrentServiceIndex' = j
        /\ \/ /\ j < count[w]
              /\ operation' = [Validator!Idle EXCEPT !.state = "running"]
              /\ mServer' = [mServer EXCEPT ![w] = j + 1] /\ completions' = completions
           \/ /\ ~ (j < count[w])
              /\ completions' = completions + 1
              /\ operation' = [operation EXCEPT !.state = "none"]
              /\ mServer' = [mServer EXCEPT ![w] = 0]
    BY <2>4, <2>p
  <2>6. \A t \in Validator!Services : t # w =>
            /\ mServer'[t] = mServer[t]
            /\ t < w => Settled(t)'
            /\ t > w => Untried(t)'
    <3> SUFFICES ASSUME NEW t \in Validator!Services, t # w
                 PROVE  /\ mServer'[t] = mServer[t]
                        /\ t < w => Settled(t)'
                        /\ t > w => Untried(t)'
      OBVIOUS
    <3>1. mServer'[t] = mServer[t]
      BY <1>typ, <2>q, <2>r
    <3>2. t < w => Settled(t)'
      <4>1. CASE t < s
        BY <1>rea, <3>1, <4>1 DEF Settled
      <4>2. CASE t = s
        <5>1. i = 0
          BY <2>q, <4>2
        <5> QED BY <1>rea, <3>1, <4>2, <5>1 DEF Settled
      <4>3. CASE t > s
        BY <1>rea, <3>1, <4>3 DEF Settled
      <4> QED BY <1>ser, <4>1, <4>2, <4>3
    <3>3. t > w => Untried(t)'
      BY <1>rea, <1>ser, <2>q, <3>1 DEF Untried
    <3> QED BY <3>1, <3>2, <3>3
  <2>7. Len(answers'[w]) = j /\ \A k \in 1 .. j : answers'[w][k] # "None"
    <3>1. CASE w = s
      BY <1>rea, <2>q, <3>1
    <3>2. CASE w # s
      <4>1. w > s
        BY <1>ser, <2>q, <3>2
      <4> QED BY <1>rea, <2>q, <3>2, <4>1
    <3> QED BY <3>1, <3>2
  <2>8. CASE j < count[w]
    <3>1. /\ operation' = [state |-> "running", cancelled |-> FALSE, error |-> "None"]
          /\ mServer' = [mServer EXCEPT ![w] = j + 1] /\ completions' = 0
      BY <2>r, <2>8 DEF Validator!Idle
    <3>2. mServer'[w] = j + 1 /\ mServer' \in [Validator!Services -> Nat]
      BY <1>typ, <2>q, <3>1
    <3>3. Trying(w, j)'
      <4>1. w \in account'.enabled /\ j < services'[w]
        BY <2>q, <2>8
      <4>2. \A t \in Validator!Services : (t < w => Settled(t)') /\ (t > w => Untried(t)')
        BY <1>ser, <2>6
      <4> QED BY <2>7, <3>2, <4>1, <4>2 DEF Trying
    <3>4. Trying(mCurrentServiceTested, mCurrentServiceIndex)'
      BY <2>r, <3>3 DEF Trying
    <3>5. Searching'
      BY <3>1, <3>4 DEF Searching
    <3> QED BY <1>ser, <2>q, <2>r, <3>1, <3>2, <3>5 DEF Validator!Answers, HostChecked
  <2>9. CASE ~ (j < count[w])
    <3>1. /\ operation' = [operation EXCEPT !.state = "none"]
          /\ mServer' = [mServer EXCEPT ![w] = 0] /\ completions' = 1
      BY <2>r, <2>9
    <3>2. mServer'[w] = 0 /\ mServer' \in [Validator!Services -> Nat]
      BY <1>typ, <2>q, <3>1
    <3>3. \A t \in Validator!Services : Settled(t)'
      <4> SUFFICES ASSUME NEW t \in Validator!Services PROVE Settled(t)'
        OBVIOUS
      <4>1. t < w \/ t = w \/ t > w
        BY <1>ser, <2>q
      <4> QED BY <2>6, <3>2, <4>1 DEF Settled, Untried
    <3>4. operation' \in [state : {"none", "running", "posted"}, cancelled : BOOLEAN,
                          error : Validator!Answers] /\ operation'.state = "none"
      BY <1>typ, <3>1
    <3>5. Searching'
      BY <3>1, <3>3, <3>4 DEF Searching
    <3> QED BY <1>typ, <1>ser, <2>q, <2>r, <3>1, <3>2, <3>4, <3>5 DEF HostChecked
  <2> QED BY <2>8, <2>9
<1> QED BY <1>1, <1>2

(* startCheckingHosts, which begins the search.                             *)
LEMMA StartHosts ==
    ASSUME ValidatorInv, NotBegun, NEW provider \in BOOLEAN, Validator!StartCheckingHosts(provider),
           account' = account, answers' = answers
    PROVE  /\ services' \in [Validator!Services -> Nat]
           /\ mError' \in [Validator!Services -> Validator!Answers \cup {"NoValidServerFound"}]
           /\ mCurrentServiceTested' \in Nat /\ mCurrentServiceIndex' \in Nat
           /\ operation' \in [state : {"none", "running", "posted"}, cancelled : BOOLEAN,
                              error : Validator!Answers]
           /\ mServer' \in [Validator!Services -> Nat] /\ completions' \in Nat
           /\ Searching' /\ Validator!RefusalReported'
<1> DEFINE count == Validator!SetupServices(provider)
<1>typ. ValidatorTypeOK /\ Searching
  BY DEF ValidatorInv
<1>1. count \in [Validator!Services -> Nat] /\ services' = count
  BY <1>typ DEF ValidatorTypeOK, Validator!SetupServices, Validator!StartCheckingHosts
<1> HIDE DEF count
<1>2. Validator!RefusalReported'
  <2>1. \A s \in Validator!Services : \A k : k \notin 1 .. Len(answers'[s])
    BY DEF NotBegun
  <2> QED BY <2>1 DEF Validator!RefusalReported
<1>3. CASE account.password
  <2>1. Validator!CheckNextHost(count, 0, 0)
    BY <1>3 DEF Validator!StartCheckingHosts, NotBegun, Validator!IMAP, count
  <2>2. mError' \in [Validator!Services -> Validator!Answers \cup {"NoValidServerFound"}]
    BY <1>3, <1>typ DEF Validator!StartCheckingHosts, ValidatorTypeOK
  <2>3. \A t \in Validator!Services : mServer[t] = 0 /\ Len(answers'[t]) = 0
    BY DEF NotBegun
  <2>4. \A t \in Validator!Services : ~ (t < 0)
    BY DEF Validator!Services, Validator!IMAP, Validator!POP, Validator!SMTP
  <2>5. answers' \in [Validator!Services -> Seq(Validator!Answers)] /\ completions = 0
    BY <1>typ DEF ValidatorTypeOK, NotBegun
  <2>6. ReadyAt(count, 0, 0, answers')
    BY <2>3, <2>4 DEF ReadyAt
  <2>7. HostChecked
    BY <1>typ, <1>1, <2>1, <2>5, <2>6, NextHost
  <2> QED BY <1>1, <1>2, <2>2, <2>7 DEF HostChecked
<1>4. CASE ~ account.password
  <2>1. /\ completions' = 1 /\ operation' = [operation EXCEPT !.state = "none"]
        /\ UNCHANGED <<mError, mServer, mCurrentServiceTested, mCurrentServiceIndex>>
    BY <1>4 DEF Validator!StartCheckingHosts, Validator!Complete, NotBegun
  <2>2. \A s \in Validator!Services : Settled(s)'
    BY <2>1 DEF NotBegun, Settled
  <2>3. operation' \in [state : {"none", "running", "posted"}, cancelled : BOOLEAN,
                        error : Validator!Answers] /\ operation'.state = "none"
    BY <1>typ, <2>1 DEF ValidatorTypeOK
  <2>4. Searching'
    BY <2>1, <2>2, <2>3 DEF Searching
  <2> QED BY <1>typ, <1>1, <1>2, <2>1, <2>3, <2>4 DEF ValidatorTypeOK
<1> QED BY <1>3, <1>4

(* Every step keeps it.                                                     *)
LEMMA NextValidator == ValidatorInv /\ [Validator!Next]_(Validator!vars) => ValidatorInv'
<1> SUFFICES ASSUME ValidatorInv, [Validator!Next]_(Validator!vars) PROVE ValidatorInv'
  OBVIOUS
<1>typ. ValidatorTypeOK /\ Waiting /\ Searching /\ Validator!RefusalReported
  BY DEF ValidatorInv
<1>res. resolver \in [state : {"none", "running", "posted"}, cancelled : BOOLEAN, found : BOOLEAN]
  BY <1>typ DEF ValidatorTypeOK
<1>ope. operation \in [state : {"none", "running", "posted"}, cancelled : BOOLEAN,
                       error : Validator!Answers]
  BY <1>typ DEF ValidatorTypeOK
<1>beg. ASSUME NotBegun, NEW provider \in BOOLEAN, Validator!StartCheckingHosts(provider),
               UNCHANGED <<account, answers, cancelled>>, started', timer' = FALSE,
               resolver' \in [state : {"none", "running", "posted"}, cancelled : BOOLEAN, found : BOOLEAN],
               resolver'.state = "none" \/ resolver'.cancelled,
               started' \in BOOLEAN
        PROVE  ValidatorInv'
  <2>1. /\ services' \in [Validator!Services -> Nat]
        /\ mError' \in [Validator!Services -> Validator!Answers \cup {"NoValidServerFound"}]
        /\ mCurrentServiceTested' \in Nat /\ mCurrentServiceIndex' \in Nat
        /\ operation' \in [state : {"none", "running", "posted"}, cancelled : BOOLEAN,
                           error : Validator!Answers]
        /\ mServer' \in [Validator!Services -> Nat] /\ completions' \in Nat
        /\ Searching' /\ Validator!RefusalReported'
    BY <1>beg, StartHosts
  <2>2. ValidatorTypeOK'
    BY <1>typ, <1>beg, <2>1 DEF ValidatorTypeOK
  <2>3. Waiting'
    BY <1>beg DEF Waiting
  <2> QED BY <2>1, <2>2, <2>3 DEF ValidatorInv
<1>fra. ASSUME UNCHANGED <<account, services, mError, mServer, mCurrentServiceTested, mCurrentServiceIndex,
                           answers, completions>>,
               operation'.state # "none" => operation.state # "none"
        PROVE  Searching' /\ Validator!RefusalReported'
  <2>1. \A s \in Validator!Services : (Settled(s)' <=> Settled(s)) /\ (Untried(s)' <=> Untried(s))
    BY <1>fra DEF Settled, Untried
  <2>2. Trying(mCurrentServiceTested, mCurrentServiceIndex)' <=> Trying(mCurrentServiceTested, mCurrentServiceIndex)
    BY <1>fra, <2>1 DEF Trying
  <2>3. Searching'
    BY <1>fra, <1>typ, <2>1, <2>2 DEF Searching
  <2>4. Validator!RefusalReported'
    BY <1>fra, <1>typ DEF Validator!RefusalReported
  <2> QED BY <2>3, <2>4
<1>1. CASE Validator!Start
  <2>1. /\ ~ started /\ started' = TRUE /\ UNCHANGED <<account, cancelled, answers>>
        /\ NotBegun /\ timer = FALSE /\ resolver.state = "none" /\ ~ resolver.cancelled
    BY <1>1, <1>typ DEF Validator!Start, Waiting, ValidatorTypeOK
  <2>2. CASE account.address = "missing" /\ UNCHANGED <<timer, resolver, Validator!search>>
    <3>1. UNCHANGED <<timer, resolver, services, mError, mServer, mCurrentServiceTested,
                      mCurrentServiceIndex, operation, completions>>
      BY <2>2 DEF Validator!search
    <3>2. ValidatorTypeOK'
      BY <1>typ, <2>1, <3>1 DEF ValidatorTypeOK
    <3>3. Waiting'
      BY <2>1, <3>1 DEF Waiting, NotBegun
    <3> QED BY <1>fra, <2>1, <3>1, <3>2, <3>3 DEF ValidatorInv
  <2>3. CASE account.address = "of a provider" /\ Validator!StartCheckingHosts(TRUE) /\ UNCHANGED <<timer, resolver>>
    BY <1>beg, <1>res, <2>1, <2>3
  <2>4. CASE /\ account.address = "without domain"
             /\ mError' = [s \in Validator!Services |-> "NoValidServerFound"]
             /\ Validator!Complete
             /\ UNCHANGED <<timer, resolver, services, mServer, mCurrentServiceTested, mCurrentServiceIndex>>
    <3>0. completions' = completions + 1 /\ operation' = [operation EXCEPT !.state = "none"]
      BY <2>4 DEF Validator!Complete
    <3>1. completions' = 1 /\ operation' = [operation EXCEPT !.state = "none"]
      BY <2>1, <3>0 DEF NotBegun
    <3>2. operation' \in [state : {"none", "running", "posted"}, cancelled : BOOLEAN,
                          error : Validator!Answers] /\ operation'.state = "none"
      BY <1>ope, <3>1
    <3>3. ValidatorTypeOK'
      BY <1>typ, <2>1, <2>4, <3>1, <3>2 DEF ValidatorTypeOK
    <3>4. Waiting'
      BY <2>1, <2>4 DEF Waiting
    <3>5. Searching'
      <4>1. \A s \in Validator!Services : Settled(s)'
        BY <2>1, <2>4 DEF Settled, NotBegun
      <4> QED BY <3>1, <3>2, <4>1 DEF Searching
    <3>6. Validator!RefusalReported'
      <4>1. \A s \in Validator!Services : \A k : k \notin 1 .. Len(answers'[s])
        BY <2>1 DEF NotBegun
      <4> QED BY <4>1 DEF Validator!RefusalReported
    <3> QED BY <3>3, <3>4, <3>5, <3>6 DEF ValidatorInv
  <2>5. CASE /\ account.address = "unknown"
             /\ timer' = TRUE
             /\ resolver' = [resolver EXCEPT !.state = "running"]
             /\ UNCHANGED Validator!search
    <3>1. UNCHANGED <<services, mError, mServer, mCurrentServiceTested,
                      mCurrentServiceIndex, operation, completions>>
      BY <2>5 DEF Validator!search
    <3>2. /\ resolver' \in [state : {"none", "running", "posted"}, cancelled : BOOLEAN, found : BOOLEAN]
          /\ resolver'.state = "running" /\ ~ resolver'.cancelled
      BY <1>res, <2>1, <2>5
    <3>3. Waiting'
      BY <2>1, <2>5, <3>1, <3>2 DEF Waiting, NotBegun
    <3>4. ValidatorTypeOK'
      BY <1>typ, <2>1, <2>5, <3>1, <3>2 DEF ValidatorTypeOK
    <3> QED BY <1>fra, <2>1, <3>1, <3>3, <3>4 DEF ValidatorInv
  <2> QED BY <1>1, <2>2, <2>3, <2>4, <2>5 DEF Validator!Start
<1>2. CASE Validator!Cancel
  <2>1. /\ started /\ cancelled' = TRUE /\ timer' = FALSE
        /\ operation' = [operation EXCEPT !.cancelled = @ \/ operation.state # "none"]
        /\ resolver' = [resolver EXCEPT !.cancelled = @ \/ resolver.state # "none"]
        /\ UNCHANGED <<account, started, services, mError, mServer, mCurrentServiceTested,
                       mCurrentServiceIndex, answers, completions>>
    BY <1>2 DEF Validator!Cancel
  <2>2. /\ operation' \in [state : {"none", "running", "posted"}, cancelled : BOOLEAN,
                           error : Validator!Answers]
        /\ operation'.state = operation.state
    BY <1>ope, <2>1
  <2>3. /\ resolver' \in [state : {"none", "running", "posted"}, cancelled : BOOLEAN, found : BOOLEAN]
        /\ resolver'.state = "none" \/ resolver'.cancelled
    BY <1>res, <2>1
  <2>4. ValidatorTypeOK'
    BY <1>typ, <2>1, <2>2, <2>3 DEF ValidatorTypeOK
  <2>5. Waiting'
    BY <2>1, <2>3 DEF Waiting
  <2>6. Searching' /\ Validator!RefusalReported'
    BY <1>fra, <2>1, <2>2
  <2> QED BY <2>4, <2>5, <2>6 DEF ValidatorInv
<1>3. CASE Validator!ResolverEnds
  <2>1. /\ resolver.state = "running"
        /\ UNCHANGED <<account, started, cancelled, timer, answers, services, mError, mServer,
                       mCurrentServiceTested, mCurrentServiceIndex, operation, completions>>
    BY <1>3 DEF Validator!ResolverEnds, Validator!search
  <2>2. PICK found \in BOOLEAN :
            resolver' = [resolver EXCEPT !.state = IF resolver.cancelled THEN "none" ELSE "posted",
                                         !.found = found]
    BY <1>3 DEF Validator!ResolverEnds
  <2>3. /\ resolver' \in [state : {"none", "running", "posted"}, cancelled : BOOLEAN, found : BOOLEAN]
        /\ resolver'.cancelled = resolver.cancelled
        /\ ~ resolver.cancelled => resolver'.state = "posted"
    BY <1>res, <2>2
  <2>4. ValidatorTypeOK'
    BY <1>typ, <2>1, <2>3 DEF ValidatorTypeOK
  <2>5. Waiting'
    BY <1>typ, <2>1, <2>3 DEF Waiting, NotBegun
  <2>6. Searching' /\ Validator!RefusalReported'
    BY <1>fra, <2>1, <2>2
  <2> QED BY <2>4, <2>5, <2>6 DEF ValidatorInv
<1>4. CASE Validator!ResolveMXDone
  <2>1. /\ resolver.state = "posted" /\ resolver' = [resolver EXCEPT !.state = "none"]
        /\ UNCHANGED <<account, started, cancelled, answers>>
    BY <1>4 DEF Validator!ResolveMXDone
  <2>2. /\ resolver' \in [state : {"none", "running", "posted"}, cancelled : BOOLEAN, found : BOOLEAN]
        /\ resolver'.state = "none"
        /\ resolver.found \in BOOLEAN /\ started
    BY <1>res, <1>typ, <2>1 DEF Waiting
  <2>3. CASE resolver.cancelled
    <3>1. UNCHANGED <<timer, services, mError, mServer, mCurrentServiceTested, mCurrentServiceIndex,
                      operation, completions>>
      BY <1>4, <2>3 DEF Validator!ResolveMXDone, Validator!search
    <3>2. ValidatorTypeOK'
      BY <1>typ, <2>1, <2>2, <3>1 DEF ValidatorTypeOK
    <3>3. Waiting'
      BY <1>typ, <2>1, <2>2, <2>3, <3>1 DEF Waiting, NotBegun
    <3>4. Searching' /\ Validator!RefusalReported'
      BY <1>fra, <2>1, <3>1
    <3> QED BY <3>2, <3>3, <3>4 DEF ValidatorInv
  <2>4. CASE ~ resolver.cancelled
    <3>1. timer' = FALSE /\ Validator!StartCheckingHosts(resolver.found) /\ NotBegun
      BY <1>4, <1>typ, <2>1, <2>4 DEF Validator!ResolveMXDone, Waiting
    <3>2. started' \in BOOLEAN
      BY <1>typ, <2>1 DEF ValidatorTypeOK
    <3> QED BY <1>beg, <2>1, <2>2, <3>1, <3>2
  <2> QED BY <2>3, <2>4
<1>5. CASE Validator!ResolveMXTimeout
  <2>1. /\ timer /\ timer' = FALSE /\ resolver' = [resolver EXCEPT !.cancelled = TRUE]
        /\ Validator!StartCheckingHosts(FALSE)
        /\ UNCHANGED <<account, started, cancelled, answers>>
    BY <1>5 DEF Validator!ResolveMXTimeout
  <2>2. NotBegun /\ started
    BY <1>typ, <2>1 DEF Waiting
  <2>3. resolver' \in [state : {"none", "running", "posted"}, cancelled : BOOLEAN, found : BOOLEAN]
        /\ resolver'.cancelled
    BY <1>res, <2>1
  <2>4. started' \in BOOLEAN
    BY <1>typ, <2>1 DEF ValidatorTypeOK
  <2> QED BY <1>beg, <2>1, <2>2, <2>3, <2>4
<1>6. CASE Validator!OperationEnds
  <2>1. /\ operation.state = "running"
        /\ UNCHANGED <<account, started, cancelled, timer, resolver, services, mError, mServer,
                       mCurrentServiceTested, mCurrentServiceIndex, answers, completions>>
    BY <1>6 DEF Validator!OperationEnds
  <2>2. PICK e \in Validator!Answers :
            operation' = [operation EXCEPT !.state = IF operation.cancelled THEN "none" ELSE "posted",
                                           !.error = e]
    BY <1>6 DEF Validator!OperationEnds
  <2>3. operation' \in [state : {"none", "running", "posted"}, cancelled : BOOLEAN,
                        error : Validator!Answers]
    BY <1>ope, <2>2
  <2>4. ValidatorTypeOK'
    BY <1>typ, <2>1, <2>3 DEF ValidatorTypeOK
  <2>5. Waiting'
    BY <1>typ, <2>1 DEF Waiting, NotBegun
  <2>6. Searching' /\ Validator!RefusalReported'
    BY <1>fra, <2>1, <2>2
  <2> QED BY <2>4, <2>5, <2>6 DEF ValidatorInv
<1>7. CASE Validator!CheckNextHostDone
  <2> DEFINE t == mCurrentServiceTested
             i == mCurrentServiceIndex
             before == mError[t]
             e == operation.error
             after == Validator!ErrorAfter(before, e)
  <2>1. /\ operation.state = "posted"
        /\ mError' = [mError EXCEPT ![t] = after]
        /\ answers' = [answers EXCEPT ![t] = Append(@, e)]
        /\ IF after = "None" THEN Validator!CheckNextHost(services, t + 1, 0)
                             ELSE Validator!CheckNextHost(services, t, i + 1)
        /\ UNCHANGED <<account, started, cancelled, timer, resolver, services>>
    BY <1>7 DEF Validator!CheckNextHostDone
  <2>2. completions = 0 /\ Trying(t, i)
    BY <1>typ, <2>1 DEF Searching
  <2>3. /\ t \in Validator!Services /\ i \in Nat /\ e \in Validator!Answers /\ t \in 0 .. 2
        /\ before \in Validator!Answers \cup {"NoValidServerFound"}
        /\ answers[t] \in Seq(Validator!Answers)
    BY <1>typ, <1>ope, <2>2 DEF Trying, ValidatorTypeOK, Validator!Services, Validator!IMAP,
       Validator!POP, Validator!SMTP
  <2>4. after \in Validator!Answers /\ (after = "None" <=> e = "None")
    BY <2>3 DEF Validator!ErrorAfter, Validator!Answers
  <2>5. QueueFacts(Validator!Answers, answers[t])
    BY <2>3, QueueLemma
  <2>6. /\ answers' \in [Validator!Services -> Seq(Validator!Answers)]
        /\ \A s \in Validator!Services : s # t => answers'[s] = answers[s]
        /\ Len(answers'[t]) = i + 1 /\ answers'[t][i + 1] = e
        /\ \A k \in 1 .. i : answers'[t][k] = answers[t][k]
        /\ \A k \in 1 .. i : answers'[t][k] # "None"
    <3>1. answers'[t] = Append(answers[t], e)
      BY <1>typ, <2>1, <2>3 DEF ValidatorTypeOK
    <3>2. Len(answers[t]) = i /\ \A k \in 1 .. i : answers[t][k] # "None"
      BY <2>2 DEF Trying
    <3>3. /\ Append(answers[t], e) \in Seq(Validator!Answers)
          /\ Len(Append(answers[t], e)) = i + 1 /\ Append(answers[t], e)[i + 1] = e
          /\ \A k \in 1 .. i : Append(answers[t], e)[k] = answers[t][k]
      BY <2>3, <2>5, <3>2 DEF QueueFacts
    <3>4. answers' \in [Validator!Services -> Seq(Validator!Answers)]
      BY <1>typ, <2>1, <3>3 DEF ValidatorTypeOK
    <3>5. \A s \in Validator!Services : s # t => answers'[s] = answers[s]
      BY <1>typ, <2>1 DEF ValidatorTypeOK
    <3> QED BY <3>1, <3>2, <3>3, <3>4, <3>5
  <2>ser. \A s \in Validator!Services : s \in 0 .. 2
    BY DEF Validator!Services, Validator!IMAP, Validator!POP, Validator!SMTP
  <2>ord. \A s \in Validator!Services : (s < t => Settled(s)) /\ (s > t => Untried(s))
    BY <2>2 DEF Trying
  <2>srv. services \in [Validator!Services -> Nat]
    BY <1>typ DEF ValidatorTypeOK
  <2>7. ASSUME after = "None" PROVE HostChecked
    <3>1. Validator!CheckNextHost(services, t + 1, 0) /\ e = "None"
      BY <2>1, <2>4, <2>7
    <3>2. \A s \in Validator!Services :
             /\ s < t + 1 => (mServer[s] # 0 =>
                                 /\ Len(answers'[s]) = mServer[s]
                                 /\ \A k \in 1 .. Len(answers'[s]) : answers'[s][k] = "None" <=> k = mServer[s])
             /\ s > t + 1 => mServer[s] = 0 /\ Len(answers'[s]) = 0
             /\ s = t + 1 => mServer[s] = 0 /\ Len(answers'[s]) = 0
      <4> SUFFICES ASSUME NEW s \in Validator!Services
                   PROVE  /\ s < t + 1 => (mServer[s] # 0 =>
                                 /\ Len(answers'[s]) = mServer[s]
                                 /\ \A k \in 1 .. Len(answers'[s]) : answers'[s][k] = "None" <=> k = mServer[s])
                          /\ s > t + 1 => mServer[s] = 0 /\ Len(answers'[s]) = 0
                          /\ s = t + 1 => mServer[s] = 0 /\ Len(answers'[s]) = 0
        OBVIOUS
      <4>1. CASE s < t
        <5>1. Settled(s) /\ s # t
          <6>1. Settled(s)
            BY <2>ord, <4>1
          <6>2. s # t
            BY <2>3, <2>ser, <4>1
          <6> QED BY <6>1, <6>2
        <5>2. answers'[s] = answers[s]
          BY <2>6, <5>1
        <5>3. mServer[s] # 0 =>
                 /\ Len(answers'[s]) = mServer[s]
                 /\ \A k \in 1 .. Len(answers'[s]) : answers'[s][k] = "None" <=> k = mServer[s]
          BY <5>1, <5>2 DEF Settled
        <5>4. ~ (s > t) /\ s # t /\ ~ (s > t + 1) /\ s # t + 1
          BY <2>3, <2>ser, <4>1
        <5> QED BY <5>3, <5>4
      <4>2. CASE s = t
        <5>1. mServer[s] = i + 1
          BY <2>2, <4>2 DEF Trying
        <5>2. \A k \in 1 .. i + 1 : answers'[t][k] = "None" <=> k = i + 1
          <6> SUFFICES ASSUME NEW k \in 1 .. i + 1 PROVE answers'[t][k] = "None" <=> k = i + 1
            OBVIOUS
          <6>1. k \in 1 .. i \/ k = i + 1
            BY <2>3
          <6>2. i + 1 \notin 1 .. i
            BY <2>3
          <6> QED BY <2>6, <3>1, <6>1, <6>2
        <5> QED BY <2>3, <2>6, <2>ser, <4>2, <5>1, <5>2
      <4>3. CASE s > t
        <5>1. Untried(s) /\ s # t
          <6>1. Untried(s)
            BY <2>ord, <4>3
          <6>2. s # t
            BY <2>3, <2>ser, <4>3
          <6> QED BY <6>1, <6>2
        <5>2. answers'[s] = answers[s]
          BY <2>6, <5>1
        <5>3. mServer[s] = 0 /\ Len(answers'[s]) = 0
          BY <5>1, <5>2 DEF Untried
        <5>4. ~ (s < t + 1)
          BY <2>3, <2>ser, <4>3
        <5> QED BY <5>3, <5>4
      <4>4. s < t \/ s = t \/ s > t
        BY <2>3, <2>ser
      <4> QED BY <4>1, <4>2, <4>3, <4>4
    <3>3. \A s \in Validator!Services : s = t + 1 => \A k \in 1 .. 0 : answers'[s][k] # "None"
      OBVIOUS
    <3>4. t + 1 \in 0 .. 3
      BY <2>3
    <3>5. ReadyAt(services, t + 1, 0, answers')
      <4> HIDE DEF t
      <4> QED BY <3>2, <3>3 DEF ReadyAt
    <3> QED BY <1>typ, <2>1, <2>2, <2>6, <2>srv, <3>1, <3>4, <3>5, NextHost
  <2>8. ASSUME after # "None" PROVE HostChecked
    <3>1. Validator!CheckNextHost(services, t, i + 1) /\ e # "None"
      BY <2>1, <2>4, <2>8
    <3>2. \A s \in Validator!Services :
             /\ s < t => (mServer[s] # 0 =>
                                 /\ Len(answers'[s]) = mServer[s]
                                 /\ \A k \in 1 .. Len(answers'[s]) : answers'[s][k] = "None" <=> k = mServer[s])
             /\ s > t => mServer[s] = 0 /\ Len(answers'[s]) = 0
      <4> SUFFICES ASSUME NEW s \in Validator!Services
                   PROVE  /\ s < t => (mServer[s] # 0 =>
                                 /\ Len(answers'[s]) = mServer[s]
                                 /\ \A k \in 1 .. Len(answers'[s]) : answers'[s][k] = "None" <=> k = mServer[s])
                          /\ s > t => mServer[s] = 0 /\ Len(answers'[s]) = 0
        OBVIOUS
      <4>1. CASE s < t
        <5>1. Settled(s) /\ s # t
          <6>1. Settled(s)
            BY <2>ord, <4>1
          <6>2. s # t
            BY <2>3, <2>ser, <4>1
          <6> QED BY <6>1, <6>2
        <5>2. answers'[s] = answers[s]
          BY <2>6, <5>1
        <5>3. mServer[s] # 0 =>
                 /\ Len(answers'[s]) = mServer[s]
                 /\ \A k \in 1 .. Len(answers'[s]) : answers'[s][k] = "None" <=> k = mServer[s]
          BY <5>1, <5>2 DEF Settled
        <5>4. ~ (s > t) /\ s # t
          BY <2>3, <2>ser, <4>1
        <5> QED BY <5>3, <5>4
      <4>3. CASE s > t
        <5>1. Untried(s) /\ s # t
          <6>1. Untried(s)
            BY <2>ord, <4>3
          <6>2. s # t
            BY <2>3, <2>ser, <4>3
          <6> QED BY <6>1, <6>2
        <5>2. answers'[s] = answers[s]
          BY <2>6, <5>1
        <5>3. mServer[s] = 0 /\ Len(answers'[s]) = 0
          BY <5>1, <5>2 DEF Untried
        <5>4. ~ (s < t)
          BY <2>3, <2>ser, <4>3
        <5> QED BY <5>3, <5>4
      <4> QED BY <4>1, <4>3
    <3>3. /\ t \in account.enabled /\ services[t] > 0
          /\ Len(answers'[t]) = i + 1 /\ \A k \in 1 .. i + 1 : answers'[t][k] # "None"
      <4>1. t \in account.enabled /\ i < services[t] /\ services[t] \in Nat
        BY <2>2, <2>3, <2>srv DEF Trying
      <4>2. \A k \in 1 .. i + 1 : k \in 1 .. i \/ k = i + 1
        BY <2>3
      <4>3. services[t] > 0
        BY <2>3, <4>1
      <4> QED BY <2>6, <3>1, <4>1, <4>2, <4>3
    <3>4. t \in 0 .. 3 /\ i + 1 \in Nat /\ i + 1 # 0
      BY <2>3
    <3>5. ReadyAt(services, t, i + 1, answers')
      <4> HIDE DEF t, i
      <4> QED BY <3>2, <3>3, <3>4 DEF ReadyAt
    <3> QED BY <1>typ, <2>1, <2>2, <2>6, <2>srv, <3>1, <3>4, <3>5, NextHost
  <2>9. HostChecked
    BY <2>7, <2>8
  <2>10. ValidatorTypeOK'
    <3>1. mError' \in [Validator!Services -> Validator!Answers \cup {"NoValidServerFound"}]
      BY <1>typ, <2>1, <2>3, <2>4 DEF ValidatorTypeOK
    <3> QED BY <1>typ, <2>1, <2>6, <2>9, <3>1 DEF ValidatorTypeOK, HostChecked
  <2>11. Waiting'
    <3>1. ~ timer /\ started
      BY <1>typ, <2>1 DEF Waiting, NotBegun
    <3> QED BY <1>typ, <2>1, <3>1 DEF Waiting
  <2>12. Validator!RefusalReported'
    <3> SUFFICES ASSUME NEW s \in Validator!Services,
                        {answers'[s][k] : k \in 1 .. Len(answers'[s])} \subseteq {"Authentication", "Connection"},
                        "Authentication" \in {answers'[s][k] : k \in 1 .. Len(answers'[s])}
                 PROVE  mError'[s] = "Authentication"
      BY DEF Validator!RefusalReported
    <3>1. CASE s # t
      <4>1. answers'[s] = answers[s] /\ mError'[s] = mError[s]
        BY <1>typ, <2>1, <2>6, <3>1 DEF ValidatorTypeOK
      <4> QED BY <1>typ, <4>1 DEF Validator!RefusalReported
    <3>2. CASE s = t
      <4>1. mError'[t] = after /\ Len(answers[t]) = i
        BY <1>typ, <2>1, <2>2, <2>3 DEF ValidatorTypeOK, Trying
      <4>2. e \in {"Authentication", "Connection"} /\ \A k \in 1 .. i : answers[t][k] \in {"Authentication", "Connection"}
        <5>1. \A k \in 1 .. i + 1 : answers'[t][k] \in {"Authentication", "Connection"}
          BY <2>6, <3>2
        <5>2. i + 1 \in 1 .. i + 1 /\ \A k \in 1 .. i : k \in 1 .. i + 1
          BY <2>3
        <5> QED BY <2>6, <5>1, <5>2
      <4>3. CASE e = "Authentication"
        BY <3>2, <4>1, <4>3 DEF Validator!ErrorAfter
      <4>4. CASE e = "Connection"
        <5>1. PICK k \in 1 .. i + 1 : answers'[t][k] = "Authentication"
          BY <2>6, <3>2
        <5>2. k \in 1 .. i
          <6>1. k # i + 1
            BY <2>6, <4>4, <5>1
          <6> QED BY <2>3, <6>1
        <5>3. answers[t][k] = "Authentication"
          BY <2>6, <5>1, <5>2
        <5>4. mError[t] = "Authentication"
          BY <1>typ, <2>3, <4>1, <4>2, <5>2, <5>3 DEF Validator!RefusalReported
        <5> QED BY <3>2, <4>1, <4>4, <5>4 DEF Validator!ErrorAfter
      <4> QED BY <4>2, <4>3, <4>4
    <3> QED BY <3>1, <3>2
  <2> QED BY <2>9, <2>10, <2>11, <2>12 DEF ValidatorInv, HostChecked
<1>8. CASE Validator!DropCancelled
  <2>1. /\ operation' = Validator!Idle
        /\ UNCHANGED <<account, started, cancelled, timer, resolver, services, mError, mServer,
                       mCurrentServiceTested, mCurrentServiceIndex, answers, completions>>
    BY <1>8 DEF Validator!DropCancelled
  <2>2. operation' = [state |-> "none", cancelled |-> FALSE, error |-> "None"]
    BY <2>1 DEF Validator!Idle
  <2>3. ValidatorTypeOK'
    BY <1>typ, <2>1, <2>2 DEF ValidatorTypeOK, Validator!Answers
  <2>4. Waiting'
    BY <1>typ, <2>1, <2>2 DEF Waiting, NotBegun
  <2>5. Searching' /\ Validator!RefusalReported'
    BY <1>fra, <2>1, <2>2
  <2> QED BY <2>3, <2>4, <2>5 DEF ValidatorInv
<1>9. CASE UNCHANGED Validator!vars
  <2>1. UNCHANGED <<account, started, cancelled, timer, resolver, services, mError, mServer,
                    mCurrentServiceTested, mCurrentServiceIndex, operation, answers, completions>>
    BY <1>9 DEF Validator!vars, Validator!search
  <2>2. ValidatorTypeOK' /\ Waiting'
    BY <1>typ, <2>1 DEF ValidatorTypeOK, Waiting, NotBegun
  <2> QED BY <1>fra, <2>1, <2>2 DEF ValidatorInv
<1> QED BY <1>1, <1>2, <1>3, <1>4, <1>5, <1>6, <1>7, <1>8, <1>9 DEF Validator!Next

(* Whether the resolver answers before its timeout, after it or never, and  *)
(* whenever the user cancels: the callback is called once at most, nothing   *)
(* works twice at a time, a server is reported if it is the first that       *)
(* accepted the account, and refused credentials are reported as that        *)
(* (MCAccountValidator.cpp, start to checkNextHostDone), for any numbers of  *)
(* servers.                                                                 *)
THEOREM ValidatorSearch == Validator!Spec => []SearchCorrect
<1> QED BY InitValidator, NextValidator, ValidatorInvCorrect, PTL DEF Validator!Spec

=============================================================================
