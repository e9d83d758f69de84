---------------------------- MODULE MCMailParts ----------------------------
(***************************************************************************)
(* Five parts of mailcore2 for TLC: an IMAP session, IDLE, the download of  *)
(* an attachment, a POP account and the validator of accounts.  No state of *)
(* one is state of another here, so that one run checks them all: it starts *)
(* one of them, and the variables of the others keep one initial value.     *)
(***************************************************************************)
EXTENDS MailParts

CONSTANTS idle1, idle2, idle3, m1, m2, m3

VARIABLE running        \* the part that was started

imapVars == <<imap, last>>
idleVars == <<queue, stage, mInterrupted, mSetupSuccess, ended, replaced, selecting, caller,
              mState, mImap, mIdleEnabled, mShouldDisconnect, mIdle, closing, freed>>
downloadVars ==
    <<mode, estimatedSize, pc, offset, nRetries, error, mRemainingData, mFile, file>>
popVars == <<session, known, result>>
validatorVars ==
    <<account, started, cancelled, timer, resolver, services, mError, mServer,
      mCurrentServiceTested, mCurrentServiceIndex, operation, answers, completions>>
vars == <<running, imapVars, idleVars, downloadVars, popVars, validatorVars>>

(* Two of the folders differ in case only.                                   *)
MCFolders == {"INBOX", "work", "Work"}
MCFold == [f \in MCFolders |-> IF f = "Work" THEN "work" ELSE f]

(* Two servers that have every extension between them, one that has the two *)
(* whose errors login() ignores, and one that greets with PREAUTH.          *)
MCOffers ==
    {{"ID", "IDLE"}, {"COMPRESS", "NAMESPACE", "CONDSTORE"}, {"COMPRESS", "ID"}, {"PREAUTH"}}

MCOps == {idle1, idle2, idle3}

MCUids == {m1, m2, m3}
MCFirstMail == <<m1, m2>>

Init ==
    /\ running \in {"imap", "idle", "download", "pop", "validator"}
    /\ IMAP!Init /\ Idle!Init /\ Download!Init /\ POP!Init /\ Validator!Init
    /\ running # "imap" => imap.offers = {"ID", "IDLE"} /\ imap.namespace
    /\ running # "download" => mode = "chunks" /\ estimatedSize = 0
    /\ running # "validator" =>
           account = [address |-> "missing", enabled |-> {}, password |-> FALSE,
                      given |-> [s \in 0..2 |-> 0], provided |-> 0]

Next ==
    /\ UNCHANGED running
    /\ \/ /\ running = "imap" /\ IMAP!Next
          /\ UNCHANGED <<idleVars, downloadVars, popVars, validatorVars>>
       \/ /\ running = "idle" /\ Idle!Next
          /\ UNCHANGED <<imapVars, downloadVars, popVars, validatorVars>>
       \/ /\ running = "download" /\ Download!Next
          /\ UNCHANGED <<imapVars, idleVars, popVars, validatorVars>>
       \/ /\ running = "pop" /\ POP!Next
          /\ UNCHANGED <<imapVars, idleVars, downloadVars, validatorVars>>
       \/ /\ running = "validator" /\ Validator!Next
          /\ UNCHANGED <<imapVars, idleVars, downloadVars, popVars>>

Spec == Init /\ [][Next]_vars
=============================================================================
