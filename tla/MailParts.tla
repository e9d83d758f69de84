----------------------------- MODULE MailParts -----------------------------
(***************************************************************************)
(* Five parts of mailcore2 side by side: an IMAP session, IDLE, the download *)
(* of an attachment, a POP account and the validator of accounts.  No state *)
(* of one is state of another here; each is an instance of its module, and  *)
(* has properties here that say what it is for.                             *)
(***************************************************************************)
EXTENDS Integers, Sequences, SequencesExt

CONSTANTS
    Folders, NoFolder, INBOX, Fold, Offers, MaxRelogins,        \* of the IMAP session
    Ops, MaxConnects,                               \* of IDLE
    Size, chunkSize, maxRetries, Quantum, Modes, Estimates,     \* of the download
    Uids, FirstMail,                                \* of the POP account
    Counts                                          \* of the validator

(* The states that a server is in without a folder are no folders.           *)
ASSUME FoldersAssumption ==
    /\ INBOX \in Folders /\ NoFolder \notin Folders /\ DOMAIN Fold = Folders
    /\ {"nobody", "greeted", "preauthenticated", "authenticated"} \cap Folders = {}

(* What a server may announce; any server will do.                           *)
ASSUME OffersAssumption ==
    /\ MaxRelogins \in Nat
    /\ \A offers \in Offers :
          offers \subseteq {"IDLE", "ID", "NAMESPACE", "COMPRESS", "CONDSTORE", "PREAUTH"}

(* The sizes of the download are sizes; a quantum is not empty, so that      *)
(* something is decoded, and an estimate of 0 is one that was not given.     *)
ASSUME DownloadAssumption ==
    /\ Size \in Nat /\ chunkSize \in Nat /\ Quantum \in Nat \ {0}
    /\ Estimates \subseteq Nat

(* The maildrop holds messages.                                              *)
ASSUME MaildropAssumption == FirstMail \in Seq(Uids)

(* The numbers of services of a kind that the validator is given.            *)
ASSUME CountsAssumption == Counts \subseteq Nat

VARIABLES
    imap, last,
    queue, stage, mInterrupted, mSetupSuccess, ended, replaced, selecting, caller, mState,
    mImap, mIdleEnabled, mShouldDisconnect, mIdle, closing, freed,
    mode, estimatedSize, pc, offset, nRetries, error, mRemainingData, mFile, file,
    session, known, result,
    account, started, cancelled, timer, resolver, services, mError, mServer,
    mCurrentServiceTested, mCurrentServiceIndex, operation, answers, completions

IMAP == INSTANCE IMAPSession WITH session <- imap
Idle == INSTANCE IMAPIdle
Download == INSTANCE AttachmentDownload
POP == INSTANCE POPSession
Validator == INSTANCE AccountValidator

-----------------------------------------------------------------------------
(* Properties: those of the IMAP session, and one of each other part. *)

(* IMAP session: the folder it takes for selected is the one it works in.    *)
SelectedFolderTrue == IMAP!SelectedFolderTrue

(* IMAP session: an assertion fails, or NULL is used, only in the known ways. *)
OnlyKnownFaults == IMAP!OnlyKnownFaults

(* IMAP session: a second attempt can succeed, whatever failed before.       *)
SecondAttemptCanSucceed == IMAP!SecondAttemptCanSucceed

(* IMAP session: a broken stream is left before the next command.            *)
BrokenStreamIsLeft == IMAP!BrokenStreamIsLeft

(* IDLE: interruptIdle is safe at every moment, and finds its idle.         *)
InterruptionSafe == Idle!InterruptionSafe

(* Download: no retry, short chunk or failure damages the part.             *)
PartKept == Download!PartKept

(* POP: what the session believes of its connection and of the server is    *)
(* so, and no deletion is pending between two operations.                   *)
BeliefTrue == POP!BeliefTrue

(* Validator: one search, with one end, that reports what was answered.     *)
SearchCorrect == Validator!SearchCorrect
=============================================================================
