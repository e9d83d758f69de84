---------------------------- MODULE MCIMAPLogin ----------------------------
(***************************************************************************)
(* The IMAP session against a server that announces both COMPRESS and ID.  *)
(* login() ignores the errors of both commands (MCIMAPSession.cpp 4457 and *)
(* 1042), but a response to COMPRESS that cannot be parsed sets            *)
(* mShouldDisconnect, so that identity() disconnects before it sends ID:   *)
(* login() then reports success for a session that is connected anew, or   *)
(* not at all, and that is not logged in.                                  *)
(***************************************************************************)
EXTENDS IMAPSession

MCFolders == {"INBOX", "work"}
MCFold == [f \in MCFolders |-> f]
MCOffers == {{"COMPRESS", "ID"}}

(* select() asserts that the session is logged in, or in a folder: a folder *)
(* is opened after a login that succeeded (MCIMAPSession.cpp:1147).         *)
LoggedInWhenAsserted == last.err # "AssertFailed"
=============================================================================
