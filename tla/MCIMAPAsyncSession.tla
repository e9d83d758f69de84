------------------------ MODULE MCIMAPAsyncSession ------------------------
(* IMAPAsyncSession with two requests for one folder, the second of them     *)
(* urgent, and one for INBOX.                                               *)
EXTENDS IMAPAsyncSession

CONSTANTS a1, a2, b

MCFolderOf == [r \in Requests |-> IF r = b THEN "INBOX" ELSE "A"]
=============================================================================
