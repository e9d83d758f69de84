----------------------------- MODULE MCSMTPSend -----------------------------
(* SMTPSend with two messages in one session. *)
EXTENDS SMTPSend

CONSTANTS m1, m2

MCOps == {m1, m2}
=============================================================================
