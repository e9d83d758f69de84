------------------------ MODULE MCSMTPAsyncSession --------------------------
(* SMTPAsyncSession with two messages and one name for disconnections. *)
EXTENDS SMTPAsyncSession

CONSTANTS s1, s2, d1

MCSendOps == {s1, s2}
MCDisconnectOps == {d1}
MCOps == MCSendOps \cup MCDisconnectOps
=============================================================================
