----------------------------- MODULE MCMsgSession -----------------------------
(* Small instances of MsgSession.                                          *)
EXTENDS MsgSession, TLC
=============================================================================
