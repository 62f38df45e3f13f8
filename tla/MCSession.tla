------------------------------ MODULE MCSession ------------------------------
(* Small instances of Session: two connections, owned by different loops,   *)
(* and a thread without a connection.                                       *)
EXTENDS Session, TLC

CONSTANTS c1, c2, t1, t2

\* c1 belongs to the loop of t1, c2 to that of t2.
MCThd == (c1 :> t1) @@ (c2 :> t2)
=============================================================================
