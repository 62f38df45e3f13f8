------------------------------- MODULE MCNotify -------------------------------
(* Small instances of Notify: two event loops and one application thread.  *)
EXTENDS Notify, TLC

CONSTANTS l1, l2, t1, t2, t3

\* Both loops are registered with mysys, l1 first.
MCThdset == <<l1, l2>>

\* The accept callback of l1 may notify l2; the one of l2 notifies nobody.
MCAcceptCalls == (l1 :> {l2}) @@ (l2 :> {})
=============================================================================
