---------------------------- MODULE MCConnectPool ----------------------------
(* Two threads and two pools of one address; counters of three bits.       *)
EXTENDS ConnectPool, TLC
Symmetric == Permutations(Threads) \cup Permutations(Pools) \cup Permutations(Clients)
=============================================================================
