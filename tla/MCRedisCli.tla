------------------------------ MODULE MCRedisCli ------------------------------
(* Small instances of RedisCli.                                            *)
EXTENDS RedisCli, TLC
=============================================================================
