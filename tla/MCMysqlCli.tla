------------------------------ MODULE MCMysqlCli ------------------------------
(* Small instances of MysqlCli.                                            *)
EXTENDS MysqlCli, TLC
=============================================================================
