--------------------------------- MODULE MCHttp ---------------------------------
EXTENDS Http

\* The second path is not routed.
MCPath == <<"/a", "/b", "/a">>
=============================================================================
