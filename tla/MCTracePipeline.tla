--------------------------- MODULE MCTracePipeline ---------------------------
(* Small instances of TracePipeline: two threads, two clients.             *)
EXTENDS TracePipeline

CONSTANTS t1, t2, c1, c2
=============================================================================
