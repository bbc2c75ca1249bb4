---------------------------- MODULE MCLogWriter -----------------------------
(* Instances of LogWriter for TLC.  With a capacity of two cells, small    *)
(* fills a buffer half, large fills it and huge exceeds it.                *)
EXTENDS LogWriter

CONSTANTS small, large, huge

MCSize == [r \in Recs |-> CASE r = small -> 1 [] r = large -> 2 [] r = huge -> 3]
=============================================================================
