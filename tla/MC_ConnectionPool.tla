------------------------- MODULE MC_ConnectionPool -------------------------
(* Three threads contend for two connections with two attempts each, so  *)
(* an accessor can find the pool empty, retry, and give up.              *)
EXTENDS ConnectionPool

MCThreads == {"t1", "t2", "t3"}
MCCapacity == 2
MCAttempts == 2
=============================================================================
