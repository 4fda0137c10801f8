---------------------------- MODULE MCThreadPool ----------------------------
(* Finite instances of ThreadPool: MCThreadPool.cfg for pools that grow    *)
(* only while no worker runs, MCThreadPoolGrow.cfg for pools whose owner   *)
(* calls insert_worker on a running pool, as tests/pool_test.cpp does.     *)
EXTENDS ThreadPool
=============================================================================
