--------------------------- MODULE MCWriteBarrier ---------------------------
(* The operations of the program that take locks, by the blocks they enter *)
(* in the code, for three threads.                                         *)
EXTENDS WriteBarrier

CONSTANTS t1, t2, t3

MCThreads == {t1, t2, t3}

MCPlan ==
  [update_user       |-> <<"shared">>,
   upload_file       |-> <<"shared", "shared", "admin">>,
   rollback          |-> <<"shared", "admin", "vector">>,
   retry_evaluation  |-> <<"shared", "vector">>,
   process_file      |-> <<"vector", "vector">>,
   backup_exclusive  |-> <<"exclusive">>]

MCOperations == DOMAIN MCPlan
=============================================================================
