-------------------------- MODULE MCSyncOutboxWorker --------------------------
(* A small instance of SyncOutboxWorker: two rows of one entity, one of them  *)
(* under a stable id.                                                         *)
EXTENDS SyncOutboxWorker, TLC

CONSTANTS a1, a2, a

OneEntity == a1 :> a @@ a2 :> a
===============================================================================
