------------------------------- MODULE JobIds -------------------------------
(* The ids shared by the jobs table and the queue: the database id of a job  *)
(* doubles as its BullMQ id (src/gateway/src/lib/queue.ts:62-63).            *)
CONSTANT Jobs
=============================================================================
