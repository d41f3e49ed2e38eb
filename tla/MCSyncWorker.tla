---------------------------- MODULE MCSyncWorker ----------------------------
(* Calendars of one account, so that they share a worker and a queue.      *)
EXTENDS SyncWorker

CONSTANT acc

MCAccountOf == [c \in Cals |-> acc]
=============================================================================
