----------------------------- MODULE Identifiers ----------------------------
(***************************************************************************)
(* The identifiers the store, the broker and the processes share.          *)
(***************************************************************************)
CONSTANTS TaskID,      \* task identifiers (UUIDs)
          WorkerID,    \* consumer names of the workers (WORKER_ID, default: hostname)
          NoWorker     \* no worker: worker_id IS NULL, an entry not pending

ASSUME IdentifiersAssumption == NoWorker \notin WorkerID
=============================================================================
