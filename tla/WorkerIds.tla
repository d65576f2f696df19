----------------------------- MODULE WorkerIds -----------------------------
(***************************************************************************)
(* What table attempts (JobStore) and table workers (WorkerRegistry) both  *)
(* name: the ids worker processes register under.                          *)
(***************************************************************************)
CONSTANT WorkerId
=============================================================================
