----------------------------- MODULE MCJobWorker -----------------------------
(* Two workers on one list, a job and an unparseable payload. *)
EXTENDS JobWorker
=============================================================================
