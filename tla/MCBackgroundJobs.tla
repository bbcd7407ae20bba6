-------------------------- MODULE MCBackgroundJobs --------------------------
(* One job of two chunks, polled, killed and observed while it runs.        *)
EXTENDS BackgroundJobs
=============================================================================
