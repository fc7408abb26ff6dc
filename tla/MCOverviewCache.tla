-------------------------- MODULE MCOverviewCache --------------------------
(* Small instances of OverviewCache for TLC, all given by constants alone. *)
EXTENDS OverviewCache

============================================================================
