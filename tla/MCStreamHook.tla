---------------------------- MODULE MCStreamHook ----------------------------
(* Small instances of StreamHook for TLC, all given by constants alone. *)
EXTENDS StreamHook

=============================================================================
