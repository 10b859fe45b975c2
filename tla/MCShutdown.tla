---------------------------- MODULE MCShutdown -----------------------------
(* Module Shutdown on a small instance. *)
EXTENDS Shutdown
=============================================================================
