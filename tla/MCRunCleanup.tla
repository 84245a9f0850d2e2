---------------------------- MODULE MCRunCleanup ----------------------------
(* Model checking of RunCleanup: one run, with and without egress logging.  *)
EXTENDS RunCleanup
=============================================================================
