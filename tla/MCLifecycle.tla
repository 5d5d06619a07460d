----------------------------- MODULE MCLifecycle -----------------------------
(* Lifecycle with two requests. *)
EXTENDS Lifecycle, TLC
================================================================================
