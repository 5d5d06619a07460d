----------------------------- MODULE MCDirectory -----------------------------
(* Directory on small instances. *)
EXTENDS Directory, TLC
================================================================================
