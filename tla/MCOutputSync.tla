---------------------------- MODULE MCOutputSync ----------------------------
(* Instances of OutputSync for TLC. *)
EXTENDS OutputSync
=============================================================================
