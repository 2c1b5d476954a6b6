----------------------------- MODULE MCWriteLink -----------------------------
(* WriteLink for TLC. *)
EXTENDS WriteLink
=============================================================================
