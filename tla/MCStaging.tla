------------------------------ MODULE MCStaging ------------------------------
(* Small instances of Staging for TLC. *)
EXTENDS Staging, TLC

\* Workers that differ in nothing but their name.
Writers == Permutations(Writer)
=============================================================================
