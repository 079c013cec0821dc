---------------------------- MODULE MCHttpClient ----------------------------
(* Small instances of HttpClient for TLC. *)
EXTENDS HttpClient, TLC

\* Workers that differ in nothing but their name.
Workers == Permutations(Worker)
=============================================================================
