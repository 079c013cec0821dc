------------------------------ MODULE MCIpGuard ------------------------------
(* Small instances of IpGuard for TLC. *)
EXTENDS IpGuard, TLC

\* Workers that differ in nothing but their name (every skew is an initial state).
Workers == Permutations(Worker)
=============================================================================
