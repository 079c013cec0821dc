-------------------------------- MODULE Gate --------------------------------
(***************************************************************************)
(* What the circuit breaker and the HTTP client promise together, without  *)
(* keys, counters or attempts: a gate in front of an upstream source.      *)
(*                                                                         *)
(* A worker enters only while the gate in front of it is up.  Only a       *)
(* worker that is inside can bring it down, and it may leave in doing so.  *)
(* Once down, the gate stays down for its whole period; time is the only   *)
(* thing that raises it.  A shared gate falls for every worker at once; a  *)
(* private one belongs to its process and dies with it.                    *)
(***************************************************************************)
EXTENDS Integers

CONSTANTS
    Worker,   \* the worker processes of one source
    Shared,   \* the gate is one for all workers
    Period    \* how long a gate stays down

VARIABLES
    down,     \* down[w]: ticks for which the gate in front of w stays down
    inside    \* workers with a call under way

vars == <<down, inside>>

Init == down = [w \in Worker |-> 0] /\ inside = {}

\* The workers in front of whom w's gate falls.
Behind(w) == IF Shared THEN Worker ELSE {w}

Enter(w) ==
    /\ w \notin inside /\ down[w] = 0
    /\ inside' = inside \cup {w}
    /\ UNCHANGED down

Leave(w) ==
    /\ w \in inside
    /\ inside' = inside \ {w}
    /\ UNCHANGED down

\* Bringing down a gate that is already down starts its period again.  Who
\* does not hear that it has fallen stays to bring it down once more.
Drop(w) ==
    /\ w \in inside
    /\ inside' \in {inside, inside \ {w}}
    /\ down' = [v \in Worker |-> IF v \in Behind(w) THEN Period ELSE down[v]]

\* A new process takes w's place; what only the old one knew is forgotten.
Renew(w) ==
    /\ inside' = inside \ {w}
    /\ down' = IF Shared THEN down ELSE [down EXCEPT ![w] = 0]

Elapse ==
    /\ down' = [w \in Worker |-> IF down[w] > 0 THEN down[w] - 1 ELSE 0]
    /\ UNCHANGED inside

Next == Elapse \/ \E w \in Worker : Enter(w) \/ Leave(w) \/ Drop(w) \/ Renew(w)

Spec == Init /\ [][Next]_vars
=============================================================================
