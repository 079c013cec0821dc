------------------------------- MODULE MCSinks -------------------------------
(* A small instance of Sinks for TLC. *)
EXTENDS Sinks, TLC

CONSTANTS a, sep

Chars == {a, sep}

NoneWord == <<a, a, a>>

\* Two entities whose fields read the same without a separator, and two that a
\* missing field and a separator within a field give one id.
Entities ==
    {<<<<a>>, <<a, a>>>>, <<<<a, a>>, <<a>>>>, <<None, <<sep, a>>>>, <<<<sep>>, <<a>>>>}

\* Workers that differ in nothing but their name.
Workers == Permutations(Worker)
=============================================================================
