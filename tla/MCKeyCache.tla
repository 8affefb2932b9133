------------------------------ MODULE MCKeyCache ------------------------------
(***************************************************************************)
(* Constants for the run on KeyCache.                                      *)
(***************************************************************************)
EXTENDS KeyCache

CONSTANTS k1, k2

\* A key that is replaced.
Rotation == <<{k1}, {k2}>>
OldAndNew == {[key |-> k1, permitted |-> TRUE], [key |-> k2, permitted |-> FALSE]}
=============================================================================
