---------------------------- MODULE MCEnforcement ----------------------------
(***************************************************************************)
(* Constants for the runs on Enforcement.                                  *)
(***************************************************************************)
EXTENDS EnforcementProps, TLC

\* PolicyDecision values; threshold 1 splits the scores {0, 1}.
Deny ==
  [allowed |-> FALSE, ruled |-> TRUE, threshold |-> 1, fallback |-> FALLBACK_BLOCK]
Permit(fallback) ==
  [allowed |-> TRUE, ruled |-> TRUE, threshold |-> 1, fallback |-> fallback]

AllDecisions == {Deny, Permit(FALLBACK_ALLOW), Permit(FALLBACK_BLOCK),
                 Permit(FALLBACK_QUEUE)}
DenyOrPermit == {Deny, Permit(FALLBACK_ALLOW)}
TwoDenials == {Deny, [Deny EXCEPT !.threshold = 2]}

BothScores == {0, 1}
LowScore == {0}

Symmetry == Permutations(Calls)
=============================================================================
