----------------------------- MODULE MCAuditTrail -----------------------------
(***************************************************************************)
(* Constants for the runs on AuditTrail.                                   *)
(***************************************************************************)
EXTENDS AuditTrail

CONSTANTS k1, k2, p1, p2

\* Denied by a rule or by the lists of tools; permitted, by no rule.
Deny(ruled) ==
  [allowed |-> FALSE, ruled |-> ruled, threshold |-> 1, fallback |-> FALLBACK_BLOCK]
Permit(fallback) ==
  [allowed |-> TRUE, ruled |-> FALSE, threshold |-> 1, fallback |-> fallback]
DenyOrQueue == {Deny(TRUE), Deny(FALSE), Permit(FALLBACK_QUEUE)}
PermitOnly == {Permit(FALLBACK_BLOCK)}

OneEach == [k \in {k1, k2} |-> IF k = k1 THEN p1 ELSE p2]
=============================================================================
