--------------------------- MODULE CircuitBreaker ---------------------------
(***************************************************************************)
(* The decision function of the proxy (proxy/src/circuit_breaker.rs) and   *)
(* the mapping of the fallback mode a policy decision carries on the wire  *)
(* (proxy/src/enforcement.rs, map_fallback).                               *)
(*                                                                         *)
(* Scores and thresholds are floats in the code; only their order matters, *)
(* so they are integers here.  NoScore is Option::None: the verifier was   *)
(* late, failed, or closed its stream without a message.                   *)
(***************************************************************************)
EXTENDS Integers

CONSTANT NoScore

\* The wire values of astragraph.v1.FallbackMode; every other number is a
\* value try_from rejects.
FALLBACK_BLOCK == 0
FALLBACK_ALLOW == 1
FALLBACK_QUEUE == 2

FallbackModes == {"Allow", "Block", "Queue"}
Outcomes == {"Allow", "Block", "Queue"}

\* map_fallback: an unknown wire value means Block.
MapFallback(wire) ==
  CASE wire = FALLBACK_ALLOW -> "Allow"
    [] wire = FALLBACK_QUEUE -> "Queue"
    [] OTHER -> "Block"

\* fallback_to_decision: each mode names the outcome it asks for.
FallbackToDecision(fallback) ==
  CASE fallback = "Allow" -> "Allow"
    [] fallback = "Queue" -> "Queue"
    [] OTHER -> "Block"

\* CircuitBreaker::decide.  The order of the tests is the code's: the policy
\* first, then the trace, and only then the score or the fallback.
Decide(policyAllowed, hasTrace, allowWithoutTrace, score, threshold, fallback, timeWindowOk) ==
  CASE ~policyAllowed \/ ~timeWindowOk -> "Block"
    [] policyAllowed /\ timeWindowOk /\ ~hasTrace /\ ~allowWithoutTrace -> "Block"
    [] OTHER -> IF score = NoScore THEN FallbackToDecision(fallback)
                ELSE IF score < threshold THEN "Allow" ELSE "Block"
=============================================================================
