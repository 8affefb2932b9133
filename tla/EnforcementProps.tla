-------------------------- MODULE EnforcementProps --------------------------
(***************************************************************************)
(* What evaluate_tool_call must guarantee, stated over Enforcement.        *)
(***************************************************************************)
EXTENDS Enforcement

PCs == {"idle", "evaluate", "reply", "failed", "joined", "headers", "stream",
        "sleep", "record", "verify", "link", "drift", "forward", "done", "left"}
NodeStates == {"none", "Allowed", "Blocked", "lost"}

\* The awaits at which a request holds a decision of the policy service.
Decided == {"reply", "joined", "headers", "stream", "sleep", "record", "verify",
            "link", "drift"}

\* Every variable has its type; a request that has arrived has a key, and one
\* that was decided on holds its decision.
TypeOK ==
  /\ now \in 0..MaxNow
  /\ policy \in [Keys -> Decisions]
  /\ lastHeld \in [Keys -> [Decisions -> Never..MaxNow]]
  /\ cache \in [Keys -> [dec : Decisions \cup {NoDecision}, storedAt : 0..MaxNow]]
  /\ pc \in [Calls -> PCs]
  /\ key \in [Calls -> Keys \cup {NoKey}]
  /\ dec \in [Calls -> Decisions \cup {NoDecision}]
  /\ evaluatedAt \in [Calls -> 0..MaxNow]
  /\ usedAt \in [Calls -> 0..MaxNow]
  /\ attempt \in [Calls -> 0..2]
  /\ score \in [Calls -> Scores \cup {NoScore}]
  /\ verdict \in [Calls -> {"none", "Error"} \cup Outcomes]
  /\ thinking \in [Calls -> {"none", "pending", "stored", "lost"}]
  /\ action \in [Calls -> NodeStates]
  /\ verification \in [Calls -> NodeStates]
  /\ edge \in [Calls -> {"none", "linked", "lost"}]
  /\ sent \in [Calls -> BOOLEAN]
  /\ \A c \in Calls : /\ pc[c] # "idle" => key[c] \in Keys
                      /\ pc[c] \in Decided => dec[c] \in Decisions

-----------------------------------------------------------------------------
(* Safety                                                                  *)

\* A request that went out without a policy decision: fail-open.
FailedOpen(c) == dec[c] = NoDecision /\ ~FailClosed

\* The decision, the trace rule and the verifier (or the fallback that stands
\* in for it) all let the request through.
Cleared(c) ==
  /\ dec[c] # NoDecision /\ dec[c].allowed
  /\ key[c] \in Traced \cup Allowlisted
  /\ IF score[c] = NoScore THEN dec[c].fallback = FALLBACK_ALLOW
     ELSE score[c] < dec[c].threshold

\* A request reaches the upstream only if every gate cleared it, whichever way
\* its cache lookup, retry and audit calls went; with fail_closed no failure of
\* the policy service lets one through (evaluate_tool_call, proxy_mcp).
ForwardJustified == \A c \in Calls : sent[c] => Cleared(c) \/ FailedOpen(c)

\* Its policy call, or the look into the cache, is over.
Adopted(c) == pc[c] \notin {"idle", "evaluate", "reply"}

\* The policy service still gave decision d for key k at time t or later.
HeldSince(k, d, t) == d = policy[k] \/ lastHeld[k][d] >= t

\* How old a decision may be when a request adopts it: the TTL of the entry,
\* and before that the time the answer was under way, because the entry is
\* stamped when it is stored and not when the policy was evaluated.
BoundedStaleness ==
  \A c \in Calls :
    Adopted(c) /\ dec[c] # NoDecision => HeldSince(key[c], dec[c], usedAt[c] - TTL - RpcMax)

\* No audit call is made about a request after it was released, a request
\* dropped in mid-flight is never released later, and none is queued before the
\* one retry was made, or tried a third time (the steps of the handler).
\* Enforcement implements the abstract gate.
Logged == [c \in Calls |-> IF Stored(action[c]) THEN action[c] ELSE "none"]
AbstractGate == INSTANCE Gate WITH logged <- Logged, released <- sent, tries <- attempt
GateSpec == AbstractGate!Spec

\* Once a request that had a policy decision is answered, its action node was
\* written with the status the client saw, or the graph service lost it, and
\* its verification node never says otherwise (policy_fut to block_response).
AuditAgrees ==
  \A c \in Calls :
    /\ pc[c] = "done" /\ dec[c] # NoDecision
         => action[c] \in {AbstractGate!Status(verdict[c]), "lost"}
    /\ verification[c] # "none"
         => verification[c] \in {AbstractGate!Status(verdict[c]), "lost"}
    /\ edge[c] = "linked" => action[c] = verification[c] /\ Stored(action[c])

\* A request is judged once, by the decision it adopted: from then on, over the
\* join, the scorings and the pause between them, no step of another request, no
\* policy change and no expiring entry alters the decision, and from the verdict
\* on none alters verdict, score or the number of tries (policy_fut to
\* block_response).
JudgedOnce ==
  [][\A c \in Calls :
       /\ Adopted(c) => dec'[c] = dec[c]
       /\ verdict[c] # "none" =>
            verdict'[c] = verdict[c] /\ score'[c] = score[c] /\ attempt'[c] = attempt[c]]_vars

-----------------------------------------------------------------------------
(* Liveness                                                                *)

\* Every request that arrives is answered, or its client leaves, or it waits for
\* ever for a message of the verifier, the one await of its scoring without a
\* timeout (score_with_retry): no error, timeout or retry holds it up anywhere
\* else, and none makes it try without end.
Answered == <>[](\A c \in Calls : pc[c] \in {"idle", "stream"} \cup Ended)
=============================================================================
