-------------------------- MODULE EnforcementProofs --------------------------
(***************************************************************************)
(* Theorems about Enforcement, for every set of requests, keys, decisions  *)
(* and scores and every value of the times.                                *)
(***************************************************************************)
EXTENDS EnforcementProps, TLAPS

USE DecisionsAssumption, ScoresAssumption, KeysAssumption, TimeAssumption

\* The chain of tests in decide allows a call exactly when the policy, the
\* trace rule and the score, or the fallback in its place, all agree.
THEOREM DecideExact ==
  ASSUME NEW a \in BOOLEAN, NEW t \in BOOLEAN, NEW w \in BOOLEAN, NEW s, NEW h,
         NEW f
  PROVE  Decide(a, t, w, s, h, MapFallback(f), TRUE) = "Allow"
           <=> /\ a
               /\ t \/ w
               /\ IF s = NoScore THEN f = FALLBACK_ALLOW ELSE s < h
BY DEF Decide, FallbackToDecision, MapFallback, FALLBACK_ALLOW, FALLBACK_QUEUE

-----------------------------------------------------------------------------
(* Type correctness                                                        *)

LEMMA TypeInit == Init => TypeOK
BY DEF Init, TypeOK, NoEntry, Never, PCs, NodeStates, Decided, Outcomes

LEMMA TypeStep == TypeOK /\ [Next]_vars => TypeOK'
<1> SUFFICES ASSUME TypeOK, [Next]_vars PROVE TypeOK'
  OBVIOUS
<1> USE DEF TypeOK, PCs, NodeStates, Decided, Outcomes, Goto, envVars, policyVars,
            scoreVars, auditVars
<1>1. CASE Tick
  BY <1>1 DEF Tick
<1>2. ASSUME NEW k \in Keys, NEW d \in Decisions, PolicyChange(k, d)
      PROVE  TypeOK'
  BY <1>2 DEF PolicyChange, Never
<1>3. ASSUME NEW c \in Calls, NEW k \in Keys, LookupHit(c, k)
      PROVE  TypeOK'
  BY <1>3 DEF LookupHit, Hit, StartThinking
<1>4. ASSUME NEW c \in Calls, NEW k \in Keys, LookupMiss(c, k)
      PROVE  TypeOK'
  BY <1>4 DEF LookupMiss, Hit, StartThinking, NoEntry
<1>5. ASSUME NEW c \in Calls, ProxyStep(c) PROVE TypeOK'
  <2>1. CASE PolicyAnswer(c)
    BY <2>1 DEF PolicyAnswer
  <2>2. CASE PolicyReply(c)
    BY <2>2 DEF PolicyReply
  <2>3. CASE PolicyFail(c)
    BY <2>3 DEF PolicyFail
  <2>4. CASE ThinkingDone(c)
    BY <2>4 DEF ThinkingDone
  <2>5. CASE JoinFailed(c)
    BY <2>5 DEF JoinFailed
  <2>6. CASE JoinDenied(c)
    BY <2>6 DEF JoinDenied
  <2>7. CASE JoinPermitted(c)
    BY <2>7 DEF JoinPermitted
  <2>8. CASE HeadersArrive(c)
    BY <2>8 DEF HeadersArrive
  <2>9. CASE SleepOver(c)
    BY <2>9 DEF SleepOver
  <2>10. CASE RecordAction(c)
    BY <2>10 DEF RecordAction, AfterRecord, AfterAudit, ActionStatus
  <2>11. CASE RecordVerification(c)
    BY <2>11 DEF RecordVerification, ActionStatus
  <2>12. CASE LinkVerification(c)
    BY <2>12 DEF LinkVerification, AfterAudit
  <2>13. CASE DriftOrigin(c)
    BY <2>13 DEF DriftOrigin
  <2>14. CASE Forward(c)
    BY <2>14 DEF Forward
  <2>. QED
    BY <1>5, <2>1, <2>2, <2>3, <2>4, <2>5, <2>6, <2>7, <2>8, <2>9, <2>10,
       <2>11, <2>12, <2>13, <2>14 DEF ProxyStep
<1>6. ASSUME NEW c \in Calls, ScoreStep(c) PROVE TypeOK'
  <2>1. ASSUME NEW s \in Scores \cup {NoScore}, pc[c] \in {"headers", "stream"},
               Judge(c, s)
        PROVE  TypeOK'
    <3>1. Judgement(c, s) \in Outcomes
      BY DEF Judgement, Decide, FallbackToDecision
    <3>. QED
      BY <2>1, <3>1 DEF Judge
  <2>2. CASE ScoreFailsOnce(c)
    BY <2>2 DEF ScoreFailsOnce
  <2>. QED
    BY <1>6, <2>1, <2>2 DEF ScoreStep, ScoreArrives, ScoreFails
<1>7. ASSUME NEW c \in Calls, Disconnect(c) PROVE TypeOK'
  BY <1>7 DEF Disconnect, LateEffect, ActionStatus
<1>8. CASE UNCHANGED vars
  BY <1>8 DEF vars
<1>. QED
  BY <1>1, <1>2, <1>3, <1>4, <1>5, <1>6, <1>7, <1>8 DEF Next

\* Every reachable state is well typed.
THEOREM TypeCorrect == Spec => []TypeOK
<1>. QED
  BY TypeInit, TypeStep, PTL DEF Spec

-----------------------------------------------------------------------------
(* Control: what each await implies                                        *)

Undecided == {"idle", "evaluate", "reply", "failed", "joined", "headers",
              "stream", "sleep"}
BeforeScoring == {"idle", "evaluate", "reply", "failed", "joined"}

\* The verdict exists exactly from the end of the scoring (or of a join that
\* needs none) on, and the action record not before it.  The verifier has not
\* been asked before the join is over, and once when the retry is due.
Controlled(c) ==
  /\ pc[c] \in Undecided => verdict[c] = "none"
  /\ pc[c] = "failed" => dec[c] = NoDecision
  /\ pc[c] \in {"record", "verify", "link", "drift"} => verdict[c] # "none"
  /\ pc[c] = "forward" => verdict[c] = "Allow"
  /\ sent[c] => pc[c] \in Ended
  /\ pc[c] \in Undecided \cup {"record"} => action[c] = "none"
  /\ pc[c] \in BeforeScoring => attempt[c] = 0
  /\ pc[c] = "sleep" => attempt[c] = 1

Control == \A c \in Calls : Controlled(c)

\* Under QUEUE the scoring ends without a score only after the second try.
LastTry(c, s) == s = NoScore => attempt[c] = 2 \/ Fallback(c) # "Queue"

\* Every step of a request is one of its named actions.
LEMMA StepCases ==
  ASSUME NEW c \in Calls, ProxyStep(c) \/ ScoreStep(c)
  PROVE  \/ PolicyAnswer(c) \/ PolicyReply(c) \/ PolicyFail(c) \/ ThinkingDone(c)
         \/ JoinFailed(c) \/ JoinDenied(c) \/ JoinPermitted(c)
         \/ HeadersArrive(c) \/ SleepOver(c) \/ ScoreFailsOnce(c)
         \/ (pc[c] \in {"headers", "stream"}
               /\ \E s \in Scores \cup {NoScore} : LastTry(c, s) /\ Judge(c, s))
         \/ RecordAction(c) \/ RecordVerification(c) \/ LinkVerification(c)
         \/ DriftOrigin(c) \/ Forward(c)
BY DEF ProxyStep, ScoreStep, ScoreArrives, ScoreFails, LastTry

LEMMA ControlStep == TypeOK /\ Control /\ [Next]_vars => Control'
<1> SUFFICES ASSUME TypeOK, Control, [Next]_vars, NEW b \in Calls
             PROVE  Controlled(b)'
  BY DEF Control
<1> USE DEF Control, Controlled, TypeOK, PCs, NodeStates, Undecided, BeforeScoring, Decided, Ended,
            Goto, envVars, policyVars, scoreVars, auditVars
<1>1. CASE Tick
  BY <1>1 DEF Tick
<1>2. ASSUME NEW k \in Keys, NEW d \in Decisions, PolicyChange(k, d)
      PROVE  Controlled(b)'
  BY <1>2 DEF PolicyChange
<1>3. ASSUME NEW c \in Calls, NEW k \in Keys, LookupHit(c, k) \/ LookupMiss(c, k)
      PROVE  Controlled(b)'
  <2>1. UNCHANGED <<verdict, action, attempt, sent>> /\ pc[c] = "idle"
    BY <1>3 DEF LookupHit, LookupMiss
  <2>2. CASE b = c
    <3>1. pc'[b] \in {"joined", "evaluate"}
      BY <1>3, <2>2 DEF LookupHit, LookupMiss
    <3>. QED
      BY <2>1, <2>2, <3>1
  <2>3. CASE b # c
    <3>1. pc'[b] = pc[b] /\ dec'[b] = dec[b]
      BY <1>3, <2>3 DEF LookupHit, LookupMiss
    <3>. QED
      BY <2>1, <3>1
  <2>. QED
    BY <2>2, <2>3
<1>4. ASSUME NEW c \in Calls, ProxyStep(c) \/ ScoreStep(c)
      PROVE  Controlled(b)'
  <2>1. CASE PolicyAnswer(c) \/ PolicyReply(c) \/ PolicyFail(c) \/ ThinkingDone(c)
    BY <2>1 DEF PolicyAnswer, PolicyReply, PolicyFail, ThinkingDone
  <2>2. CASE JoinFailed(c) \/ JoinDenied(c) \/ JoinPermitted(c)
    BY <2>2 DEF JoinFailed, JoinDenied, JoinPermitted
  <2>3. CASE HeadersArrive(c) \/ SleepOver(c) \/ ScoreFailsOnce(c)
    BY <2>3 DEF HeadersArrive, SleepOver, ScoreFailsOnce
  <2>4. ASSUME NEW s \in Scores \cup {NoScore}, pc[c] \in {"headers", "stream"},
               Judge(c, s)
        PROVE  Controlled(b)'
    <3>1. Judgement(c, s) \in Outcomes
      BY DEF Judgement, Decide, FallbackToDecision, Outcomes
    <3>. QED
      BY <2>4, <3>1 DEF Judge, Outcomes
  <2>5. CASE RecordAction(c)
    BY <2>5 DEF RecordAction, AfterRecord, AfterAudit
  <2>6. CASE RecordVerification(c) \/ LinkVerification(c) \/ DriftOrigin(c)
             \/ Forward(c)
    BY <2>6 DEF RecordVerification, LinkVerification, DriftOrigin, Forward, AfterAudit
  <2>. QED
    BY <1>4, <2>1, <2>2, <2>3, <2>4, <2>5, <2>6, StepCases
<1>5. ASSUME NEW c \in Calls, Disconnect(c)
      PROVE  Controlled(b)'
  BY <1>5 DEF Disconnect, LateEffect
<1>6. CASE UNCHANGED vars
  BY <1>6 DEF vars
<1>. QED
  BY <1>1, <1>2, <1>3, <1>4, <1>5, <1>6 DEF Next

\* Every reachable state satisfies Control.
THEOREM ControlCorrect == Spec => []Control
<1>1. Init => Control
  BY DEF Init, Control, Controlled, Undecided, BeforeScoring, Ended
<1>. QED
  BY <1>1, ControlStep, TypeCorrect, PTL DEF Spec

-----------------------------------------------------------------------------
(* Only justified requests are forwarded                                   *)

\* ForwardJustified is not inductive: it must already hold of the requests that
\* are about to be forwarded, and of those allowed but still being audited.
Justified(c) ==
  /\ sent[c] => Cleared(c) \/ FailedOpen(c)
  /\ pc[c] = "forward" => Cleared(c) \/ FailedOpen(c)
  /\ pc[c] \in {"record", "verify", "link"} /\ verdict[c] = "Allow" => Cleared(c)

JustifiedInv == \A c \in Calls : Justified(c)

\* The decision taken on a score allows only cleared requests.
LEMMA JudgeClears ==
  ASSUME TypeOK, NEW c \in Calls, NEW s \in Scores \cup {NoScore},
         pc[c] \in {"headers", "stream"}, Judge(c, s), verdict'[c] = "Allow"
  PROVE  Cleared(c)'
<1>1. Judgement(c, s) = "Allow"
  BY DEF TypeOK, Judge
<1>2. dec[c] \in Decisions /\ dec[c].allowed \in BOOLEAN
  BY DecisionsAssumption DEF TypeOK, Decided
<1>3. /\ dec[c].allowed
      /\ key[c] \in Traced \/ key[c] \in Allowlisted
      /\ IF s = NoScore THEN dec[c].fallback = FALLBACK_ALLOW
         ELSE s < dec[c].threshold
  BY <1>1, <1>2 DEF Judgement, Fallback, Decide, FallbackToDecision, MapFallback,
     FALLBACK_ALLOW, FALLBACK_QUEUE
<1>4. score'[c] = s /\ dec' = dec /\ key' = key
  BY DEF Judge, TypeOK, policyVars
<1>5. dec[c] # NoDecision
  BY <1>2, DecisionsAssumption
<1>. QED
  BY ONLY <1>3, <1>4, <1>5, SMT DEF Cleared

LEMMA JustifiedStep ==
  TypeOK /\ Control /\ JustifiedInv /\ [Next]_vars => JustifiedInv'
<1> SUFFICES ASSUME TypeOK, Control, JustifiedInv, [Next]_vars, NEW b \in Calls
             PROVE  Justified(b)'
  BY DEF JustifiedInv
<1>0. Controlled(b) /\ Justified(b)
  BY DEF Control, JustifiedInv
<1> USE <1>0 DEF Controlled, Justified, Cleared, FailedOpen, TypeOK, PCs, Undecided,
             Ended, Goto, envVars, policyVars, scoreVars, auditVars
<1>1. CASE Tick
  BY <1>1 DEF Tick
<1>2. ASSUME NEW k \in Keys, NEW d \in Decisions, PolicyChange(k, d)
      PROVE  Justified(b)'
  BY <1>2 DEF PolicyChange
<1>3. ASSUME NEW c \in Calls, NEW k \in Keys, LookupHit(c, k) \/ LookupMiss(c, k)
      PROVE  Justified(b)'
  <2>1. pc[c] = "idle" /\ ~sent[c] /\ UNCHANGED <<sent, score, verdict>>
    BY <1>3 DEF LookupHit, LookupMiss, Control
  <2>2. CASE b = c
    <3>1. pc'[b] \in {"joined", "evaluate"}
      BY <1>3, <2>2 DEF LookupHit, LookupMiss
    <3>. QED
      BY <2>1, <2>2, <3>1
  <2>3. CASE b # c
    <3>1. pc'[b] = pc[b] /\ key'[b] = key[b] /\ dec'[b] = dec[b]
      BY <1>3, <2>3 DEF LookupHit, LookupMiss
    <3>. QED
      BY <2>1, <3>1
  <2>. QED
    BY <2>2, <2>3
<1>4. ASSUME NEW c \in Calls, ProxyStep(c) \/ ScoreStep(c)
      PROVE  Justified(b)'
  <2>1. CASE PolicyAnswer(c) \/ PolicyReply(c) \/ PolicyFail(c) \/ ThinkingDone(c)
    BY <2>1 DEF PolicyAnswer, PolicyReply, PolicyFail, ThinkingDone
  <2>2. CASE JoinFailed(c) \/ JoinDenied(c) \/ JoinPermitted(c)
    BY <2>2 DEF JoinFailed, JoinDenied, JoinPermitted
  <2>3. CASE HeadersArrive(c) \/ SleepOver(c) \/ ScoreFailsOnce(c)
    BY <2>3 DEF HeadersArrive, SleepOver, ScoreFailsOnce
  <2>4. ASSUME NEW s \in Scores \cup {NoScore}, pc[c] \in {"headers", "stream"},
               Judge(c, s)
        PROVE  Justified(b)'
    <3>1. CASE b = c
      <4>1. pc'[b] = "record" /\ sent'[b] = sent[b] /\ ~sent[b]
        BY <2>4, <3>1 DEF Judge
      <4>. QED
        BY <2>4, <3>1, <4>1, JudgeClears DEF Judge
    <3>2. CASE b # c
      BY <2>4, <3>2 DEF Judge
    <3>. QED
      BY <3>1, <3>2
  <2>5. CASE RecordAction(c)
    BY <2>5 DEF RecordAction, AfterRecord, AfterAudit
  <2>6. CASE RecordVerification(c) \/ LinkVerification(c) \/ DriftOrigin(c)
    BY <2>6 DEF RecordVerification, LinkVerification, DriftOrigin, AfterAudit
  <2>7. CASE Forward(c)
    BY <2>7 DEF Forward
  <2>. QED
    BY <1>4, <2>1, <2>2, <2>3, <2>4, <2>5, <2>6, <2>7, StepCases
<1>5. ASSUME NEW c \in Calls, Disconnect(c)
      PROVE  Justified(b)'
  BY <1>5 DEF Disconnect, LateEffect
<1>6. CASE UNCHANGED vars
  BY <1>6 DEF vars
<1>. QED
  BY <1>1, <1>2, <1>3, <1>4, <1>5, <1>6 DEF Next

\* No request reaches the upstream that some gate did not clear, whatever the
\* cache, the retries, the lost audit calls and the policy changes did; under
\* fail_closed a failing policy service lets nothing through.
THEOREM ForwardJustifiedCorrect == Spec => []ForwardJustified
<1>1. Init => JustifiedInv
  BY DEF Init, JustifiedInv, Justified
<1>2. JustifiedInv => ForwardJustified
  BY DEF JustifiedInv, Justified, ForwardJustified
<1>. QED
  BY <1>1, <1>2, JustifiedStep, TypeCorrect, ControlCorrect, PTL DEF Spec

-----------------------------------------------------------------------------
(* The audit agrees with the answer                                        *)

AfterAction == {"verify", "link", "drift", "forward", "done"}
AfterVerification == {"link", "drift", "forward", "done", "left"}
AfterLink == {"drift", "forward", "done", "left"}

\* AuditAgrees for a request at every await after its records were written; a
\* record exists only once its await has passed.
Audited(c) ==
  /\ pc[c] \in AfterAction /\ dec[c] # NoDecision
       => action[c] \in {ActionStatus(verdict[c]), "lost"}
  /\ verification[c] # "none"
       => /\ pc[c] \in AfterVerification
          /\ verification[c] \in {ActionStatus(verdict[c]), "lost"}
  /\ edge[c] = "linked"
       => pc[c] \in AfterLink /\ action[c] = verification[c] /\ Stored(action[c])

AuditedInv == \A c \in Calls : Audited(c)

LEMMA AuditedStep ==
  TypeOK /\ Control /\ AuditedInv /\ [Next]_vars => AuditedInv'
<1> SUFFICES ASSUME TypeOK, Control, AuditedInv, [Next]_vars, NEW b \in Calls
             PROVE  Audited(b)'
  BY DEF AuditedInv
<1>0. Controlled(b) /\ Audited(b)
  BY DEF Control, AuditedInv
<1> USE <1>0 DEF Controlled, Audited, AfterAction, AfterVerification, AfterLink,
             TypeOK, PCs, NodeStates, Undecided, Decided, Ended, Stored,
             ActionStatus, Goto, envVars, policyVars, scoreVars, auditVars
<1>1. CASE Tick
  BY <1>1 DEF Tick
<1>2. ASSUME NEW k \in Keys, NEW d \in Decisions, PolicyChange(k, d)
      PROVE  Audited(b)'
  BY <1>2 DEF PolicyChange
<1>3. ASSUME NEW c \in Calls, NEW k \in Keys, LookupHit(c, k) \/ LookupMiss(c, k)
      PROVE  Audited(b)'
  BY <1>3 DEF LookupHit, LookupMiss
<1>4. ASSUME NEW c \in Calls, ProxyStep(c) \/ ScoreStep(c)
      PROVE  Audited(b)'
  <2>1. CASE PolicyAnswer(c) \/ PolicyReply(c) \/ PolicyFail(c) \/ ThinkingDone(c)
    BY <2>1 DEF PolicyAnswer, PolicyReply, PolicyFail, ThinkingDone
  <2>2. CASE JoinFailed(c) \/ JoinDenied(c) \/ JoinPermitted(c)
    BY <2>2 DEF JoinFailed, JoinDenied, JoinPermitted
  <2>3. CASE HeadersArrive(c) \/ SleepOver(c) \/ ScoreFailsOnce(c)
    BY <2>3 DEF HeadersArrive, SleepOver, ScoreFailsOnce
  <2>4. ASSUME NEW s \in Scores \cup {NoScore}, pc[c] \in {"headers", "stream"},
               Judge(c, s)
        PROVE  Audited(b)'
    BY <2>4 DEF Judge
  <2>5. CASE RecordAction(c)
    BY <2>5 DEF RecordAction, AfterRecord, AfterAudit
  <2>6. CASE RecordVerification(c)
    BY <2>6 DEF RecordVerification
  <2>7. CASE LinkVerification(c)
    BY <2>7 DEF LinkVerification, AfterAudit
  <2>8. CASE DriftOrigin(c) \/ Forward(c)
    BY <2>8 DEF DriftOrigin, Forward
  <2>. QED
    BY <1>4, <2>1, <2>2, <2>3, <2>4, <2>5, <2>6, <2>7, <2>8, StepCases
<1>5. ASSUME NEW c \in Calls, Disconnect(c)
      PROVE  Audited(b)'
  BY <1>5 DEF Disconnect, LateEffect
<1>6. CASE UNCHANGED vars
  BY <1>6 DEF vars
<1>. QED
  BY <1>1, <1>2, <1>3, <1>4, <1>5, <1>6 DEF Next

\* The audit graph never contradicts the answer a client got.
THEOREM AuditAgreesCorrect == Spec => []AuditAgrees
<1>1. Init => AuditedInv
  BY DEF Init, AuditedInv, Audited, AfterAction
<1>2. AuditedInv => AuditAgrees
  BY DEF AuditedInv, Audited, AuditAgrees, AfterAction, ActionStatus,
     AbstractGate!Status
<1>. QED
  BY <1>1, <1>2, AuditedStep, TypeCorrect, ControlCorrect, PTL DEF Spec

-----------------------------------------------------------------------------
(* How old an adopted decision can be                                      *)

\* No recorded time lies in the future.
PastInv ==
  /\ \A k \in Keys, d \in Decisions : lastHeld[k][d] <= now
  /\ \A k \in Keys : cache[k].storedAt <= now
  /\ \A c \in Calls : evaluatedAt[c] <= now /\ usedAt[c] <= now

\* A cached decision was still given when its answer left the service, and that
\* was at most RpcMax before it was stored.
EntryFresh(k) ==
  cache[k].dec # NoDecision
    => HeldSince(k, cache[k].dec, cache[k].storedAt - RpcMax)

\* So was one that is under way, and one that was adopted is within the TTL of
\* such an entry.
RequestFresh(c) ==
  /\ pc[c] = "reply" => /\ HeldSince(key[c], dec[c], evaluatedAt[c])
                        /\ now <= evaluatedAt[c] + RpcMax
  /\ pc[c] \notin {"idle", "evaluate", "reply"} /\ dec[c] # NoDecision
       => HeldSince(key[c], dec[c], usedAt[c] - TTL - RpcMax)

\* A request past its lookup holds no decision before one is given to it.
NoneYet(c) == pc[c] \in {"idle", "evaluate"} => dec[c] = NoDecision

FreshInv ==
  /\ PastInv
  /\ \A k \in Keys : EntryFresh(k)
  /\ \A c \in Calls : RequestFresh(c) /\ NoneYet(c)

\* What was held since t stays so: a policy change moves the time at which its
\* old decision was last given to the present.
LEMMA HeldStable ==
  ASSUME TypeOK, PastInv, NEW k \in Keys, NEW d \in Decisions,
         PolicyChange(k, d), NEW j \in Keys, NEW e \in Decisions,
         NEW t \in Int, t <= now, HeldSince(j, e, t)
  PROVE  HeldSince(j, e, t)'
<1>1. lastHeld' = [lastHeld EXCEPT ![k] = [lastHeld[k] EXCEPT ![policy[k]] = now]]
  BY DEF PolicyChange, TypeOK
<1>2. policy' = [policy EXCEPT ![k] = d]
  BY DEF PolicyChange
<1>3. now \in Int /\ lastHeld[j][e] \in Int
  BY DEF TypeOK, Never
<1>4. CASE j = k /\ e = policy[k]
  <2>1. lastHeld'[j][e] = now
    BY <1>1, <1>4 DEF TypeOK
  <2>. QED
    BY <2>1 DEF HeldSince
<1>5. CASE j # k \/ e # policy[k]
  <2>1. lastHeld'[j][e] = lastHeld[j][e]
    BY <1>1, <1>5 DEF TypeOK
  <2>2. e = policy[j] => j # k
    BY <1>5
  <2>3. e = policy[j] => e = policy'[j]
    BY <1>2, <2>2 DEF TypeOK
  <2>. QED
    BY <2>1, <2>3 DEF HeldSince
<1>. QED
  BY <1>4, <1>5

LEMMA FreshStep ==
  TypeOK /\ Control /\ FreshInv /\ [Next]_vars => FreshInv'
<1> SUFFICES ASSUME TypeOK, Control, FreshInv, [Next]_vars
             PROVE  FreshInv'
  OBVIOUS
<1> USE DEF FreshInv, PastInv, EntryFresh, RequestFresh, NoneYet, Goto, PCs, Decided,
            envVars, policyVars, scoreVars, auditVars
<1>1. CASE Tick
  BY <1>1 DEF Tick, HeldSince, TypeOK
<1>2. ASSUME NEW k \in Keys, NEW d \in Decisions, PolicyChange(k, d)
      PROVE  FreshInv'
  <2>0. UNCHANGED <<now, cache, key, dec, evaluatedAt, usedAt, pc>>
    BY <1>2 DEF PolicyChange
  <2>1. PastInv'
    BY <1>2 DEF PolicyChange, TypeOK
  <2>2. ASSUME NEW j \in Keys PROVE EntryFresh(j)'
    <3>1. CASE cache[j].dec # NoDecision
      <4>1. /\ cache[j].dec \in Decisions /\ cache[j].storedAt - RpcMax \in Int
            /\ cache[j].storedAt - RpcMax <= now
        BY <3>1 DEF TypeOK
      <4>2. HeldSince(j, cache[j].dec, cache[j].storedAt - RpcMax)
        BY <3>1
      <4>3. HeldSince(j, cache[j].dec, cache[j].storedAt - RpcMax)'
        BY <1>2, <2>0, <4>1, <4>2, HeldStable DEF HeldSince
      <4>. QED
        BY <4>3
    <3>. QED
      BY <2>0, <3>1
  <2>3. ASSUME NEW c \in Calls PROVE (RequestFresh(c) /\ NoneYet(c))'
    <3>1. ASSUME NEW t \in Int, t <= now, key[c] \in Keys, dec[c] \in Decisions,
                 HeldSince(key[c], dec[c], t)
          PROVE  HeldSince(key[c], dec[c], t)'
      BY <1>2, <2>0, <3>1, HeldStable DEF HeldSince
    <3>2. /\ evaluatedAt[c] \in Int /\ evaluatedAt[c] <= now
          /\ usedAt[c] - TTL - RpcMax \in Int /\ usedAt[c] - TTL - RpcMax <= now
      BY DEF TypeOK
    <3>3. CASE pc[c] = "reply"
      BY <2>0, <3>1, <3>2, <3>3 DEF TypeOK, HeldSince
    <3>4. CASE pc[c] \notin {"idle", "evaluate", "reply"} /\ dec[c] # NoDecision
      BY <2>0, <3>1, <3>2, <3>4 DEF TypeOK, HeldSince
    <3>. QED
      BY <2>0, <3>3, <3>4
  <2>. QED
    BY <2>1, <2>2, <2>3
<1>3. ASSUME NEW c \in Calls, NEW k \in Keys, LookupHit(c, k)
      PROVE  FreshInv'
  <2>1. HeldSince(k, cache[k].dec, now - TTL - RpcMax)
    BY <1>3 DEF LookupHit, Hit, HeldSince, TypeOK, Never
  <2>. QED
    BY <1>3, <2>1 DEF LookupHit, HeldSince, TypeOK
<1>4. ASSUME NEW c \in Calls, NEW k \in Keys, LookupMiss(c, k)
      PROVE  FreshInv'
  BY <1>4 DEF LookupMiss, NoEntry, HeldSince, TypeOK
<1>5. ASSUME NEW c \in Calls, PolicyAnswer(c)
      PROVE  FreshInv'
  BY <1>5 DEF PolicyAnswer, HeldSince, TypeOK
<1>6. ASSUME NEW c \in Calls, PolicyReply(c)
      PROVE  FreshInv'
  <2>1. /\ key[c] \in Keys /\ dec[c] \in Decisions
        /\ HeldSince(key[c], dec[c], evaluatedAt[c])
        /\ now <= evaluatedAt[c] + RpcMax
    BY <1>6 DEF PolicyReply, TypeOK
  <2>2. /\ HeldSince(key[c], dec[c], now - RpcMax)
        /\ HeldSince(key[c], dec[c], now - TTL - RpcMax)
    BY <2>1 DEF HeldSince, TypeOK, Never
  <2>. QED
    BY <1>6, <2>1, <2>2 DEF PolicyReply, HeldSince, TypeOK
<1>7. ASSUME NEW c \in Calls, PolicyFail(c)
      PROVE  FreshInv'
  BY <1>7 DEF PolicyFail, HeldSince, TypeOK
<1>8. ASSUME NEW c \in Calls, pc[c] \notin {"idle", "evaluate", "reply"},
             UNCHANGED <<envVars, policyVars>>,
             \E l \in PCs \ {"idle", "evaluate", "reply"} : Goto(c, l)
      PROVE  FreshInv'
  BY <1>8 DEF HeldSince, TypeOK
<1>9. ASSUME NEW c \in Calls, ThinkingDone(c)
      PROVE  FreshInv'
  BY <1>9 DEF ThinkingDone, HeldSince
<1>10. ASSUME NEW c \in Calls, Disconnect(c)
       PROVE  FreshInv'
  <2>1. pc[c] = "reply" => HeldSince(key[c], dec[c], usedAt[c] - TTL - RpcMax)
    BY DEF HeldSince, TypeOK, Never
  <2>. QED
    BY <1>10, <2>1 DEF Disconnect, HeldSince, TypeOK, Ended
<1>11. ASSUME NEW c \in Calls, ProxyStep(c) \/ ScoreStep(c)
       PROVE  FreshInv'
  <2>1. CASE JoinFailed(c) \/ JoinDenied(c) \/ JoinPermitted(c)
    BY <1>8, <2>1 DEF JoinFailed, JoinDenied, JoinPermitted
  <2>2. CASE HeadersArrive(c) \/ SleepOver(c) \/ ScoreFailsOnce(c)
    BY <1>8, <2>2 DEF HeadersArrive, SleepOver, ScoreFailsOnce
  <2>3. CASE pc[c] \in {"headers", "stream"}
               /\ \E s \in Scores \cup {NoScore} : Judge(c, s)
    BY <1>8, <2>3 DEF Judge
  <2>4. CASE RecordAction(c)
    BY <1>8, <2>4 DEF RecordAction, AfterRecord, AfterAudit
  <2>5. CASE RecordVerification(c) \/ LinkVerification(c) \/ DriftOrigin(c)
             \/ Forward(c)
    BY <1>8, <2>5 DEF RecordVerification, LinkVerification, DriftOrigin, Forward,
       AfterAudit
  <2>. QED
    BY <1>5, <1>6, <1>7, <1>9, <1>11, <2>1, <2>2, <2>3, <2>4, <2>5, StepCases
<1>12. CASE UNCHANGED vars
  BY <1>12 DEF vars, HeldSince
<1>. QED
  BY <1>1, <1>2, <1>3, <1>4, <1>10, <1>11, <1>12 DEF Next

\* A request adopts only a decision the policy service still gave TTL + RpcMax
\* earlier, even when concurrent misses store their answers out of order.
THEOREM BoundedStalenessCorrect == Spec => []BoundedStaleness
<1>1. Init => FreshInv
  BY DEF Init, FreshInv, PastInv, EntryFresh, RequestFresh, NoneYet, NoEntry, Never
<1>2. FreshInv => BoundedStaleness
  BY DEF FreshInv, RequestFresh, BoundedStaleness, Adopted
<1>. QED
  BY <1>1, <1>2, FreshStep, TypeCorrect, ControlCorrect, PTL DEF Spec

-----------------------------------------------------------------------------
(* A request is judged once                                                *)

\* An adopted decision is that of every later state.
LEMMA AdoptedStep ==
  ASSUME TypeOK, [Next]_vars, NEW b \in Calls, Adopted(b)
  PROVE  dec'[b] = dec[b]
<1> USE DEF Adopted, TypeOK, Goto, envVars, policyVars, scoreVars, auditVars
<1>1. CASE Tick
  BY <1>1 DEF Tick
<1>2. ASSUME NEW k \in Keys, NEW d \in Decisions, PolicyChange(k, d)
      PROVE  dec'[b] = dec[b]
  BY <1>2 DEF PolicyChange
<1>3. ASSUME NEW c \in Calls, NEW k \in Keys, LookupHit(c, k) \/ LookupMiss(c, k)
      PROVE  dec'[b] = dec[b]
  BY <1>3 DEF LookupHit, LookupMiss
<1>4. ASSUME NEW c \in Calls, ProxyStep(c) \/ ScoreStep(c)
      PROVE  dec'[b] = dec[b]
  <2>1. CASE PolicyAnswer(c) \/ PolicyReply(c) \/ PolicyFail(c) \/ ThinkingDone(c)
    BY <2>1 DEF PolicyAnswer, PolicyReply, PolicyFail, ThinkingDone
  <2>2. CASE JoinFailed(c) \/ JoinDenied(c) \/ JoinPermitted(c)
    BY <2>2 DEF JoinFailed, JoinDenied, JoinPermitted
  <2>3. CASE HeadersArrive(c) \/ SleepOver(c) \/ ScoreFailsOnce(c)
    BY <2>3 DEF HeadersArrive, SleepOver, ScoreFailsOnce
  <2>4. CASE \E s \in Scores \cup {NoScore} : Judge(c, s)
    BY <2>4 DEF Judge
  <2>5. CASE RecordAction(c) \/ RecordVerification(c) \/ LinkVerification(c)
             \/ DriftOrigin(c) \/ Forward(c)
    BY <2>5 DEF RecordAction, RecordVerification, LinkVerification, DriftOrigin,
       Forward
  <2>. QED
    BY <1>4, <2>1, <2>2, <2>3, <2>4, <2>5, StepCases
<1>5. ASSUME NEW c \in Calls, Disconnect(c)
      PROVE  dec'[b] = dec[b]
  BY <1>5 DEF Disconnect
<1>6. CASE UNCHANGED vars
  BY <1>6 DEF vars
<1>. QED
  BY <1>1, <1>2, <1>3, <1>4, <1>5, <1>6 DEF Next

\* Once there is a verdict nobody asks the verifier again, and nothing replaces it.
LEMMA VerdictStep ==
  ASSUME TypeOK, Control, [Next]_vars, NEW b \in Calls, verdict[b] # "none"
  PROVE  verdict'[b] = verdict[b] /\ score'[b] = score[b] /\ attempt'[b] = attempt[b]
<1> DEFINE Same(x) == x'[b] = x[b]
<1>0. Controlled(b)
  BY DEF Control
<1> USE <1>0 DEF Controlled, TypeOK, Undecided, Goto, envVars, policyVars,
             scoreVars, auditVars
<1>1. CASE Tick
  BY <1>1 DEF Tick
<1>2. ASSUME NEW k \in Keys, NEW d \in Decisions, PolicyChange(k, d)
      PROVE  Same(verdict) /\ Same(score) /\ Same(attempt)
  BY <1>2 DEF PolicyChange
<1>3. ASSUME NEW c \in Calls, NEW k \in Keys, LookupHit(c, k) \/ LookupMiss(c, k)
      PROVE  Same(verdict) /\ Same(score) /\ Same(attempt)
  BY <1>3 DEF LookupHit, LookupMiss
<1>4. ASSUME NEW c \in Calls, ProxyStep(c) \/ ScoreStep(c)
      PROVE  Same(verdict) /\ Same(score) /\ Same(attempt)
  <2>1. CASE PolicyAnswer(c) \/ PolicyReply(c) \/ PolicyFail(c) \/ ThinkingDone(c)
    BY <2>1 DEF PolicyAnswer, PolicyReply, PolicyFail, ThinkingDone
  <2>2. CASE JoinFailed(c) \/ JoinDenied(c) \/ JoinPermitted(c)
    BY <2>2 DEF JoinFailed, JoinDenied, JoinPermitted
  <2>3. CASE HeadersArrive(c) \/ SleepOver(c) \/ ScoreFailsOnce(c)
    BY <2>3 DEF HeadersArrive, SleepOver, ScoreFailsOnce
  <2>4. CASE pc[c] \in {"headers", "stream"}
               /\ \E s \in Scores \cup {NoScore} : Judge(c, s)
    BY <2>4 DEF Judge
  <2>5. CASE RecordAction(c) \/ RecordVerification(c) \/ LinkVerification(c)
             \/ DriftOrigin(c) \/ Forward(c)
    BY <2>5 DEF RecordAction, RecordVerification, LinkVerification, DriftOrigin,
       Forward
  <2>. QED
    BY <1>4, <2>1, <2>2, <2>3, <2>4, <2>5, StepCases
<1>5. ASSUME NEW c \in Calls, Disconnect(c)
      PROVE  Same(verdict) /\ Same(score) /\ Same(attempt)
  BY <1>5 DEF Disconnect
<1>6. CASE UNCHANGED vars
  BY <1>6 DEF vars
<1>. QED
  BY <1>1, <1>2, <1>3, <1>4, <1>5, <1>6 DEF Next

\* A request keeps the decision it adopted over the join, the scorings and the
\* pause between them, and the verdict that follows from it for good.
THEOREM JudgedOnceCorrect == Spec => JudgedOnce
<1>1. TypeOK /\ Control /\ [Next]_vars =>
        [\A c \in Calls :
           /\ Adopted(c) => dec'[c] = dec[c]
           /\ verdict[c] # "none" =>
                verdict'[c] = verdict[c] /\ score'[c] = score[c]
                  /\ attempt'[c] = attempt[c]]_vars
  BY AdoptedStep, VerdictStep
<1>. QED
  BY <1>1, TypeCorrect, ControlCorrect, PTL DEF Spec, JudgedOnce

-----------------------------------------------------------------------------
(* Enforcement implements Gate                                             *)

\* What a step does not do to the abstract variables, it leaves alone.
LEMMA GateStutter ==
  ASSUME UNCHANGED <<verdict, action, sent, attempt>>
  PROVE  UNCHANGED AbstractGate!vars
BY DEF AbstractGate!vars, Logged

LEMMA GateStep ==
  TypeOK /\ Control /\ [Next]_vars => [AbstractGate!Next]_(AbstractGate!vars)
<1> SUFFICES ASSUME TypeOK, Control, [Next]_vars
             PROVE  AbstractGate!Next \/ UNCHANGED AbstractGate!vars
  OBVIOUS
<1> USE DEF Control, Controlled, TypeOK, NodeStates, Undecided, BeforeScoring, Ended, Outcomes,
            Goto, envVars, policyVars, scoreVars, auditVars, Logged, Stored,
            AbstractGate!vars, AbstractGate!Verdicts, AbstractGate!Status, ActionStatus
<1>1. CASE Tick
  BY <1>1 DEF Tick
<1>2. ASSUME NEW k \in Keys, NEW d \in Decisions, PolicyChange(k, d)
      PROVE  UNCHANGED AbstractGate!vars
  BY <1>2 DEF PolicyChange
<1>3. ASSUME NEW c \in Calls, NEW k \in Keys, LookupHit(c, k) \/ LookupMiss(c, k)
      PROVE  UNCHANGED AbstractGate!vars
  BY <1>3 DEF LookupHit, LookupMiss
<1>4. ASSUME NEW c \in Calls, JoinFailed(c) \/ JoinDenied(c)
      PROVE  AbstractGate!Judge(c)
  BY <1>4 DEF JoinFailed, JoinDenied, AbstractGate!Judge
<1>5. ASSUME NEW c \in Calls, pc[c] \in {"headers", "stream"},
             NEW s \in Scores \cup {NoScore}, LastTry(c, s), Judge(c, s)
      PROVE  AbstractGate!Judge(c)
  <2>1. Judgement(c, s) \in Outcomes
    BY DEF Judgement, Decide, FallbackToDecision
  <2>2. Judgement(c, s) = "Queue" => s = NoScore /\ Fallback(c) = "Queue"
    BY DEF Judgement, Decide, FallbackToDecision, Fallback, MapFallback
  <2>3. verdict'[c] = "Queue" => attempt[c] = 2
    BY <1>5, <2>2 DEF Judge, LastTry
  <2>. QED
    BY <1>5, <2>1, <2>3 DEF Judge, AbstractGate!Judge
<1>6. ASSUME NEW c \in Calls, pc[c] = "record",
             action' = [action EXCEPT ![c] = ActionStatus(verdict[c])],
             UNCHANGED <<verdict, sent, attempt>>
      PROVE  AbstractGate!Log(c)
  <2>1. verdict[c] # "none" /\ action[c] = "none" /\ ~sent[c]
    BY <1>6
  <2>2. Logged' = [Logged EXCEPT ![c] = ActionStatus(verdict[c])]
    BY <1>6
  <2>. QED
    BY <1>6, <2>1, <2>2 DEF AbstractGate!Log
<1>7. ASSUME NEW c \in Calls, action' = [action EXCEPT ![c] = "lost"],
             pc[c] = "record", UNCHANGED <<verdict, sent, attempt>>
      PROVE  UNCHANGED AbstractGate!vars
  BY <1>7
<1>8. ASSUME NEW c \in Calls, pc[c] = "forward",
             sent' = [sent EXCEPT ![c] = TRUE], UNCHANGED <<verdict, action, attempt>>
      PROVE  AbstractGate!Release(c)
  BY <1>8 DEF AbstractGate!Release
<1>9. ASSUME NEW c \in Calls, JoinPermitted(c) \/ SleepOver(c)
       PROVE  AbstractGate!Ask(c)
  BY <1>9 DEF JoinPermitted, SleepOver, AbstractGate!Ask
<1>10. ASSUME NEW c \in Calls, ProxyStep(c) \/ ScoreStep(c)
      PROVE  AbstractGate!Next \/ UNCHANGED AbstractGate!vars
  <2>1. CASE PolicyAnswer(c) \/ PolicyReply(c) \/ PolicyFail(c) \/ ThinkingDone(c)
    BY <2>1, GateStutter DEF PolicyAnswer, PolicyReply, PolicyFail, ThinkingDone
  <2>2. CASE HeadersArrive(c) \/ ScoreFailsOnce(c)
             \/ RecordVerification(c) \/ LinkVerification(c) \/ DriftOrigin(c)
    BY <2>2, GateStutter DEF HeadersArrive, ScoreFailsOnce,
       RecordVerification, LinkVerification, DriftOrigin
  <2>3. CASE RecordAction(c)
    BY <1>6, <1>7, <2>3 DEF RecordAction, AbstractGate!Next
  <2>4. CASE Forward(c)
    BY <1>8, <2>4 DEF Forward, AbstractGate!Next
  <2>5. CASE pc[c] \in {"headers", "stream"}
               /\ \E s \in Scores \cup {NoScore} : LastTry(c, s) /\ Judge(c, s)
    BY <1>5, <2>5 DEF AbstractGate!Next
  <2>6. CASE JoinFailed(c) \/ JoinDenied(c)
    BY <1>4, <2>6 DEF AbstractGate!Next
  <2>7. CASE JoinPermitted(c) \/ SleepOver(c)
    BY <1>9, <2>7 DEF AbstractGate!Next
  <2>. QED
    BY <1>10, <2>1, <2>2, <2>3, <2>4, <2>5, <2>6, <2>7, StepCases
<1>11. ASSUME NEW c \in Calls, Disconnect(c)
       PROVE  AbstractGate!Next \/ UNCHANGED AbstractGate!vars
  <2>1. CASE UNCHANGED <<action, sent>>
    BY <1>11, <2>1, GateStutter DEF Disconnect
  <2>2. CASE pc[c] = "record" /\ UNCHANGED sent
             /\ action' = [action EXCEPT ![c] = ActionStatus(verdict[c])]
    BY <1>6, <1>11, <2>2 DEF Disconnect, AbstractGate!Next
  <2>3. CASE pc[c] = "forward" /\ sent' = [sent EXCEPT ![c] = TRUE]
             /\ UNCHANGED action
    BY <1>8, <1>11, <2>3 DEF Disconnect, AbstractGate!Next
  <2>. QED
    BY <1>11, <2>1, <2>2, <2>3 DEF Disconnect, LateEffect
<1>12. CASE UNCHANGED vars
  BY <1>12 DEF vars
<1>. QED
  BY <1>1, <1>2, <1>3, <1>10, <1>11, <1>12 DEF Next

\* The proxy judges, logs and releases each request as Gate says it does.
THEOREM EnforcementImplementsGate == Spec => GateSpec
<1>1. Init => AbstractGate!Init
  BY DEF Init, AbstractGate!Init, Logged, Stored
<1>. QED
  BY <1>1, GateStep, TypeCorrect, ControlCorrect, PTL
     DEF Spec, GateSpec, AbstractGate!Spec
=============================================================================
