----------------------------- MODULE Enforcement -----------------------------
(***************************************************************************)
(* evaluate_tool_call (proxy/src/enforcement.rs) as the HTTP front ends    *)
(* run it: one task per request, all sharing the policy cache, each        *)
(* suspended at every await.  pc names the await a request stands at:      *)
(*                                                                         *)
(*   idle      not received yet                                            *)
(*   evaluate  EvaluateAction sent, the policy service has not answered    *)
(*   reply     the service has answered, the proxy has not seen it yet     *)
(*   joined    policy_fut is finished, join! may still wait for the        *)
(*             thinking node (failed: finished with an error)              *)
(*   headers   StreamScore sent, under the 2 s timeout                     *)
(*   stream    response headers came, waiting for the message, untimed     *)
(*   sleep     the 500 ms pause before the one retry                       *)
(*   record, verify, link, drift    the audit calls to the graph service   *)
(*   forward   allowed, the request to the upstream is about to go out     *)
(*   done      answered        left    dropped: the client disconnected    *)
(*                                                                         *)
(* The policy, verifier and graph services are external here: they may     *)
(* answer anything of their type or fail, and the policy may change at     *)
(* any time.  An insert reported as failed is taken as not applied.        *)
(***************************************************************************)
EXTENDS CircuitBreaker

CONSTANTS
  Calls,          \* the requests
  Keys,           \* cache keys: (agent, tool, arguments)
  NoKey,          \* the key of a request that has not arrived
  Traced,         \* the keys whose arguments carry a thinking trace
  Allowlisted,    \* the keys whose tool is in allow_without_trace_tools
  Volatile,       \* the keys whose decision may change while requests run
  Decisions,      \* the PolicyDecision values the policy service can give; ruled: rule_id
                  \* names a rule, which that of a denial by the lists of tools does not
  NoDecision,     \* no decision (None)
  Scores,         \* the scores the verifier can give
  FailClosed,     \* config.fail_closed
  TTL,            \* config.policy_cache_ttl_ms, in ticks
  RpcMax,         \* bound on how long a policy answer is under way, in ticks
  MaxNow          \* bound on the clock

ASSUME DecisionsAssumption ==
  /\ Decisions \subseteq [allowed : BOOLEAN, ruled : BOOLEAN, threshold : Int, fallback : Int]
  /\ NoDecision \notin Decisions
ASSUME ScoresAssumption == Scores \subseteq Int /\ NoScore \notin Int
ASSUME KeysAssumption ==
  /\ NoKey \notin Keys
  /\ Traced \subseteq Keys /\ Allowlisted \subseteq Keys
  /\ Volatile \subseteq Keys
ASSUME TimeAssumption ==
  TTL \in Nat /\ RpcMax \in Nat /\ MaxNow \in Nat /\ FailClosed \in BOOLEAN

VARIABLES
  now,          \* the proxy's monotonic clock
  policy,       \* what the policy service would answer for each key now
  lastHeld,     \* when it last stopped answering a decision (history)
  cache,        \* PolicyCache.entries
  pc, key,      \* per request: its await, its cache key
  dec,          \* its PolicyDecision
  evaluatedAt,  \* when the service answered, while that is under way (history)
  usedAt,       \* when policy_fut finished with a decision (history)
  attempt,      \* StreamScore requests sent
  score,        \* the verifier's score
  verdict,      \* the decision the request is answered by
  thinking,     \* its thinking node: none, pending, stored or lost
  action,       \* the status of its action node; none, or lost in transit
  verification, \* the same for its verification node
  edge,         \* its VERIFIED_BY edge: none, linked or lost
  sent          \* forwarded upstream

envVars   == <<now, policy, lastHeld>>
policyVars == <<cache, key, dec, evaluatedAt, usedAt>>
scoreVars == <<attempt, score>>
auditVars == <<action, verification, edge>>
vars == <<envVars, policyVars, scoreVars, auditVars, pc, verdict, thinking, sent>>

NoEntry == [dec |-> NoDecision, storedAt |-> 0]
Never == 0 - (TTL + RpcMax) - 1
Ended == {"done", "left"}

Init ==
  /\ now = 0
  /\ policy \in [Keys -> Decisions]
  /\ lastHeld = [k \in Keys |-> [d \in Decisions |-> Never]]
  /\ cache = [k \in Keys |-> NoEntry]
  /\ pc = [c \in Calls |-> "idle"]
  /\ key = [c \in Calls |-> NoKey]
  /\ dec = [c \in Calls |-> NoDecision]
  /\ evaluatedAt = [c \in Calls |-> 0]
  /\ usedAt = [c \in Calls |-> 0]
  /\ attempt = [c \in Calls |-> 0]
  /\ score = [c \in Calls |-> NoScore]
  /\ verdict = [c \in Calls |-> "none"]
  /\ thinking = [c \in Calls |-> "none"]
  /\ action = [c \in Calls |-> "none"]
  /\ verification = [c \in Calls |-> "none"]
  /\ edge = [c \in Calls |-> "none"]
  /\ sent = [c \in Calls |-> FALSE]

Goto(c, l) == pc' = [pc EXCEPT ![c] = l]

-----------------------------------------------------------------------------
(* policy_fut and thinking_fut, run together by tokio::join!               *)

\* PolicyCache::get would return this entry.
Hit(k) == cache[k].dec # NoDecision /\ now - cache[k].storedAt <= TTL

\* thinking_fut starts with the request when a trace was extracted.
StartThinking(c, k) ==
  thinking' = [thinking EXCEPT ![c] = IF k \in Traced THEN "pending" ELSE "none"]

\* Mutant: a hit renews the entry, so the TTL slides.
LookupHitSliding(c, k) ==
  /\ pc[c] = "idle"
  /\ Hit(k)
  /\ key' = [key EXCEPT ![c] = k]
  /\ dec' = [dec EXCEPT ![c] = cache[k].dec]
  /\ usedAt' = [usedAt EXCEPT ![c] = now]
  /\ cache' = [cache EXCEPT ![k].storedAt = now]
  /\ StartThinking(c, k)
  /\ Goto(c, "joined")
  /\ UNCHANGED <<envVars, evaluatedAt, scoreVars, auditVars, verdict, sent>>

\* The request arrives and finds a fresh decision.
LookupHit(c, k) ==
  /\ pc[c] = "idle"
  /\ Hit(k)
  /\ key' = [key EXCEPT ![c] = k]
  /\ dec' = [dec EXCEPT ![c] = cache[k].dec]
  /\ usedAt' = [usedAt EXCEPT ![c] = now]
  /\ StartThinking(c, k)
  /\ Goto(c, "joined")
  /\ UNCHANGED <<envVars, cache, evaluatedAt, scoreVars, auditVars, verdict, sent>>

\* The request arrives and finds none; an expired entry is removed.  The lock
\* is released before the RPC, so several requests may miss on one key.
LookupMiss(c, k) ==
  /\ pc[c] = "idle"
  /\ ~Hit(k)
  /\ cache' = [cache EXCEPT ![k] = NoEntry]
  /\ key' = [key EXCEPT ![c] = k]
  /\ StartThinking(c, k)
  /\ Goto(c, "evaluate")
  /\ UNCHANGED <<envVars, dec, evaluatedAt, usedAt, scoreVars, auditVars, verdict, sent>>

\* The policy service evaluates the request.
PolicyAnswer(c) ==
  /\ pc[c] = "evaluate"
  /\ dec' = [dec EXCEPT ![c] = policy[key[c]]]
  /\ evaluatedAt' = [evaluatedAt EXCEPT ![c] = now]
  /\ Goto(c, "reply")
  /\ UNCHANGED <<envVars, cache, key, usedAt, scoreVars, auditVars, verdict,
                 thinking, sent>>

\* Mutant: the answer replaces the decision every request on the key holds.
PolicyReplyShared(c) ==
  /\ pc[c] = "reply"
  /\ cache' = [cache EXCEPT ![key[c]] = [dec |-> dec[c], storedAt |-> now]]
  /\ dec' = [b \in Calls |-> IF key[b] = key[c] /\ dec[b] # NoDecision
                             THEN dec[c] ELSE dec[b]]
  /\ usedAt' = [usedAt EXCEPT ![c] = now]
  /\ evaluatedAt' = [evaluatedAt EXCEPT ![c] = 0]
  /\ Goto(c, "joined")
  /\ UNCHANGED <<envVars, key, scoreVars, auditVars, verdict, thinking, sent>>

\* The answer reaches the proxy, which stores it with the time of storing.
PolicyReply(c) ==
  /\ pc[c] = "reply"
  /\ cache' = [cache EXCEPT ![key[c]] = [dec |-> dec[c], storedAt |-> now]]
  /\ usedAt' = [usedAt EXCEPT ![c] = now]
  /\ evaluatedAt' = [evaluatedAt EXCEPT ![c] = 0]
  /\ Goto(c, "joined")
  /\ UNCHANGED <<envVars, key, dec, scoreVars, auditVars, verdict,
                 thinking, sent>>

\* Mutant: the error is swallowed and the request goes on without a decision.
PolicyFailSwallowed(c) ==
  /\ pc[c] \in {"evaluate", "reply"}
  /\ dec' = [dec EXCEPT ![c] = NoDecision]
  /\ evaluatedAt' = [evaluatedAt EXCEPT ![c] = 0]
  /\ Goto(c, "joined")
  /\ UNCHANGED <<envVars, cache, key, usedAt, scoreVars, auditVars, verdict,
                 thinking, sent>>

\* The RPC fails, before or after the service evaluated it.
PolicyFail(c) ==
  /\ pc[c] \in {"evaluate", "reply"}
  /\ dec' = [dec EXCEPT ![c] = NoDecision]
  /\ evaluatedAt' = [evaluatedAt EXCEPT ![c] = 0]
  /\ Goto(c, "failed")
  /\ UNCHANGED <<envVars, cache, key, usedAt, scoreVars, auditVars,
                 verdict, thinking, sent>>

\* The thinking node is inserted, or the insert fails and is ignored.
ThinkingDone(c) ==
  /\ thinking[c] = "pending"
  /\ pc[c] # "left"
  /\ \E r \in {"stored", "lost"} : thinking' = [thinking EXCEPT ![c] = r]
  /\ UNCHANGED <<envVars, policyVars, scoreVars, auditVars, pc, verdict, sent>>

-----------------------------------------------------------------------------
(* After the join                                                          *)

\* The policy RPC failed: no record is written, fail_closed decides.
JoinFailed(c) ==
  /\ pc[c] = "failed"
  /\ thinking[c] # "pending"
  /\ verdict' = [verdict EXCEPT ![c] = IF FailClosed THEN "Error" ELSE "Allow"]
  /\ Goto(c, IF FailClosed THEN "done" ELSE "forward")
  /\ UNCHANGED <<envVars, policyVars, scoreVars, auditVars, thinking, sent>>

\* The policy denies the call: only the action node remains to be written.
JoinDenied(c) ==
  /\ pc[c] = "joined"
  /\ thinking[c] # "pending"
  /\ ~dec[c].allowed
  /\ verdict' = [verdict EXCEPT ![c] = "Block"]
  /\ Goto(c, "record")
  /\ UNCHANGED <<envVars, policyVars, scoreVars, auditVars, thinking, sent>>

\* The policy permits the call: the first StreamScore is sent.
JoinPermitted(c) ==
  /\ pc[c] = "joined"
  /\ thinking[c] # "pending"
  /\ dec[c].allowed
  /\ attempt' = [attempt EXCEPT ![c] = 1]
  /\ Goto(c, "headers")
  /\ UNCHANGED <<envVars, policyVars, score, auditVars, verdict, thinking, sent>>

-----------------------------------------------------------------------------
(* score_with_retry, and the decision taken on its result                  *)

Fallback(c) == MapFallback(dec[c].fallback)

\* Mutant: a score at the threshold passes.
JudgementInclusive(c, s) ==
  Decide(dec[c].allowed, key[c] \in Traced, key[c] \in Allowlisted, s,
         dec[c].threshold + 1, Fallback(c), TRUE)

Judgement(c, s) ==
  Decide(dec[c].allowed, key[c] \in Traced, key[c] \in Allowlisted, s,
         dec[c].threshold, Fallback(c), TRUE)

\* Scoring is over with result s; the decision follows without an await.
Judge(c, s) ==
  /\ score' = [score EXCEPT ![c] = s]
  /\ verdict' = [verdict EXCEPT ![c] = Judgement(c, s)]
  /\ Goto(c, "record")
  /\ UNCHANGED <<envVars, policyVars, attempt, auditVars, thinking, sent>>

\* The stream is open within the timeout.
HeadersArrive(c) ==
  /\ pc[c] = "headers"
  /\ Goto(c, "stream")
  /\ UNCHANGED <<envVars, policyVars, scoreVars, auditVars, verdict, thinking, sent>>

\* The first item of the stream is a message.
ScoreArrives(c) ==
  /\ pc[c] = "stream"
  /\ \E s \in Scores : Judge(c, s)

\* A failed attempt under QUEUE is retried once, after a pause.
ScoreFailsOnce(c) ==
  /\ pc[c] \in {"headers", "stream"}
  /\ attempt[c] = 1
  /\ Fallback(c) = "Queue"
  /\ Goto(c, "sleep")
  /\ UNCHANGED <<envVars, policyVars, scoreVars, auditVars, verdict, thinking, sent>>

\* Mutant: the pause and the retry are skipped.
ScoreFailsAtOnce(c) ==
  /\ pc[c] \in {"headers", "stream"}
  /\ Judge(c, NoScore)

\* Any other failed attempt (timeout, error, empty stream) ends the scoring.
ScoreFails(c) ==
  /\ pc[c] \in {"headers", "stream"}
  /\ attempt[c] = 2 \/ Fallback(c) # "Queue"
  /\ Judge(c, NoScore)

\* Mutant: the retry is not counted.
SleepOverUncounted(c) ==
  /\ pc[c] = "sleep"
  /\ Goto(c, "headers")
  /\ UNCHANGED <<envVars, policyVars, scoreVars, auditVars, verdict, thinking, sent>>

SleepOver(c) ==
  /\ pc[c] = "sleep"
  /\ attempt' = [attempt EXCEPT ![c] = 2]
  /\ Goto(c, "headers")
  /\ UNCHANGED <<envVars, policyVars, score, auditVars, verdict, thinking, sent>>

-----------------------------------------------------------------------------
(* The audit calls.  Every result is ignored, every call is awaited.       *)

\* Mutant: a queued call is recorded as allowed.
ActionStatusQueued(v) == IF v \in {"Allow", "Queue"} THEN "Allowed" ELSE "Blocked"

\* action_status; also the status of a call the policy denied.
ActionStatus(v) == IF v = "Allow" THEN "Allowed" ELSE "Blocked"

\* Mutant: only a block ends the request.
AfterAuditQueued(c) == IF verdict[c] = "Block" THEN "drift" ELSE "forward"

\* What follows the audit of a call the policy permitted.
AfterAudit(c) ==
  CASE verdict[c] = "Allow" -> "forward"
    [] verdict[c] = "Block" -> "drift"
    [] OTHER -> "done"

AfterRecord(c) ==
  IF ~dec[c].allowed THEN "done"
  ELSE IF score[c] # NoScore THEN "verify"
  ELSE AfterAudit(c)

RecordAction(c) ==
  /\ pc[c] = "record"
  /\ \E r \in {ActionStatus(verdict[c]), "lost"} :
       action' = [action EXCEPT ![c] = r]
  /\ Goto(c, AfterRecord(c))
  /\ UNCHANGED <<envVars, policyVars, scoreVars, verification, edge, verdict,
                 thinking, sent>>

RecordVerification(c) ==
  /\ pc[c] = "verify"
  /\ \E r \in {ActionStatus(verdict[c]), "lost"} :
       verification' = [verification EXCEPT ![c] = r]
  /\ Goto(c, "link")
  /\ UNCHANGED <<envVars, policyVars, scoreVars, action, edge, verdict, thinking,
                 sent>>

\* The graph service refuses an edge with a missing end.
Stored(s) == s \in {"Allowed", "Blocked"}

LinkVerification(c) ==
  /\ pc[c] = "link"
  /\ \E r \in IF Stored(action[c]) /\ Stored(verification[c])
              THEN {"linked", "lost"} ELSE {"lost"} :
       edge' = [edge EXCEPT ![c] = r]
  /\ Goto(c, AfterAudit(c))
  /\ UNCHANGED <<envVars, policyVars, scoreVars, action, verification, verdict,
                 thinking, sent>>

\* drift_path_origin: the answer only decorates the response.
DriftOrigin(c) ==
  /\ pc[c] = "drift"
  /\ Goto(c, "done")
  /\ UNCHANGED <<envVars, policyVars, scoreVars, auditVars, verdict, thinking, sent>>

\* forward_request; whatever the upstream answers, the request was sent.
Forward(c) ==
  /\ pc[c] = "forward"
  /\ sent' = [sent EXCEPT ![c] = TRUE]
  /\ Goto(c, "done")
  /\ UNCHANGED <<envVars, policyVars, scoreVars, auditVars, verdict, thinking>>

\* What a call that was in flight when its request was dropped may still do at
\* the service it was sent to.
LateEffect(c) ==
  \/ UNCHANGED <<thinking, auditVars, sent>>
  \/ /\ thinking[c] = "pending"
     /\ thinking' = [thinking EXCEPT ![c] = "stored"]
     /\ UNCHANGED <<auditVars, sent>>
  \/ /\ pc[c] = "record"
     /\ action' = [action EXCEPT ![c] = ActionStatus(verdict[c])]
     /\ UNCHANGED <<thinking, verification, edge, sent>>
  \/ /\ pc[c] = "verify"
     /\ verification' = [verification EXCEPT ![c] = ActionStatus(verdict[c])]
     /\ UNCHANGED <<thinking, action, edge, sent>>
  \/ /\ pc[c] = "link" /\ Stored(action[c]) /\ Stored(verification[c])
     /\ edge' = [edge EXCEPT ![c] = "linked"]
     /\ UNCHANGED <<thinking, action, verification, sent>>
  \/ /\ pc[c] = "forward"
     /\ sent' = [sent EXCEPT ![c] = TRUE]
     /\ UNCHANGED <<thinking, auditVars>>

\* The client disconnects and the handler is dropped at its await.
Disconnect(c) ==
  /\ pc[c] \notin {"idle"} \cup Ended
  /\ Goto(c, "left")
  /\ LateEffect(c)
  /\ UNCHANGED <<envVars, policyVars, scoreVars, verdict>>

-----------------------------------------------------------------------------
(* The environment                                                         *)

\* Time passes, but no policy answer is under way for more than RpcMax.
Tick ==
  /\ now < MaxNow
  /\ \A c \in Calls : pc[c] = "reply" => now < evaluatedAt[c] + RpcMax
  /\ now' = now + 1
  /\ UNCHANGED <<policy, lastHeld, policyVars, scoreVars, auditVars, pc, verdict,
                 thinking, sent>>

\* The policy is edited, promoted or rolled out, or its time window opens.
PolicyChange(k, d) ==
  /\ k \in Volatile
  /\ d # policy[k]
  /\ policy' = [policy EXCEPT ![k] = d]
  /\ lastHeld' = [lastHeld EXCEPT ![k][policy[k]] = now]
  /\ UNCHANGED <<now, policyVars, scoreVars, auditVars, pc, verdict, thinking, sent>>

-----------------------------------------------------------------------------
\* The steps of a request once it has arrived, but for the verifier's message.
ProxyStep(c) ==
  \/ PolicyAnswer(c) \/ PolicyReply(c) \/ PolicyFail(c) \/ ThinkingDone(c)
  \/ JoinFailed(c) \/ JoinDenied(c) \/ JoinPermitted(c)
  \/ HeadersArrive(c) \/ SleepOver(c)
  \/ RecordAction(c) \/ RecordVerification(c) \/ LinkVerification(c)
  \/ DriftOrigin(c) \/ Forward(c)

ScoreStep(c) == ScoreArrives(c) \/ ScoreFailsOnce(c) \/ ScoreFails(c)

Next ==
  \/ Tick
  \/ \E k \in Keys, d \in Decisions : PolicyChange(k, d)
  \/ \E c \in Calls :
       \/ \E k \in Keys : LookupHit(c, k) \/ LookupMiss(c, k)
       \/ ProxyStep(c)
       \/ ScoreStep(c)
       \/ Disconnect(c)

Spec == Init /\ [][Next]_vars

\* Every await but that of the verifier's message is answered or fails: the
\* headers by the timeout, the policy and graph calls because their services
\* do.  The message itself has no timeout, and nothing is assumed of it.
LiveSpec == Spec /\ \A c \in Calls : WF_vars(ProxyStep(c))
=============================================================================
