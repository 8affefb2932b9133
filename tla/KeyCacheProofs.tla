---------------------------- MODULE KeyCacheProofs ----------------------------
(***************************************************************************)
(* Theorems about KeyCache, for any handlers, key sets and times.          *)
(***************************************************************************)
EXTENDS KeyCache, TLAPS

USE DEF Fetching, Ended, Versions

LEMMA FirstVersion == 1 \in Versions /\ Versions \subseteq Nat /\ 0 \notin Versions
BY KeySetsAssumption, SMT

LEMMA InitTyped == Init => TypeOK
<1> SUFFICES ASSUME Init PROVE TypeOK
  OBVIOUS
<1>1. Never \in Int /\ Never <= 0 /\ MaxNow \in Nat
  BY KeyTimesAssumption, SMT DEF Never
<1>2. NoOne \notin Requests
  BY RequestsAssumption
<1> QED
  BY <1>1, <1>2, FirstVersion, SMT DEF Init, TypeOK, Empty

LEMMA StepTyped == ASSUME TypeOK, [Next]_vars PROVE TypeOK'
<1>0. Never \in Int /\ Never <= 0 /\ MaxNow \in Nat /\ NoOne \notin Requests
  BY KeyTimesAssumption, RequestsAssumption, SMT DEF Never
<1> USE <1>0, FirstVersion
<1>1. CASE Rotate
  BY <1>1, SMT DEF TypeOK, Rotate, verdictVars
<1>2. CASE Tick
  BY <1>2, SMT DEF TypeOK, Tick, serverVars, verdictVars
<1>3. ASSUME NEW r \in Requests, ArriveBare(r) PROVE TypeOK'
  BY <1>3, SMT DEF TypeOK, ArriveBare, Refuse, Goto, serverVars
<1>4. ASSUME NEW r \in Requests, NEW t \in Tokens, Arrive(r, t) PROVE TypeOK'
  BY <1>4, SMT DEF TypeOK, Arrive, Goto, serverVars
<1>5. ASSUME NEW r \in Requests, UseCached(r) PROVE TypeOK'
  <2>1. Verdict(token[r], KeySets[cache.keys]) \in {"none", "ok", "unauthorized", "forbidden"}
    BY DEF Verdict
  <2> QED
    BY <1>5, <2>1, SMT DEF TypeOK, UseCached, Judge, Goto, Fresh, serverVars
<1>6. ASSUME NEW r \in Requests, StartFetch(r) PROVE TypeOK'
  BY <1>6, SMT DEF TypeOK, StartFetch, Goto, serverVars, verdictVars
<1>7. ASSUME NEW r \in Requests, KeysAnswered(r) PROVE TypeOK'
  BY <1>7, SMT DEF TypeOK, KeysAnswered, Goto, serverVars, verdictVars
<1>8. ASSUME NEW r \in Requests, StoreKeys(r) PROVE TypeOK'
  <2>1. Verdict(token[r], KeySets[fetched[r]]) \in {"none", "ok", "unauthorized", "forbidden"}
    BY DEF Verdict
  <2> QED
    BY <1>8, <2>1, SMT DEF TypeOK, StoreKeys, Judge, Goto, serverVars
<1>9. ASSUME NEW r \in Requests, FetchFails(r) PROVE TypeOK'
  BY <1>9, SMT DEF TypeOK, FetchFails, Refuse, Goto, serverVars
<1>10. ASSUME NEW r \in Requests, Disconnect(r) PROVE TypeOK'
  BY <1>10, SMT DEF TypeOK, Disconnect, Goto, serverVars, verdictVars
<1>11. CASE UNCHANGED vars
  BY <1>11, SMT DEF TypeOK, vars, serverVars, verdictVars
<1> QED
  BY <1>1, <1>2, <1>3, <1>4, <1>5, <1>6, <1>7, <1>8, <1>9, <1>10, <1>11
     DEF Next, Acquire, FetchStep

\* Every variable keeps its type and the lock is held exactly during a fetch,
\* whoever fails or leaves.
THEOREM TypeCorrect == Spec => []TypeOK
<1>1. Init => TypeOK
  BY InitTyped
<1>2. TypeOK /\ [Next]_vars => TypeOK'
  BY StepTyped
<1> QED
  BY <1>1, <1>2, PTL DEF Spec

-----------------------------------------------------------------------------
\* Staleness: the age of the keys in an answer under way, in the cache, and in
\* a verdict.
AnswerInv ==
  \A r \in Requests :
    pc[r] = "body" => /\ PublishedSince(fetched[r], answeredAt[r])
                      /\ answeredAt[r] <= now /\ now <= answeredAt[r] + RpcMax

CacheInv ==
  cache.keys # 0 => /\ PublishedSince(cache.keys, cache.fetchedAt - RpcMax)
                    /\ cache.fetchedAt <= now

JudgedInv ==
  \A r \in Requests :
    pc[r] = "done" =>
      /\ used[r] # 0 =>
           /\ PublishedSince(used[r], usedAt[r] - TTL - RpcMax)
           /\ usedAt[r] <= now
           /\ token[r] # NoToken
           /\ outcome[r] = Verdict(token[r], KeySets[used[r]])
      /\ used[r] = 0 => outcome[r] = "unauthorized"

\* Only one who waits or fetches has a token for sure.
TokenInv == \A r \in Requests : pc[r] \in {"lock"} \cup Fetching => token[r] # NoToken

StaleInv == AnswerInv /\ CacheInv /\ JudgedInv /\ TokenInv

\* A key set published since t still is when time passes.
LEMMA RotateKeeps ==
  ASSUME TypeOK, Rotate, NEW v \in Versions, NEW t \in Int, t <= now,
         PublishedSince(v, t)
  PROVE  PublishedSince(v, t)'
BY FirstVersion, KeyTimesAssumption, SMT DEF TypeOK, Rotate, PublishedSince

LEMMA PublishedKeeps ==
  ASSUME UNCHANGED serverVars, NEW v, NEW t, PublishedSince(v, t)
  PROVE  PublishedSince(v, t)'
BY DEF serverVars, PublishedSince

LEMMA PublishedSooner ==
  ASSUME TypeOK, NEW v \in Versions, NEW t \in Int, NEW s \in Int, s <= t,
         PublishedSince(v, t)
  PROVE  PublishedSince(v, s)
BY KeyTimesAssumption, SMT DEF TypeOK, PublishedSince, Never

\* What is known of the age of keys holds at first and is kept by every step.
LEMMA StaleInit == Init => StaleInv
BY SMT DEF Init, StaleInv, AnswerInv, CacheInv, JudgedInv, TokenInv, Empty

LEMMA StaleStep == ASSUME TypeOK, StaleInv, [Next]_vars PROVE StaleInv'
<1>0. TTL \in Nat /\ RpcMax \in Nat /\ MaxNow \in Nat
  BY KeyTimesAssumption
<1>a. NoToken \notin Tokens
  BY TokensAssumption
<1> USE <1>0, <1>a, FirstVersion
<1>1. CASE Rotate
  <2>1. AnswerInv'
    BY <1>1, RotateKeeps, SMT DEF StaleInv, AnswerInv, TypeOK, Rotate
  <2>2. CacheInv'
    BY <1>1, RotateKeeps, SMT DEF StaleInv, CacheInv, TypeOK, Rotate
  <2>3. JudgedInv'
    BY <1>1, RotateKeeps, SMT DEF StaleInv, JudgedInv, TypeOK, Rotate, verdictVars
  <2>4. TokenInv'
    BY <1>1, SMT DEF StaleInv, TokenInv, Rotate
  <2> QED
    BY <2>1, <2>2, <2>3, <2>4 DEF StaleInv
<1>2. CASE Tick
  BY <1>2, SMT DEF StaleInv, AnswerInv, CacheInv, JudgedInv, TokenInv, TypeOK, Tick,
     PublishedSince, serverVars, verdictVars
<1>3. ASSUME NEW r \in Requests, ArriveBare(r) PROVE StaleInv'
  BY <1>3, SMT DEF StaleInv, AnswerInv, CacheInv, JudgedInv, TokenInv, TypeOK,
     PublishedSince, serverVars, ArriveBare, Refuse, Goto
<1>4. ASSUME NEW r \in Requests, NEW t \in Tokens, Arrive(r, t) PROVE StaleInv'
  BY <1>4, SMT DEF StaleInv, AnswerInv, CacheInv, JudgedInv, TokenInv, TypeOK,
     PublishedSince, serverVars, Arrive, Goto
<1>5. ASSUME NEW r \in Requests, UseCached(r) PROVE StaleInv'
  <2>1. /\ used' = [used EXCEPT ![r] = cache.keys]
        /\ usedAt' = [usedAt EXCEPT ![r] = now]
        /\ outcome' = [outcome EXCEPT ![r] = Verdict(token[r], KeySets[cache.keys])]
        /\ pc' = [pc EXCEPT ![r] = "done"]
        /\ pc[r] = "lock" /\ cache.keys # 0 /\ now - cache.fetchedAt <= TTL
        /\ UNCHANGED <<now, published, retiredAt, cache, token, fetched, answeredAt>>
    BY <1>5 DEF UseCached, Judge, Goto, Fresh, serverVars
  <2>2. PublishedSince(cache.keys, now - TTL - RpcMax)
    <3>1. PublishedSince(cache.keys, cache.fetchedAt - RpcMax)
      BY <2>1 DEF StaleInv, CacheInv
    <3>2. /\ cache.keys \in Versions
          /\ cache.fetchedAt - RpcMax \in Int /\ now - TTL - RpcMax \in Int
          /\ now - TTL - RpcMax <= cache.fetchedAt - RpcMax
      BY <2>1, SMT DEF TypeOK
    <3> QED
      BY <3>1, <3>2, PublishedSooner
  <2>3. AnswerInv' /\ CacheInv' /\ TokenInv'
    BY <2>1, SMT DEF StaleInv, AnswerInv, CacheInv, TokenInv, TypeOK, PublishedSince
  <2>4. JudgedInv'
    <3> SUFFICES ASSUME NEW q \in Requests, (pc[q] = "done")'
                 PROVE  /\ used'[q] # 0 =>
                             /\ PublishedSince(used[q], usedAt[q] - TTL - RpcMax)'
                             /\ usedAt'[q] <= now'
                             /\ token'[q] # NoToken
                             /\ outcome'[q] = Verdict(token'[q], KeySets[used'[q]])
                        /\ used'[q] = 0 => outcome'[q] = "unauthorized"
      BY DEF JudgedInv
    <3>1. CASE q = r
      BY <3>1, <2>1, <2>2, SMT DEF StaleInv, TokenInv, TypeOK, PublishedSince
    <3>2. CASE q # r
      BY <3>2, <2>1, SMT DEF StaleInv, JudgedInv, TypeOK, PublishedSince
    <3> QED
      BY <3>1, <3>2
  <2> QED
    BY <2>3, <2>4 DEF StaleInv
<1>6. ASSUME NEW r \in Requests, StartFetch(r) PROVE StaleInv'
  BY <1>6, SMT DEF StaleInv, AnswerInv, CacheInv, JudgedInv, TokenInv, TypeOK,
     PublishedSince, serverVars, verdictVars, StartFetch, Goto
<1>7. ASSUME NEW r \in Requests, KeysAnswered(r) PROVE StaleInv'
  BY <1>7, SMT DEF StaleInv, AnswerInv, CacheInv, JudgedInv, TokenInv, TypeOK,
     PublishedSince, serverVars, verdictVars, KeysAnswered, Goto
<1>8. ASSUME NEW r \in Requests, StoreKeys(r) PROVE StaleInv'
  <2>1. /\ used' = [used EXCEPT ![r] = fetched[r]]
        /\ usedAt' = [usedAt EXCEPT ![r] = now]
        /\ outcome' = [outcome EXCEPT ![r] = Verdict(token[r], KeySets[fetched[r]])]
        /\ pc' = [pc EXCEPT ![r] = "done"]
        /\ cache' = [keys |-> fetched[r], fetchedAt |-> now]
        /\ pc[r] = "body"
        /\ fetched' = [fetched EXCEPT ![r] = 0]
        /\ answeredAt' = [answeredAt EXCEPT ![r] = 0]
        /\ UNCHANGED <<now, published, retiredAt, token>>
    BY <1>8 DEF StoreKeys, Judge, Goto, serverVars
  <2>2. /\ PublishedSince(fetched[r], now - RpcMax)
        /\ PublishedSince(fetched[r], now - TTL - RpcMax)
    <3>1. /\ PublishedSince(fetched[r], answeredAt[r])
          /\ now <= answeredAt[r] + RpcMax
      BY <2>1 DEF StaleInv, AnswerInv
    <3>2. /\ fetched[r] \in Versions
          /\ answeredAt[r] \in Int /\ now - TTL - RpcMax \in Int /\ now - RpcMax \in Int
          /\ now - TTL - RpcMax <= answeredAt[r] /\ now - RpcMax <= answeredAt[r]
      BY <2>1, <3>1, SMT DEF TypeOK
    <3> QED
      BY <3>1, <3>2, PublishedSooner
  <2>3. AnswerInv' /\ CacheInv' /\ TokenInv'
    BY <2>1, <2>2, SMT DEF StaleInv, AnswerInv, CacheInv, TokenInv, TypeOK, PublishedSince
  <2>4. JudgedInv'
    <3> SUFFICES ASSUME NEW q \in Requests, (pc[q] = "done")'
                 PROVE  /\ used'[q] # 0 =>
                             /\ PublishedSince(used[q], usedAt[q] - TTL - RpcMax)'
                             /\ usedAt'[q] <= now'
                             /\ token'[q] # NoToken
                             /\ outcome'[q] = Verdict(token'[q], KeySets[used'[q]])
                        /\ used'[q] = 0 => outcome'[q] = "unauthorized"
      BY DEF JudgedInv
    <3>1. CASE q = r
      BY <3>1, <2>1, <2>2, SMT DEF StaleInv, TokenInv, TypeOK, PublishedSince
    <3>2. CASE q # r
      BY <3>2, <2>1, SMT DEF StaleInv, JudgedInv, TypeOK, PublishedSince
    <3> QED
      BY <3>1, <3>2
  <2> QED
    BY <2>3, <2>4 DEF StaleInv
<1>9. ASSUME NEW r \in Requests, FetchFails(r) PROVE StaleInv'
  BY <1>9, SMT DEF StaleInv, AnswerInv, CacheInv, JudgedInv, TokenInv, TypeOK,
     PublishedSince, serverVars, FetchFails, Refuse, Goto
<1>10. ASSUME NEW r \in Requests, Disconnect(r) PROVE StaleInv'
  BY <1>10, SMT DEF StaleInv, AnswerInv, CacheInv, JudgedInv, TokenInv, TypeOK,
     PublishedSince, serverVars, verdictVars, Disconnect, Goto
<1>11. CASE UNCHANGED vars
  BY <1>11, SMT DEF StaleInv, AnswerInv, CacheInv, JudgedInv, TokenInv, TypeOK,
     PublishedSince, serverVars, verdictVars, vars
<1> QED
  BY <1>1, <1>2, <1>3, <1>4, <1>5, <1>6, <1>7, <1>8, <1>9, <1>10, <1>11
     DEF Next, Acquire, FetchStep

\* No token is ever judged by keys withdrawn longer ago than the TTL and the
\* time an answer takes.
THEOREM VerdictsAlwaysCurrent == Spec => []VerdictsCurrent
<1>1. Init => TypeOK /\ StaleInv
  BY InitTyped, StaleInit
<1>2. TypeOK /\ StaleInv /\ [Next]_vars => TypeOK' /\ StaleInv'
  BY StepTyped, StaleStep
<1>3. TypeOK /\ StaleInv => VerdictsCurrent
  <2> SUFFICES ASSUME TypeOK, JudgedInv, NEW r \in Requests, pc[r] = "done"
               PROVE  /\ used[r] # 0
                           => /\ PublishedSince(used[r], usedAt[r] - TTL - RpcMax)
                              /\ outcome[r] = Verdict(token[r], KeySets[used[r]])
                      /\ outcome[r] = "ok"
                           => token[r] # NoToken /\ token[r].permitted /\ used[r] # 0
    BY DEF StaleInv, VerdictsCurrent
  <2>1. outcome[r] = "ok" => used[r] # 0
    BY DEF JudgedInv
  <2>2. used[r] # 0 => /\ PublishedSince(used[r], usedAt[r] - TTL - RpcMax)
                       /\ outcome[r] = Verdict(token[r], KeySets[used[r]])
                       /\ token[r] # NoToken
    BY DEF JudgedInv
  <2>3. \A keys : Verdict(token[r], keys) = "ok" => token[r].permitted
    BY Zenon DEF Verdict
  <2> QED
    BY <2>1, <2>2, <2>3
<1> QED
  BY <1>1, <1>2, <1>3, PTL DEF Spec

-----------------------------------------------------------------------------
\* One fetch at a time: whoever fetches found the keys too old, and they still
\* are, for only the holder of the lock stores.
FetchInv ==
  /\ cache.keys <= published
  /\ \A r \in Requests :
       /\ pc[r] \in Fetching => cache.keys = 0 \/ now - cache.fetchedAt > TTL
       /\ pc[r] = "body" => cache.keys <= fetched[r] /\ fetched[r] <= published

LEMMA FetchInit == Init => FetchInv
BY SMT DEF Init, FetchInv, Empty

LEMMA FetchKept == ASSUME TypeOK, FetchInv, [Next]_vars PROVE FetchInv'
<1>0. TTL \in Nat /\ NoOne \notin Requests
  BY KeyTimesAssumption, RequestsAssumption
<1> USE <1>0, FirstVersion
<1>1. CASE Rotate
  BY <1>1, SMT DEF FetchInv, TypeOK, Rotate
<1>2. CASE Tick
  BY <1>2, SMT DEF FetchInv, TypeOK, Tick, serverVars
<1>3. ASSUME NEW r \in Requests, ArriveBare(r) PROVE FetchInv'
  BY <1>3, SMT DEF FetchInv, TypeOK, serverVars, ArriveBare, Refuse, Goto
<1>4. ASSUME NEW r \in Requests, NEW t \in Tokens, Arrive(r, t) PROVE FetchInv'
  BY <1>4, SMT DEF FetchInv, TypeOK, serverVars, Arrive, Goto
<1>5. ASSUME NEW r \in Requests, UseCached(r) PROVE FetchInv'
  BY <1>5, SMT DEF FetchInv, TypeOK, serverVars, UseCached, Judge, Goto
<1>6. ASSUME NEW r \in Requests, StartFetch(r) PROVE FetchInv'
  BY <1>6, SMT DEF FetchInv, TypeOK, serverVars, StartFetch, Fresh, Goto
<1>7. ASSUME NEW r \in Requests, KeysAnswered(r) PROVE FetchInv'
  BY <1>7, SMT DEF FetchInv, TypeOK, serverVars, KeysAnswered, Goto
<1>8. ASSUME NEW r \in Requests, StoreKeys(r) PROVE FetchInv'
  BY <1>8, SMT DEF FetchInv, TypeOK, serverVars, StoreKeys, Judge, Goto
<1>9. ASSUME NEW r \in Requests, FetchFails(r) PROVE FetchInv'
  BY <1>9, SMT DEF FetchInv, TypeOK, serverVars, FetchFails, Refuse, Goto
<1>10. ASSUME NEW r \in Requests, Disconnect(r) PROVE FetchInv'
  BY <1>10, SMT DEF FetchInv, TypeOK, serverVars, Disconnect, Goto
<1>11. CASE UNCHANGED vars
  BY <1>11, SMT DEF FetchInv, vars, serverVars
<1> QED
  BY <1>1, <1>2, <1>3, <1>4, <1>5, <1>6, <1>7, <1>8, <1>9, <1>10, <1>11
     DEF Next, Acquire, FetchStep

\* The keys never go back, and are never fetched twice within a TTL.
THEOREM KeysAlwaysAdvance == Spec => KeysAdvance
<1>1. Init => TypeOK /\ FetchInv
  BY InitTyped, FetchInit
<1>2. TypeOK /\ FetchInv /\ [Next]_vars => TypeOK' /\ FetchInv'
  BY StepTyped, FetchKept
<1>3. ASSUME TypeOK, FetchInv, [Next]_vars, cache' # cache, cache.keys # 0
      PROVE  cache'.keys >= cache.keys /\ cache'.fetchedAt - cache.fetchedAt > TTL
  <2>1. PICK r \in Requests : StoreKeys(r)
    BY <1>3 DEF Next, vars, Acquire, FetchStep, Rotate, Tick, ArriveBare, Arrive, UseCached,
       StartFetch, KeysAnswered, FetchFails, Disconnect
  <2> QED
    BY <1>3, <2>1, FirstVersion, KeyTimesAssumption, SMT DEF StoreKeys, FetchInv, TypeOK
<1> QED
  BY <1>1, <1>2, <1>3, PTL DEF Spec, KeysAdvance
=============================================================================
