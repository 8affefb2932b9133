------------------------------- MODULE KeyCache -------------------------------
(***************************************************************************)
(* ensure_role with its cache of the key server's keys, as the policy and  *)
(* the graph service each have it (auth.rs of both, the same lines).  The  *)
(* cache is taken with its write lock, and the lock is kept over the whole *)
(* refetch.  pc says where a request's handler stands:                     *)
(*                                                                         *)
(*   idle      it serves nobody                                            *)
(*   lock      waiting for the lock                                        *)
(*   send      holding the lock, the keys are asked for                    *)
(*   body      holding the lock, the server has answered                   *)
(*   done      judged      left    dropped: the client disconnected        *)
(*                                                                         *)
(* The server publishes one key set after another (Rotate).  A token is    *)
(* the key that signed it and whether its roles are enough; one with a bad *)
(* signature, audience or expiry is one whose key nobody publishes.        *)
(* Disabled authentication and a missing JWKS url are left out: then the   *)
(* cache is never filled.                                                  *)
(***************************************************************************)
EXTENDS Integers, Sequences

CONSTANTS
  Requests,    \* the handlers
  NoOne,       \* nobody holds the lock
  KeyIds,      \* the key ids
  KeySets,     \* the key sets the server publishes, in order: a sequence
  Tokens,      \* the tokens clients present
  NoToken,     \* a request without a bearer token
  TTL,         \* the 300 s after which the keys are fetched again, in ticks
  RpcMax,      \* bound on how long an answer of the server is under way
  MaxNow       \* bound on the clock

ASSUME RequestsAssumption == NoOne \notin Requests
ASSUME TokensAssumption ==
  /\ Tokens \subseteq [key : KeyIds, permitted : BOOLEAN]
  /\ NoToken \notin Tokens
ASSUME KeySetsAssumption == KeySets \in Seq(SUBSET KeyIds) /\ KeySets # <<>>
ASSUME KeyTimesAssumption == TTL \in Nat /\ RpcMax \in Nat /\ MaxNow \in Nat

VARIABLES
  now,         \* the service's monotonic clock
  published,   \* which key set the server publishes
  retiredAt,   \* when it stopped publishing each (history)
  cache,       \* JwksCache: which key set, and fetched_at
  holder,      \* who has the write lock
  pc, token,   \* per handler: its await, the token of its request
  fetched,     \* the key set the server answered it with; 0 for none
  answeredAt,  \* when it did (history)
  outcome,     \* what ensure_role returned
  used, usedAt \* the key set it was judged by, and when (history)

serverVars == <<published, retiredAt>>
verdictVars == <<outcome, used, usedAt>>
vars == <<now, serverVars, cache, holder, pc, token, fetched, answeredAt,
          verdictVars>>

Versions == DOMAIN KeySets
Empty == [keys |-> 0, fetchedAt |-> 0]
Never == 0 - (TTL + RpcMax) - 1
Fetching == {"send", "body"}
Ended == {"done", "left"}

Init ==
  /\ now = 0
  /\ published = 1
  /\ retiredAt = [v \in Versions |-> Never]
  /\ cache = Empty
  /\ holder = NoOne
  /\ pc = [r \in Requests |-> "idle"]
  /\ token = [r \in Requests |-> NoToken]
  /\ fetched = [r \in Requests |-> 0]
  /\ answeredAt = [r \in Requests |-> 0]
  /\ outcome = [r \in Requests |-> "none"]
  /\ used = [r \in Requests |-> 0]
  /\ usedAt = [r \in Requests |-> 0]

Goto(r, l) == pc' = [pc EXCEPT ![r] = l]

-----------------------------------------------------------------------------
(* The verdict on a token                                                  *)

\* validate_token with the keys it was given, and the check of the roles.
Verdict(t, keys) ==
  CASE t.key \notin keys -> "unauthorized"
    [] t.key \in keys /\ t.permitted -> "ok"
    [] t.key \in keys /\ ~t.permitted -> "forbidden"

\* The lock is let go of and the handler ends with no await in between.
Judge(r, v) ==
  /\ outcome' = [outcome EXCEPT ![r] = Verdict(token[r], KeySets[v])]
  /\ used' = [used EXCEPT ![r] = v]
  /\ usedAt' = [usedAt EXCEPT ![r] = now]
  /\ Goto(r, "done")

Refuse(r) ==
  /\ outcome' = [outcome EXCEPT ![r] = "unauthorized"]
  /\ used' = [used EXCEPT ![r] = 0]
  /\ usedAt' = [usedAt EXCEPT ![r] = 0]
  /\ Goto(r, "done")

-----------------------------------------------------------------------------
(* Requests                                                                *)

\* A request without a token is refused before the cache is looked at.
ArriveBare(r) ==
  /\ pc[r] \in {"idle"} \cup Ended
  /\ token' = [token EXCEPT ![r] = NoToken]
  /\ Refuse(r)
  /\ UNCHANGED <<now, serverVars, cache, holder, fetched, answeredAt>>

Arrive(r, t) ==
  /\ pc[r] \in {"idle"} \cup Ended
  /\ token' = [token EXCEPT ![r] = t]
  /\ outcome' = [outcome EXCEPT ![r] = "none"]
  /\ used' = [used EXCEPT ![r] = 0]
  /\ usedAt' = [usedAt EXCEPT ![r] = 0]
  /\ Goto(r, "lock")
  /\ UNCHANGED <<now, serverVars, cache, holder, fetched, answeredAt>>

\* Mutant: keys that were fetched once are used for ever.
FreshForever == cache.keys # 0

\* get_jwks: the keys are there and at most TTL old.
Fresh == cache.keys # 0 /\ now - cache.fetchedAt <= TTL

\* The lock is free and the keys are fresh.
UseCached(r) ==
  /\ pc[r] = "lock"
  /\ holder = NoOne
  /\ Fresh
  /\ Judge(r, cache.keys)
  /\ UNCHANGED <<now, serverVars, cache, holder, token, fetched, answeredAt>>

\* Mutant: the lock is not kept over the fetch.
StartFetchUnlocked(r) ==
  /\ pc[r] = "lock"
  /\ holder = NoOne
  /\ ~Fresh
  /\ Goto(r, "send")
  /\ UNCHANGED <<now, serverVars, cache, holder, token, fetched, answeredAt,
                 verdictVars>>

\* The lock is free and the keys are missing or too old, whatever the token is.
StartFetch(r) ==
  /\ pc[r] = "lock"
  /\ holder = NoOne
  /\ ~Fresh
  /\ holder' = r
  /\ Goto(r, "send")
  /\ UNCHANGED <<now, serverVars, cache, token, fetched, answeredAt, verdictVars>>

\* The server answers with the keys it publishes then.
KeysAnswered(r) ==
  /\ pc[r] = "send"
  /\ fetched' = [fetched EXCEPT ![r] = published]
  /\ answeredAt' = [answeredAt EXCEPT ![r] = now]
  /\ Goto(r, "body")
  /\ UNCHANGED <<now, serverVars, cache, holder, token, verdictVars>>

\* The answer has been read: it is stored with the time of storing.
StoreKeys(r) ==
  /\ pc[r] = "body"
  /\ cache' = [keys |-> fetched[r], fetchedAt |-> now]
  /\ holder' = NoOne
  /\ Judge(r, fetched[r])
  /\ fetched' = [fetched EXCEPT ![r] = 0]
  /\ answeredAt' = [answeredAt EXCEPT ![r] = 0]
  /\ UNCHANGED <<now, serverVars, token>>

\* Mutant: a failed fetch keeps the lock.
FetchFailsLocked(r) ==
  /\ pc[r] \in Fetching
  /\ Refuse(r)
  /\ fetched' = [fetched EXCEPT ![r] = 0]
  /\ answeredAt' = [answeredAt EXCEPT ![r] = 0]
  /\ UNCHANGED <<now, serverVars, cache, holder, token>>

\* The request to the server or the reading of its answer fails: the cache
\* stays as it is, and the next request tries again.
FetchFails(r) ==
  /\ pc[r] \in Fetching
  /\ Refuse(r)
  /\ holder' = NoOne
  /\ fetched' = [fetched EXCEPT ![r] = 0]
  /\ answeredAt' = [answeredAt EXCEPT ![r] = 0]
  /\ UNCHANGED <<now, serverVars, cache, token>>

\* The client disconnects: the handler is dropped, and the lock with it.
Disconnect(r) ==
  /\ pc[r] \in {"lock"} \cup Fetching
  /\ holder' = IF holder = r THEN NoOne ELSE holder
  /\ fetched' = [fetched EXCEPT ![r] = 0]
  /\ answeredAt' = [answeredAt EXCEPT ![r] = 0]
  /\ Goto(r, "left")
  /\ UNCHANGED <<now, serverVars, cache, token, verdictVars>>

-----------------------------------------------------------------------------
(* The world                                                               *)

\* The server publishes the next key set.
Rotate ==
  /\ published + 1 \in Versions
  /\ published' = published + 1
  /\ retiredAt' = [retiredAt EXCEPT ![published] = now]
  /\ UNCHANGED <<now, cache, holder, pc, token, fetched, answeredAt, verdictVars>>

\* Time passes, but no answer of the server is under way for more than RpcMax.
Tick ==
  /\ now < MaxNow
  /\ \A r \in Requests : pc[r] = "body" => now < answeredAt[r] + RpcMax
  /\ now' = now + 1
  /\ UNCHANGED <<serverVars, cache, holder, pc, token, fetched, answeredAt,
                 verdictVars>>

-----------------------------------------------------------------------------
Acquire(r) == UseCached(r) \/ StartFetch(r)
FetchStep(r) == KeysAnswered(r) \/ StoreKeys(r) \/ FetchFails(r)

Next ==
  \/ Rotate \/ Tick
  \/ \E r \in Requests :
       \/ ArriveBare(r) \/ \E t \in Tokens : Arrive(r, t)
       \/ Acquire(r) \/ FetchStep(r) \/ Disconnect(r)

Spec == Init /\ [][Next]_vars

\* tokio's RwLock serves those who wait in their order, so nobody who waits is
\* passed for ever.  That the key server answers or its connection fails is an
\* assumption: the client has no timeout.
LockFairness == \A r \in Requests : SF_vars(Acquire(r))
ServerFairness == \A r \in Requests : WF_vars(FetchStep(r))
LiveSpec == Spec /\ LockFairness /\ ServerFairness

-----------------------------------------------------------------------------
(* Properties                                                              *)

\* Every variable has its type; the lock is held exactly during a fetch, and
\* who has an answer of the server knows which.
TypeOK ==
  /\ now \in 0..MaxNow
  /\ published \in Versions
  /\ retiredAt \in [Versions -> Never..MaxNow]
  /\ cache \in [keys : Versions \cup {0}, fetchedAt : 0..MaxNow]
  /\ holder \in Requests \cup {NoOne}
  /\ pc \in [Requests -> {"idle", "lock"} \cup Fetching \cup Ended]
  /\ token \in [Requests -> Tokens \cup {NoToken}]
  /\ fetched \in [Requests -> Versions \cup {0}]
  /\ answeredAt \in [Requests -> 0..MaxNow]
  /\ outcome \in [Requests -> {"none", "ok", "unauthorized", "forbidden"}]
  /\ used \in [Requests -> Versions \cup {0}]
  /\ usedAt \in [Requests -> 0..MaxNow]
  /\ \A r \in Requests : /\ pc[r] \in Fetching <=> holder = r
                         /\ pc[r] = "body" => fetched[r] # 0

\* The server still published key set v at time t or later.
PublishedSince(v, t) == v = published \/ retiredAt[v] >= t

\* A judged token was judged by keys the server published within the last TTL,
\* plus the time its answer was under way: a withdrawn key dies within that
\* time, and a new key is known after it (get_jwks, validate_token).
VerdictsCurrent ==
  \A r \in Requests :
    /\ pc[r] = "done" /\ used[r] # 0
         => /\ PublishedSince(used[r], usedAt[r] - TTL - RpcMax)
            /\ outcome[r] = Verdict(token[r], KeySets[used[r]])
    /\ pc[r] = "done" /\ outcome[r] = "ok"
         => token[r] # NoToken /\ token[r].permitted /\ used[r] # 0

\* However many requests find the keys expired at once, they are fetched by one
\* of them: two fetches that succeed lie more than a TTL apart, and the second
\* never brings older keys than the first (get_jwks under the write lock).
KeysAdvance ==
  [][cache' # cache /\ cache.keys # 0
       => cache'.keys >= cache.keys /\ cache'.fetchedAt - cache.fetchedAt > TTL]_vars

\* Every request is judged or its client leaves, if the key server ends its
\* fetches; all others wait behind a fetch (get_jwks).
RequestsEnd == \A r \in Requests : pc[r] = "lock" ~> pc[r] \in Ended
=============================================================================
