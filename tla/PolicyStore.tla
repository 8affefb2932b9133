----------------------------- MODULE PolicyStore -----------------------------
(***************************************************************************)
(* The policy service: the stable policies and the rollouts of candidates, *)
(* changed by REST handlers and by the watcher of the policy directory,    *)
(* read by every evaluation (policy/src/store.rs, main.rs, watcher.rs).    *)
(*                                                                         *)
(* Each operation of the store runs under the write lock and is one step.  *)
(* A handler counts its rollout after it let go of the lock; the watcher   *)
(* reads a file before it takes the lock.  A policy is its version, and    *)
(* its directory holds one file for it.  A request that is refused changes *)
(* nothing and is not a step; alerts, event counters and the persisted     *)
(* copy of the history are left out.                                       *)
(***************************************************************************)
EXTENDS Integers, Sequences, FiniteSets

CONSTANTS
  Names,        \* the policies
  Versions,     \* the versions of a policy
  Handlers,     \* REST requests in progress at once
  Percentages,  \* the percentages clients send
  Buckets,      \* the buckets that evaluations fall into
  MaxEvents,    \* bound on the watcher's queue
  Crashes,      \* whether the service may crash and start again
  NoPolicy, NoRollout, Idle

ASSUME HandlersAssumption == IsFiniteSet(Handlers)
ASSUME PercentagesAssumption == Percentages \subseteq 0..255
ASSUME BucketsAssumption == Buckets \subseteq 0..99
ASSUME MarkersAssumption ==
  /\ NoPolicy \notin Versions
  /\ NoRollout \notin [candidate : Versions, percentage : Int, stable : Versions]
  /\ Idle \notin [name : Names, delta : Int]
  /\ Idle \notin [name : Names, content : Versions \cup {NoPolicy}]

VARIABLES
  file,        \* per policy: the version in its file, NoPolicy if none parses
  service,     \* starting, or up with or without its watcher
  loaded,      \* the files load_policies has read
  queue,       \* the watcher's events, oldest first
  reading,     \* the file the watcher has read and not yet stored
  stable,      \* policies
  rollout,     \* rollouts
  history,     \* per policy: the versions in its history
  pending,     \* per handler: the count it has not made yet
  gauge,       \* rollout_active
  missed,      \* files that changed after loading and before watching (history)
  overridden,  \* policies last stored by a promotion (history)
  released,    \* per policy: the versions its file held or that were promoted, in
               \* the life of the service (history)
  granted      \* per version: its share by the rollout request in force (history)

directory == <<file, missed>>
startup == <<service, loaded>>
watcher == <<queue, reading>>
store == <<stable, rollout, history>>
counts == <<pending, gauge>>
ghosts == <<overridden, released, granted>>
vars == <<directory, startup, watcher, store, counts, ghosts>>

Init ==
  /\ file \in [Names -> Versions \cup {NoPolicy}]
  /\ missed = {}
  /\ service = "loading" /\ loaded = {}
  /\ queue = <<>> /\ reading = Idle
  /\ stable = [n \in Names |-> NoPolicy]
  /\ rollout = [n \in Names |-> NoRollout]
  /\ history = [n \in Names |-> {}]
  /\ pending = [h \in Handlers |-> Idle]
  /\ gauge = [n \in Names |-> 0]
  /\ overridden = {}
  /\ released = [n \in Names |-> {file[n]} \ {NoPolicy}]
  /\ granted = [n \in Names |-> [v \in Versions |-> 0]]

-----------------------------------------------------------------------------
(* The store                                                               *)

\* insert: the version becomes stable and enters the history.
Insert(n, v) ==
  /\ stable' = [stable EXCEPT ![n] = v]
  /\ history' = [history EXCEPT ![n] = @ \cup {v}]

\* bucket_0_to_99(key) < percentage.  Mutant: the bound is included.
InShareInclusive(b, percentage) == b <= percentage
InShare(b, percentage) == b < percentage

\* resolve_for_evaluation: the version an evaluation in bucket b is given.
Resolve(n, b) ==
  IF /\ stable[n] # NoPolicy /\ rollout[n] # NoRollout
     /\ InShare(b, rollout[n].percentage)
  THEN rollout[n].candidate
  ELSE stable[n]

-----------------------------------------------------------------------------
(* Starting up, and the files                                              *)

\* load_policies, one file.
LoadFile(n) ==
  /\ service = "loading" /\ n \notin loaded
  /\ loaded' = loaded \cup {n}
  /\ IF file[n] = NoPolicy THEN UNCHANGED <<stable, history>> ELSE Insert(n, file[n])
  /\ UNCHANGED <<directory, service, watcher, rollout, counts, ghosts>>

\* start_watcher, which may fail: main drops the error and goes on without.
StartWatcher ==
  /\ service = "loading" /\ loaded = Names
  /\ service' \in {"watching", "blind"}
  /\ UNCHANGED <<directory, loaded, watcher, store, counts, ghosts>>

\* An editor, a deployment or a deletion changes a file, and an event is queued
\* if the watcher runs.
Edit(n, c) ==
  /\ c # file[n] /\ Len(queue) < MaxEvents
  /\ file' = [file EXCEPT ![n] = c]
  /\ queue' = IF service = "watching" THEN Append(queue, n) ELSE queue
  /\ missed' = IF service = "watching" THEN missed \ {n}
               ELSE IF n \in loaded THEN missed \cup {n} ELSE missed
  /\ released' = [released EXCEPT ![n] = @ \cup ({c} \ {NoPolicy})]
  /\ UNCHANGED <<startup, reading, store, counts, overridden, granted>>

\* consume_events: the file of the oldest event is read, whatever it holds by
\* then.
ReadFile ==
  /\ reading = Idle /\ queue # <<>>
  /\ queue' = Tail(queue)
  /\ reading' = [name |-> Head(queue), content |-> file[Head(queue)]]
  /\ UNCHANGED <<directory, startup, store, counts, ghosts>>

\* The callback stores what parsed.  Mutants: it drops the events that came in
\* meanwhile for the same file; it spares a policy with a rollout.
StoreFileDebounced ==
  /\ reading # Idle
  /\ IF reading.content = NoPolicy THEN UNCHANGED <<stable, history, overridden>>
     ELSE /\ Insert(reading.name, reading.content)
          /\ overridden' = overridden \ {reading.name}
  /\ queue' = SelectSeq(queue, LAMBDA n : n # reading.name)
  /\ reading' = Idle
  /\ UNCHANGED <<directory, startup, rollout, counts, released, granted>>
StoreFileSparing ==
  /\ reading # Idle
  /\ IF reading.content = NoPolicy \/ rollout[reading.name] # NoRollout
     THEN UNCHANGED <<stable, history, overridden>>
     ELSE /\ Insert(reading.name, reading.content)
          /\ overridden' = overridden \ {reading.name}
  /\ reading' = Idle
  /\ UNCHANGED <<directory, startup, queue, rollout, counts, released, granted>>
StoreFile ==
  /\ reading # Idle
  /\ IF reading.content = NoPolicy THEN UNCHANGED <<stable, history, overridden>>
     ELSE /\ Insert(reading.name, reading.content)
          /\ overridden' = overridden \ {reading.name}
  /\ reading' = Idle
  /\ UNCHANGED <<directory, startup, queue, rollout, counts, released, granted>>

-----------------------------------------------------------------------------
(* Rollouts                                                                *)

\* start_rollout: refused beyond 1..100 and without a stable policy; it replaces
\* the rollout that is active.  Mutant: any percentage is taken.
BeginAny(n, v, p) ==
  /\ stable[n] # NoPolicy
  /\ rollout' = [rollout EXCEPT
       ![n] = [candidate |-> v, percentage |-> p, stable |-> stable[n]]]
Begin(n, v, p) ==
  /\ p \in 1..100 /\ stable[n] # NoPolicy
  /\ rollout' = [rollout EXCEPT
       ![n] = [candidate |-> v, percentage |-> p, stable |-> stable[n]]]

\* stop_rollout.  Mutant: the rollout is read and not removed.
EndRead(n) ==
  /\ rollout[n] # NoRollout
  /\ UNCHANGED rollout
End(n) ==
  /\ rollout[n] # NoRollout
  /\ rollout' = [rollout EXCEPT ![n] = NoRollout]

\* promote_rollout.
PromoteCandidate(n) == End(n) /\ Insert(n, rollout[n].candidate)

\* What a request asks for holds until the next one about the policy.
Grant(n, v, p) ==
  granted' = [granted EXCEPT ![n] = [w \in Versions |-> IF w = v THEN p ELSE 0]]
Revoke(n) == granted' = [granted EXCEPT ![n] = [w \in Versions |-> 0]]

\* What handler h will count for policy n.
Owes(h, n, d) == pending' = [pending EXCEPT ![h] = [name |-> n, delta |-> d]]

\* Clients send requests once the service is up, and no handler takes two.
Ready(h) == service # "loading" /\ pending[h] = Idle

\* start_policy_rollout: one already active is replaced and not counted again;
\* that it was active is read under the lock.  Mutant: it is counted again.
StartRolloutCounted(h, n, v, p) ==
  /\ Ready(h)
  /\ Begin(n, v, p)
  /\ Owes(h, n, 1)
  /\ Grant(n, v, p)
  /\ UNCHANGED <<directory, startup, watcher, stable, history, gauge, overridden, released>>
StartRollout(h, n, v, p) ==
  /\ Ready(h)
  /\ Begin(n, v, p)
  /\ IF rollout[n] = NoRollout THEN Owes(h, n, 1) ELSE UNCHANGED pending
  /\ Grant(n, v, p)
  /\ UNCHANGED <<directory, startup, watcher, stable, history, gauge, overridden, released>>

\* stop_policy_rollout, and rollback_policy_rollout.
StopRollout(h, n) ==
  /\ Ready(h)
  /\ End(n) /\ Owes(h, n, -1) /\ Revoke(n)
  /\ UNCHANGED <<directory, startup, watcher, stable, history, gauge, overridden, released>>

\* promote_policy_rollout.
Promote(h, n) ==
  /\ Ready(h)
  /\ PromoteCandidate(n) /\ Owes(h, n, -1) /\ Revoke(n)
  /\ overridden' = overridden \cup {n}
  /\ released' = [released EXCEPT ![n] = @ \cup {rollout[n].candidate}]
  /\ UNCHANGED <<directory, startup, watcher, gauge>>

\* The handler counts after it let go of the lock.
Count(h) ==
  /\ pending[h] # Idle
  /\ gauge' = [gauge EXCEPT ![pending[h].name] = @ + pending[h].delta]
  /\ pending' = [pending EXCEPT ![h] = Idle]
  /\ UNCHANGED <<directory, startup, watcher, store, ghosts>>

-----------------------------------------------------------------------------
\* The service dies, with everything but the files, and starts again.
Crash ==
  /\ Crashes
  /\ missed' = {}
  /\ service' = "loading" /\ loaded' = {}
  /\ queue' = <<>> /\ reading' = Idle
  /\ stable' = [n \in Names |-> NoPolicy]
  /\ rollout' = [n \in Names |-> NoRollout]
  /\ history' = [n \in Names |-> {}]
  /\ pending' = [h \in Handlers |-> Idle]
  /\ gauge' = [n \in Names |-> 0]
  /\ overridden' = {}
  /\ released' = [n \in Names |-> {file[n]} \ {NoPolicy}]
  /\ granted' = [n \in Names |-> [v \in Versions |-> 0]]
  /\ UNCHANGED file

Next ==
  \/ \E n \in Names : LoadFile(n)
  \/ StartWatcher
  \/ \E n \in Names, c \in Versions \cup {NoPolicy} : Edit(n, c)
  \/ ReadFile \/ StoreFile
  \/ \E h \in Handlers, n \in Names :
       \/ \E v \in Versions, p \in Percentages : StartRollout(h, n, v, p)
       \/ StopRollout(h, n) \/ Promote(h, n)
  \/ \E h \in Handlers : Count(h)
  \/ Crash

Spec == Init /\ [][Next]_vars

\* The watcher's thread runs as long as the service does.
LiveSpec == Spec /\ WF_vars(ReadFile) /\ WF_vars(StoreFile)
=============================================================================
