-------------------------- MODULE PolicyStoreProps --------------------------
(***************************************************************************)
(* What the policy service must guarantee, stated over PolicyStore.        *)
(***************************************************************************)
EXTENDS PolicyStore

Rollouts == [candidate : Versions, percentage : 1..100, stable : Versions]
Contents == Versions \cup {NoPolicy}

\* Every variable has its type; a rollout has a percentage in 1..100.
TypeOK ==
  /\ file \in [Names -> Contents]
  /\ service \in {"loading", "watching", "blind"}
  /\ loaded \subseteq Names /\ missed \subseteq Names /\ overridden \subseteq Names
  /\ queue \in Seq(Names)
  /\ reading \in {Idle} \cup [name : Names, content : Contents]
  /\ stable \in [Names -> Contents]
  /\ rollout \in [Names -> {NoRollout} \cup Rollouts]
  /\ history \in [Names -> SUBSET Versions]
  /\ pending \in [Handlers -> {Idle} \cup [name : Names, delta : {-1, 1}]]
  /\ gauge \in [Names -> Int]
  /\ released \in [Names -> SUBSET Versions]
  /\ granted \in [Names -> [Versions -> 0..100]]

-----------------------------------------------------------------------------
(* Rollouts                                                                *)

Owing(n, d) == {h \in Handlers : pending[h] = [name |-> n, delta |-> d]}

\* In whatever order the handlers come to count the rollouts they started,
\* stopped and promoted, the gauge is the number of active rollouts as soon as
\* all have, and until then differs by what they owe.
GaugeBalanced ==
  \A n \in Names :
    gauge[n] + Cardinality(Owing(n, 1)) - Cardinality(Owing(n, -1))
      = IF rollout[n] = NoRollout THEN 0 ELSE 1

\* No evaluation is given a version that was neither in the policy's file nor
\* promoted, but within the share of the rollout request in force: none of a
\* candidate whose rollout was stopped or replaced, whatever updates, reloads and
\* restarts came between (start_rollout, resolve_for_evaluation).
CandidateContained ==
  \A n \in Names, b \in Buckets :
    LET v == Resolve(n, b)
    IN v # NoPolicy => v \in released[n] \/ b < granted[n][v]

\* A rollout always has a stable policy beside it, and the versions the service
\* answers with as stable are in its history, although the watcher may replace
\* the stable version while a rollout is active.
RolloutsAnchored ==
  \A n \in Names :
    /\ stable[n] # NoPolicy => stable[n] \in history[n]
    /\ rollout[n] # NoRollout => stable[n] # NoPolicy /\ rollout[n].stable \in history[n]

-----------------------------------------------------------------------------
(* Files                                                                   *)

Unread(n) == \E i \in DOMAIN queue : queue[i] = n
InHand(n) == reading # Idle /\ reading.name = n

\* When no event about a policy is left, what its file holds is what the store
\* holds: a file that changes while it is read is read again.  Left out are
\* changes that no watcher saw, and policies promoted since.
FilesApplied ==
  \A n \in Names :
    /\ service # "loading" /\ n \notin missed \cup overridden
    /\ file[n] # NoPolicy /\ ~Unread(n) /\ ~InHand(n)
    => stable[n] = file[n]

\* A change of a file that the watcher saw reaches the store, or the file is
\* changed again or the service goes down.
EditsReachStore ==
  \A n \in Names, v \in Versions :
    (file[n] = v /\ Unread(n)) ~> (stable[n] = v \/ file[n] # v \/ service = "loading")
=============================================================================
