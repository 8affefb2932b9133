-------------------------- MODULE PolicyStoreProofs --------------------------
(***************************************************************************)
(* Theorems about PolicyStore, for every set of policies, versions and     *)
(* requests, and every percentage and bucket.                              *)
(***************************************************************************)
EXTENDS PolicyStoreProps, FiniteSetTheorems, TLAPS

USE PercentagesAssumption, BucketsAssumption

-----------------------------------------------------------------------------
(* Type correctness                                                        *)

LEMMA PolicyTypeInit == Init => TypeOK
<1> SUFFICES ASSUME Init PROVE TypeOK
  OBVIOUS
<1>1. /\ granted \in [Names -> [Versions -> 0..100]]
      /\ released \in [Names -> SUBSET Versions]
  BY DEF Init
<1>2. /\ queue \in Seq(Names)
      /\ gauge \in [Names -> Int] /\ history \in [Names -> SUBSET Versions]
  BY DEF Init
<1>3. /\ reading \in {Idle} \cup [name : Names, content : Contents]
      /\ pending \in [Handlers -> {Idle} \cup [name : Names, delta : {-1, 1}]]
      /\ rollout \in [Names -> {NoRollout} \cup Rollouts]
      /\ stable \in [Names -> Contents] /\ file \in [Names -> Contents]
  BY DEF Init, Contents
<1>. QED
  BY <1>1, <1>2, <1>3 DEF Init, TypeOK

LEMMA InsertType ==
  ASSUME TypeOK, NEW n \in Names, NEW v \in Versions, Insert(n, v)
  PROVE  /\ stable' \in [Names -> Contents] /\ history' \in [Names -> SUBSET Versions]
         /\ stable'[n] = v /\ history'[n] = history[n] \cup {v}
         /\ \A m \in Names \ {n} : stable'[m] = stable[m] /\ history'[m] = history[m]
BY DEF TypeOK, Contents, Insert

\* What the two places that store a file do to the store.
LEMMA StoreCases ==
  ASSUME TypeOK
  PROVE  /\ \A n \in Names : LoadFile(n) =>
              \/ UNCHANGED <<stable, history>>
              \/ file[n] \in Versions /\ Insert(n, file[n])
         /\ StoreFile =>
              /\ reading # Idle
              /\ reading.name \in Names /\ reading.content \in Contents
              /\ \/ UNCHANGED <<stable, history, overridden>>
                 \/ /\ reading.content \in Versions
                    /\ Insert(reading.name, reading.content)
                    /\ overridden' = overridden \ {reading.name}
<1>1. ASSUME NEW n \in Names, LoadFile(n)
      PROVE  \/ UNCHANGED <<stable, history>>
             \/ file[n] \in Versions /\ Insert(n, file[n])
  BY <1>1 DEF LoadFile, TypeOK, Contents
<1>2. ASSUME StoreFile
      PROVE  /\ reading # Idle
             /\ reading.name \in Names /\ reading.content \in Contents
             /\ \/ UNCHANGED <<stable, history, overridden>>
                \/ /\ reading.content \in Versions
                   /\ Insert(reading.name, reading.content)
                   /\ overridden' = overridden \ {reading.name}
  <2>1. reading # Idle /\ reading \in [name : Names, content : Contents]
    BY <1>2 DEF StoreFile, TypeOK
  <2>. QED
    BY <1>2, <2>1 DEF StoreFile, Contents
<1>. QED
  BY <1>1, <1>2

LEMMA PolicyTypeStep == TypeOK /\ [Next]_vars => TypeOK'
<1> SUFFICES ASSUME TypeOK, [Next]_vars PROVE TypeOK'
  OBVIOUS
<1> USE DEF TypeOK, directory, startup, watcher, store, counts, ghosts
<1>1. ASSUME NEW n \in Names, LoadFile(n) PROVE TypeOK'
  <2>1. stable' \in [Names -> Contents] /\ history' \in [Names -> SUBSET Versions]
    BY <1>1, StoreCases, InsertType
  <2>. QED
    BY <1>1, <2>1 DEF LoadFile
<1>2. CASE StartWatcher
  BY <1>2 DEF StartWatcher
<1>3. ASSUME NEW n \in Names, NEW c \in Contents, Edit(n, c) PROVE TypeOK'
  <2>1. released' \in [Names -> SUBSET Versions]
    BY <1>3 DEF Edit, Contents
  <2>2. queue' \in Seq(Names)
    BY <1>3 DEF Edit
  <2>. QED
    BY <1>3, <2>1, <2>2 DEF Edit
<1>4. CASE ReadFile
  BY <1>4 DEF ReadFile
<1>5. CASE StoreFile
  <2>1. /\ stable' \in [Names -> Contents] /\ history' \in [Names -> SUBSET Versions]
        /\ overridden' \subseteq Names
    BY <1>5, StoreCases, InsertType
  <2>. QED
    BY <1>5, <2>1 DEF StoreFile
<1>6. ASSUME NEW h \in Handlers, NEW n \in Names, NEW v \in Versions,
             NEW p \in Percentages, StartRollout(h, n, v, p)
      PROVE  TypeOK'
  <2>1. [candidate |-> v, percentage |-> p, stable |-> stable[n]] \in Rollouts
    BY <1>6 DEF StartRollout, Begin, Owes, Rollouts, Contents
  <2>2. rollout' \in [Names -> {NoRollout} \cup Rollouts]
    BY <1>6, <2>1 DEF StartRollout, Begin, Owes
  <2>3. pending' \in [Handlers -> {Idle} \cup [name : Names, delta : {-1, 1}]]
    <3>1. Owes(h, n, 1) \/ UNCHANGED pending
      BY <1>6 DEF StartRollout
    <3>2. pending \in [Handlers -> {Idle} \cup [name : Names, delta : {-1, 1}]]
      OBVIOUS
    <3>. QED
      BY ONLY <3>1, <3>2, <1>6 DEF Owes
  <2>4. granted' \in [Names -> [Versions -> 0..100]]
    BY <1>6 DEF StartRollout, Begin, Owes, Grant
  <2>. QED
    BY <1>6, <2>2, <2>3, <2>4 DEF StartRollout, Begin, Owes
<1>7. ASSUME NEW h \in Handlers, NEW n \in Names, StopRollout(h, n) PROVE TypeOK'
  BY <1>7 DEF StopRollout, End, Owes, Revoke
<1>8. ASSUME NEW h \in Handlers, NEW n \in Names, Promote(h, n) PROVE TypeOK'
  <2>1. rollout[n].candidate \in Versions
    BY <1>8 DEF Promote, PromoteCandidate, End, Owes, Rollouts
  <2>2. stable' \in [Names -> Contents] /\ history' \in [Names -> SUBSET Versions]
    BY <1>8, <2>1, InsertType DEF Promote, PromoteCandidate, End, Owes
  <2>3. pending' \in [Handlers -> {Idle} \cup [name : Names, delta : {-1, 1}]]
    BY <1>8 DEF Promote, PromoteCandidate, End, Owes
  <2>4. /\ granted' \in [Names -> [Versions -> 0..100]]
        /\ released' \in [Names -> SUBSET Versions]
    BY <1>8, <2>1 DEF Promote, PromoteCandidate, End, Owes, Revoke
  <2>. QED
    BY <1>8, <2>2, <2>3, <2>4 DEF Promote, PromoteCandidate, End, Owes
<1>9. ASSUME NEW h \in Handlers, Count(h) PROVE TypeOK'
  <2>1. pending[h] \in [name : Names, delta : {-1, 1}]
    BY <1>9 DEF Count
  <2>2. gauge' \in [Names -> Int]
    BY <1>9, <2>1 DEF Count
  <2>. QED
    BY <1>9, <2>2 DEF Count
<1>10. CASE Crash
  <2>1. /\ stable' \in [Names -> Contents] /\ history' \in [Names -> SUBSET Versions]
        /\ gauge' \in [Names -> Int] /\ queue' \in Seq(Names)
        /\ released' \in [Names -> SUBSET Versions]
        /\ granted' \in [Names -> [Versions -> 0..100]]
    BY <1>10 DEF Crash, Contents
  <2>. QED
    BY <1>10, <2>1 DEF Crash
<1>11. CASE UNCHANGED vars
  BY <1>11 DEF vars
<1>. QED
  BY <1>1, <1>2, <1>3, <1>4, <1>5, <1>6, <1>7, <1>8, <1>9, <1>10, <1>11
     DEF Next, Contents

\* Every reachable state is well typed.
THEOREM PolicyTypeCorrect == Spec => []TypeOK
<1>. QED
  BY PolicyTypeInit, PolicyTypeStep, PTL DEF Spec

-----------------------------------------------------------------------------
(* Rollouts stay anchored                                                  *)

LEMMA AnchoredStep == TypeOK /\ RolloutsAnchored /\ [Next]_vars => RolloutsAnchored'
<1> SUFFICES ASSUME TypeOK, RolloutsAnchored, [Next]_vars PROVE RolloutsAnchored'
  OBVIOUS
<1> USE DEF TypeOK, Contents, RolloutsAnchored, directory, startup, watcher, store,
            counts, ghosts
<1>1. ASSUME NEW n \in Names, NEW v \in Versions, Insert(n, v), UNCHANGED rollout
      PROVE  RolloutsAnchored'
  <2>1. v # NoPolicy
    BY MarkersAssumption
  <2>2. /\ stable'[n] = v /\ history'[n] = history[n] \cup {v} /\ rollout' = rollout
        /\ \A m \in Names \ {n} : stable'[m] = stable[m] /\ history'[m] = history[m]
    BY <1>1, InsertType
  <2>3. ASSUME NEW m \in Names
        PROVE  /\ stable'[m] # NoPolicy => stable'[m] \in history'[m]
               /\ rollout'[m] # NoRollout
                    => stable'[m] # NoPolicy /\ rollout'[m].stable \in history'[m]
    <3>1. /\ stable[m] # NoPolicy => stable[m] \in history[m]
          /\ rollout[m] # NoRollout
               => stable[m] # NoPolicy /\ rollout[m].stable \in history[m]
      OBVIOUS
    <3>. QED
      BY ONLY <2>1, <2>2, <2>3, <3>1
  <2>. QED
    BY <2>3
<1>2. CASE UNCHANGED store
  BY <1>2
<1>3. CASE \E n \in Names : LoadFile(n)
  BY <1>1, <1>2, <1>3, StoreCases DEF LoadFile
<1>4. CASE StoreFile
  BY <1>1, <1>2, <1>4, StoreCases DEF StoreFile
<1>5. ASSUME NEW h \in Handlers, NEW n \in Names, NEW v \in Versions,
             NEW p \in Percentages, StartRollout(h, n, v, p)
      PROVE  RolloutsAnchored'
  BY <1>5 DEF StartRollout, Begin, Owes
<1>6. ASSUME NEW h \in Handlers, NEW n \in Names, StopRollout(h, n)
      PROVE  RolloutsAnchored'
  BY <1>6 DEF StopRollout, End, Owes
<1>7. ASSUME NEW h \in Handlers, NEW n \in Names, Promote(h, n)
      PROVE  RolloutsAnchored'
  <2>1. rollout[n].candidate \in Versions
    BY <1>7 DEF Promote, PromoteCandidate, End, Owes, Rollouts
  <2>. QED
    BY <1>7, <2>1 DEF Promote, PromoteCandidate, End, Owes, Insert
<1>8. CASE Crash
  BY <1>8 DEF Crash
<1>. QED
  BY <1>2, <1>3, <1>4, <1>5, <1>6, <1>7, <1>8
     DEF Next, StartWatcher, Edit, ReadFile, Count, vars

\* A rollout has a stable policy beside it, and what is stable is in the history.
THEOREM RolloutsAnchoredCorrect == Spec => []RolloutsAnchored
<1>1. Init => RolloutsAnchored
  BY DEF Init, RolloutsAnchored
<1>. QED
  BY <1>1, AnchoredStep, PolicyTypeCorrect, PTL DEF Spec

-----------------------------------------------------------------------------
(* Candidates stay contained                                               *)

\* Why CandidateContained holds: whatever a file, the watcher or the store has
\* of a version was released, and a rollout is what the last request asked for.
Granted(n) ==
  /\ file[n] # NoPolicy => file[n] \in released[n]
  /\ stable[n] # NoPolicy => stable[n] \in released[n]
  /\ reading # Idle /\ reading.name = n /\ reading.content # NoPolicy
       => reading.content \in released[n]
  /\ rollout[n] # NoRollout
       => granted[n][rollout[n].candidate] = rollout[n].percentage

GrantedInv == \A n \in Names : Granted(n)

LEMMA GrantedStep == TypeOK /\ GrantedInv /\ [Next]_vars => GrantedInv'
<1> SUFFICES ASSUME TypeOK, GrantedInv, [Next]_vars, NEW b \in Names
             PROVE  Granted(b)'
  BY DEF GrantedInv
<1>0. Granted(b)
  BY DEF GrantedInv
<1> USE DEF TypeOK, Contents, Granted, directory, startup, watcher, store, counts,
            ghosts
<1>1. ASSUME NEW n \in Names, LoadFile(n) PROVE Granted(b)'
  <2>1. stable'[b] = stable[b] \/ (b = n /\ stable'[b] = file[b])
    <3>1. CASE UNCHANGED <<stable, history>>
      BY <3>1
    <3>2. CASE file[n] \in Versions /\ Insert(n, file[n])
      BY <3>2, InsertType
    <3>. QED
      BY <1>1, <3>1, <3>2, StoreCases
  <2>2. UNCHANGED <<file, rollout, reading, released, granted>>
    BY <1>1 DEF LoadFile
  <2>. QED
    BY ONLY <1>0, <2>1, <2>2 DEF Granted
<1>2. CASE StartWatcher
  BY <1>0, <1>2 DEF StartWatcher
<1>3. ASSUME NEW n \in Names, NEW c \in Contents, Edit(n, c) PROVE Granted(b)'
  <2>1. released[b] \subseteq released'[b] /\ (b = n /\ c # NoPolicy => c \in released'[b])
    BY <1>3 DEF Edit
  <2>2. file'[b] = file[b] \/ (b = n /\ file'[b] = c)
    BY <1>3 DEF Edit
  <2>3. UNCHANGED <<stable, rollout, reading, granted>>
    BY <1>3 DEF Edit
  <2>. QED
    BY ONLY <1>0, <2>1, <2>2, <2>3 DEF Granted
<1>4. CASE ReadFile
  <2>1. Head(queue) \in Names
    BY <1>4 DEF ReadFile
  <2>2. Granted(Head(queue))
    BY <2>1 DEF GrantedInv
  <2>. QED
    BY <1>0, <1>4, <2>1, <2>2 DEF ReadFile
<1>5. CASE StoreFile
  <2>1. \/ stable'[b] = stable[b]
        \/ reading # Idle /\ reading.name = b /\ stable'[b] = reading.content
    <3>1. CASE UNCHANGED <<stable, history, overridden>>
      BY <3>1
    <3>2. CASE reading.content \in Versions /\ Insert(reading.name, reading.content)
      BY <1>5, <3>2, StoreCases, InsertType
    <3>. QED
      BY <1>5, <3>1, <3>2, StoreCases
  <2>. QED
    BY <1>0, <1>5, <2>1 DEF StoreFile
<1>6. ASSUME NEW h \in Handlers, NEW n \in Names, NEW v \in Versions,
             NEW p \in Percentages, StartRollout(h, n, v, p)
      PROVE  Granted(b)'
  <2>1. UNCHANGED <<file, stable, reading, released>>
    BY <1>6 DEF StartRollout, Begin, Owes
  <2>2. b # n => rollout'[b] = rollout[b] /\ granted'[b] = granted[b]
    BY <1>6 DEF StartRollout, Begin, Grant
  <2>3. b = n => /\ rollout'[b].candidate = v /\ rollout'[b].percentage = p
                 /\ granted'[b][v] = p
    BY <1>6 DEF StartRollout, Begin, Grant
  <2>. QED
    BY ONLY <1>0, <2>1, <2>2, <2>3 DEF Granted
<1>7. ASSUME NEW h \in Handlers, NEW n \in Names, StopRollout(h, n) PROVE Granted(b)'
  BY <1>0, <1>7 DEF StopRollout, End, Owes, Revoke
<1>8. ASSUME NEW h \in Handlers, NEW n \in Names, Promote(h, n) PROVE Granted(b)'
  <2>1. /\ released[b] \subseteq released'[b]
        /\ b = n => rollout[n].candidate \in released'[b]
    BY <1>8 DEF Promote
  <2>2. \/ stable'[b] = stable[b]
        \/ b = n /\ stable'[b] = rollout[n].candidate
    BY <1>8 DEF Promote, PromoteCandidate, Insert
  <2>3. IF b = n THEN rollout'[b] = NoRollout
        ELSE rollout'[b] = rollout[b] /\ granted'[b] = granted[b]
    BY <1>8 DEF Promote, PromoteCandidate, End, Revoke
  <2>4. UNCHANGED <<file, reading>>
    BY <1>8 DEF Promote
  <2>. QED
    BY ONLY <1>0, <2>1, <2>2, <2>3, <2>4 DEF Granted
<1>9. ASSUME NEW h \in Handlers, Count(h) PROVE Granted(b)'
  BY <1>0, <1>9 DEF Count
<1>10. CASE Crash
  BY <1>10 DEF Crash
<1>11. CASE UNCHANGED vars
  BY <1>0, <1>11 DEF vars
<1>. QED
  BY <1>1, <1>2, <1>3, <1>4, <1>5, <1>6, <1>7, <1>8, <1>9, <1>10, <1>11 DEF Next

\* No evaluation is given a candidate beyond the share of the rollout in force.
THEOREM CandidateContainedCorrect == Spec => []CandidateContained
<1>1. Init => GrantedInv
  BY DEF Init, GrantedInv, Granted
<1>2. GrantedInv => CandidateContained
  <2> SUFFICES ASSUME GrantedInv, NEW n \in Names, NEW b \in Buckets,
                      Resolve(n, b) # NoPolicy
               PROVE  \/ Resolve(n, b) \in released[n]
                      \/ b < granted[n][Resolve(n, b)]
    BY DEF CandidateContained
  <2>1. Granted(n)
    BY DEF GrantedInv
  <2>2. CASE stable[n] # NoPolicy /\ rollout[n] # NoRollout
             /\ b < rollout[n].percentage
    BY <2>1, <2>2 DEF Resolve, InShare, Granted
  <2>3. CASE Resolve(n, b) = stable[n]
    BY <2>1, <2>3 DEF Granted
  <2>. QED
    BY <2>2, <2>3 DEF Resolve, InShare
<1>. QED
  BY <1>1, <1>2, GrantedStep, PolicyTypeCorrect, PTL DEF Spec

-----------------------------------------------------------------------------
(* Files reach the store                                                   *)

\* Why FilesApplied holds: only a running watcher has events or a file in its
\* hand, and what it has in its hand is what the file holds unless another
\* event about the file is queued.
FilesInv ==
  /\ service # "loading" => loaded = Names
  /\ service # "watching" => queue = <<>> /\ reading = Idle
  /\ missed \subseteq loaded
  /\ \A n \in Names :
       ~Unread(n) =>
         /\ InHand(n) => reading.content = file[n]
         /\ n \in loaded /\ n \notin missed \cup overridden /\ file[n] # NoPolicy
              /\ ~InHand(n)
            => stable[n] = file[n]

\* What reading an event does to the queue.
LEMMA QueueRead ==
  ASSUME queue \in Seq(Names), queue # <<>>, queue' = Tail(queue)
  PROVE  /\ Head(queue) \in Names
         /\ \A n \in Names : Unread(n) => n = Head(queue) \/ Unread(n)'
<1>1. Head(queue) \in Names
  OBVIOUS
<1>2. ASSUME NEW n \in Names, NEW i \in DOMAIN queue, queue[i] = n, n # Head(queue)
      PROVE  i - 1 \in DOMAIN queue' /\ queue'[i - 1] = n
  <2>1. i # 1 /\ i \in 1..Len(queue)
    BY <1>2
  <2>. QED
    BY <1>2, <2>1
<1>. QED
  BY <1>1, <1>2 DEF Unread

\* What queueing an event does to the queue.
LEMMA QueueGrown ==
  ASSUME queue \in Seq(Names), NEW m \in Names, queue' = Append(queue, m)
  PROVE  Unread(m)' /\ \A n \in Names : Unread(n) => Unread(n)'
<1>1. Len(queue) + 1 \in DOMAIN queue' /\ queue'[Len(queue) + 1] = m
  OBVIOUS
<1>2. \A i \in DOMAIN queue : i \in DOMAIN queue' /\ queue'[i] = queue[i]
  OBVIOUS
<1>. QED
  BY <1>1, <1>2 DEF Unread

LEMMA FilesStep == TypeOK /\ FilesInv /\ [Next]_vars => FilesInv'
<1> SUFFICES ASSUME TypeOK, FilesInv, [Next]_vars PROVE FilesInv'
  OBVIOUS
<1> USE DEF FilesInv, InHand
<1>0. /\ queue \in Seq(Names) /\ loaded \subseteq Names
      /\ file \in [Names -> Contents] /\ stable \in [Names -> Contents]
  BY DEF TypeOK
<1>1. ASSUME NEW m \in Names, LoadFile(m) PROVE FilesInv'
  <2>1. /\ service = "loading" /\ m \notin loaded /\ loaded' = loaded \cup {m}
        /\ UNCHANGED <<file, missed, service, queue, reading, overridden>>
    BY <1>1 DEF LoadFile, directory, watcher, ghosts
  <2>2. /\ \A n \in Names \ {m} : stable'[n] = stable[n]
        /\ file[m] # NoPolicy => stable'[m] = file[m]
    <3>1. CASE file[m] = NoPolicy
      BY <1>1, <3>1 DEF LoadFile
    <3>2. CASE file[m] # NoPolicy
      <4>1. file[m] \in Versions /\ Insert(m, file[m])
        BY <1>0, <1>1, <3>2 DEF LoadFile, Contents
      <4>. QED
        BY <4>1, InsertType
    <3>. QED
      BY <3>1, <3>2
  <2>3. \A n \in Names : Unread(n)' <=> Unread(n)
    BY <2>1 DEF Unread
  <2>. QED
    BY <2>1, <2>2, <2>3
<1>2. CASE StartWatcher
  BY <1>2 DEF StartWatcher, directory, watcher, store, ghosts, Unread
<1>3. ASSUME NEW m \in Names, NEW c \in Contents, Edit(m, c) PROVE FilesInv'
  <2>1. /\ file' = [file EXCEPT ![m] = c]
        /\ UNCHANGED <<service, loaded, reading, stable, overridden>>
    BY <1>3 DEF Edit, startup, store
  <2>2. CASE service = "watching"
    <3>1. queue' = Append(queue, m) /\ missed' = missed \ {m}
      BY <1>3, <2>2 DEF Edit
    <3>2. Unread(m)' /\ \A n \in Names : Unread(n) => Unread(n)'
      BY <1>0, <3>1, QueueGrown
    <3>. QED
      BY <1>0, <2>1, <2>2, <3>1, <3>2
  <2>3. CASE service # "watching"
    <3>1. /\ queue' = queue
          /\ missed' = IF m \in loaded THEN missed \cup {m} ELSE missed
      BY <1>3, <2>3 DEF Edit
    <3>2. \A n \in Names : Unread(n)' <=> Unread(n)
      BY <3>1 DEF Unread
    <3>. QED
      BY <1>0, <2>1, <2>3, <3>1, <3>2
  <2>. QED
    BY <2>2, <2>3
<1>4. CASE ReadFile
  <2>1. /\ reading = Idle /\ queue # <<>> /\ queue' = Tail(queue)
        /\ reading' = [name |-> Head(queue), content |-> file[Head(queue)]]
        /\ UNCHANGED <<file, missed, service, loaded, stable, overridden>>
    BY <1>4 DEF ReadFile, directory, startup, store, ghosts
  <2>2. /\ Head(queue) \in Names
        /\ \A n \in Names : Unread(n) => n = Head(queue) \/ Unread(n)'
    BY <1>0, <2>1, QueueRead
  <2>3. reading' \in [name : Names, content : Contents]
    BY <1>0, <2>1, <2>2
  <2>4. reading' # Idle
    BY <2>3, MarkersAssumption DEF Contents
  <2>. QED
    BY <2>1, <2>2, <2>4
<1>5. CASE StoreFile
  <2>1. /\ reading' = Idle
        /\ UNCHANGED <<file, missed, service, loaded, queue>>
    BY <1>5 DEF StoreFile, directory, startup
  <2>2. /\ reading # Idle /\ reading.name \in Names /\ reading.content \in Contents
        /\ \A n \in Names \ {reading.name} :
             /\ stable'[n] = stable[n]
             /\ n \in overridden' <=> n \in overridden
        /\ reading.content # NoPolicy => stable'[reading.name] = reading.content
    <3>1. CASE reading.content = NoPolicy
      BY <1>5, <3>1, StoreCases DEF StoreFile
    <3>2. CASE reading.content # NoPolicy
      <4>1. /\ Insert(reading.name, reading.content)
            /\ overridden' = overridden \ {reading.name}
            /\ reading.name \in Names /\ reading.content \in Versions
        BY <1>5, <3>2, StoreCases DEF StoreFile, Contents
      <4>. QED
        BY <1>5, <4>1, InsertType, StoreCases
    <3>. QED
      BY <3>1, <3>2
  <2>3. \A n \in Names : Unread(n)' <=> Unread(n)
    BY <2>1 DEF Unread
  <2>. QED
    BY <2>1, <2>2, <2>3
<1>6. CASE UNCHANGED <<directory, startup, watcher, stable, overridden>>
  BY <1>6 DEF directory, startup, watcher, Unread
<1>7. ASSUME NEW h \in Handlers, NEW m \in Names, Promote(h, m) PROVE FilesInv'
  <2>1. rollout[m].candidate \in Versions
    BY <1>7 DEF Promote, PromoteCandidate, End, Owes, TypeOK, Rollouts
  <2>2. \A n \in Names \ {m} : stable'[n] = stable[n]
    BY <1>7, <2>1, InsertType DEF Promote, PromoteCandidate, End, Owes
  <2>3. /\ overridden' = overridden \cup {m}
        /\ UNCHANGED <<file, missed, service, loaded, queue, reading>>
    BY <1>7 DEF Promote, PromoteCandidate, End, Owes, directory, startup, watcher
  <2>4. \A n \in Names : Unread(n)' <=> Unread(n)
    BY <2>3 DEF Unread
  <2>. QED
    BY <2>2, <2>3, <2>4
<1>8. CASE Crash
  BY <1>8 DEF Crash, Unread
<1>. QED
  BY <1>1, <1>2, <1>3, <1>4, <1>5, <1>6, <1>7, <1>8
     DEF Next, StartRollout, Begin, Owes, StopRollout, End, Count, vars, store, ghosts, Contents

\* When no event about a policy is left, the store holds what its file holds.
THEOREM FilesAppliedCorrect == Spec => []FilesApplied
<1>1. Init => FilesInv
  BY DEF Init, FilesInv, InHand
<1>2. FilesInv => FilesApplied
  BY DEF FilesInv, FilesApplied
<1>. QED
  BY <1>1, <1>2, FilesStep, PolicyTypeCorrect, PTL DEF Spec

-----------------------------------------------------------------------------
(* The gauge                                                               *)

Entry(n, d) == [name |-> n, delta |-> d]
Owed(n, d) == Cardinality(Owing(n, d))
Active(n) == IF rollout[n] = NoRollout THEN 0 ELSE 1

LEMMA OwedInt ==
  ASSUME NEW n \in Names, NEW d
  PROVE  IsFiniteSet(Owing(n, d)) /\ Owed(n, d) \in Nat
<1>1. IsFiniteSet(Owing(n, d))
  BY HandlersAssumption, FS_Subset DEF Owing
<1>. QED
  BY <1>1, FS_CardinalityType DEF Owed

LEMMA IdleIsNoEntry ==
  ASSUME NEW n \in Names, NEW d \in Int
  PROVE  Entry(n, d) # Idle
BY MarkersAssumption DEF Entry

\* A handler that takes on a count is one more that owes it.
LEMMA OwedMore ==
  ASSUME TypeOK, NEW h \in Handlers, pending[h] = Idle,
         NEW m \in Names, NEW e \in {-1, 1},
         pending' = [pending EXCEPT ![h] = Entry(m, e)],
         NEW n \in Names, NEW d \in {-1, 1}
  PROVE  Owed(n, d)' = Owed(n, d) + (IF n = m /\ d = e THEN 1 ELSE 0)
<1>1. h \notin Owing(n, d)
  BY IdleIsNoEntry DEF Owing, Entry
<1>2. CASE n = m /\ d = e
  <2>1. Owing(n, d)' = Owing(n, d) \cup {h}
    BY <1>2 DEF Owing, Entry, TypeOK
  <2>2. Cardinality(Owing(n, d) \cup {h}) = Cardinality(Owing(n, d)) + 1
    BY <1>1, OwedInt, FS_AddElement
  <2>. QED
    BY <1>2, <2>1, <2>2 DEF Owed
<1>3. CASE ~(n = m /\ d = e)
  <2>1. Entry(n, d) # Entry(m, e)
    BY <1>3 DEF Entry
  <2>2. Owing(n, d)' = Owing(n, d)
    BY <1>1, <2>1 DEF Owing, Entry, TypeOK
  <2>3. Owed(n, d)' = Owed(n, d)
    BY <2>2 DEF Owed
  <2>. QED
    BY <1>3, <2>3, OwedInt
<1>. QED
  BY <1>2, <1>3

\* A handler that has counted is one fewer.
LEMMA OwedLess ==
  ASSUME TypeOK, NEW h \in Handlers, NEW m \in Names, NEW e \in {-1, 1},
         pending[h] = Entry(m, e), pending' = [pending EXCEPT ![h] = Idle],
         NEW n \in Names, NEW d \in {-1, 1}
  PROVE  Owed(n, d) = Owed(n, d)' + (IF n = m /\ d = e THEN 1 ELSE 0)
<1>1. h \notin Owing(n, d)'
  BY IdleIsNoEntry DEF Owing, Entry, TypeOK
<1>2. CASE n = m /\ d = e
  <2>1. Owing(n, d)' = Owing(n, d) \ {h} /\ h \in Owing(n, d)
    BY <1>1, <1>2, IdleIsNoEntry DEF Owing, Entry, TypeOK
  <2>2. Cardinality(Owing(n, d) \ {h}) = Cardinality(Owing(n, d)) - 1
    BY <2>1, OwedInt, FS_RemoveElement
  <2>3. Owed(n, d)' = Owed(n, d) - 1
    BY <2>1, <2>2 DEF Owed
  <2>. QED
    BY <1>2, <2>3, OwedInt
<1>3. CASE ~(n = m /\ d = e)
  <2>1. Entry(n, d) # Entry(m, e)
    BY <1>3 DEF Entry
  <2>2. Owing(n, d)' = Owing(n, d)
    BY <1>1, <2>1 DEF Owing, Entry, TypeOK
  <2>3. Owed(n, d)' = Owed(n, d)
    BY <2>2 DEF Owed
  <2>. QED
    BY <1>3, <2>3, OwedInt
<1>. QED
  BY <1>2, <1>3

BalancedInv == \A n \in Names : gauge[n] + Owed(n, 1) - Owed(n, -1) = Active(n)

LEMMA BalancedStep == TypeOK /\ BalancedInv /\ [Next]_vars => BalancedInv'
<1> SUFFICES ASSUME TypeOK, BalancedInv, [Next]_vars, NEW n \in Names
             PROVE  gauge'[n] + Owed(n, 1)' - Owed(n, -1)' = Active(n)'
  BY DEF BalancedInv
<1>0. /\ gauge[n] + Owed(n, 1) - Owed(n, -1) = Active(n)
      /\ gauge[n] \in Int /\ Owed(n, 1) \in Nat /\ Owed(n, -1) \in Nat
  BY OwedInt DEF BalancedInv, TypeOK
<1>1. CASE UNCHANGED <<pending, gauge, rollout>>
  BY <1>0, <1>1 DEF Owed, Owing, Active
<1>2. ASSUME NEW h \in Handlers, NEW m \in Names, NEW v \in Versions,
             NEW p \in Percentages, StartRollout(h, m, v, p)
      PROVE  gauge'[n] + Owed(n, 1)' - Owed(n, -1)' = Active(n)'
  <2>1. /\ pending[h] = Idle /\ gauge' = gauge
        /\ \A k \in Names \ {m} : rollout'[k] = rollout[k]
        /\ pending' = [pending EXCEPT
                         ![h] = IF rollout[m] = NoRollout THEN Entry(m, 1) ELSE Idle]
    BY <1>2 DEF StartRollout, Begin, Owes, Ready, Entry, TypeOK
  <2>2. rollout'[m] # NoRollout
    <3>1. stable[m] \in Versions /\ p \in Int
      BY <1>2 DEF StartRollout, Begin, Owes, TypeOK, Contents
    <3>2. [candidate |-> v, percentage |-> p, stable |-> stable[m]] # NoRollout
      BY <3>1, MarkersAssumption
    <3>. QED
      BY <1>2, <3>2 DEF StartRollout, Begin, Owes, TypeOK
  <2>3. CASE rollout[m] = NoRollout
    <3>1. pending' = [pending EXCEPT ![h] = Entry(m, 1)]
      BY <2>1, <2>3
    <3>2. Owed(n, 1)' = Owed(n, 1) + (IF n = m /\ 1 = 1 THEN 1 ELSE 0)
      BY <2>1, <3>1, OwedMore
    <3>3. Owed(n, -1)' = Owed(n, -1) + (IF n = m /\ -1 = 1 THEN 1 ELSE 0)
      BY <2>1, <3>1, OwedMore
    <3>. QED
      BY <1>0, <2>1, <2>2, <2>3, <3>2, <3>3 DEF Active
  <2>4. CASE rollout[m] # NoRollout
    <3>1. pending' = pending
      BY <2>1, <2>4 DEF TypeOK
    <3>2. Owed(n, 1)' = Owed(n, 1) /\ Owed(n, -1)' = Owed(n, -1)
      BY <3>1 DEF Owed, Owing
    <3>. QED
      BY <1>0, <2>1, <2>2, <2>4, <3>2 DEF Active
  <2>. QED
    BY <2>3, <2>4
<1>3. ASSUME NEW h \in Handlers, NEW m \in Names, StopRollout(h, m) \/ Promote(h, m)
      PROVE  gauge'[n] + Owed(n, 1)' - Owed(n, -1)' = Active(n)'
  <2>1. /\ pending[h] = Idle /\ gauge' = gauge /\ rollout[m] # NoRollout
        /\ rollout' = [rollout EXCEPT ![m] = NoRollout]
        /\ pending' = [pending EXCEPT ![h] = Entry(m, -1)]
    BY <1>3 DEF StopRollout, End, Owes, Promote, PromoteCandidate, Ready, Entry
  <2>2. Owed(n, 1)' = Owed(n, 1) + (IF n = m /\ 1 = -1 THEN 1 ELSE 0)
    BY <2>1, OwedMore
  <2>3. Owed(n, -1)' = Owed(n, -1) + (IF n = m /\ -1 = -1 THEN 1 ELSE 0)
    BY <2>1, OwedMore
  <2>. QED
    BY <1>0, <2>1, <2>2, <2>3 DEF Active, TypeOK
<1>4. ASSUME NEW h \in Handlers, Count(h)
      PROVE  gauge'[n] + Owed(n, 1)' - Owed(n, -1)' = Active(n)'
  <2>1. pending[h] \in [name : Names, delta : {-1, 1}]
    BY <1>4 DEF Count, TypeOK
  <2> DEFINE m == pending[h].name
             e == pending[h].delta
  <2>2. /\ m \in Names /\ e \in {-1, 1} /\ pending[h] = Entry(m, e)
        /\ pending' = [pending EXCEPT ![h] = Idle]
        /\ gauge'[n] = gauge[n] + (IF n = m THEN e ELSE 0)
        /\ rollout' = rollout
    BY <1>0, <1>4, <2>1 DEF Count, Entry, TypeOK, store
  <2> HIDE DEF m, e
  <2>3. /\ Owed(n, 1) = Owed(n, 1)' + (IF n = m /\ 1 = e THEN 1 ELSE 0)
        /\ Owed(n, -1) = Owed(n, -1)' + (IF n = m /\ -1 = e THEN 1 ELSE 0)
    BY <2>2, OwedLess
  <2>4. Owed(n, 1)' \in Nat /\ Owed(n, -1)' \in Nat
    BY OwedInt, HandlersAssumption, FS_Subset, FS_CardinalityType DEF Owed, Owing
  <2>5. Active(n)' = Active(n)
    BY <2>2 DEF Active
  <2>. QED
    BY <1>0, <2>2, <2>3, <2>4, <2>5
<1>5. CASE Crash
  <2>1. \A h \in Handlers, d \in {-1, 1} : pending'[h] # Entry(n, d)
    BY <1>5, IdleIsNoEntry DEF Crash
  <2>2. Owing(n, 1)' = {} /\ Owing(n, -1)' = {}
    BY <2>1 DEF Owing, Entry
  <2>3. Owed(n, 1)' = 0 /\ Owed(n, -1)' = 0
    BY <2>2, FS_EmptySet DEF Owed
  <2>. QED
    BY <1>5, <2>3 DEF Crash, Active
<1>. QED
  BY <1>1, <1>2, <1>3, <1>4, <1>5
     DEF Next, LoadFile, StartWatcher, Edit, ReadFile, StoreFile, vars, store, counts

\* Once every handler has counted, the gauge is the number of active rollouts,
\* for any number of concurrent requests.
THEOREM GaugeBalancedCorrect == Spec => []GaugeBalanced
<1>1. Init => BalancedInv
  <2> SUFFICES ASSUME Init, NEW n \in Names
               PROVE  gauge[n] + Owed(n, 1) - Owed(n, -1) = Active(n)
    BY DEF BalancedInv
  <2>1. \A h \in Handlers, d \in {-1, 1} : pending[h] # Entry(n, d)
    BY IdleIsNoEntry DEF Init
  <2>2. Owing(n, 1) = {} /\ Owing(n, -1) = {}
    BY <2>1 DEF Owing, Entry
  <2>3. Owed(n, 1) = 0 /\ Owed(n, -1) = 0
    BY <2>2, FS_EmptySet DEF Owed
  <2>. QED
    BY <2>3 DEF Init, Active
<1>2. BalancedInv => GaugeBalanced
  BY DEF BalancedInv, GaugeBalanced, Owed, Active
<1>. QED
  BY <1>1, <1>2, BalancedStep, PolicyTypeCorrect, PTL DEF Spec
=============================================================================
