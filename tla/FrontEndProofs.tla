-------------------------- MODULE FrontEndProofs --------------------------
(***************************************************************************)
(* The guarantees of the HTTP front ends: of A2aProxy, for any handlers,   *)
(* requests, agents and cards, and of ResponseStream, for any bodies, cuts *)
(* and channel sizes.                                                      *)
(***************************************************************************)
EXTENDS A2aProxy, ResponseStream, SequenceTheorems, WellFoundedInduction, TLAPS

-----------------------------------------------------------------------------
(* Type correctness                                                        *)

\* The initial state is well typed.
LEMMA InitTyped == Init => TypeOK
  BY BoundAssumption DEF Init, TypeOK, Shape, Knows

\* Every step of a handler keeps the state well typed.
LEMMA StepTyped ==
  ASSUME TypeOK, [Next]_vars
  PROVE  TypeOK'
<1>1. ASSUME NEW url \in Urls, ChangeCard(url)
      PROVE  TypeOK'
  <2>1. Shape'
    <3>1. served' \in [Urls -> Cards]
      BY <1>1 DEF ChangeCard, TypeOK, Shape
    <3>2. changes' \in 0..MaxChanges
      <4>1. changes \in 0..MaxChanges
        BY DEF TypeOK, Shape
      <4> QED
        BY <1>1, <4>1, BoundAssumption DEF ChangeCard
    <3> QED
      BY <1>1, <3>1, <3>2 DEF ChangeCard, TypeOK, Shape
  <2>2. \A g \in Handlers : Knows(g)'
    BY <1>1 DEF ChangeCard, TypeOK, Shape, Knows
  <2> QED
    BY <2>1, <2>2 DEF TypeOK
<1>2. ASSUME NEW h \in Handlers, Receive(h)
      PROVE  TypeOK'
  <2>1. Shape'
    BY <1>2 DEF Receive, TypeOK, Shape
  <2>2. \A g \in Handlers : Knows(g)'
    BY <1>2 DEF Receive, TypeOK, Shape, Knows
  <2> QED
    BY <2>1, <2>2 DEF TypeOK
<1>3. ASSUME NEW h \in Handlers, FetchCard(h)
      PROVE  TypeOK'
  <2>1. request[h].url \in Urls
    BY <1>3 DEF FetchCard, TypeOK, Shape, Knows, Urls
  <2>2. Shape'
    BY <1>3, <2>1 DEF FetchCard, TypeOK, Shape
  <2>3. \A g \in Handlers : Knows(g)'
    <3>1. served[request[h].url] # NoCard
      <4>1. served \in [Urls -> Cards]
        BY DEF TypeOK, Shape
      <4> QED
        BY <2>1, <4>1, NoneAssumption
    <3>2. \A g \in Handlers : g # h => pc'[g] = pc[g] /\ card'[g] = card[g]
      BY <1>3 DEF FetchCard, TypeOK, Shape
    <3>3. (pc'[h] = "update" /\ card'[h] # NoCard) \/ pc'[h] = "enforce"
      BY <1>3, <3>1 DEF FetchCard, TypeOK, Shape
    <3>4. pc[h] = "card" /\ UNCHANGED <<request, verdict>>
      BY <1>3 DEF FetchCard
    <3> QED
      BY <3>2, <3>3, <3>4 DEF TypeOK, Knows
  <2> QED
    BY <2>2, <2>3 DEF TypeOK
<1>4. ASSUME NEW h \in Handlers, UpdateCard(h)
      PROVE  TypeOK'
  <2>1. request[h].agent \in Agents
    BY <1>4, RequestsAssumption DEF UpdateCard, TypeOK, Shape, Knows
  <2>2. Shape'
    BY <1>4, <2>1 DEF UpdateCard, TypeOK, Shape
  <2>3. \A g \in Handlers : Knows(g)'
    BY <1>4, <2>1 DEF UpdateCard, TypeOK, Shape, Knows
  <2> QED
    BY <2>2, <2>3 DEF TypeOK
<1>5. ASSUME NEW h \in Handlers, Enforce(h)
      PROVE  TypeOK'
  <2>1. Shape'
    BY <1>5 DEF Enforce, TypeOK, Shape
  <2>2. \A g \in Handlers : Knows(g)'
    BY <1>5 DEF Enforce, TypeOK, Shape, Knows
  <2> QED
    BY <2>1, <2>2 DEF TypeOK
<1>6. ASSUME NEW h \in Handlers, InsertHandoff(h)
      PROVE  TypeOK'
  <2>1. Shape'
    BY <1>6 DEF InsertHandoff, TypeOK, Shape
  <2>2. \A g \in Handlers : Knows(g)'
    BY <1>6 DEF InsertHandoff, TypeOK, Shape, Knows
  <2> QED
    BY <2>1, <2>2 DEF TypeOK
<1>7. ASSUME NEW h \in Handlers, Forward(h)
      PROVE  TypeOK'
  <2>1. Shape'
    BY <1>7 DEF Forward, TypeOK, Shape
  <2>2. \A g \in Handlers : Knows(g)'
    BY <1>7 DEF Forward, TypeOK, Shape, Knows
  <2> QED
    BY <2>1, <2>2 DEF TypeOK
<1>8. ASSUME NEW h \in Handlers, Answer(h)
      PROVE  TypeOK'
  <2>1. Shape'
    BY <1>8 DEF Answer, TypeOK, Shape
  <2>2. \A g \in Handlers : Knows(g)'
    BY <1>8 DEF Answer, TypeOK, Shape, Knows
  <2> QED
    BY <2>1, <2>2 DEF TypeOK
<1>9. ASSUME NEW h \in Handlers, Cancel(h)
      PROVE  TypeOK'
  <2>1. Shape'
    BY <1>9 DEF Cancel, TypeOK, Shape
  <2>2. \A g \in Handlers : Knows(g)'
    BY <1>9 DEF Cancel, TypeOK, Shape, Knows
  <2> QED
    BY <2>1, <2>2 DEF TypeOK
<1>10. CASE UNCHANGED vars
  BY <1>10 DEF vars, TypeOK, Shape, Knows
<1> QED
  BY <1>1, <1>2, <1>3, <1>4, <1>5, <1>6, <1>7, <1>8, <1>9, <1>10 DEF Next

\* Every reachable state of the front end is well typed, for any handlers,
\* requests, agents and cards (proxy_a2a).
THEOREM TypeCorrect == Spec => []TypeOK
<1>1. Init => TypeOK
  BY InitTyped
<1>2. TypeOK /\ [Next]_vars => TypeOK'
  BY StepTyped
<1> QED
  BY <1>1, <1>2, PTL DEF Spec

-----------------------------------------------------------------------------
(* A changed card is noticed.  The cache alone remembers what was compared: *)
(* a handler that passed did so with the card that is cached still, or some *)
(* request of its agent has been refused since.                             *)

Noticed(agent) == \E j \in Handlers : RefusedForCard(j) /\ request[j].agent = agent

CacheCurrent ==
  \A h \in Passed : card[h] = cardCache[request[h].agent] \/ Noticed(request[h].agent)

\* A request that was refused for its card stays so.
LEMMA RefusedStable ==
  ASSUME TypeOK, [Next]_vars, NEW j \in Handlers, RefusedForCard(j)
  PROVE  RefusedForCard(j)' /\ request'[j] = request[j]
<1>1. pc[j] = "refused"
  BY DEF RefusedForCard
<1>2. pc'[j] = pc[j] /\ verdict'[j] = verdict[j] /\ request'[j] = request[j]
  BY <1>1 DEF Next, vars, TypeOK, Shape, Knows, ChangeCard, Receive, FetchCard, UpdateCard,
             Enforce, InsertHandoff, Forward, Answer, Cancel
<1> QED
  BY <1>2 DEF RefusedForCard

\* A handler that passes after a step had passed before it with the same card and
\* request, unless the step is its own comparison.
LEMMA PassedBefore ==
  ASSUME TypeOK, Next, NEW h \in Handlers, h \in Passed', ~UpdateCard(h)
  PROVE  h \in Passed /\ card'[h] = card[h] /\ request'[h] = request[h]
<1> USE NoneAssumption
<1>0. card'[h] # NoCard /\ pc'[h] # "update" /\ ~(pc'[h] = "refused" /\ verdict'[h] = "none")
  BY DEF Passed, RefusedForCard
<1>1. ASSUME NEW url \in Urls, ChangeCard(url)
      PROVE  h \in Passed /\ card'[h] = card[h] /\ request'[h] = request[h]
  BY <1>0, <1>1 DEF ChangeCard, Passed, RefusedForCard
<1>2. ASSUME NEW i \in Handlers, Receive(i)
      PROVE  h \in Passed /\ card'[h] = card[h] /\ request'[h] = request[h]
  BY <1>0, <1>2 DEF Receive, TypeOK, Shape, Knows, Passed, RefusedForCard
<1>3. ASSUME NEW i \in Handlers, FetchCard(i)
      PROVE  h \in Passed /\ card'[h] = card[h] /\ request'[h] = request[h]
  BY <1>0, <1>3 DEF FetchCard, TypeOK, Shape, Knows, Passed, RefusedForCard
<1>4. ASSUME NEW i \in Handlers, UpdateCard(i)
      PROVE  h \in Passed /\ card'[h] = card[h] /\ request'[h] = request[h]
  <2>1. h # i
    BY <1>4
  <2> QED
    BY <1>0, <1>4, <2>1 DEF UpdateCard, TypeOK, Shape, Knows, Passed, RefusedForCard
<1>5. ASSUME NEW i \in Handlers, Enforce(i)
      PROVE  h \in Passed /\ card'[h] = card[h] /\ request'[h] = request[h]
  BY <1>0, <1>5 DEF Enforce, TypeOK, Shape, Knows, Passed, RefusedForCard
<1>6. ASSUME NEW i \in Handlers, InsertHandoff(i)
      PROVE  h \in Passed /\ card'[h] = card[h] /\ request'[h] = request[h]
  BY <1>0, <1>6 DEF InsertHandoff, TypeOK, Shape, Knows, Passed, RefusedForCard
<1>7. ASSUME NEW i \in Handlers, Forward(i)
      PROVE  h \in Passed /\ card'[h] = card[h] /\ request'[h] = request[h]
  BY <1>0, <1>7 DEF Forward, TypeOK, Shape, Knows, Passed, RefusedForCard
<1>8. ASSUME NEW i \in Handlers, Answer(i)
      PROVE  h \in Passed /\ card'[h] = card[h] /\ request'[h] = request[h]
  BY <1>0, <1>8 DEF Answer, TypeOK, Shape, Knows, Passed, RefusedForCard
<1>9. ASSUME NEW i \in Handlers, Cancel(i)
      PROVE  h \in Passed /\ card'[h] = card[h] /\ request'[h] = request[h]
  BY <1>0, <1>9 DEF Cancel, TypeOK, Shape, Knows, Passed, RefusedForCard
<1> QED
  BY <1>1, <1>2, <1>3, <1>4, <1>5, <1>6, <1>7, <1>8, <1>9 DEF Next

\* A comparison leaves the cache as it was for those that passed, or is itself the
\* refusal that notices the change.
LEMMA UpdateCurrent ==
  ASSUME TypeOK, CacheCurrent, NEW i \in Handlers, UpdateCard(i)
  PROVE  CacheCurrent'
<1> USE NoneAssumption
<1> DEFINE agent == request[i].agent
<1>1. agent \in Agents
  BY RequestsAssumption DEF UpdateCard, TypeOK, Shape, Knows
<1>2. pc'[i] = IF Changed(cardCache[agent], card[i]) THEN "refused" ELSE "enforce"
  BY DEF UpdateCard, TypeOK, Shape, Knows
<1>3. verdict'[i] = "none"
  BY DEF UpdateCard, TypeOK, Shape, Knows
<1>4. UNCHANGED <<request, card, verdict>>
  BY DEF UpdateCard
<1>5. cardCache' = [cardCache EXCEPT ![agent] = card[i]]
  BY DEF UpdateCard
<1>6. \A h \in Handlers \ {i} : pc'[h] = pc[h]
  BY DEF UpdateCard, TypeOK, Shape, Knows
<1>11. \A j \in Handlers : RefusedForCard(j) => RefusedForCard(j)'
  BY RefusedStable DEF Next
<1>7. SUFFICES ASSUME NEW h \in Handlers, h \in Passed'
      PROVE  card[h] = cardCache'[request[h].agent] \/ Noticed(request[h].agent)'
  BY <1>4 DEF CacheCurrent, Passed
<1>8. CASE h = i
  BY <1>1, <1>5, <1>8 DEF TypeOK, Shape, Knows
<1>9. CASE h # i /\ request[h].agent # agent
  <2>1. h \in Passed
    BY <1>4, <1>6, <1>7, <1>9 DEF Passed, RefusedForCard
  <2>2. cardCache'[request[h].agent] = cardCache[request[h].agent]
    <3>1. request[h].agent \in Agents
      BY <2>1, RequestsAssumption DEF Passed, TypeOK, Shape, Knows
    <3> QED
      BY <1>5, <1>9, <3>1 DEF TypeOK, Shape, Knows
  <2>3. Noticed(request[h].agent) => Noticed(request[h].agent)'
    BY <1>4, <1>11 DEF Noticed
  <2> QED
    BY <2>1, <2>2, <2>3 DEF CacheCurrent
<1>10. CASE h # i /\ request[h].agent = agent
  <2>1. h \in Passed
    BY <1>4, <1>6, <1>7, <1>10 DEF Passed, RefusedForCard
  <2>2. cardCache'[agent] = card[i]
    BY <1>1, <1>5 DEF TypeOK, Shape, Knows
  <2>3. CASE Noticed(agent)
    BY <2>3, <1>4, <1>10, <1>11 DEF Noticed
  <2>4. CASE ~Noticed(agent)
    <3>1. card[h] = cardCache[agent]
      BY <1>10, <2>1, <2>4 DEF CacheCurrent
    <3>2. cardCache[agent] # NoCard
      BY <2>1, <3>1 DEF Passed
    <3>3. CASE cardCache[agent] = card[i]
      BY <1>10, <2>2, <3>1, <3>3
    <3>4. CASE cardCache[agent] # card[i]
      <4>1. pc'[i] = "refused"
        BY <1>2, <3>2, <3>4 DEF Changed
      <4> QED
        BY <1>3, <1>4, <1>10, <4>1 DEF Noticed, RefusedForCard
    <3> QED
      BY <3>3, <3>4
  <2> QED
    BY <2>3, <2>4
<1> QED
  BY <1>8, <1>9, <1>10

\* Every step keeps CacheCurrent.
LEMMA StepCurrent ==
  ASSUME TypeOK, CacheCurrent, [Next]_vars
  PROVE  CacheCurrent'
<1>1. CASE UNCHANGED vars
  BY <1>1 DEF vars, CacheCurrent, Passed, RefusedForCard, Noticed
<1>2. CASE Next /\ \E i \in Handlers : UpdateCard(i)
  BY <1>2, UpdateCurrent
<1>3. CASE Next /\ ~\E i \in Handlers : UpdateCard(i)
  <2>1. cardCache' = cardCache
    BY <1>3 DEF Next, ChangeCard, Receive, FetchCard, Enforce, InsertHandoff, Forward, Answer,
               Cancel
  <2>2. SUFFICES ASSUME NEW h \in Handlers, h \in Passed'
        PROVE  (card[h] = cardCache[request[h].agent] \/ Noticed(request[h].agent))'
    BY DEF CacheCurrent, Passed, Noticed
  <2>3. h \in Passed /\ card'[h] = card[h] /\ request'[h] = request[h]
    BY <1>3, <2>2, PassedBefore
  <2>4. Noticed(request[h].agent) => Noticed(request[h].agent)'
    <3>1. \A j \in Handlers : RefusedForCard(j) => RefusedForCard(j)' /\ request'[j] = request[j]
      BY RefusedStable
    <3> QED
      BY <2>3, <3>1 DEF Noticed
  <2> QED
    BY <2>1, <2>3, <2>4 DEF CacheCurrent
<1> QED
  BY <1>1, <1>2, <1>3

\* Two requests of one agent never pass with different cards without one being
\* refused, however many handlers fetch and compare cards in whatever order
\* (AgentCardCache::update).
THEOREM ChangeAlwaysNoticed == Spec => []ChangeNoticed
<1>1. Init => CacheCurrent
  BY DEF Init, CacheCurrent, Passed
<1>2. TypeOK /\ CacheCurrent /\ [Next]_vars => CacheCurrent'
  BY StepCurrent
<1>3. CacheCurrent => ChangeNoticed
  BY DEF CacheCurrent, ChangeNoticed, Passed, Noticed
<1> QED
  BY <1>1, <1>2, <1>3, TypeCorrect, PTL DEF Spec

-----------------------------------------------------------------------------
(* What is forwarded is recorded.  Before a task is in the upstream it is at *)
(* "handoff" with a verdict of Allow, then at "forward" with its record.     *)

Recorded(h) ==
  request[h].isTask => /\ verdict[h] = "Allow"
                       /\ h \in graphFailed \/ \E g \in graph : g.node = request[h].node

Allowed(g) == \E h \in Handlers : verdict[h] = "Allow" /\ g = Handoff(request[h])

RecordFirst ==
  /\ \A h \in Handlers : /\ pc[h] = "handoff" => verdict[h] = "Allow"
                         /\ pc[h] = "forward" \/ h \in upstream => Recorded(h)
                         /\ h \in upstream => pc[h] \in {"await", "answered", "bad gateway", "dropped"}
  /\ \A g \in graph : Allowed(g)

\* Nothing that was recorded is taken back, and no request or verdict of Allow
\* is replaced.
LEMMA RecordsStay ==
  ASSUME TypeOK, [Next]_vars
  PROVE  /\ graph \subseteq graph' /\ graphFailed \subseteq graphFailed'
         /\ \A h \in Handlers : pc[h] # "idle" => request'[h] = request[h]
         /\ \A h \in Handlers : verdict[h] = "Allow" => verdict'[h] = "Allow" /\ request'[h] = request[h]
<1>1. graph \subseteq graph' /\ graphFailed \subseteq graphFailed'
  BY DEF Next, vars, ChangeCard, Receive, FetchCard, UpdateCard, Enforce, InsertHandoff, WithNode,
         Forward, Answer, Cancel
<1>2. \A h \in Handlers : pc[h] # "idle" => request'[h] = request[h]
  BY DEF Next, vars, TypeOK, Shape, ChangeCard, Receive, FetchCard, UpdateCard, Enforce,
         InsertHandoff, Forward, Answer, Cancel
<1>3. \A h \in Handlers : verdict[h] = "Allow" => pc[h] # "enforce" /\ pc[h] # "idle"
  BY DEF TypeOK, Knows
<1>4. \A h \in Handlers : pc[h] # "enforce" => verdict'[h] = verdict[h]
  BY DEF Next, vars, TypeOK, Shape, ChangeCard, Receive, FetchCard, UpdateCard, Enforce,
         InsertHandoff, Forward, Answer, Cancel
<1> QED
  BY <1>1, <1>2, <1>3, <1>4

\* A record that a running handler has, it keeps.
LEMMA RecordedStays ==
  ASSUME TypeOK, [Next]_vars, NEW h \in Handlers, pc[h] # "idle", Recorded(h)
  PROVE  Recorded(h)'
BY RecordsStay DEF Recorded

\* How a handler gets to where its task is allowed, to where it is recorded, and
\* to the upstream.
LEMMA Arrivals ==
  ASSUME TypeOK, RecordFirst, Next, NEW h \in Handlers
  PROVE  /\ pc'[h] = "handoff" => verdict'[h] = "Allow"
         /\ pc'[h] = "forward" => pc[h] = "forward" \/ Recorded(h)'
         /\ h \in upstream' => h \in upstream \/ pc[h] = "forward"
         /\ h \in upstream' => pc'[h] \in {"await", "answered", "bad gateway", "dropped"}
<1> DEFINE Goal ==
      /\ pc'[h] = "handoff" => verdict'[h] = "Allow"
      /\ pc'[h] = "forward" => pc[h] = "forward" \/ Recorded(h)'
      /\ h \in upstream' => h \in upstream \/ pc[h] = "forward"
      /\ h \in upstream' => pc'[h] \in {"await", "answered", "bad gateway", "dropped"}
<1>0. /\ pc[h] = "handoff" => verdict[h] = "Allow"
      /\ h \in upstream => pc[h] \in {"await", "answered", "bad gateway", "dropped"}
  BY DEF RecordFirst
<1>1. ASSUME NEW url \in Urls, ChangeCard(url)
      PROVE  Goal
  BY <1>0, <1>1 DEF ChangeCard
<1>2. ASSUME NEW i \in Handlers, Receive(i)
      PROVE  Goal
  BY <1>0, <1>2 DEF Receive, TypeOK, Shape, Recorded
<1>3. ASSUME NEW i \in Handlers, FetchCard(i)
      PROVE  Goal
  BY <1>0, <1>3 DEF FetchCard, TypeOK, Shape
<1>4. ASSUME NEW i \in Handlers, UpdateCard(i)
      PROVE  Goal
  BY <1>0, <1>4 DEF UpdateCard, TypeOK, Shape
<1>5. ASSUME NEW i \in Handlers, Enforce(i)
      PROVE  Goal
  BY <1>0, <1>5 DEF Enforce, TypeOK, Shape
<1>6. ASSUME NEW i \in Handlers, InsertHandoff(i)
      PROVE  Goal
  <2>1. i \in graphFailed' \/ \E g \in graph' : g.node = request[i].node
    <3>1. \E g \in WithNode(Handoff(request[i])) : g.node = request[i].node
      <4>1. Handoff(request[i]).node = request[i].node
        BY DEF Handoff
      <4> QED
        BY <4>1 DEF WithNode
    <3> QED
      BY <1>6, <3>1 DEF InsertHandoff
  <2>2. i = h => Recorded(h)'
    BY <1>0, <1>6, <2>1 DEF InsertHandoff, Recorded
  <2>3. pc' = [pc EXCEPT ![i] = "forward"] /\ pc[i] = "handoff" /\ UNCHANGED <<upstream, verdict>>
    BY <1>6 DEF InsertHandoff
  <2> QED
    BY <1>0, <2>2, <2>3 DEF TypeOK, Shape
<1>7. ASSUME NEW i \in Handlers, Forward(i)
      PROVE  Goal
  BY <1>0, <1>7 DEF Forward, TypeOK, Shape
<1>8. ASSUME NEW i \in Handlers, Answer(i)
      PROVE  Goal
  BY <1>0, <1>8 DEF Answer, TypeOK, Shape
<1>9. ASSUME NEW i \in Handlers, Cancel(i)
      PROVE  Goal
  BY <1>0, <1>9 DEF Cancel, TypeOK, Shape
<1> QED
  BY <1>1, <1>2, <1>3, <1>4, <1>5, <1>6, <1>7, <1>8, <1>9 DEF Next

\* Only an allowed task adds to the graph.
LEMMA GraphAllowed ==
  ASSUME TypeOK, RecordFirst, [Next]_vars
  PROVE  \A g \in graph' : Allowed(g)'
<1>1. \A g : Allowed(g) => Allowed(g)'
  BY RecordsStay DEF Allowed
<1>2. CASE \E h \in Handlers : InsertHandoff(h)
  <2>1. PICK h \in Handlers : InsertHandoff(h)
    BY <1>2
  <2>2. graph' \subseteq graph \cup {Handoff(request[h])}
    BY <2>1 DEF InsertHandoff, WithNode
  <2>3. verdict'[h] = "Allow" /\ request'[h] = request[h]
    BY <2>1 DEF InsertHandoff, RecordFirst
  <2>4. \A g : g = Handoff(request[h]) => Allowed(g)'
    BY <2>3 DEF Allowed, Handoff
  <2> QED
    BY <1>1, <2>2, <2>4 DEF RecordFirst
<1>3. CASE ~\E h \in Handlers : InsertHandoff(h)
  <2>1. graph' = graph
    BY <1>3 DEF Next, vars, ChangeCard, Receive, FetchCard, UpdateCard, Enforce, Forward, Answer,
               Cancel
  <2> QED
    BY <1>1, <2>1 DEF RecordFirst
<1> QED
  BY <1>2, <1>3

\* Every step keeps RecordFirst.
LEMMA StepRecordFirst ==
  ASSUME TypeOK, RecordFirst, [Next]_vars
  PROVE  RecordFirst'
<1>1. CASE UNCHANGED vars
  BY <1>1 DEF vars, RecordFirst, Recorded, Allowed
<1>2. CASE Next
  <2>1. ASSUME NEW h \in Handlers
        PROVE  /\ pc'[h] = "handoff" => verdict'[h] = "Allow"
               /\ pc'[h] = "forward" \/ h \in upstream' => Recorded(h)'
               /\ h \in upstream' => pc'[h] \in {"await", "answered", "bad gateway", "dropped"}
    <3>1. pc[h] = "forward" \/ h \in upstream => Recorded(h)'
      BY RecordedStays DEF RecordFirst
    <3> QED
      BY <1>2, <3>1, Arrivals
  <2> QED
    BY <2>1, GraphAllowed DEF RecordFirst
<1> QED
  BY <1>1, <1>2

\* No task is forwarded that was not allowed, nor before its handoff was recorded
\* or given up on, and no other task is recorded (proxy_a2a).
THEOREM ForwardedAlwaysRecorded == Spec => []ForwardedRecorded
<1>1. Init => RecordFirst
  BY DEF Init, RecordFirst
<1>2. TypeOK /\ RecordFirst /\ [Next]_vars => RecordFirst'
  BY StepRecordFirst
<1>3. TypeOK /\ RecordFirst => ForwardedRecorded
  BY DEF TypeOK, Shape, RecordFirst, ForwardedRecorded, Recorded, Allowed
<1> QED
  BY <1>1, <1>2, <1>3, TypeCorrect, PTL DEF Spec

-----------------------------------------------------------------------------
(* The answer's stream                                                     *)

\* A part of the body, from after one unit to another.
Part(from, to) == SubSeq(body.units, from + 1, to)
Position == 0..Len(body.units)

\* The channel ends in the upstream's error.
Broken == channel # <<>> /\ channel[Len(channel)] = <<Failure>>

StreamTyped ==
  /\ body \in Bodies /\ taken \in Position
  /\ channel \in Seq(Seq(Units \cup {Failure}))
  /\ task \in {"read", "send", "over"}
  /\ client \in {"reads", "complete", "failed", "left"}

\* What the client has, what is in the channel and what the task has in hand are
\* adjacent parts of the body, cut at these positions; only an error may follow them.
Chunk(cut, k) ==
  \/ cut[k - 1] < cut[k] /\ channel[k] = Part(cut[k - 1], cut[k])
  \/ k = Len(channel) /\ Broken /\ task = "over"
TaskAt(last) ==
  /\ task = "read" => last = taken
  /\ task = "send" => hand = <<Failure>> \/ (last < taken /\ hand = Part(last, taken))
  /\ task = "over" => Broken \/ last = Len(body.units)
CutAt(cut) ==
  /\ got = Part(0, cut[0])
  /\ \A k \in 1..Len(channel) : Chunk(cut, k)
  /\ TaskAt(cut[Len(channel)])

StreamInv ==
  /\ StreamTyped /\ CompleteIsWhole
  /\ client = "reads" => \E cut \in [0..Len(channel) -> Position] : CutAt(cut)

\* A part of the body is a text without the error in it, and adjacent parts make one.
LEMMA PartTyped ==
  ASSUME StreamTyped, NEW a \in Position, NEW b \in Position
  PROVE  /\ Part(a, b) \in Seq(Units)
         /\ Part(a, b) # <<Failure>>
         /\ a <= b => Len(Part(a, b)) = b - a
<1>1. body.units \in Seq(Units) /\ Failure \notin Units
  BY BodiesAssumption DEF StreamTyped
<1>2. a + 1 \in 1..(Len(body.units) + 1) /\ b \in 0..Len(body.units) /\ a \in Nat /\ b \in Nat
  BY <1>1 DEF Position
<1>3. Part(a, b) \in Seq(Units) /\ (a <= b => Len(Part(a, b)) = b - a)
  BY <1>1, <1>2 DEF Part
<1>4. <<Failure>> \notin Seq(Units)
  <2>1. <<Failure>>[1] = Failure /\ 1 \in DOMAIN <<Failure>>
    OBVIOUS
  <2> QED
    BY <2>1, <1>1
<1> QED
  BY <1>3, <1>4

LEMMA PartsJoin ==
  ASSUME StreamTyped, NEW a \in Position, NEW b \in Position, a <= b
  PROVE  Part(0, a) \o Part(a, b) = Part(0, b)
<1>1. body.units \in Seq(Units)
  BY BodiesAssumption DEF StreamTyped
<1>2. /\ 1 \in 1..(Len(body.units) + 1) /\ a \in (1 - 1)..Len(body.units)
      /\ b \in a..Len(body.units)
  BY <1>1 DEF Position
<1>3. SubSeq(body.units, 1, a) \o SubSeq(body.units, a + 1, b) = SubSeq(body.units, 1, b)
  BY <1>1, <1>2, ConcatAdjacentSubSeq, Zenon
<1>4. 0 + 1 = 1
  OBVIOUS
<1> QED
  BY <1>3, <1>4, Zenon DEF Part

\* The stream starts with nothing of the body anywhere.
LEMMA StreamStarts == StreamInit => StreamInv
<1> SUFFICES ASSUME StreamInit
             PROVE  StreamInv
  OBVIOUS
<1>1. body.units \in Seq(Units)
  BY BodiesAssumption DEF StreamInit
<1>2. StreamTyped
  BY <1>1 DEF StreamInit, StreamTyped, Position
<1> DEFINE cut == [k \in 0..Len(channel) |-> 0]
<1>3. cut \in [0..Len(channel) -> Position] /\ Len(channel) = 0 /\ cut[0] = 0
  BY <1>1 DEF StreamInit, Position
<1>4. CutAt(cut)
  BY <1>1, <1>3 DEF CutAt, TaskAt, StreamInit, Part
<1> QED
  BY <1>2, <1>3, <1>4 DEF StreamInv, CompleteIsWhole, StreamInit

\* A chunk is the part of the body behind all that was taken before it.
LEMMA TakeChunkKeeps ==
  ASSUME StreamInv, TakeChunk
  PROVE  StreamInv'
<1>1. StreamTyped /\ body.units \in Seq(Units)
  BY BodiesAssumption DEF StreamInv, StreamTyped
<1>2. PICK n \in 1..(Len(body.units) - taken) :
        taken' = taken + n /\ hand' = SubSeq(body.units, taken + 1, taken + n)
  BY DEF TakeChunk
<1>3. /\ task = "read" /\ task' = "send" /\ UNCHANGED <<body, channel, got, client>>
      /\ taken \in Position /\ taken' \in Position /\ taken < taken'
      /\ hand' = Part(taken, taken')
  BY <1>1, <1>2 DEF TakeChunk, StreamTyped, Position, Part
<1>4. StreamTyped' /\ CompleteIsWhole'
  BY <1>1, <1>3 DEF StreamInv, StreamTyped, Position, CompleteIsWhole
<1>5. ASSUME client' = "reads"
      PROVE  \E cut \in [0..Len(channel') -> Position'] : CutAt(cut)'
  <2>1. PICK cut \in [0..Len(channel) -> Position] : CutAt(cut)
    BY <1>3, <1>5 DEF StreamInv
  <2>2. CutAt(cut)'
    BY <2>1, <1>3 DEF CutAt, Chunk, TaskAt, Part, Broken
  <2> QED
    BY <2>1, <2>2, <1>3 DEF Position
<1> QED
  BY <1>4, <1>5 DEF StreamInv

\* The error follows what was taken.
LEMMA FailKeeps ==
  ASSUME StreamInv, Fail
  PROVE  StreamInv'
<1>1. /\ task = "read" /\ task' = "send" /\ hand' = <<Failure>>
      /\ UNCHANGED <<body, taken, channel, got, client>>
  BY DEF Fail
<1>2. StreamTyped' /\ CompleteIsWhole'
  BY <1>1 DEF StreamInv, StreamTyped, Position, CompleteIsWhole
<1>3. ASSUME client' = "reads"
      PROVE  \E cut \in [0..Len(channel') -> Position'] : CutAt(cut)'
  <2>1. PICK cut \in [0..Len(channel) -> Position] : CutAt(cut)
    BY <1>1, <1>3 DEF StreamInv
  <2>2. CutAt(cut)'
    BY <2>1, <1>1 DEF CutAt, Chunk, TaskAt, Part, Broken
  <2> QED
    BY <2>1, <2>2, <1>1 DEF Position
<1> QED
  BY <1>2, <1>3 DEF StreamInv
\* A chunk handed over extends the channel and moves its last cut.
LEMMA SendKeeps ==
  ASSUME StreamInv, Send
  PROVE  StreamInv'
<1>1. StreamTyped /\ CompleteIsWhole /\ UNCHANGED <<body, taken, got, client>> /\ task = "send"
  BY DEF StreamInv, Send
<1>2. CASE client # "reads"
  <2>1. StreamTyped' /\ CompleteIsWhole'
    BY <1>1, <1>2 DEF Send, StreamTyped, Position, CompleteIsWhole
  <2> QED
    BY <1>1, <1>2, <2>1 DEF StreamInv
<1>3. CASE client = "reads"
  <2>1. channel' = Append(channel, hand) /\ task' = IF hand = <<Failure>> THEN "over" ELSE "read"
    BY <1>3 DEF Send
  <2>2. PICK cut \in [0..Len(channel) -> Position] : CutAt(cut)
    BY <1>3 DEF StreamInv
  <2>3. /\ channel \in Seq(Seq(Units \cup {Failure})) /\ Len(channel) \in Nat
        /\ taken \in Position /\ cut[Len(channel)] \in Position
    BY <1>1, <2>2 DEF StreamTyped
  <2>4. PICK n : n = Len(channel)
    OBVIOUS
  <2>5. hand = <<Failure>> \/ (cut[n] < taken /\ hand = Part(cut[n], taken))
    BY <1>1, <2>2, <2>4 DEF CutAt, TaskAt
  <2>6. hand \in Seq(Units \cup {Failure})
    <3>1. CASE hand = <<Failure>>
      BY <3>1
    <3>2. CASE hand = Part(cut[n], taken)
      <4>1. hand \in Seq(Units)
        BY <1>1, <2>3, <2>4, <3>2, PartTyped
      <4> QED
        BY <4>1
    <3> QED
      BY <2>5, <3>1, <3>2
  <2>7. /\ Len(channel') = n + 1 /\ channel'[n + 1] = hand
        /\ \A k \in 1..n : channel'[k] = channel[k]
        /\ channel' \in Seq(Seq(Units \cup {Failure}))
    BY <2>1, <2>3, <2>4, <2>6
  <2>8. PICK next : next = [k \in 0..(n + 1) |-> IF k = n + 1 THEN
                              IF hand = <<Failure>> THEN cut[n] ELSE taken ELSE cut[k]]
    OBVIOUS
  <2>9. /\ next \in [0..(n + 1) -> Position]
        /\ \A k \in 0..n : next[k] = cut[k]
        /\ next[n + 1] = IF hand = <<Failure>> THEN cut[n] ELSE taken
    BY <2>2, <2>3, <2>4, <2>8
  <2>10. ~Broken
    <3>1. SUFFICES ASSUME Broken
                   PROVE  FALSE
      OBVIOUS
    <3>2. n \in 1..Len(channel) /\ channel[n] = <<Failure>>
      BY <2>3, <2>4, <3>1 DEF Broken
    <3>3. Chunk(cut, n) /\ n - 1 \in 0..Len(channel)
      BY <2>2, <2>3, <2>4, <3>2 DEF CutAt
    <3>4. channel[n] = Part(cut[n - 1], cut[n])
      BY <1>1, <3>3 DEF Chunk
    <3>5. cut[n - 1] \in Position /\ cut[n] \in Position
      BY <2>2, <2>3, <2>4, <3>3
    <3> QED
      BY <1>1, <3>2, <3>4, <3>5, PartTyped
  <2>11. \A k \in 1..n : cut[k - 1] < cut[k] /\ channel[k] = Part(cut[k - 1], cut[k])
    BY <2>2, <2>4, <2>10 DEF CutAt, Chunk
  <2>12. StreamTyped' /\ CompleteIsWhole'
    BY <1>1, <1>3, <2>1, <2>7 DEF StreamTyped, Position, CompleteIsWhole
  <2>13. (\A k \in 1..Len(channel) : Chunk(next, k))' /\ Len(channel') = n + 1
    <3>1. SUFFICES ASSUME NEW k \in 1..(n + 1)
                   PROVE  Chunk(next, k)'
      BY <2>3, <2>4, <2>7
    <3>2. CASE k \in 1..n
      <4>1. k - 1 \in 0..n /\ k \in 0..n
        BY <2>3, <2>4, <3>2
      <4>2. channel'[k] = channel[k] /\ next[k] = cut[k] /\ next[k - 1] = cut[k - 1]
        BY <2>7, <2>9, <3>2, <4>1
      <4> QED
        BY <1>1, <2>11, <3>2, <4>2 DEF Chunk, Part
    <3>3. CASE k = n + 1 /\ hand = <<Failure>>
      <4>1. channel' # <<>>
        BY <2>3, <2>4, <2>7
      <4> QED
        BY <2>1, <2>7, <3>3, <4>1 DEF Chunk, Broken
    <3>4. CASE k = n + 1 /\ hand # <<Failure>>
      <4>1. next[k] = taken /\ next[k - 1] = cut[n]
        BY <2>3, <2>4, <2>9, <3>4
      <4> QED
        BY <1>1, <2>5, <2>7, <3>4, <4>1 DEF Chunk, Part
    <3> QED
      BY <2>3, <2>4, <3>1, <3>2, <3>3, <3>4
  <2>14. TaskAt(next[n + 1])'
    <3>1. CASE hand = <<Failure>>
      <4>1. Broken' /\ task' = "over"
        BY <2>1, <2>3, <2>4, <2>7, <3>1 DEF Broken
      <4> QED
        BY <4>1 DEF TaskAt
    <3>2. CASE hand # <<Failure>>
      <4>1. task' = "read" /\ next[n + 1] = taken'
        BY <1>1, <2>1, <2>9, <3>2
      <4> QED
        BY <4>1 DEF TaskAt
    <3> QED
      BY <3>1, <3>2
  <2>15. got' = Part(0, next[0])'
    <3>1. next[0] = cut[0]
      BY <2>3, <2>4, <2>9
    <3> QED
      BY <1>1, <2>2, <3>1 DEF CutAt, Part
  <2>16. CutAt(next)'
    BY <2>13, <2>14, <2>15 DEF CutAt
  <2> QED
    BY <1>1, <2>9, <2>12, <2>13, <2>16 DEF StreamInv, Position
<1> QED
  BY <1>2, <1>3

\* The task ends when all of the body was taken.
LEMMA EndKeeps ==
  ASSUME StreamInv, End
  PROVE  StreamInv'
<1>1. /\ task = "read" /\ task' = "over" /\ taken = Len(body.units)
      /\ UNCHANGED <<body, taken, channel, got, client>>
  BY DEF End
<1>2. StreamTyped' /\ CompleteIsWhole'
  BY <1>1 DEF StreamInv, StreamTyped, Position, CompleteIsWhole
<1>3. ASSUME client' = "reads"
      PROVE  \E cut \in [0..Len(channel') -> Position'] : CutAt(cut)'
  <2>1. PICK cut \in [0..Len(channel) -> Position] : CutAt(cut)
    BY <1>1, <1>3 DEF StreamInv
  <2>2. CutAt(cut)'
    BY <2>1, <1>1 DEF CutAt, Chunk, TaskAt, Part, Broken
  <2> QED
    BY <2>1, <2>2, <1>1 DEF Position
<1> QED
  BY <1>2, <1>3 DEF StreamInv

\* A chunk received joins what the client has, and the cuts move up by one.
LEMMA ReceiveKeeps ==
  ASSUME StreamInv, ReceiveChunk
  PROVE  StreamInv'
<1>1. /\ StreamTyped /\ client = "reads" /\ channel # <<>> /\ channel' = Tail(channel)
      /\ UNCHANGED <<body, taken, task, hand>>
      /\ client' \in {"reads", "failed"}
  BY DEF StreamInv, ReceiveChunk
<1>2. channel \in Seq(Seq(Units \cup {Failure}))
  BY <1>1 DEF StreamTyped
<1>3. PICK n : n = Len(channel)
  OBVIOUS
<1>4. /\ n \in Nat \ {0} /\ Len(channel') = n - 1 /\ Head(channel) = channel[1]
      /\ channel' \in Seq(Seq(Units \cup {Failure}))
      /\ \A k \in 1..(n - 1) : channel'[k] = channel[k + 1]
  BY <1>1, <1>2, <1>3
<1>5. StreamTyped' /\ CompleteIsWhole'
  BY <1>1, <1>4 DEF StreamTyped, Position, CompleteIsWhole
<1>6. ASSUME client' = "reads"
      PROVE  \E cut \in [0..Len(channel') -> Position'] : CutAt(cut)'
  <2>1. channel[1] # <<Failure>> /\ got' = got \o channel[1]
    BY <1>4, <1>6 DEF ReceiveChunk
  <2>2. PICK cut \in [0..n -> Position] : CutAt(cut)
    BY <1>1, <1>3 DEF StreamInv
  <2>3. Chunk(cut, 1) /\ cut[0] \in Position /\ cut[1] \in Position
    <3>1. 1 \in 1..Len(channel) /\ 0 \in 0..n /\ 1 \in 0..n
      BY <1>3, <1>4
    <3> QED
      BY <2>2, <3>1 DEF CutAt
  <2>4. cut[0] < cut[1] /\ channel[1] = Part(cut[0], cut[1])
    BY <1>4, <2>1, <2>3, 1 - 1 = 0 DEF Chunk, Broken
  <2>5. PICK next : next = [k \in 0..(n - 1) |-> cut[k + 1]]
    OBVIOUS
  <2>6. /\ next \in [0..(n - 1) -> Position]
        /\ \A k \in 0..(n - 1) : next[k] = cut[k + 1]
        /\ next[0] = cut[1] /\ next[n - 1] = cut[n]
    BY <1>4, <2>2, <2>5
  <2>7. got' = Part(0, next[0])'
    <3>1. cut[0] <= cut[1]
      BY <2>3, <2>4 DEF Position
    <3>2. got' = Part(0, cut[1])
      BY <1>1, <2>1, <2>2, <2>3, <2>4, <3>1, PartsJoin DEF CutAt
    <3> QED
      BY <1>1, <2>6, <3>2 DEF Part
  <2>8. Broken' <=> Broken
    <3>1. CASE n = 1
      <4>1. channel' = <<>>
        BY <1>3, <1>4, <3>1
      <4>2. channel[Len(channel)] # <<Failure>>
        BY <1>3, <2>1, <3>1
      <4> QED
        BY <4>1, <4>2 DEF Broken
    <3>2. CASE n # 1
      <4>1. n - 1 \in 1..(n - 1) /\ (n - 1) + 1 = n /\ channel' # <<>>
        BY <1>4, <3>2
      <4> QED
        BY <1>1, <1>3, <1>4, <4>1 DEF Broken
    <3> QED
      BY <3>1, <3>2
  <2>9. (\A k \in 1..Len(channel) : Chunk(next, k))'
    <3>1. SUFFICES ASSUME NEW k \in 1..(n - 1)
                   PROVE  Chunk(next, k)'
      BY <1>4
    <3>2. /\ k + 1 \in 1..n /\ k - 1 \in 0..(n - 1) /\ k \in 0..(n - 1)
          /\ (k + 1) - 1 = k /\ (k - 1) + 1 = k
      BY <1>4
    <3>3. next[k - 1] = cut[k] /\ next[k] = cut[k + 1] /\ channel'[k] = channel[k + 1]
      BY <1>4, <2>6, <3>2
    <3>4. Chunk(cut, k + 1)
      BY <1>3, <2>2, <3>2 DEF CutAt
    <3>5. \/ cut[k] < cut[k + 1] /\ channel[k + 1] = Part(cut[k], cut[k + 1])
          \/ k = n - 1 /\ Broken /\ task = "over"
      BY <1>3, <1>4, <3>2, <3>4 DEF Chunk
    <3> QED
      BY <1>1, <1>4, <2>8, <3>3, <3>5 DEF Chunk, Part
  <2>10. TaskAt(cut[n])
    BY <1>3, <2>2 DEF CutAt
  <2>11. TaskAt(next[n - 1])'
    BY <1>1, <2>6, <2>8, <2>10 DEF TaskAt, Part
  <2>12. CutAt(next)'
    BY <1>4, <2>7, <2>9, <2>11 DEF CutAt
  <2> QED
    BY <1>1, <1>4, <2>6, <2>12 DEF Position
<1> QED
  BY <1>5, <1>6 DEF StreamInv

\* The channel is empty and the task over, and no error was received: the client
\* has all of the body.
LEMMA ReceiveEndKeeps ==
  ASSUME StreamInv, ReceiveEnd
  PROVE  StreamInv'
<1>1. /\ StreamTyped /\ client = "reads" /\ channel = <<>> /\ task = "over"
      /\ client' = "complete"
      /\ UNCHANGED <<body, taken, task, hand, channel, got>>
  BY DEF StreamInv, ReceiveEnd
<1>2. PICK cut \in [0..Len(channel) -> Position] : CutAt(cut)
  BY <1>1 DEF StreamInv
<1>3. cut[0] = Len(body.units) /\ got = Part(0, cut[0])
  BY <1>1, <1>2 DEF CutAt, TaskAt, Broken
<1>4. Part(0, Len(body.units)) = body.units
  <2>1. body.units \in Seq(Units)
    BY <1>1, BodiesAssumption DEF StreamTyped
  <2> QED
    BY <2>1 DEF Part
<1>5. StreamTyped' /\ CompleteIsWhole'
  BY <1>1, <1>3, <1>4 DEF StreamTyped, Position, CompleteIsWhole
<1> QED
  BY <1>1, <1>5 DEF StreamInv

\* A client that leaves has no complete answer.
LEMMA LeaveKeeps ==
  ASSUME StreamInv, Leave
  PROVE  StreamInv'
<1>1. StreamTyped' /\ CompleteIsWhole' /\ client' = "left"
  BY DEF StreamInv, Leave, StreamTyped, Position, CompleteIsWhole
<1> QED
  BY <1>1 DEF StreamInv

\* The cut positions exist in every reachable state.
LEMMA StreamInvariant == StreamSpec => []StreamInv
<1>1. StreamInv /\ [StreamNext]_streamVars => StreamInv'
  <2> SUFFICES ASSUME StreamInv, [StreamNext]_streamVars
               PROVE  StreamInv'
    OBVIOUS
  <2>1. ASSUME UNCHANGED streamVars
        PROVE  StreamInv'
    BY <2>1 DEF streamVars, StreamInv, StreamTyped, CompleteIsWhole, Position, CutAt, Chunk,
                TaskAt, Part, Broken
  <2> QED
    BY <2>1, TakeChunkKeeps, FailKeeps, SendKeeps, EndKeeps, ReceiveKeeps, ReceiveEndKeeps,
       LeaveKeeps DEF StreamNext
<1> QED
  BY StreamStarts, <1>1, PTL DEF StreamSpec


\* However the body is cut into chunks and wherever the upstream breaks off, a client
\* for which the answer ended without an error has all of it (tx.send of the error in
\* build_intercepted_response).
THEOREM CompleteAlwaysWhole == StreamSpec => []CompleteIsWhole
<1>1. StreamInv => CompleteIsWhole
  BY DEF StreamInv
<1> QED
  BY <1>1, StreamInvariant, PTL

-----------------------------------------------------------------------------
(* What the inspector finds                                                *)

\* Numbers have a least, which stands in for induction below.
LEMMA LeastExists ==
  ASSUME NEW I \in SUBSET Nat, I # {}
  PROVE  \E i \in I : \A j \in I : i <= j
<1>1. PICK i \in I : \A j \in I : ~(<<j, i>> \in OpToRel(<, Nat))
  BY NatLessThanWellFounded, WFMin, Zenon
<1> QED
  <2>1. \A j \in I : j < i => <<j, i>> \in OpToRel(<, Nat)
    BY DEF OpToRel
  <2>2. \A j \in I : ~(j < i) => i <= j
    OBVIOUS
  <2> QED
    BY <1>1, <2>1, <2>2

\* A set that has the first number, and the next with each, has all up to a bound.
LEMMA UpToBound ==
  ASSUME NEW n \in Nat, NEW I, 0 \in I, \A k \in 0..n : k < n /\ k \in I => k + 1 \in I
  PROVE  \A k \in 0..n : k \in I
<1> SUFFICES ASSUME NEW m \in 0..n, m \notin I
             PROVE  FALSE
  OBVIOUS
<1>1. PICK J : J = {k \in 0..n : k \notin I}
  OBVIOUS
<1>2. J \in SUBSET Nat /\ J # {}
  BY <1>1
<1>3. PICK k \in J : \A j \in J : k <= j
  BY <1>2, LeastExists
<1>4. k \in 1..n /\ k - 1 \in 0..n /\ k - 1 < n /\ (k - 1) + 1 = k
  BY <1>1, <1>3
<1>5. k - 1 \in I
  BY <1>1, <1>3, <1>4
<1> QED
  BY <1>1, <1>3, <1>4, <1>5

\* A set of positions has its first and its last.
LEMMA EndsExist ==
  ASSUME NEW n \in Nat, NEW S \in SUBSET (1..n), S # {}
  PROVE  /\ Min(S) \in S /\ \A x \in S : Min(S) <= x
         /\ Max(S) \in S /\ \A x \in S : x <= Max(S)
<1>1. \E x \in S : \A y \in S : x <= y
  <2>1. S \in SUBSET Nat
    OBVIOUS
  <2> QED
    BY <2>1, LeastExists
<1>2. \E x \in S : \A y \in S : x >= y
  <2>1. PICK D : D = {k \in Nat : \E x \in S : k = n - x}
    OBVIOUS
  <2>2. D \in SUBSET Nat /\ D # {}
    <3>1. PICK y \in S : TRUE
      OBVIOUS
    <3>2. n - y \in D
      BY <2>1
    <3> QED
      BY <2>1, <3>2
  <2>3. PICK d \in D : \A e \in D : d <= e
    BY <2>2, LeastExists
  <2>4. PICK x \in S : d = n - x
    BY <2>1
  <2>5. ASSUME NEW y \in S
        PROVE  n - y \in D /\ y \in Nat
    BY <2>1
  <2>6. \A y \in S : x >= y
    BY <2>3, <2>4, <2>5
  <2> QED
    BY <2>6
<1>3. Min(S) \in S /\ \A x \in S : Min(S) <= x
  <2>1. \E x \in S : \A y \in S : x =< y
    BY <1>1
  <2> QED
    BY <2>1, Zenon DEF Min
<1>4. Max(S) \in S /\ \A x \in S : Max(S) >= x
  BY <1>2, Zenon DEF Max
<1>5. \A x \in S : x \in Nat
  OBVIOUS
<1> QED
  BY <1>3, <1>4, <1>5

\* Texts that are the same but for cut characters have the same white space.
LEMMA CutKeeps ==
  ASSUME NEW C, NEW u \in Seq(C), NEW v \in Seq(C), SameButCut(u, v)
  PROVE  /\ Len(u) = Len(v) /\ DOMAIN u = DOMAIN v
         /\ \A i \in DOMAIN u, x \in {"\n", "\r", "event:", "data:", TaskStatus} :
              u[i] = x <=> v[i] = x
<1>1. Len(u) = Len(v) /\ DOMAIN u = DOMAIN v
  BY DEF SameButCut
<1>2. ASSUME NEW i \in DOMAIN u, NEW x \in {"\n", "\r", "event:", "data:", TaskStatus}
      PROVE  u[i] = x <=> v[i] = x
  <2>1. x \notin {Lead, Trail, Replacement}
    BY CharactersAssumption
  <2>2. u[i] = v[i] \/ (u[i] = Replacement /\ v[i] \in {Lead, Trail})
    BY DEF SameButCut
  <2> QED
    BY <2>1, <2>2
<1> QED
  BY <1>1, <1>2

\* The same part of each, what follows the first unit, or each with one unit more, are
\* the same but for cut characters too, and so are they trimmed.
LEMMA CutPart ==
  ASSUME NEW C, NEW u \in Seq(C), NEW v \in Seq(C), SameButCut(u, v),
         NEW a \in 1..(Len(u) + 1), NEW b \in 0..Len(u)
  PROVE  /\ SubSeq(u, a, b) \in Seq(C) /\ SubSeq(v, a, b) \in Seq(C)
         /\ SameButCut(SubSeq(u, a, b), SubSeq(v, a, b))
<1>1. Len(u) = Len(v) /\ DOMAIN u = 1..Len(u) /\ Len(u) \in Nat
  BY DEF SameButCut
<1>2. /\ SubSeq(u, a, b) \in Seq(C) /\ SubSeq(v, a, b) \in Seq(C)
      /\ Len(SubSeq(u, a, b)) = Len(SubSeq(v, a, b))
      /\ \A i \in 1..Len(SubSeq(u, a, b)) :
           /\ a + i - 1 \in 1..Len(u)
           /\ SubSeq(u, a, b)[i] = u[a + i - 1] /\ SubSeq(v, a, b)[i] = v[a + i - 1]
  BY <1>1
<1>3. DOMAIN SubSeq(u, a, b) = 1..Len(SubSeq(u, a, b))
  BY <1>2
<1> QED
  BY <1>1, <1>2, <1>3 DEF SameButCut

\* Trimming leaves no text of nothing but white space, and a part of any other.
LEMMA TrimPart ==
  ASSUME NEW C, NEW u \in Seq(C)
  PROVE  /\ (\A i \in DOMAIN u : u[i] = "\r") => Trim(u) = <<>>
         /\ (\E i \in DOMAIN u : u[i] # "\r") =>
              \E a, b \in 1..Len(u) :
                /\ a <= b /\ Trim(u) = SubSeq(u, a, b)
                /\ a = Min({i \in DOMAIN u : u[i] # "\r"})
                /\ b = Max({i \in DOMAIN u : u[i] # "\r"})
<1>1. PICK K : K = {i \in DOMAIN u : u[i] # "\r"}
  OBVIOUS
<1>2. K \in SUBSET (1..Len(u)) /\ Len(u) \in Nat
  BY <1>1
<1>3. Trim(u) = IF K = {} THEN <<>> ELSE SubSeq(u, Min(K), Max(K))
  BY <1>1 DEF Trim
<1>4. CASE K = {}
  BY <1>1, <1>3, <1>4
<1>5. CASE K # {}
  <2>1. Min(K) \in K /\ Max(K) \in K /\ Min(K) <= Max(K)
    BY <1>2, <1>5, EndsExist
  <2>2. Trim(u) = SubSeq(u, Min(K), Max(K))
    BY <1>3, <1>5
  <2>3. ~(\A i \in DOMAIN u : u[i] = "\r")
    BY <1>1, <1>5
  <2> QED
    BY <1>1, <1>2, <2>1, <2>2, <2>3
<1> QED
  BY <1>4, <1>5

\* What is trimmed to nothing is nothing but white space.
LEMMA BlankIsSpace ==
  ASSUME NEW C, NEW u \in Seq(C)
  PROVE  Trim(u) = <<>> <=> \A i \in DOMAIN u : u[i] = "\r"
<1>1. CASE \A i \in DOMAIN u : u[i] = "\r"
  BY <1>1, TrimPart
<1>2. CASE \E i \in DOMAIN u : u[i] # "\r"
  <2>1. PICK a, b \in 1..Len(u) : a <= b /\ Trim(u) = SubSeq(u, a, b)
    BY <1>2, TrimPart
  <2>2. Len(SubSeq(u, a, b)) = b - a + 1
    BY <2>1
  <2> QED
    BY <1>2, <2>1, <2>2
<1> QED
  BY <1>1, <1>2

LEMMA CutTrim ==
  ASSUME NEW C, NEW u \in Seq(C), NEW v \in Seq(C), SameButCut(u, v)
  PROVE  /\ Trim(u) \in Seq(C) /\ Trim(v) \in Seq(C)
         /\ SameButCut(Trim(u), Trim(v))
         /\ Trim(u) = <<>> <=> Trim(v) = <<>>
<1>1. /\ DOMAIN u = DOMAIN v /\ Len(u) = Len(v)
      /\ \A i \in DOMAIN u : u[i] = "\r" <=> v[i] = "\r"
  BY CutKeeps
<1>2. Trim(u) = <<>> <=> Trim(v) = <<>>
  BY <1>1, BlankIsSpace
<1>3. CASE \A i \in DOMAIN u : u[i] = "\r"
  <2>1. Trim(u) = <<>> /\ Trim(v) = <<>>
    BY <1>1, <1>3, TrimPart
  <2> QED
    BY <2>1 DEF SameButCut
<1>4. CASE \E i \in DOMAIN u : u[i] # "\r"
  <2>1. PICK a, b \in 1..Len(u) : /\ a <= b /\ Trim(u) = SubSeq(u, a, b)
                                  /\ a = Min({i \in DOMAIN u : u[i] # "\r"})
                                  /\ b = Max({i \in DOMAIN u : u[i] # "\r"})
    BY <1>4, TrimPart
  <2>2. PICK c, d \in 1..Len(v) : /\ c <= d /\ Trim(v) = SubSeq(v, c, d)
                                  /\ c = Min({i \in DOMAIN v : v[i] # "\r"})
                                  /\ d = Max({i \in DOMAIN v : v[i] # "\r"})
    BY <1>1, <1>4, TrimPart
  <2>3. {i \in DOMAIN u : u[i] # "\r"} = {i \in DOMAIN v : v[i] # "\r"}
    BY <1>1
  <2>4. Trim(v) = SubSeq(v, a, b)
    BY <2>1, <2>2, <2>3
  <2>5. a \in 1..(Len(u) + 1) /\ b \in 0..Len(u)
    OBVIOUS
  <2> QED
    <3>1. /\ SubSeq(u, a, b) \in Seq(C) /\ SubSeq(v, a, b) \in Seq(C)
          /\ SameButCut(SubSeq(u, a, b), SubSeq(v, a, b))
      BY <2>5, CutPart
    <3> QED
      BY <1>2, <2>1, <2>4, <3>1
<1> QED
  BY <1>3, <1>4

LEMMA CutTail ==
  ASSUME NEW C, NEW u \in Seq(C), NEW v \in Seq(C), SameButCut(u, v), u # <<>>
  PROVE  Tail(u) \in Seq(C) /\ Tail(v) \in Seq(C) /\ SameButCut(Tail(u), Tail(v))
<1>1. Len(u) = Len(v) /\ Len(u) \in Nat \ {0} /\ DOMAIN u = 1..Len(u)
  BY DEF SameButCut
<1>2. /\ Tail(u) \in Seq(C) /\ Len(Tail(u)) = Len(u) - 1
      /\ \A i \in 1..(Len(u) - 1) : Tail(u)[i] = u[i + 1] /\ i + 1 \in 1..Len(u)
  BY <1>1
<1>3. /\ Tail(v) \in Seq(C) /\ Len(Tail(v)) = Len(u) - 1
      /\ \A i \in 1..(Len(u) - 1) : Tail(v)[i] = v[i + 1]
  <2>1. v # <<>>
    BY <1>1
  <2> QED
    BY <1>1, <2>1
<1>4. DOMAIN Tail(u) = 1..(Len(u) - 1)
  BY <1>2
<1> QED
  BY <1>1, <1>2, <1>3, <1>4 DEF SameButCut

LEMMA CutAppend ==
  ASSUME NEW C, NEW u \in Seq(C), NEW v \in Seq(C), SameButCut(u, v), NEW x \in C, NEW y \in C,
         x = y \/ (x = Replacement /\ y \in {Lead, Trail})
  PROVE  Append(u, x) \in Seq(C) /\ SameButCut(Append(u, x), Append(v, y))
<1>1. Len(u) = Len(v) /\ Len(u) \in Nat /\ DOMAIN u = 1..Len(u)
  BY DEF SameButCut
<1>2. /\ Append(u, x) \in Seq(C) /\ Append(v, y) \in Seq(C)
      /\ Len(Append(u, x)) = Len(u) + 1 /\ Len(Append(v, y)) = Len(u) + 1
      /\ DOMAIN Append(u, x) = 1..(Len(u) + 1)
      /\ Append(u, x)[Len(u) + 1] = x /\ Append(v, y)[Len(u) + 1] = y
      /\ \A i \in 1..Len(u) : Append(u, x)[i] = u[i] /\ Append(v, y)[i] = v[i]
  BY <1>1
<1>3. \A i \in 1..(Len(u) + 1) : i \in 1..Len(u) \/ i = Len(u) + 1
  BY <1>1
<1> QED
  BY <1>1, <1>2, <1>3 DEF SameButCut

\* The name of an event is not read otherwise for a cut.
LEMMA CutName ==
  ASSUME NEW C, NEW u \in Seq(C), NEW v \in Seq(C), SameButCut(u, v)
  PROVE  u = <<TaskStatus>> <=> v = <<TaskStatus>>
<1>1. /\ Len(u) = Len(v) /\ DOMAIN u = DOMAIN v /\ DOMAIN u = 1..Len(u)
      /\ \A i \in DOMAIN u : u[i] = TaskStatus <=> v[i] = TaskStatus
  BY CutKeeps
<1>2. u = <<TaskStatus>> <=> Len(u) = 1 /\ u[1] = TaskStatus
  OBVIOUS
<1>3. v = <<TaskStatus>> <=> Len(v) = 1 /\ v[1] = TaskStatus
  OBVIOUS
<1>4. Len(u) = 1 => 1 \in DOMAIN u
  BY <1>1
<1> QED
  BY <1>1, <1>2, <1>3, <1>4

\* A chunk is read as the same text but for the characters it cuts.
LEMMA LossyIsCut ==
  ASSUME NEW C, Replacement \in C, NEW chunk \in Seq(C)
  PROVE  /\ FromUtf8Lossy(chunk) \in Seq(C)
         /\ Len(FromUtf8Lossy(chunk)) = Len(chunk)
         /\ \A i \in 1..Len(chunk) :
              \/ FromUtf8Lossy(chunk)[i] = chunk[i]
              \/ FromUtf8Lossy(chunk)[i] = Replacement /\ chunk[i] \in {Lead, Trail}
<1>1. PICK X : X = FromUtf8Lossy(chunk)
  OBVIOUS
<1>2. DOMAIN X = 1..Len(chunk) /\ Len(chunk) \in Nat
  BY <1>1 DEF FromUtf8Lossy
<1>3. \A i \in 1..Len(chunk) :
        X[i] = chunk[i] \/ (X[i] = Replacement /\ chunk[i] \in {Lead, Trail})
  BY <1>1 DEF FromUtf8Lossy
<1>4. X = [i \in 1..Len(chunk) |-> X[i]]
  BY <1>1, <1>2 DEF FromUtf8Lossy
<1>5. X \in Seq(C) /\ Len(X) = Len(chunk)
  <2>1. \A i \in 1..Len(chunk) : X[i] \in C
    BY <1>3
  <2>2. X \in [1..Len(chunk) -> C]
    BY <1>4, <2>1
  <2> QED
    BY <1>2, <2>2
<1> QED
  BY <1>1, <1>3, <1>5

\* What lists some lines, and what lists lines that come after them, lists them all.
LEMMA ListsJoin ==
  ASSUME NEW C, NEW f \in Seq(Seq(C)), NEW d \in Seq(Seq(C)), NEW text,
         NEW S \in SUBSET Nat, NEW R \in SUBSET Nat, Lists(f, S, text), Lists(d, R, text),
         \A i \in S, j \in R : i < j
  PROVE  f \o d \in Seq(Seq(C)) /\ Lists(f \o d, S \cup R, text)
<1>1. PICK at \in [DOMAIN f -> S] :
        /\ \A j, k \in DOMAIN f : j < k => at[j] < at[k]
        /\ \A i \in S : \E k \in DOMAIN f : at[k] = i
        /\ \A k \in DOMAIN f : SameButCut(f[k], Value(text, at[k]))
  BY DEF Lists
<1>2. PICK al \in [DOMAIN d -> R] :
        /\ \A j, k \in DOMAIN d : j < k => al[j] < al[k]
        /\ \A i \in R : \E k \in DOMAIN d : al[k] = i
        /\ \A k \in DOMAIN d : SameButCut(d[k], Value(text, al[k]))
  BY DEF Lists
<1>3. PICK m, n : m = Len(f) /\ n = Len(d)
  OBVIOUS
<1>4. m \in Nat /\ n \in Nat /\ DOMAIN f = 1..m /\ DOMAIN d = 1..n
  BY <1>3
<1>5. PICK g : g = f \o d
  OBVIOUS
<1>6. /\ g \in Seq(Seq(C)) /\ DOMAIN g = 1..(m + n)
      /\ \A k \in 1..m : g[k] = f[k]
      /\ \A k \in 1..n : g[m + k] = d[k]
  BY <1>3, <1>5
<1>7. PICK all : all = [k \in 1..(m + n) |-> IF k <= m THEN at[k] ELSE al[k - m]]
  OBVIOUS
<1>8. \A k \in 1..(m + n) :
        \/ k \in 1..m /\ all[k] = at[k] /\ at[k] \in S
        \/ k > m /\ k - m \in 1..n /\ all[k] = al[k - m] /\ al[k - m] \in R
           /\ g[k] = d[k - m]
  <2> SUFFICES ASSUME NEW k \in 1..(m + n)
               PROVE  \/ k \in 1..m /\ all[k] = at[k] /\ at[k] \in S
                      \/ k > m /\ k - m \in 1..n /\ all[k] = al[k - m] /\ al[k - m] \in R
                         /\ g[k] = d[k - m]
    OBVIOUS
  <2>1. CASE k <= m
    BY <1>1, <1>4, <1>7, <2>1
  <2>2. CASE k > m
    <3>1. k - m \in 1..n /\ m + (k - m) = k
      BY <1>4, <2>2
    <3>2. g[k] = d[k - m]
      BY <1>6, <3>1
    <3> QED
      BY <1>2, <1>4, <1>7, <2>2, <3>1, <3>2
  <2> QED
    BY <1>4, <2>1, <2>2
<1>9. all \in [DOMAIN g -> S \cup R]
  BY <1>6, <1>7, <1>8
<1>10. \A j, k \in DOMAIN g : j < k => all[j] < all[k]
  <2> SUFFICES ASSUME NEW j \in 1..(m + n), NEW k \in 1..(m + n), j < k
               PROVE  all[j] < all[k]
    BY <1>6
  <2>1. CASE k \in 1..m
    <3>1. j \in 1..m
      BY <1>4, <2>1
    <3>2. all[j] = at[j] /\ all[k] = at[k]
      BY <1>4, <1>8, <2>1, <3>1
    <3> QED
      BY <1>1, <1>4, <2>1, <3>1, <3>2
  <2>2. CASE j \in 1..m /\ k > m
    <3>1. all[j] \in S /\ all[k] \in R
      BY <1>4, <1>8, <2>2
    <3> QED
      BY <3>1
  <2>3. CASE j > m
    <3>1. /\ j - m \in 1..n /\ k - m \in 1..n /\ j - m < k - m
          /\ all[j] = al[j - m] /\ all[k] = al[k - m]
      BY <1>4, <1>8, <2>3
    <3> QED
      BY <1>2, <1>4, <3>1
  <2> QED
    BY <1>4, <2>1, <2>2, <2>3
<1>11. \A i \in S \cup R : \E k \in DOMAIN g : all[k] = i
  <2>1. ASSUME NEW i \in S
        PROVE  \E k \in DOMAIN g : all[k] = i
    <3>1. PICK k \in 1..m : at[k] = i
      BY <1>1, <1>4
    <3>2. k \in 1..(m + n) /\ all[k] = at[k]
      BY <1>4, <1>7
    <3> QED
      BY <1>6, <3>1, <3>2
  <2>2. ASSUME NEW i \in R
        PROVE  \E k \in DOMAIN g : all[k] = i
    <3>1. PICK k \in 1..n : al[k] = i
      BY <1>2, <1>4
    <3>2. m + k \in 1..(m + n) /\ ~(m + k <= m) /\ (m + k) - m = k
      BY <1>4
    <3>3. all[m + k] = al[k]
      BY <1>7, <3>2
    <3> QED
      BY <1>6, <3>1, <3>2, <3>3
  <2> QED
    BY <2>1, <2>2
<1>12. \A k \in DOMAIN g : SameButCut(g[k], Value(text, all[k]))
  <2> SUFFICES ASSUME NEW k \in 1..(m + n)
               PROVE  SameButCut(g[k], Value(text, all[k]))
    BY <1>6
  <2>1. CASE k \in 1..m /\ all[k] = at[k]
    BY <1>1, <1>4, <1>6, <2>1
  <2>2. CASE k - m \in 1..n /\ all[k] = al[k - m] /\ g[k] = d[k - m]
    BY <1>2, <1>4, <2>2
  <2> QED
    BY <1>8, <2>1, <2>2
<1> QED
  BY <1>5, <1>6, <1>9, <1>10, <1>11, <1>12 DEF Lists

\* No line is listed by nothing found, and one line by its value.
LEMMA ListsNone == \A text : Lists(<<>>, {}, text)
<1> SUFFICES ASSUME NEW text
             PROVE  Lists(<<>>, {}, text)
  OBVIOUS
<1>1. PICK at : at = [k \in {} |-> k]
  OBVIOUS
<1>2. at \in [DOMAIN <<>> -> {}] /\ DOMAIN <<>> = {}
  BY <1>1
<1> QED
  BY <1>2 DEF Lists

LEMMA ListsOne ==
  ASSUME NEW u, NEW i \in Nat, NEW text, SameButCut(u, Value(text, i))
  PROVE  Lists(<<u>>, {i}, text)
<1>1. PICK at : at = [k \in {1} |-> i]
  OBVIOUS
<1>2. at \in [DOMAIN <<u>> -> {i}] /\ DOMAIN <<u>> = {1} /\ at[1] = i /\ <<u>>[1] = u
  BY <1>1
<1> QED
  BY <1>2 DEF Lists

\* What the inspector reads and holds.
Chars == Units \cup {Replacement}
Inspectors == [pending : Seq(Chars), event : Seq(Chars), data : Seq(Seq(Chars)),
               found : Seq(Seq(Chars))]

\* Blank lines, the lines with a field in a part of a block, whether the block of a line
\* is named task_status, and the data lines of interest before a position.
Blank(text, i) == Trim(LineAt(text, i)) = <<>>
Fields(text, name, b, p) == {i \in Starts(text) : b <= i /\ i < p /\ IsField(text, i, name)}
Named(text, i) ==
  \E e \in Events(text, i) : Value(text, e) = <<TaskStatus>> /\ \A f \in Events(text, i) : f <= e
Wanted(text, by, p) ==
  {i \in Starts(text) : i < p /\ IsField(text, i, "data:") /\ (by => Named(text, i))}

\* A line goes on until a line end or the end of the text.
LEMMA LineUpTo ==
  ASSUME NEW C, NEW text \in Seq(C), NEW i \in 1..(Len(text) + 1), NEW e \in i..(Len(text) + 1),
         e > Len(text) \/ text[e] = "\n", \A k \in i..(e - 1) : text[k] # "\n"
  PROVE  LineAt(text, i) = SubSeq(text, i, e - 1)
<1> DEFINE EndsAt(x) == /\ x > Len(text) \/ text[x] = "\n"
                        /\ \A k \in i..(x - 1) : text[k] # "\n"
<1>1. PICK d : d = CHOOSE x \in i..(Len(text) + 1) : EndsAt(x)
  OBVIOUS
<1>2. d \in i..(Len(text) + 1) /\ EndsAt(d)
  BY <1>1, Zenon
<1>3. Len(text) \in Nat
  OBVIOUS
<1>4. d = e
  <2>1. ~(d < e)
    <3>1. SUFFICES ASSUME d < e
                   PROVE  FALSE
      OBVIOUS
    <3>2. d \in i..(e - 1) /\ ~(d > Len(text))
      BY <1>2, <1>3, <3>1
    <3> QED
      BY <1>2, <3>2
  <2>2. ~(e < d)
    <3>1. SUFFICES ASSUME e < d
                   PROVE  FALSE
      OBVIOUS
    <3>2. e \in i..(d - 1) /\ ~(e > Len(text))
      BY <1>2, <1>3, <3>1
    <3> QED
      BY <1>2, <3>2
  <2> QED
    BY <1>2, <1>3, <2>1, <2>2
<1>5. LineAt(text, i) = SubSeq(text, i, d - 1)
  BY <1>1, Zenon DEF LineAt
<1> QED
  BY <1>4, <1>5

\* Every line is a part of its text.
LEMMA LineTyped ==
  ASSUME NEW C, NEW text \in Seq(C), NEW i \in Starts(text)
  PROVE  i \in 1..(Len(text) + 1) /\ LineAt(text, i) \in Seq(C)
<1>1. i \in 1..(Len(text) + 1) /\ Len(text) \in Nat
  BY DEF Starts
<1>2. PICK E : E = {e \in i..(Len(text) + 1) : e > Len(text) \/ text[e] = "\n"}
  OBVIOUS
<1>3. E \in SUBSET Nat /\ Len(text) + 1 \in E
  BY <1>1, <1>2
<1>4. PICK e \in E : \A d \in E : e <= d
  BY <1>3, LeastExists
<1>5. /\ e \in i..(Len(text) + 1) /\ (e > Len(text) \/ text[e] = "\n")
      /\ \A k \in i..(e - 1) : text[k] # "\n"
  <2>1. e \in i..(Len(text) + 1) /\ (e > Len(text) \/ text[e] = "\n")
    BY <1>2
  <2>2. ASSUME NEW k \in i..(e - 1), text[k] = "\n"
        PROVE  FALSE
    <3>1. k \in i..(Len(text) + 1) /\ k < e
      BY <1>1, <2>1
    <3>2. k \in E
      BY <1>2, <2>2, <3>1
    <3> QED
      BY <1>1, <1>4, <2>1, <3>1, <3>2
  <2> QED
    BY <2>1, <2>2
<1>6. LineAt(text, i) = SubSeq(text, i, e - 1)
  BY <1>1, <1>5, LineUpTo
<1> QED
  BY <1>1, <1>5, <1>6

\* A field is never a blank line.
LEMMA FieldsAreLines ==
  ASSUME NEW C, NEW text \in Seq(C), NEW name \in {"event:", "data:"}, NEW i \in Starts(text),
         IsField(text, i, name)
  PROVE  ~Blank(text, i)
<1>1. /\ LineAt(text, i) \in Seq(C) /\ LineAt(text, i) # <<>>
      /\ LineAt(text, i)[1] = name
  BY LineTyped DEF IsField
<1>2. 1 \in DOMAIN LineAt(text, i) /\ LineAt(text, i)[1] # "\r"
  BY <1>1
<1> QED
  BY <1>1, <1>2, BlankIsSpace DEF Blank

\* What is known of a block that begins at b and of which the lines before p were read.
EventIs(text, name, es) ==
  \/ es = {} /\ name = <<>>
  \/ \E e \in es : SameButCut(name, Value(text, e)) /\ \A f \in es : f <= e

Block(text, by, s, b, p) ==
  /\ b \in Nat /\ p \in Nat /\ b <= p
  /\ \A i \in Starts(text) : b <= i /\ i < p => ~Blank(text, i)
  /\ \A i \in Starts(text) : i < b => \E q \in Starts(text) : i <= q /\ q < b /\ Blank(text, q)
  /\ EventIs(text, s.event, Fields(text, "event:", b, p))
  /\ Lists(s.data, Fields(text, "data:", b, p), text)
  /\ Lists(s.found, Wanted(text, by, b), text)

\* The block's event lines are those that each of its lines sees.
LEMMA EventsOfBlock ==
  ASSUME NEW C, NEW text \in Seq(C), NEW by, NEW s, NEW b, NEW p, Block(text, by, s, b, p),
         \A i \in Starts(text) : p <= i =>
           \E q \in Starts(text) : p <= q /\ q <= i /\ Blank(text, q),
         NEW i \in Starts(text), b <= i, i < p
  PROVE  Events(text, i) = Fields(text, "event:", b, p)
<1>1. \A k \in Starts(text) : k \in Nat
  BY DEF Starts
<1>2. b \in Nat /\ p \in Nat
  BY DEF Block
<1>3. ASSUME NEW e \in Starts(text), SameBlock(text, e, i)
      PROVE  b <= e /\ e < p
  <2>1. \A q \in Starts(text) : (e <= q /\ q <= i) \/ (i <= q /\ q <= e) => ~Blank(text, q)
    BY <1>3 DEF SameBlock, Blank
  <2>2. ~(e < b)
    <3>1. SUFFICES ASSUME e < b
                   PROVE  FALSE
      OBVIOUS
    <3>2. PICK q \in Starts(text) : e <= q /\ q < b /\ Blank(text, q)
      BY <3>1 DEF Block
    <3> QED
      BY <1>1, <1>2, <2>1, <3>2
  <2>3. ~(p <= e)
    <3>1. SUFFICES ASSUME p <= e
                   PROVE  FALSE
      OBVIOUS
    <3>2. PICK q \in Starts(text) : p <= q /\ q <= e /\ Blank(text, q)
      BY <3>1
    <3> QED
      BY <1>1, <1>2, <2>1, <3>2
  <2> QED
    BY <1>1, <1>2, <2>2, <2>3
<1>4. ASSUME NEW e \in Starts(text), b <= e, e < p
      PROVE  SameBlock(text, e, i)
  <2>1. ASSUME NEW q \in Starts(text), (e <= q /\ q <= i) \/ (i <= q /\ q <= e)
        PROVE  ~Blank(text, q)
    <3>1. b <= q /\ q < p
      BY <1>1, <1>2, <1>4, <2>1
    <3> QED
      BY <3>1 DEF Block
  <2> QED
    BY <2>1 DEF SameBlock, Blank
<1> QED
  BY <1>3, <1>4 DEF Events, Fields

\* So a block that ends gives its data if it is of interest.
LEMMA BlockEnds ==
  ASSUME NEW text \in Seq(Chars), NEW s \in Inspectors, NEW b, NEW p,
         Block(text, byEvent, s, b, p),
         \A i \in Starts(text) : p <= i =>
           \E q \in Starts(text) : p <= q /\ q <= i /\ Blank(text, q)
  PROVE  /\ FlushEvent(s) \in Inspectors
         /\ FlushEvent(s).event = <<>> /\ FlushEvent(s).data = <<>>
         /\ FlushEvent(s).pending = s.pending
         /\ Lists(FlushEvent(s).found, Wanted(text, byEvent, p), text)
<1>1. \A k \in Starts(text) : k \in Nat
  BY DEF Starts
<1>2. b \in Nat /\ p \in Nat /\ b <= p
  BY DEF Block
<1>3. PICK es, ds : es = Fields(text, "event:", b, p) /\ ds = Fields(text, "data:", b, p)
  OBVIOUS
<1>4. /\ EventIs(text, s.event, es) /\ Lists(s.data, ds, text)
      /\ Lists(s.found, Wanted(text, byEvent, b), text)
  BY <1>3 DEF Block
<1>5. \A e \in es : e \in Starts(text) /\ IsField(text, e, "event:")
  BY <1>3 DEF Fields
<1>6. ASSUME NEW i \in ds
      PROVE  Named(text, i) <=> s.event = <<TaskStatus>>
  <2>1. i \in Starts(text) /\ b <= i /\ i < p
    BY <1>3 DEF Fields
  <2>2. Events(text, i) = es
    BY <1>3, <2>1, EventsOfBlock
  <2>3. CASE es = {} /\ s.event = <<>>
    BY <2>2, <2>3 DEF Named
  <2>4. CASE \E e \in es : SameButCut(s.event, Value(text, e)) /\ \A f \in es : f <= e
    <3>1. PICK e \in es : SameButCut(s.event, Value(text, e)) /\ \A f \in es : f <= e
      BY <2>4
    <3>2. Value(text, e) \in Seq(Chars)
      <4>1. LineAt(text, e) \in Seq(Chars) /\ LineAt(text, e) # <<>>
        BY <1>5, LineTyped DEF IsField
      <4>2. Tail(LineAt(text, e)) \in Seq(Chars)
        BY <4>1
      <4>3. SameButCut(Tail(LineAt(text, e)), Tail(LineAt(text, e)))
        BY DEF SameButCut
      <4> QED
        BY <4>2, <4>3, CutTrim DEF Value
    <3>3. s.event = <<TaskStatus>> <=> Value(text, e) = <<TaskStatus>>
      BY <3>1, <3>2, CutName DEF Inspectors
    <3>4. \A d \in es : (\A f \in es : f <= d) => d = e
      BY <1>1, <1>5, <3>1
    <3> QED
      BY <2>2, <3>1, <3>3, <3>4 DEF Named
  <2> QED
    BY <1>4, <2>3, <2>4 DEF EventIs
<1>7. Wanted(text, byEvent, p) =
        Wanted(text, byEvent, b) \cup
          (IF byEvent /\ s.event # <<TaskStatus>> THEN {} ELSE ds)
  <2>1. ASSUME NEW i \in Starts(text)
        PROVE  i \in Wanted(text, byEvent, p) <=>
                 \/ i \in Wanted(text, byEvent, b)
                 \/ i \in ds /\ ~(byEvent /\ s.event # <<TaskStatus>>)
    <3>1. CASE i < b
      BY <1>1, <1>2, <1>3, <3>1 DEF Wanted, Fields
    <3>2. CASE b <= i
      <4>1. i \in ds <=> i < p /\ IsField(text, i, "data:")
        BY <1>3, <3>2 DEF Fields
      <4>2. i \notin Wanted(text, byEvent, b)
        BY <1>1, <1>2, <3>2 DEF Wanted
      <4> QED
        BY <1>6, <4>1, <4>2 DEF Wanted
    <3> QED
      BY <1>1, <1>2, <3>1, <3>2
  <2>2. \A i \in Wanted(text, byEvent, p) \cup Wanted(text, byEvent, b) \cup ds : i \in Starts(text)
    BY <1>3 DEF Wanted, Fields
  <2> QED
    BY <2>1, <2>2
<1>8. /\ FlushEvent(s) \in Inspectors
      /\ FlushEvent(s).event = <<>> /\ FlushEvent(s).data = <<>>
      /\ FlushEvent(s).pending = s.pending
      /\ FlushEvent(s).found =
           IF byEvent /\ s.event # <<TaskStatus>> THEN s.found ELSE s.found \o s.data
  <2>1. s.found \o s.data \in Seq(Seq(Chars)) /\ <<>> \in Seq(Chars) /\ <<>> \in Seq(Seq(Chars))
    BY DEF Inspectors
  <2> QED
    BY <2>1 DEF FlushEvent, Inspectors
<1>9. CASE byEvent /\ s.event # <<TaskStatus>>
  BY <1>4, <1>7, <1>8, <1>9
<1>10. CASE ~(byEvent /\ s.event # <<TaskStatus>>)
  <2>1. Wanted(text, byEvent, b) \in SUBSET Nat /\ ds \in SUBSET Nat
    BY <1>1, <1>3 DEF Wanted, Fields
  <2>2. \A i \in Wanted(text, byEvent, b), j \in ds : i < j
    BY <1>1, <1>2, <1>3 DEF Wanted, Fields
  <2>3. s.found \in Seq(Seq(Chars)) /\ s.data \in Seq(Seq(Chars))
    BY DEF Inspectors
  <2>4. Lists(s.found \o s.data, Wanted(text, byEvent, b) \cup ds, text)
    BY <1>4, <2>1, <2>2, <2>3, ListsJoin
  <2> QED
    BY <1>7, <1>8, <1>10, <2>4
<1> QED
  BY <1>8, <1>9, <1>10

\* A line that is not blank adds to its block.
LEMMA LineAdded ==
  ASSUME NEW text \in Seq(Chars), NEW by, NEW s \in Inspectors, NEW b, NEW p, Block(text, by, s, b, p),
         p \in Starts(text), ~Blank(text, p),
         NEW line \in Seq(Chars), SameButCut(line, LineAt(text, p)),
         NEW r \in Nat, p < r, \A i \in Starts(text) : i < r => i <= p
  PROVE  /\ PushLine(s, line) \in Inspectors
         /\ Block(text, by, PushLine(s, line), b, r)
<1>1. /\ p \in Nat /\ b \in Nat /\ b <= p
      /\ \A k \in Starts(text) : k \in Nat
  BY DEF Block, Starts
<1>2. PICK v : v = LineAt(text, p)
  OBVIOUS
<1>3. v \in Seq(Chars) /\ SameButCut(line, v) /\ Trim(v) # <<>>
  BY <1>2, LineTyped DEF Blank
<1>4. Trim(line) # <<>> /\ line # <<>> /\ v # <<>>
  <2>1. Trim(line) # <<>>
    BY <1>3, CutTrim
  <2>2. Trim(<<>>) = <<>>
    BY DEF Trim
  <2> QED
    BY <1>3, <2>1, <2>2
<1>5. /\ line[1] = "event:" <=> v[1] = "event:"
      /\ line[1] = "data:" <=> v[1] = "data:"
  <2>1. 1 \in DOMAIN line
    BY <1>4
  <2>2. \A x \in {"\n", "\r", "event:", "data:", TaskStatus} : line[1] = x <=> v[1] = x
    BY <1>3, <2>1, CutKeeps
  <2> QED
    BY <2>2
<1>6. PICK u : u = Trim(Tail(line))
  OBVIOUS
<1>7. u \in Seq(Chars) /\ SameButCut(u, Value(text, p))
  <2>1. Tail(line) \in Seq(Chars) /\ Tail(v) \in Seq(Chars) /\ SameButCut(Tail(line), Tail(v))
    BY <1>3, <1>4, CutTail
  <2>2. Trim(Tail(line)) \in Seq(Chars) /\ SameButCut(Trim(Tail(line)), Trim(Tail(v)))
    BY <2>1, CutTrim
  <2> QED
    BY <1>2, <1>6, <2>2 DEF Value
<1>8. \A name : IsField(text, p, name) <=> v[1] = name
  BY <1>2, <1>4 DEF IsField
<1>9. \A name : Fields(text, name, b, r) =
        Fields(text, name, b, p) \cup (IF v[1] = name THEN {p} ELSE {})
  <2> SUFFICES ASSUME NEW name
               PROVE  Fields(text, name, b, r) =
                        Fields(text, name, b, p) \cup (IF v[1] = name THEN {p} ELSE {})
    OBVIOUS
  <2>1. ASSUME NEW i \in Starts(text)
        PROVE  i < r <=> i < p \/ i = p
    BY <1>1
  <2>2. IsField(text, p, name) <=> v[1] = name
    BY <1>8
  <2> QED
    BY <1>1, <2>1, <2>2 DEF Fields
<1>10. PICK t : t = PushLine(s, line)
  OBVIOUS
<1>11. /\ EventIs(text, s.event, Fields(text, "event:", b, p))
       /\ Lists(s.data, Fields(text, "data:", b, p), text)
       /\ Lists(s.found, Wanted(text, by, b), text)
  BY DEF Block
<1>12. /\ t \in Inspectors /\ t.found = s.found
       /\ EventIs(text, t.event, Fields(text, "event:", b, r))
       /\ Lists(t.data, Fields(text, "data:", b, r), text)
  <2>1. CASE line[1] = "event:"
    <3>1. t = [s EXCEPT !.event = u]
      BY <1>4, <1>6, <1>10, <2>1 DEF PushLine
    <3>2. t \in Inspectors /\ t.found = s.found /\ t.data = s.data /\ t.event = u
      BY <1>7, <3>1 DEF Inspectors
    <3>3. Fields(text, "data:", b, r) = Fields(text, "data:", b, p)
      BY <1>5, <1>9, <2>1
    <3>4. p \in Fields(text, "event:", b, r)
      BY <1>5, <1>9, <2>1
    <3>5. \A f \in Fields(text, "event:", b, r) : f <= p
      BY DEF Fields
    <3> QED
      BY <1>7, <1>11, <3>2, <3>3, <3>4, <3>5 DEF EventIs
  <2>2. CASE line[1] = "data:"
    <3>1. t = [s EXCEPT !.data = Append(@, u)]
      BY <1>4, <1>6, <1>10, <2>2 DEF PushLine
    <3>2. t \in Inspectors /\ t.found = s.found /\ t.event = s.event /\ t.data = s.data \o <<u>>
      <4>1. s.data \in Seq(Seq(Chars))
        BY DEF Inspectors
      <4>2. Append(s.data, u) \in Seq(Seq(Chars)) /\ Append(s.data, u) = s.data \o <<u>>
        BY <1>7, <4>1
      <4> QED
        BY <3>1, <4>2 DEF Inspectors
    <3>3. Fields(text, "event:", b, r) = Fields(text, "event:", b, p)
      BY <1>5, <1>9, <2>2
    <3>4. Fields(text, "data:", b, r) = Fields(text, "data:", b, p) \cup {p}
      BY <1>5, <1>9, <2>2
    <3>5. Lists(<<u>>, {p}, text)
      BY <1>1, <1>7, ListsOne
    <3>6. Fields(text, "data:", b, p) \in SUBSET Nat /\ {p} \in SUBSET Nat
      BY <1>1 DEF Fields
    <3>7. \A i \in Fields(text, "data:", b, p), j \in {p} : i < j
      BY DEF Fields
    <3>8. s.data \in Seq(Seq(Chars)) /\ <<u>> \in Seq(Seq(Chars))
      BY <1>7 DEF Inspectors
    <3>9. Lists(s.data \o <<u>>, Fields(text, "data:", b, p) \cup {p}, text)
      BY <1>11, <3>5, <3>6, <3>7, <3>8, ListsJoin
    <3> QED
      BY <1>11, <3>2, <3>3, <3>4, <3>9
  <2>3. CASE line[1] # "event:" /\ line[1] # "data:"
    <3>1. t = s
      BY <1>4, <1>10, <2>3 DEF PushLine
    <3>2. \A name \in {"event:", "data:"} : Fields(text, name, b, r) = Fields(text, name, b, p)
      BY <1>5, <1>9, <2>3
    <3> QED
      BY <1>11, <3>1, <3>2
  <2> QED
    BY <2>1, <2>2, <2>3
<1>13. \A i \in Starts(text) : b <= i /\ i < r => ~Blank(text, i)
  <2> SUFFICES ASSUME NEW i \in Starts(text), b <= i, i < r
               PROVE  ~Blank(text, i)
    OBVIOUS
  <2>1. i < p \/ i = p
    BY <1>1
  <2> QED
    BY <2>1 DEF Block
<1>14. \A i \in Starts(text) : i < b => \E q \in Starts(text) : i <= q /\ q < b /\ Blank(text, q)
  BY DEF Block
<1>15. b \in Nat /\ r \in Nat /\ b <= r
  BY <1>1
<1>16. Block(text, by, t, b, r)
  BY <1>11, <1>12, <1>13, <1>14, <1>15 DEF Block
<1> QED
  BY <1>10, <1>12, <1>16

\* What the inspector knows when it has read the text up to n: a block, and the
\* beginning of a line.
Open(text, s, p, n) ==
  /\ p \in Starts(text) /\ p <= n + 1
  /\ \A k \in p..n : text[k] # "\n"
  /\ SameButCut(s.pending, SubSeq(text, p, n))
HasRead(text, by, s, n) ==
  /\ s \in Inspectors
  /\ \E b, p \in Nat : Block(text, by, s, b, p) /\ Open(text, s, p, n)

\* At first, it knows nothing.
LEMMA NothingRead ==
  ASSUME NEW text \in Seq(Chars), NEW by
  PROVE  HasRead(text, by, NewInspector, 0)
<1>1. NewInspector \in Inspectors
  BY DEF NewInspector, Inspectors
<1>2. 1 \in Starts(text) /\ \A i \in Starts(text) : i \in Nat /\ ~(i < 1)
  BY DEF Starts
<1>3. Wanted(text, by, 1) = {} /\ \A name : Fields(text, name, 1, 1) = {}
  BY <1>2 DEF Wanted, Fields
<1>4. Block(text, by, NewInspector, 1, 1)
  <2>1. /\ NewInspector.event = <<>> /\ NewInspector.data = <<>>
        /\ NewInspector.found = <<>>
    BY DEF NewInspector
  <2>2. Lists(<<>>, {}, text)
    BY ListsNone
  <2>3. EventIs(text, <<>>, {})
    BY DEF EventIs
  <2> QED
    <3>1. /\ EventIs(text, NewInspector.event, Fields(text, "event:", 1, 1))
          /\ Lists(NewInspector.data, Fields(text, "data:", 1, 1), text)
          /\ Lists(NewInspector.found, Wanted(text, by, 1), text)
      BY <1>3, <2>1, <2>2, <2>3
    <3>2. \A i \in Starts(text) : ~(1 <= i /\ i < 1) /\ ~(i < 1)
      BY <1>2
    <3> QED
      BY <3>1, <3>2 DEF Block
<1>5. SameButCut(<<>>, SubSeq(text, 1, 0))
  <2>1. SubSeq(text, 1, 0) = <<>>
    OBVIOUS
  <2> QED
    BY <2>1 DEF SameButCut
<1>6. Open(text, NewInspector, 1, 0)
  BY <1>2, <1>5 DEF Open, NewInspector
<1> QED
  BY <1>1, <1>4, <1>6 DEF HasRead

\* The line that is open is that which the text has there, once it ends.
LEMMA OpenLine ==
  ASSUME NEW text \in Seq(Chars), NEW s, NEW p, NEW n \in 0..Len(text), Open(text, s, p, n),
         n < Len(text) => text[n + 1] = "\n"
  PROVE  /\ LineAt(text, p) = SubSeq(text, p, n)
         /\ \A i \in Starts(text) : i < n + 2 => i <= p
<1>1. Len(text) \in Nat /\ p \in 1..(Len(text) + 1) /\ p <= n + 1 /\ \A k \in p..n : text[k] # "\n"
  BY DEF Open, Starts
<1>2. /\ n + 1 \in p..(Len(text) + 1) /\ (n + 1) - 1 = n
      /\ n + 1 > Len(text) \/ text[n + 1] = "\n"
  BY <1>1
<1>3. LineAt(text, p) = SubSeq(text, p, n)
  <2>1. \A k \in p..((n + 1) - 1) : text[k] # "\n"
    BY <1>1, <1>2
  <2>2. LineAt(text, p) = SubSeq(text, p, (n + 1) - 1)
    BY <1>1, <1>2, <2>1, LineUpTo
  <2> QED
    BY <1>2, <2>2
<1>4. ASSUME NEW i \in Starts(text), i < n + 2, ~(i <= p)
      PROVE  FALSE
  <2>1. i \in Nat /\ i # 1 /\ text[i - 1] = "\n"
    BY <1>1, <1>4 DEF Starts
  <2>2. i - 1 \in p..n
    BY <1>1, <1>4, <2>1
  <2> QED
    BY <1>1, <2>1, <2>2
<1> QED
  BY <1>3, <1>4

\* What is pending does not matter to the block.
LEMMA PendingAside ==
  ASSUME NEW text, NEW by, NEW s \in Inspectors, NEW b, NEW p, Block(text, by, s, b, p),
         NEW u \in Seq(Chars), NEW t, t = [s EXCEPT !.pending = u]
  PROVE  t \in Inspectors /\ t.pending = u /\ Block(text, by, t, b, p)
<1>1. /\ t \in Inspectors /\ t.pending = u
      /\ t.event = s.event /\ t.data = s.data /\ t.found = s.found
  BY DEF Inspectors
<1> QED
  BY <1>1 DEF Block

\* One round of push_chunk's search.
ReadUnit(s, x) ==
  IF x # "\n" THEN [s EXCEPT !.pending = Append(@, x)]
  ELSE PushLine([s EXCEPT !.pending = <<>>], s.pending)

\* With each unit that is read, the inspector knows the text up to that unit.
LEMMA UnitRead ==
  ASSUME NEW text \in Seq(Chars), NEW s, NEW n \in Nat, n < Len(text),
         HasRead(text, byEvent, s, n),
         NEW x \in Chars, x = text[n + 1] \/ (x = Replacement /\ text[n + 1] \in {Lead, Trail})
  PROVE  HasRead(text, byEvent, ReadUnit(s, x), n + 1)
<1>1. /\ s \in Inspectors /\ s.pending \in Seq(Chars)
      /\ Len(text) \in Nat /\ n \in 0..Len(text) /\ n + 1 \in 1..Len(text)
  BY DEF HasRead, Inspectors
<1>2. PICK b \in Nat, p \in Nat : Block(text, byEvent, s, b, p) /\ Open(text, s, p, n)
  BY DEF HasRead
<1>3. /\ p \in Starts(text) /\ p \in 1..(Len(text) + 1) /\ p <= n + 1
      /\ \A k \in p..n : text[k] # "\n"
      /\ SameButCut(s.pending, SubSeq(text, p, n))
  BY <1>2 DEF Open, Starts
<1>4. text[n + 1] \in Chars /\ (x = "\n" <=> text[n + 1] = "\n")
  <2>1. text[n + 1] \in Chars
    BY <1>1
  <2>2. "\n" # Lead /\ "\n" # Trail /\ "\n" # Replacement
    BY CharactersAssumption
  <2> QED
    BY <2>1, <2>2
<1>5. SubSeq(text, p, n) \in Seq(Chars)
  BY <1>1, <1>3
<1>6. CASE x # "\n"
  <2>1. PICK u : u = Append(s.pending, x)
    OBVIOUS
  <2>2. PICK t : t = [s EXCEPT !.pending = u]
    OBVIOUS
  <2>3. ReadUnit(s, x) = t
    BY <1>6, <2>1, <2>2 DEF ReadUnit
  <2>4. u \in Seq(Chars) /\ SameButCut(u, Append(SubSeq(text, p, n), text[n + 1]))
    BY <1>1, <1>3, <1>4, <1>5, <2>1, CutAppend
  <2>5. Append(SubSeq(text, p, n), text[n + 1]) = SubSeq(text, p, n + 1)
    BY <1>1, <1>3
  <2>6. t \in Inspectors /\ t.pending = u /\ Block(text, byEvent, t, b, p)
    BY <1>1, <1>2, <2>2, <2>4, PendingAside
  <2>7. \A k \in p..(n + 1) : text[k] # "\n"
    BY <1>1, <1>3, <1>4, <1>6
  <2>8. p <= (n + 1) + 1
    BY <1>3
  <2>9. Open(text, t, p, n + 1)
    BY <1>3, <2>4, <2>5, <2>6, <2>7, <2>8 DEF Open
  <2> QED
    BY <1>2, <2>3, <2>6, <2>9 DEF HasRead
<1>7. CASE x = "\n"
  <2>1. PICK t : t = [s EXCEPT !.pending = <<>>]
    OBVIOUS
  <2>2. t \in Inspectors /\ t.pending = <<>> /\ Block(text, byEvent, t, b, p)
    <3>1. PICK e : e = <<>>
      OBVIOUS
    <3>2. e \in Seq(Chars) /\ t = [s EXCEPT !.pending = e]
      BY <2>1, <3>1
    <3>3. t \in Inspectors /\ t.pending = e /\ Block(text, byEvent, t, b, p)
      BY <1>1, <1>2, <3>2, PendingAside
    <3> QED
      BY <3>1, <3>3
  <2>3. PICK r : r = n + 2
    OBVIOUS
  <2>4. r \in Nat /\ p < r /\ r = (n + 1) + 1 /\ r \in Starts(text)
    <3>1. r \in 1..(Len(text) + 1) /\ r - 1 = n + 1
      BY <1>1, <2>3
    <3> QED
      BY <1>1, <1>3, <1>4, <1>7, <2>3, <3>1 DEF Starts
  <2>5. /\ LineAt(text, p) = SubSeq(text, p, n)
        /\ \A i \in Starts(text) : i < r => i <= p
    BY <1>1, <1>2, <1>4, <1>7, <2>3, OpenLine
  <2>6. PICK y : y = PushLine(t, s.pending)
    OBVIOUS
  <2>7. ReadUnit(s, x) = y
    BY <1>7, <2>1, <2>6 DEF ReadUnit
  <2>8. /\ y \in Inspectors /\ y.pending = <<>>
        /\ \E c \in Nat : Block(text, byEvent, y, c, r)
    <3>1. CASE Blank(text, p)
      <4>1. Trim(s.pending) = <<>>
        BY <1>1, <1>3, <1>5, <2>5, <3>1, CutTrim DEF Blank
      <4>2. y = FlushEvent(t)
        BY <2>6, <4>1 DEF PushLine
      <4>3. \A i \in Starts(text) : p <= i => p <= p
        BY <1>3
      <4>4. /\ FlushEvent(t) \in Inspectors
            /\ FlushEvent(t).event = <<>> /\ FlushEvent(t).data = <<>>
            /\ FlushEvent(t).pending = t.pending
            /\ Lists(FlushEvent(t).found, Wanted(text, byEvent, p), text)
        <5>1. \A i \in Starts(text) : p <= i =>
                \E q \in Starts(text) : p <= q /\ q <= i /\ Blank(text, q)
          BY <1>3, <3>1
        <5> QED
          BY <2>2, <5>1, BlockEnds
      <4>5. \A i \in Starts(text) : i \in Nat
        BY DEF Starts
      <4>6. Wanted(text, byEvent, r) = Wanted(text, byEvent, p)
        <5>1. ~IsField(text, p, "data:")
          BY <1>3, <3>1, FieldsAreLines
        <5>2. ASSUME NEW i \in Starts(text), IsField(text, i, "data:")
              PROVE  i < r <=> i < p
          BY <1>3, <2>4, <2>5, <4>5, <5>1, <5>2
        <5> QED
          BY <5>2 DEF Wanted
      <4>7. Fields(text, "event:", r, r) = {} /\ Fields(text, "data:", r, r) = {}
        <5>1. \A i \in Starts(text) : ~(r <= i /\ i < r)
          BY <2>4, <4>5
        <5> QED
          BY <5>1 DEF Fields
      <4>8. \A i \in Starts(text) : ~(r <= i /\ i < r)
        BY <2>4, <4>5
      <4>9. \A i \in Starts(text) : i < r =>
              \E q \in Starts(text) : i <= q /\ q < r /\ Blank(text, q)
        BY <1>3, <2>4, <2>5, <3>1
      <4>10. EventIs(text, y.event, Fields(text, "event:", r, r))
        BY <4>2, <4>4, <4>7 DEF EventIs
      <4>11. Lists(y.data, Fields(text, "data:", r, r), text)
        BY <4>2, <4>4, <4>7, ListsNone
      <4>12. Lists(y.found, Wanted(text, byEvent, r), text)
        BY <4>2, <4>4, <4>6
      <4>13. r <= r
        BY <2>4
      <4>14. Block(text, byEvent, y, r, r)
        BY <2>4, <4>8, <4>9, <4>10, <4>11, <4>12, <4>13 DEF Block
      <4> QED
        BY <2>2, <2>4, <4>2, <4>4, <4>14
    <3>2. CASE ~Blank(text, p)
      <4>1. SameButCut(s.pending, LineAt(text, p))
        BY <1>3, <2>5
      <4>2. y \in Inspectors /\ Block(text, byEvent, y, b, r)
        BY <1>1, <1>3, <2>2, <2>4, <2>5, <2>6, <3>2, <4>1, LineAdded
      <4>3. Trim(s.pending) # <<>>
        BY <1>1, <1>3, <1>5, <2>5, <3>2, CutTrim DEF Blank
      <4>4. y.pending = t.pending
        BY <2>2, <2>6, <4>3 DEF PushLine, Inspectors
      <4> QED
        BY <1>2, <2>2, <4>2, <4>4
    <3> QED
      BY <3>1, <3>2
  <2>9. Open(text, y, r, n + 1)
    <3>1. \A k \in r..(n + 1) : text[k] # "\n"
      BY <1>1, <2>3
    <3>2. SubSeq(text, r, n + 1) = <<>>
      BY <1>1, <2>3
    <3>3. SameButCut(y.pending, SubSeq(text, r, n + 1))
      BY <2>8, <3>2 DEF SameButCut
    <3> QED
      BY <2>4, <3>1, <3>3 DEF Open
  <2> QED
    BY <2>4, <2>7, <2>8, <2>9 DEF HasRead
<1> QED
  BY <1>6, <1>7

\* At the end of the text, all that is wanted is found.
LEMMA AllRead ==
  ASSUME NEW text \in Seq(Chars), NEW s, HasRead(text, byEvent, s, Len(text))
  PROVE  Lists(Finish(s).found, OfInterest(text), text)
<1>1. s \in Inspectors /\ s.pending \in Seq(Chars) /\ Len(text) \in Nat
  BY DEF HasRead, Inspectors
<1>2. PICK b \in Nat, p \in Nat : Block(text, byEvent, s, b, p) /\ Open(text, s, p, Len(text))
  BY DEF HasRead
<1>3. /\ p \in Starts(text) /\ p \in 1..(Len(text) + 1)
      /\ SameButCut(s.pending, SubSeq(text, p, Len(text)))
  BY <1>2 DEF Open, Starts
<1>4. PICK r : r = Len(text) + 2
  OBVIOUS
<1>5. r \in Nat /\ p < r /\ \A i \in Starts(text) : i \in Nat /\ i < r
  BY <1>1, <1>3, <1>4 DEF Starts
<1>6. /\ LineAt(text, p) = SubSeq(text, p, Len(text))
      /\ \A i \in Starts(text) : i < r => i <= p
  <2>1. Len(text) \in 0..Len(text) /\ ~(Len(text) < Len(text))
    BY <1>1
  <2> QED
    BY <1>2, <1>4, <2>1, OpenLine
<1>7. SubSeq(text, p, Len(text)) \in Seq(Chars)
  BY <1>1, <1>3
<1>8. OfInterest(text) = Wanted(text, byEvent, r)
  BY <1>5 DEF OfInterest, Wanted, Named
<1>9. CASE Blank(text, p)
  <2>1. Trim(s.pending) = <<>>
    BY <1>1, <1>3, <1>6, <1>7, <1>9, CutTrim DEF Blank
  <2>2. Finish(s) = FlushEvent(s)
    BY <2>1 DEF Finish
  <2>3. \A i \in Starts(text) : p <= i =>
          \E q \in Starts(text) : p <= q /\ q <= i /\ Blank(text, q)
    BY <1>3, <1>9
  <2>4. Lists(FlushEvent(s).found, Wanted(text, byEvent, p), text)
    BY <1>1, <1>2, <2>3, BlockEnds
  <2>5. Wanted(text, byEvent, r) = Wanted(text, byEvent, p)
    <3>1. ~IsField(text, p, "data:")
      BY <1>3, <1>9, FieldsAreLines
    <3>2. ASSUME NEW i \in Starts(text), IsField(text, i, "data:")
          PROVE  i < r <=> i < p
      BY <1>3, <1>5, <1>6, <3>1, <3>2
    <3> QED
      BY <3>2 DEF Wanted
  <2> QED
    BY <1>8, <2>2, <2>4, <2>5
<1>10. CASE ~Blank(text, p)
  <2>1. Trim(s.pending) # <<>>
    BY <1>1, <1>3, <1>6, <1>7, <1>10, CutTrim DEF Blank
  <2>2. PICK t : t = [s EXCEPT !.pending = <<>>]
    OBVIOUS
  <2>3. t \in Inspectors /\ Block(text, byEvent, t, b, p)
    <3>1. PICK e : e = <<>>
      OBVIOUS
    <3>2. e \in Seq(Chars) /\ t = [s EXCEPT !.pending = e]
      BY <2>2, <3>1
    <3>3. t \in Inspectors /\ t.pending = e /\ Block(text, byEvent, t, b, p)
      BY <1>1, <1>2, <3>2, PendingAside
    <3> QED
      BY <3>1, <3>3
  <2>4. PICK y : y = PushLine(t, s.pending)
    OBVIOUS
  <2>5. Finish(s) = FlushEvent(y)
    BY <2>1, <2>2, <2>4 DEF Finish
  <2>6. SameButCut(s.pending, LineAt(text, p))
    BY <1>3, <1>6
  <2>7. y \in Inspectors /\ Block(text, byEvent, y, b, r)
    BY <1>1, <1>3, <1>5, <1>6, <1>10, <2>3, <2>4, <2>6, LineAdded
  <2>8. \A i \in Starts(text) : r <= i =>
          \E q \in Starts(text) : r <= q /\ q <= i /\ Blank(text, q)
    BY <1>5
  <2>9. Lists(FlushEvent(y).found, Wanted(text, byEvent, r), text)
    BY <2>7, <2>8, BlockEnds
  <2> QED
    BY <1>8, <2>5, <2>9
<1> QED
  BY <1>9, <1>10

\* The states of the inspector in the rounds of push_chunk on a text.
Rounds(f, s, text, n) == f = [k \in 0..n |-> IF k = 0 THEN s ELSE ReadUnit(f[k - 1], text[k])]

\* There is such a sequence, for every text and up to any round.
LEMMA RoundsExist ==
  ASSUME NEW s, NEW text, NEW n \in Nat
  PROVE  \E f : Rounds(f, s, text, n)
<1>1. PICK I : I = {m \in 0..n : \E f : Rounds(f, s, text, m)}
  OBVIOUS
<1>2. 0 \in I
  <2>1. PICK f : f = [k \in 0..0 |-> s]
    OBVIOUS
  <2>2. f = [k \in 0..0 |-> IF k = 0 THEN s ELSE ReadUnit(f[k - 1], text[k])]
    BY <2>1
  <2> QED
    BY <1>1, <2>2 DEF Rounds
<1>3. ASSUME NEW m \in 0..n, m < n, m \in I
      PROVE  m + 1 \in I
  <2>1. PICK f : Rounds(f, s, text, m)
    BY <1>1, <1>3
  <2>2. f = [k \in 0..m |-> IF k = 0 THEN s ELSE ReadUnit(f[k - 1], text[k])]
    BY <2>1 DEF Rounds
  <2>3. PICK g : g = [k \in 0..(m + 1) |-> IF k <= m THEN f[k] ELSE ReadUnit(f[m], text[m + 1])]
    OBVIOUS
  <2>4. \A k \in 0..(m + 1) : g[k] = IF k = 0 THEN s ELSE ReadUnit(g[k - 1], text[k])
    <3> SUFFICES ASSUME NEW k \in 0..(m + 1)
                 PROVE  g[k] = IF k = 0 THEN s ELSE ReadUnit(g[k - 1], text[k])
      OBVIOUS
    <3>1. CASE k = 0
      BY <2>2, <2>3, <3>1
    <3>2. CASE k \in 1..m
      <4>1. k \in 0..m /\ k # 0 /\ k - 1 \in 0..m
        BY <3>2
      <4>2. f[k] = ReadUnit(f[k - 1], text[k])
        BY <2>2, <4>1, Zenon
      <4>3. g[k] = f[k] /\ g[k - 1] = f[k - 1]
        BY <2>3, <4>1
      <4> QED
        BY <4>1, <4>2, <4>3
    <3>3. CASE k = m + 1
      <4>1. ~(k <= m) /\ k # 0 /\ k - 1 = m /\ m \in 0..(m + 1)
        BY <3>3
      <4>2. g[k] = ReadUnit(f[m], text[m + 1])
        BY <2>3, <4>1
      <4>3. g[m] = f[m]
        BY <2>3, <4>1
      <4> QED
        BY <3>3, <4>1, <4>2, <4>3
    <3> QED
      BY <3>1, <3>2, <3>3
  <2>5. g = [k \in 0..(m + 1) |-> IF k = 0 THEN s ELSE ReadUnit(g[k - 1], text[k])]
    <3>1. g = [k \in 0..(m + 1) |-> g[k]]
      BY <2>3
    <3> QED
      BY <2>4, <3>1
  <2>6. m + 1 \in 0..n
    BY <1>3
  <2> QED
    BY <1>1, <2>5, <2>6 DEF Rounds
<1>4. \A k \in 0..n : k \in I
  BY <1>2, <1>3, UpToBound
<1> QED
  BY <1>1, <1>4

\* However the text was cut, a chunk is read as the part of the text that it is.
LEMMA ChunkRead ==
  ASSUME NEW text \in Seq(Chars), NEW s, NEW m \in Nat, HasRead(text, byEvent, s, m),
         NEW n \in Nat, m + n <= Len(text),
         NEW chunk, chunk = SubSeq(text, m + 1, m + n)
  PROVE  HasRead(text, byEvent, PushChunk(s, chunk), m + n)
<1>1. /\ chunk \in Seq(Chars) /\ Len(chunk) = n /\ Len(text) \in Nat
      /\ \A k \in 1..n : chunk[k] = text[m + k]
  BY DEF Chars
<1>2. PICK X : X = FromUtf8Lossy(chunk)
  OBVIOUS
<1>3. /\ X \in Seq(Chars) /\ Len(X) = n
      /\ \A k \in 1..n : X[k] = text[m + k] \/ (X[k] = Replacement /\ text[m + k] \in {Lead, Trail})
  <2>1. Replacement \in Chars
    BY DEF Chars
  <2> QED
    <3>1. /\ FromUtf8Lossy(chunk) \in Seq(Chars)
          /\ Len(FromUtf8Lossy(chunk)) = Len(chunk)
          /\ \A i \in 1..Len(chunk) :
               \/ FromUtf8Lossy(chunk)[i] = chunk[i]
               \/ FromUtf8Lossy(chunk)[i] = Replacement /\ chunk[i] \in {Lead, Trail}
      BY <1>1, <2>1, LossyIsCut
    <3> QED
      BY <1>1, <1>2, <3>1
<1>4. PICK f : /\ f = [k \in 0..n |-> IF k = 0 THEN s ELSE ReadUnit(f[k - 1], X[k])]
               /\ PushChunk(s, chunk) = f[n]
  <2> DEFINE Searches(after) == after = [k \in 0..Len(X) |->
               IF k = 0 THEN s
               ELSE LET t == after[k - 1]
                    IN IF X[k] # "\n" THEN [t EXCEPT !.pending = Append(@, X[k])]
                       ELSE PushLine([t EXCEPT !.pending = <<>>], t.pending)]
  <2>1. \A g : Rounds(g, s, X, Len(X)) <=> Searches(g)
    BY DEF Rounds, ReadUnit
  <2>2. \E g : Searches(g)
    BY <1>3, <2>1, RoundsExist
  <2>3. PICK f : f = CHOOSE g : Searches(g)
    OBVIOUS
  <2>4. Searches(f)
    <3> HIDE DEF Searches
    <3> QED
      BY <2>2, <2>3, Zenon
  <2>5. PushChunk(s, chunk) = f[Len(X)]
    BY <1>2, <2>3, Zenon DEF PushChunk
  <2>6. f = [k \in 0..Len(X) |-> IF k = 0 THEN s ELSE ReadUnit(f[k - 1], X[k])]
    BY <2>1, <2>4, Zenon DEF Rounds
  <2> QED
    BY <1>3, <2>5, <2>6
<1>5. PICK I : I = {k \in 0..n : HasRead(text, byEvent, f[k], m + k)}
  OBVIOUS
<1>6. 0 \in I
  BY <1>4, <1>5
<1>7. ASSUME NEW k \in 0..n, k < n, k \in I
      PROVE  k + 1 \in I
  <2>1. /\ k + 1 \in 0..n /\ k + 1 # 0 /\ (k + 1) - 1 = k /\ k + 1 \in 1..n
        /\ m + k \in Nat /\ m + k < Len(text) /\ (m + k) + 1 = m + (k + 1)
    BY <1>1, <1>7
  <2>2. f[k + 1] = ReadUnit(f[k], X[k + 1])
    BY <1>4, <2>1
  <2>3. HasRead(text, byEvent, f[k], m + k)
    BY <1>5, <1>7
  <2>4. X[k + 1] \in Chars
    BY <1>3, <2>1
  <2>5. \/ X[k + 1] = text[(m + k) + 1]
        \/ X[k + 1] = Replacement /\ text[(m + k) + 1] \in {Lead, Trail}
    BY <1>3, <2>1
  <2>6. HasRead(text, byEvent, ReadUnit(f[k], X[k + 1]), (m + k) + 1)
    BY <2>1, <2>3, <2>4, <2>5, UnitRead
  <2> QED
    BY <1>5, <2>1, <2>2, <2>6
<1>8. n \in I
  BY <1>6, <1>7, UpToBound
<1> QED
  BY <1>4, <1>5, <1>8

\* What has arrived is inspected, until the task is over; when it is over and the
\* client has not seen the error that ended it, all is found.
Inspected ==
  CASE body.type = "event-stream" -> HasRead(body.units, byEvent, inspector, taken)
    [] body.type = "json" ->
         inspector = [NewInspector EXCEPT !.pending = SubSeq(body.units, 1, taken)]
    [] OTHER -> inspector = NewInspector
FoundAll ==
  CASE body.type = "event-stream" ->
         Lists(inspector.found, OfInterest(body.units), body.units)
    [] body.type = "json" -> inspector.found = <<body.units>>
    [] OTHER -> inspector.found = <<>>
InspectInv ==
  /\ task # "over" => Inspected
  /\ task = "over" /\ client = "reads" => Broken \/ FoundAll
  /\ client = "complete" => task = "over" /\ FoundAll

\* Before the first chunk, nothing has been read.
LEMMA InspectionStarts == StreamInit => InspectInv
<1> SUFFICES ASSUME StreamInit
             PROVE  InspectInv
  OBVIOUS
<1>1. body.units \in Seq(Chars) /\ taken = 0 /\ inspector = NewInspector
  BY BodiesAssumption DEF StreamInit, Chars
<1>2. HasRead(body.units, byEvent, NewInspector, 0)
  BY <1>1, NothingRead
<1>3. NewInspector = [NewInspector EXCEPT !.pending = SubSeq(body.units, 1, 0)]
  <2>1. SubSeq(body.units, 1, 0) = <<>>
    BY <1>1
  <2> QED
    BY <2>1 DEF NewInspector
<1>4. Inspected
  BY <1>1, <1>2, <1>3 DEF Inspected
<1> QED
  BY <1>4 DEF StreamInit, InspectInv

\* Nothing but the arrival of a chunk and the end of the body changes what is inspected.
LEMMA InspectionStays ==
  ASSUME UNCHANGED <<byEvent, body, taken, inspector>>
  PROVE  (Inspected' <=> Inspected) /\ (FoundAll' <=> FoundAll)
<1>1. OfInterest(body.units)' = OfInterest(body.units)
  BY DEF OfInterest
<1> QED
  BY <1>1 DEF Inspected, FoundAll

\* With each chunk that arrives, the inspector has read as much as has arrived.
LEMMA TakeChunkInspects ==
  ASSUME StreamTyped, InspectInv, TakeChunk
  PROVE  InspectInv'
<1>1. /\ body \in Bodies /\ taken \in 0..Len(body.units)
      /\ body.units \in Seq(Units) /\ body.units \in Seq(Chars)
  BY BodiesAssumption DEF StreamTyped, Position, Chars
<1>2. PICK n \in 1..(Len(body.units) - taken) :
        /\ taken' = taken + n
        /\ inspector' = LET chunk == SubSeq(body.units, taken + 1, taken + n)
                        IN CASE body.type = "event-stream" -> PushChunk(inspector, chunk)
                             [] body.type = "json" -> [inspector EXCEPT !.pending = @ \o chunk]
                             [] OTHER -> inspector
  BY DEF TakeChunk
<1>3. PICK chunk : chunk = SubSeq(body.units, taken + 1, taken + n)
  OBVIOUS
<1>4. /\ inspector' = CASE body.type = "event-stream" -> PushChunk(inspector, chunk)
                         [] body.type = "json" -> [inspector EXCEPT !.pending = @ \o chunk]
                         [] OTHER -> inspector
      /\ task = "read" /\ task' = "send" /\ UNCHANGED <<byEvent, body, client>>
  BY <1>2, <1>3 DEF TakeChunk
<1>5. Inspected /\ client' # "complete" /\ body' = body /\ byEvent' = byEvent
  BY <1>4 DEF InspectInv
<1>6. CASE body.type = "event-stream"
  <2>1. inspector' = PushChunk(inspector, chunk)
    BY <1>4, <1>6
  <2>2. HasRead(body.units, byEvent, inspector, taken)
    BY <1>5, <1>6 DEF Inspected
  <2>3. taken \in Nat /\ n \in Nat /\ taken + n <= Len(body.units)
    BY <1>1
  <2>4. HasRead(body.units, byEvent, PushChunk(inspector, chunk), taken + n)
    BY <1>1, <1>3, <2>2, <2>3, ChunkRead
  <2>5. Inspected'
    BY <1>2, <1>5, <1>6, <2>1, <2>4 DEF Inspected
  <2> QED
    BY <1>4, <1>5, <2>5 DEF InspectInv
<1>7. CASE body.type = "json"
  <2>1. inspector' = [inspector EXCEPT !.pending = @ \o chunk]
    BY <1>4, <1>7
  <2>2. inspector = [NewInspector EXCEPT !.pending = SubSeq(body.units, 1, taken)]
    BY <1>5, <1>7 DEF Inspected
  <2>3. SubSeq(body.units, 1, taken) \o chunk = SubSeq(body.units, 1, taken + n)
    BY <1>1, <1>3
  <2>4. inspector' = [NewInspector EXCEPT !.pending = SubSeq(body.units, 1, taken + n)]
    BY <2>1, <2>2, <2>3 DEF NewInspector
  <2>5. Inspected'
    BY <1>2, <1>5, <1>7, <2>4 DEF Inspected
  <2> QED
    BY <1>4, <1>5, <2>5 DEF InspectInv
<1>8. CASE body.type # "event-stream" /\ body.type # "json"
  <2>1. inspector' = inspector
    BY <1>4, <1>8
  <2>2. Inspected'
    BY <1>5, <1>8, <2>1 DEF Inspected
  <2> QED
    BY <1>4, <1>5, <2>2 DEF InspectInv
<1> QED
  BY <1>6, <1>7, <1>8

\* When the body ends, all of it has been read and what is left is found.
LEMMA EndInspects ==
  ASSUME StreamTyped, InspectInv, End
  PROVE  InspectInv'
<1>1. body \in Bodies /\ body.units \in Seq(Units) /\ body.units \in Seq(Chars)
  BY BodiesAssumption DEF StreamTyped, Chars
<1>2. /\ taken = Len(body.units) /\ task = "read" /\ task' = "over"
      /\ inspector' = CASE body.type = "event-stream" -> Finish(inspector)
                         [] body.type = "json" ->
                              [inspector EXCEPT !.pending = <<>>, !.found = <<inspector.pending>>]
                         [] OTHER -> inspector
      /\ body' = body /\ byEvent' = byEvent /\ client' = client
  BY DEF End
<1>3. Inspected /\ client' # "complete"
  BY <1>2 DEF InspectInv
<1>4. OfInterest(body.units)' = OfInterest(body.units)
  BY <1>2 DEF OfInterest
<1>5. CASE body.type = "event-stream"
  <2>1. HasRead(body.units, byEvent, inspector, Len(body.units))
    BY <1>2, <1>3, <1>5 DEF Inspected
  <2>2. Lists(Finish(inspector).found, OfInterest(body.units), body.units)
    BY <1>1, <2>1, AllRead
  <2>3. FoundAll'
    BY <1>2, <1>4, <1>5, <2>2 DEF FoundAll
  <2> QED
    BY <1>2, <1>3, <2>3 DEF InspectInv
<1>6. CASE body.type = "json"
  <2>1. inspector = [NewInspector EXCEPT !.pending = SubSeq(body.units, 1, Len(body.units))]
    BY <1>2, <1>3, <1>6 DEF Inspected
  <2>2. SubSeq(body.units, 1, Len(body.units)) = body.units
    BY <1>1
  <2>3. inspector'.found = <<body.units>>
    BY <1>2, <1>6, <2>1, <2>2 DEF NewInspector
  <2>4. FoundAll'
    BY <1>2, <1>6, <2>3 DEF FoundAll
  <2> QED
    BY <1>2, <1>3, <2>4 DEF InspectInv
<1>7. CASE body.type # "event-stream" /\ body.type # "json"
  <2>1. inspector' = NewInspector
    BY <1>2, <1>3, <1>7 DEF Inspected
  <2>2. FoundAll'
    BY <1>2, <1>7, <2>1 DEF FoundAll, NewInspector
  <2> QED
    BY <1>2, <1>3, <2>2 DEF InspectInv
<1> QED
  BY <1>5, <1>6, <1>7

\* No other step loses what was read or found, or hides an error that broke the body off.
LEMMA InspectionStep ==
  ASSUME StreamTyped, InspectInv, [StreamNext]_streamVars
  PROVE  InspectInv'
<1> DEFINE Stays == UNCHANGED <<byEvent, body, taken, inspector>>
<1>1. CASE Fail
  <2>1. Stays /\ task = "read" /\ task' = "send" /\ client' = client
    BY <1>1 DEF Fail
  <2> QED
    BY <2>1, InspectionStays DEF InspectInv
<1>2. CASE Send
  <2>1. Stays /\ task = "send" /\ client' = client
    BY <1>2 DEF Send
  <2>2. task' = "over" => client # "reads" \/ Broken'
    <3>1. SUFFICES ASSUME task' = "over", client = "reads"
                   PROVE  Broken'
      OBVIOUS
    <3>2. hand = <<Failure>> /\ channel' = Append(channel, hand)
      BY <1>2, <3>1 DEF Send
    <3>3. channel \in Seq(Seq(Units \cup {Failure})) /\ Len(channel) \in Nat
      BY DEF StreamTyped
    <3>4. /\ Len(channel') = Len(channel) + 1 /\ channel' # <<>>
          /\ channel'[Len(channel) + 1] = hand
      BY <3>2, <3>3
    <3> QED
      BY <3>2, <3>4 DEF Broken
  <2> QED
    BY <2>1, <2>2, InspectionStays DEF InspectInv
<1>3. CASE ReceiveChunk
  <2>1. Stays /\ client = "reads" /\ task' = task /\ channel # <<>> /\ channel' = Tail(channel)
    BY <1>3 DEF ReceiveChunk
  <2>2. /\ client' \in {"reads", "failed"}
        /\ client' = "reads" => Head(channel) # <<Failure>>
    BY <1>3, <2>1 DEF ReceiveChunk
  <2>3. Broken /\ client' = "reads" => Broken'
    <3>1. SUFFICES ASSUME Broken, client' = "reads"
                   PROVE  Broken'
      OBVIOUS
    <3>2. channel \in Seq(Seq(Units \cup {Failure})) /\ Len(channel) \in Nat \ {0}
      BY <2>1 DEF StreamTyped
    <3>3. Head(channel) = channel[1] /\ channel[Len(channel)] = <<Failure>>
      BY <3>1, <3>2 DEF Broken
    <3>4. Len(channel) # 1
      BY <2>2, <3>1, <3>3
    <3>5. /\ Len(channel') = Len(channel) - 1 /\ channel' # <<>>
          /\ channel'[Len(channel')] = channel[Len(channel)]
      <4>1. PICK m : m = Len(channel) - 1
        OBVIOUS
      <4>2. m \in Nat \ {0} /\ m + 1 = Len(channel)
        BY <3>2, <3>4, <4>1
      <4>3. Len(Tail(channel)) = m /\ \A i \in 1..m : Tail(channel)[i] = channel[i + 1]
        BY <2>1, <3>2, <4>1
      <4>4. Tail(channel)[m] = channel[m + 1] /\ Tail(channel) # <<>>
        <5>1. m \in 1..m /\ Len(<<>>) = 0
          BY <4>2
        <5>2. Len(Tail(channel)) # 0
          BY <4>2, <4>3
        <5> QED
          BY <4>3, <5>1, <5>2
      <4> QED
        BY <2>1, <4>1, <4>2, <4>3, <4>4
    <3> QED
      BY <3>3, <3>5 DEF Broken
  <2> QED
    BY <2>1, <2>2, <2>3, InspectionStays DEF InspectInv
<1>4. CASE ReceiveEnd
  <2>1. Stays /\ client = "reads" /\ task = "over" /\ task' = "over" /\ client' = "complete" /\ ~Broken
    BY <1>4 DEF ReceiveEnd, Broken
  <2> QED
    BY <2>1, InspectionStays DEF InspectInv
<1>5. CASE Leave
  <2>1. Stays /\ task' = task /\ client' = "left"
    BY <1>5 DEF Leave
  <2> QED
    BY <2>1, InspectionStays DEF InspectInv
<1>6. CASE UNCHANGED streamVars
  <2>1. Stays /\ UNCHANGED <<task, client, channel>>
    BY <1>6 DEF streamVars
  <2>2. Broken' <=> Broken
    BY <2>1 DEF Broken
  <2> QED
    BY <2>1, <2>2, InspectionStays DEF InspectInv
<1> QED
  BY <1>1, <1>2, <1>3, <1>4, <1>5, <1>6, TakeChunkInspects, EndInspects DEF StreamNext

\* However the body was cut into chunks, also within a line or a character, what was
\* found in it when it ended is what it holds, in order and once (push_chunk, finish
\* and json_buffer in build_intercepted_response).
THEOREM InspectionAlwaysExact == StreamSpec => []InspectionExact
<1>1. StreamInv => StreamTyped
  BY DEF StreamInv
<1>2. StreamTyped /\ InspectInv /\ [StreamNext]_streamVars => InspectInv'
  BY InspectionStep
<1>3. InspectInv => InspectionExact
  BY DEF InspectInv, FoundAll, InspectionExact
<1> QED
  BY <1>1, <1>2, <1>3, InspectionStarts, StreamInvariant, PTL DEF StreamSpec
=============================================================================
