--------------------------- MODULE AuditTrailProofs ---------------------------
(***************************************************************************)
(* Theorems about AuditTrail, for any number of proxies, calls and         *)
(* workflows.                                                              *)
(***************************************************************************)
EXTENDS AuditTrail, EnforcementProofs, FiniteSetTheorems

USE ProxyOfAssumption, ArgumentsAssumption

-----------------------------------------------------------------------------
(* The calls                                                               *)

\* The proxies behave as Enforcement says they do.
LEMMA TrailStepIsStep == [TrailNext]_trailVars => [Next]_vars
BY DEF TrailNext, Arrive, ProxyTrail, ScoreTrail, DisconnectTrail, Next, trailVars

\* What Enforcement promises of the calls holds of them here as well.
THEOREM TrailImplementsEnforcement == TrailSpec => Spec
<1>1. TrailInit => Init
  BY DEF TrailInit
<1>. QED
  BY <1>1, TrailStepIsStep, PTL DEF TrailSpec, Spec

-----------------------------------------------------------------------------
(* The graph service                                                       *)

\* A node is appended to its graph, unless its id is known there; a violation
\* is captured when the node under that id is reportable.
LEMMA InsertEffect ==
  ASSUME TrailTypeOK, NEW n \in Record, Store!Insert(n)
  PROVE  /\ nodes' = [nodes EXCEPT ![n.graph] =
                        IF \E i \in DOMAIN nodes[n.graph] : nodes[n.graph][i].id = n.id
                        THEN nodes[n.graph] ELSE Append(nodes[n.graph], n)]
         /\ edges' = edges
         /\ live' = live \cup {n.graph}
         /\ violations' =
              IF \E i \in DOMAIN nodes'[n.graph] :
                   nodes'[n.graph][i].id = n.id /\ Store!Reportable(nodes'[n.graph][i])
              THEN Append(violations, [graph |-> n.graph, node |-> n.id])
              ELSE violations
<1>1. Store!HandoffEdge(Store!Upsert(nodes[n.graph], n), n) = {}
  BY DEF Store!HandoffEdge, Record, Kinds
<1>2. edges' = edges
  BY <1>1 DEF Store!Insert, TrailTypeOK, Record
<1>3. Store!Holds(nodes[n.graph], n.id)
        <=> \E i \in DOMAIN nodes[n.graph] : nodes[n.graph][i].id = n.id
  BY DEF Store!Holds, Store!IdsOf, Store!Indices
<1>4. nodes'[n.graph] = Store!Upsert(nodes[n.graph], n)
  BY DEF Store!Insert, TrailTypeOK, Record
<1>. QED
  BY <1>2, <1>3, <1>4 DEF Store!Insert, Store!Upsert, Store!Capture, Store!Indices

\* An edge is added to a graph that holds both its ends.
LEMMA LinkEffect ==
  ASSUME NEW g \in Flows, NEW e, Store!LinkEdge(g, e)
  PROVE  /\ \E i \in DOMAIN nodes[g] : nodes[g][i].id = e[1]
         /\ edges' = [edges EXCEPT ![g] = @ \cup {e}]
         /\ UNCHANGED <<live, nodes, violations>>
BY DEF Store!LinkEdge, Store!Holds, Store!IdsOf, Store!Indices

-----------------------------------------------------------------------------
(* What a step of one call does to it, and leaves of the others            *)

\* A call that has arrived keeps its key and its proxy; what the graph service
\* accepted of it, and the decision that is part of it, stay as they are.
Grows(c) ==
  /\ pc'[c] # "idle"
  /\ pc[c] # "idle" => key'[c] = key[c]
  /\ thinking[c] = "stored" => thinking'[c] = "stored"
  /\ Stored(action[c]) => action'[c] = action[c] /\ dec'[c] = dec[c]
  /\ Stored(verification[c]) => verification'[c] = verification[c]
  /\ edge[c] = "linked" => edge'[c] = "linked"

\* One thing is accepted at a time, each at its own await.
OneAtATime(c) ==
  /\ NewThinking(c) => /\ thinking[c] = "pending"
                       /\ ~NewAction(c) /\ ~NewVerification(c) /\ ~NewLink(c)
  /\ NewAction(c) => /\ pc[c] = "record" /\ dec'[c] = dec[c]
                     /\ ~NewVerification(c) /\ ~NewLink(c)
  /\ NewVerification(c) => pc[c] = "verify" /\ ~NewLink(c)
  /\ NewLink(c) => pc[c] = "link"

Untouched(c) ==
  /\ pc'[c] = pc[c] /\ key'[c] = key[c] /\ dec'[c] = dec[c] /\ verdict'[c] = verdict[c]
  /\ thinking'[c] = thinking[c] /\ action'[c] = action[c]
  /\ verification'[c] = verification[c] /\ edge'[c] = edge[c]

CallStep(c) ==
  \/ \E k \in Keys : LookupHit(c, k) \/ LookupMiss(c, k)
  \/ ProxyStep(c) \/ ScoreStep(c) \/ Disconnect(c)

\* The ways into the awaits that the numbers depend on.
Moves(c) ==
  /\ pc'[c] = "verify" => pc[c] \in {"record", "verify"}
  /\ pc'[c] = "link" => pc[c] \in {"verify", "link"}
  /\ pc'[c] \in Undecided \cup {"record"} => pc[c] \in Undecided \cup {"record"}
  /\ verification'[c] # "none" => verification[c] # "none" \/ pc[c] = "verify"
  /\ edge'[c] = "linked" => edge[c] = "linked" \/ pc[c] = "link"
  /\ thinking'[c] \in {"pending", "stored"} =>
       \/ thinking[c] \in {"pending", "stored"}
       \/ pc[c] = "idle" /\ key'[c] \in Traced

\* How far a call has come bounds what was accepted of it.
Placed(c) ==
  /\ pc[c] = "idle" => thinking[c] = "none"
  /\ pc[c] \in Undecided \cup {"record", "verify"} => verification[c] = "none"
  /\ pc[c] \in Undecided \cup {"record", "verify", "link"} => edge[c] = "none"
  /\ pc[c] \in {"headers", "stream", "sleep"} => dec[c].allowed
  /\ pc[c] = "record" /\ ~dec[c].allowed => verdict[c] = "Block"
  /\ Stored(action[c]) => verdict[c] # "none" /\ action[c] = ActionStatus(verdict[c])
  /\ Stored(action[c]) /\ ~dec[c].allowed => action[c] = "Blocked"

\* A step of a call advances it in these ways and leaves the other calls alone.
LEMMA CallStepShape ==
  ASSUME TypeOK, Control, NEW b \in Calls, Placed(b), CallStep(b)
  PROVE  /\ Grows(b) /\ OneAtATime(b) /\ Moves(b) /\ Placed(b)'
         /\ \A c \in Calls \ {b} : Untouched(c)
<1>. DEFINE Goal == /\ Grows(b) /\ OneAtATime(b) /\ Moves(b) /\ Placed(b)'
                   /\ \A c \in Calls \ {b} : Untouched(c)
<1> USE DEF Control, Controlled, TypeOK, PCs, NodeStates, Undecided, Decided, Ended, Goto,
            envVars, policyVars, scoreVars, auditVars, Grows, OneAtATime, Moves,
            Untouched, Placed, NewThinking, NewAction, NewVerification, NewLink, Stored,
            ActionStatus
<1>1. ASSUME NEW k \in Keys, LookupHit(b, k) \/ LookupMiss(b, k)
      PROVE  Goal
  BY <1>1 DEF LookupHit, LookupMiss, StartThinking
<1>2. CASE PolicyAnswer(b) \/ PolicyReply(b) \/ PolicyFail(b)
  BY <1>2 DEF PolicyAnswer, PolicyReply, PolicyFail
<1>3. CASE ThinkingDone(b)
  BY <1>3 DEF ThinkingDone
<1>4. CASE JoinFailed(b) \/ JoinDenied(b) \/ JoinPermitted(b)
  BY <1>4 DEF JoinFailed, JoinDenied, JoinPermitted
<1>5. CASE HeadersArrive(b) \/ SleepOver(b) \/ ScoreFailsOnce(b)
  BY <1>5 DEF HeadersArrive, SleepOver, ScoreFailsOnce
<1>6. ASSUME NEW s \in Scores \cup {NoScore}, pc[b] \in {"headers", "stream"},
             Judge(b, s)
      PROVE  Goal
  BY <1>6 DEF Judge
<1>7. CASE RecordAction(b)
  BY <1>7 DEF RecordAction, AfterRecord, AfterAudit, ActionStatus
<1>8. CASE RecordVerification(b)
  BY <1>8 DEF RecordVerification, ActionStatus
<1>9. CASE LinkVerification(b)
  BY <1>9 DEF LinkVerification, AfterAudit
<1>10. CASE DriftOrigin(b) \/ Forward(b)
  BY <1>10 DEF DriftOrigin, Forward
<1>11. CASE Disconnect(b)
  BY <1>11 DEF Disconnect, LateEffect, ActionStatus
<1>. QED
  BY <1>1, <1>2, <1>3, <1>4, <1>5, <1>6, <1>7, <1>8, <1>9, <1>10, <1>11, StepCases
     DEF CallStep

-----------------------------------------------------------------------------
(* Numbers                                                                 *)

\* The kinds of nodes a call has a number for.
Numbered(c) ==
  /\ pc[c] # "idle" => number[c]["Action"] # 0
  /\ thinking[c] \in {"pending", "stored"} => number[c]["Thinking"] # 0
  /\ pc[c] \in Undecided \cup {"record"} => number[c]["Verification"] = 0
  /\ pc[c] \in {"verify", "link"} \/ verification[c] # "none" \/ edge[c] = "linked"
       => number[c]["Verification"] # 0

TrailStep(c) == Arrive(c) \/ ProxyTrail(c) \/ ScoreTrail(c) \/ DisconnectTrail(c)

\* Numbers are taken from the counter of the call's proxy and never again.
Counts(b) ==
  LET p == ProxyOf[key'[b]]
  IN /\ UNCHANGED flow
     /\ counter' \in [Proxies -> Nat \ {0}]
     /\ \A q \in Proxies : counter[q] <= counter'[q]
     /\ number' \in [Calls -> [Kinds -> Nat]]
     /\ \A c \in Calls \ {b} : number'[c] = number[c]
     /\ \A kind \in Kinds :
          IF number[b][kind] # 0 THEN number'[b][kind] = number[b][kind]
          ELSE number'[b][kind] # 0
                 => counter[p] <= number'[b][kind] /\ number'[b][kind] < counter'[p]

\* A step of the trail is a step of Enforcement of the same call.
LEMMA TrailStepIsCallStep ==
  ASSUME NEW b \in Calls, TrailStep(b)
  PROVE  CallStep(b)
BY DEF TrailStep, Arrive, ProxyTrail, ScoreTrail, DisconnectTrail, CallStep

\* Only a call that has arrived takes a step of the handler.
LEMMA StepArrived ==
  ASSUME NEW b \in Calls, ProxyStep(b) \/ ScoreStep(b) \/ Disconnect(b), TypeOK, Control, Placed(b)
  PROVE  pc[b] # "idle"
BY StepCases DEF Disconnect, Placed, PolicyAnswer, PolicyReply, PolicyFail, ThinkingDone,
   JoinFailed, JoinDenied, JoinPermitted, HeadersArrive, SleepOver, ScoreFailsOnce,
   RecordAction, RecordVerification, LinkVerification, DriftOrigin, Forward

\* A step numbers the nodes of its own call, from the counter of its proxy.
LEMMA StepCounts ==
  ASSUME TypeOK, TrailTypeOK, Control, NEW b \in Calls, Placed(b), Numbered(b),
         TrailStep(b)
  PROVE  Counts(b) /\ Numbered(b)'
<1>1. Grows(b) /\ Moves(b) /\ Placed(b)'
  BY CallStepShape, TrailStepIsCallStep
<1>2. ASSUME NEW k \in Keys, LookupHit(b, k) \/ LookupMiss(b, k),
             NumbersOnArrival(b, k), UNCHANGED flow
      PROVE  Counts(b) /\ Numbered(b)'
  <2>1. pc[b] = "idle" /\ key'[b] = k /\ pc'[b] \in {"joined", "evaluate"}
    BY <1>2 DEF LookupHit, LookupMiss, TypeOK, Goto
  <2>2. thinking'[b] \in {"pending", "stored"} => k \in Traced
    BY <1>1, <2>1 DEF Moves, Placed
  <2>3. \A kind \in Kinds : number[b][kind] = 0
    BY <2>1 DEF TrailTypeOK
  <2>4. verification'[b] = "none" /\ edge'[b] = "none"
    BY <1>1, <2>1 DEF Placed, Undecided
  <2>5. /\ \A kind \in Kinds :
             number'[b][kind] = CASE kind = "Action" -> counter[ProxyOf[k]]
                                  [] kind = "Thinking" /\ k \in Traced -> counter[ProxyOf[k]] + 1
                                  [] OTHER -> 0
        /\ \A c \in Calls \ {b} : number'[c] = number[c]
        /\ number' \in [Calls -> [Kinds -> Nat]]
    BY <1>2 DEF NumbersOnArrival, TrailTypeOK, Kinds
  <2>6. Counts(b)
    BY <1>2, <2>1, <2>3, <2>5 DEF Counts, NumbersOnArrival, TrailTypeOK, Kinds
  <2>7. Numbered(b)'
    BY <2>1, <2>2, <2>4, <2>5 DEF Numbered, TrailTypeOK, Kinds
  <2>. QED
    BY <2>6, <2>7
<1>3. ASSUME ProxyStep(b) \/ ScoreStep(b) \/ Disconnect(b), Numbers(b)
      PROVE  Counts(b) /\ Numbered(b)'
  <2>1. pc[b] # "idle" /\ key'[b] = key[b] /\ ProxyOf[key[b]] \in Proxies
    BY <1>1, <1>3, StepArrived DEF Grows, TypeOK
  <2>2. CASE pc[b] = "record" /\ pc'[b] = "verify"
    <3>1. NumberDrawn(b, "Verification") /\ UNCHANGED flow
      BY <1>3, <2>2 DEF Numbers
    <3>2. number[b]["Verification"] = 0
      BY <2>2 DEF Numbered
    <3>. QED
      BY <1>1, <2>1, <2>2, <3>1, <3>2
         DEF Counts, NumberDrawn, TrailTypeOK, Kinds, Numbered, Moves, Undecided
  <2>3. CASE ~(pc[b] = "record" /\ pc'[b] = "verify")
    <3>1. /\ number' = number /\ flow' = flow
          /\ \/ counter' = counter
             \/ counter' = [counter EXCEPT ![ProxyOf[key[b]]] = @ + 1]
      BY <1>3, <2>3 DEF Numbers
    <3>2. counter \in [Proxies -> Nat \ {0}]
      BY DEF TrailTypeOK
    <3>3. counter' \in [Proxies -> Nat \ {0}] /\ \A q \in Proxies : counter[q] <= counter'[q]
      BY <2>1, <3>1, <3>2
    <3>. QED
      BY <1>1, <2>1, <2>3, <3>1, <3>3
         DEF Counts, TrailTypeOK, Kinds, Numbered, Moves, Undecided
  <2>. QED
    BY <2>2, <2>3
<1>. QED
  BY <1>2, <1>3 DEF TrailStep, Arrive, ProxyTrail, ScoreTrail, DisconnectTrail

\* No two calls of one proxy have the same number for a kind of node.
Distinct ==
  \A c, d \in Calls : \A kind \in Kinds :
    /\ c # d /\ Arrived(c) /\ Arrived(d) /\ ProxyOf[key[c]] = ProxyOf[key[d]]
    /\ number[c][kind] # 0
    => number[c][kind] # number[d][kind]

\* The numbers of the calls of one proxy stay apart.
LEMMA StepDistinct ==
  ASSUME TypeOK, TrailTypeOK, Control, Distinct, NEW b \in Calls, Placed(b), Numbered(b),
         TrailStep(b)
  PROVE  Distinct'
<1>1. Grows(b) /\ \A c \in Calls \ {b} : Untouched(c)
  BY CallStepShape, TrailStepIsCallStep
<1>2. Counts(b)
  BY StepCounts
<1>3. TypeOK'
  BY TrailStepIsCallStep, TypeStep DEF CallStep, Next
<1> SUFFICES ASSUME NEW c \in Calls, NEW d \in Calls, NEW kind \in Kinds, c # d,
                    Arrived(c)', Arrived(d)', ProxyOf[key'[c]] = ProxyOf[key'[d]],
                    number'[c][kind] # 0, number'[c][kind] = number'[d][kind]
             PROVE  FALSE
  BY DEF Distinct
<1>4. ProxyOf[key'[c]] \in Proxies
  BY <1>3 DEF TypeOK, Arrived
<1>5. ASSUME NEW e \in Calls \ {b}, Arrived(e)'
      PROVE  /\ Arrived(e) /\ key'[e] = key[e] /\ number'[e] = number[e]
             /\ number[e][kind] # 0 => number[e][kind] < counter[ProxyOf[key[e]]]
  BY <1>1, <1>2, <1>5 DEF Untouched, Arrived, Counts, TrailTypeOK
<1>6. \A e \in Calls : number[e][kind] \in Nat /\ number'[e][kind] \in Nat
  BY <1>2 DEF TrailTypeOK, Counts
<1>7. counter[ProxyOf[key'[c]]] \in Nat
  BY <1>4 DEF TrailTypeOK
<1>8. CASE c # b /\ d # b
  BY <1>5, <1>8 DEF Distinct
<1>9. ASSUME NEW e \in {c, d}, e # b, b \in {c, d}
      PROVE  FALSE
  <2>1. /\ Arrived(e) /\ key'[e] = key[e] /\ number'[e] = number[e]
        /\ number[e][kind] # 0 /\ number[e][kind] < counter[ProxyOf[key[e]]]
        /\ number'[b][kind] = number[e][kind]
    BY <1>5, <1>9
  <2>2. CASE number[b][kind] # 0
    <3>1. number'[b][kind] = number[b][kind] /\ Arrived(b) /\ key'[b] = key[b]
      BY <1>1, <1>2, <2>2 DEF Counts, TrailTypeOK, Grows, Arrived
    <3>. QED
      BY <1>9, <2>1, <2>2, <3>1 DEF Distinct
  <2>3. CASE number[b][kind] = 0
    <3>1. counter[ProxyOf[key'[b]]] <= number'[b][kind]
      BY <1>2, <2>1, <2>3 DEF Counts
    <3>2. ProxyOf[key'[b]] = ProxyOf[key[e]] /\ counter[ProxyOf[key[e]]] \in Nat
      BY <1>7, <1>9, <2>1
    <3>. QED
      BY <1>6, <1>9, <2>1, <3>1, <3>2
  <2>. QED
    BY <2>2, <2>3
<1>. QED
  BY <1>8, <1>9

-----------------------------------------------------------------------------
(* Records                                                                 *)

\* What the graph service accepted of a call.
IsRecord(m, c) ==
  \/ thinking[c] = "stored" /\ m = ThinkingNode(c)
  \/ Stored(action[c]) /\ m = ActionNode(c, action[c])
  \/ Stored(verification[c]) /\ m = VerificationNode(c, verification[c])

\* A record bears its call's number for its type, and there is one of a type.
LEMMA RecordFacts ==
  ASSUME TrailTypeOK, NEW c \in Calls, Numbered(c), Controlled(c), NEW m, IsRecord(m, c)
  PROVE  /\ m.type \in Kinds /\ m.graph = flow[c] /\ m.call = c
         /\ m.id = <<m.type, number[c][m.type]>> /\ number[c][m.type] # 0
         /\ \A n : IsRecord(n, c) /\ n.type = m.type => n = m
<1>1. /\ ThinkingNode(c).type = "Thinking"
      /\ \A s : ActionNode(c, s).type = "Action" /\ VerificationNode(c, s).type = "Verification"
  BY DEF ThinkingNode, ActionNode, VerificationNode, Node
<1>2. /\ thinking[c] = "stored" => number[c]["Thinking"] # 0
      /\ Stored(action[c]) => number[c]["Action"] # 0
      /\ Stored(verification[c]) => number[c]["Verification"] # 0
  BY DEF Numbered, Controlled, Undecided, Stored
<1>3. \A n : IsRecord(n, c) /\ n.type = m.type => n = m
  BY <1>1 DEF IsRecord
<1>4. /\ m.type \in Kinds /\ number[c][m.type] # 0
      /\ \E status, ruled : m = Node(c, m.type, status, ruled)
  BY <1>1, <1>2 DEF IsRecord, Kinds, ThinkingNode, ActionNode, VerificationNode
<1>. QED
  BY <1>3, <1>4 DEF Node, Id

\* Two calls of one proxy never share an id.
LEMMA IdsDiffer ==
  ASSUME TrailTypeOK, Distinct, NEW c \in Calls, NEW d \in Calls,
         Arrived(c), Arrived(d), ProxyOf[key[c]] = ProxyOf[key[d]],
         NEW kind \in Kinds, number[c][kind] # 0,
         NEW other \in Kinds, <<kind, number[c][kind]>> = <<other, number[d][other]>>
  PROVE  c = d /\ kind = other
BY DEF Distinct

-----------------------------------------------------------------------------
(* What the graph service does in a step of a call                         *)

Calm == /\ TypeOK /\ Control /\ TrailTypeOK /\ Distinct
        /\ \A c \in Calls : Placed(c) /\ Numbered(c)

SameRecords(c) == \A m : IsRecord(m, c)' <=> IsRecord(m, c)

\* The service inserts the next record of a call, the first of its type.
Inserted(n, c) ==
  /\ Store!Insert(n)
  /\ Arrived(c) /\ ~NewLink(c)
  /\ n.type \in Kinds /\ n.graph = flow[c]
  /\ n.id = <<n.type, number[c][n.type]>> /\ number[c][n.type] # 0
  /\ \A m : IsRecord(m, c)' <=> IsRecord(m, c) \/ m = n
  /\ \A m : IsRecord(m, c) => m.type # n.type

\* A step of one call leaves the records of the others as they are.
LEMMA OthersKeepRecords ==
  ASSUME Calm, NEW b \in Calls, TrailStep(b), NEW c \in Calls \ {b}
  PROVE  /\ SameRecords(c) /\ Untouched(c) /\ number'[c] = number[c] /\ flow' = flow
         /\ Arrived(c)' <=> Arrived(c)
<1>1. Untouched(c)
  BY CallStepShape, TrailStepIsCallStep DEF Calm
<1>2. number'[c] = number[c] /\ flow' = flow
  BY StepCounts DEF Calm, Counts
<1>. QED
  BY <1>1, <1>2 DEF Untouched, SameRecords, IsRecord, ThinkingNode, ActionNode, NamesRule,
     VerificationNode, Node, Id, Arrived

\* In a step the service takes one more record, or one more edge, or nothing.
LEMMA GraphStep ==
  ASSUME Calm, NEW b \in Calls, TrailStep(b)
  PROVE  \/ \E n \in Record : Inserted(n, b)
         \/ /\ NewLink(b) /\ SameRecords(b) /\ Arrived(b)
            /\ \E g \in Flows : Store!LinkEdge(g, Edge(b))
         \/ UNCHANGED graphVars /\ SameRecords(b) /\ ~NewLink(b)
<1>1. Grows(b) /\ OneAtATime(b) /\ Moves(b)
  BY CallStepShape, TrailStepIsCallStep DEF Calm
<1>2. /\ flow' = flow
      /\ \A kind \in Kinds : number[b][kind] # 0 => number'[b][kind] = number[b][kind]
  BY StepCounts DEF Calm, Counts
<1>3. thinking'[b] = "stored" /\ Arrived(b) =>
        number[b]["Thinking"] # 0 /\ ThinkingNode(b)' = ThinkingNode(b)
  BY <1>1, <1>2 DEF Calm, Numbered, OneAtATime, NewThinking, ThinkingNode, Node, Id, Kinds
<1>4. Stored(action'[b]) =>
        /\ Arrived(b) /\ number[b]["Action"] # 0
        /\ ActionNode(b, action[b])' = ActionNode(b, action'[b])
  <2>1. Stored(action'[b]) => Arrived(b) /\ dec'[b] = dec[b] /\ key'[b] = key[b]
    BY <1>1 DEF Calm, Control, Controlled, Undecided, Grows, OneAtATime, NewAction,
       Stored, Arrived
  <2>. QED
    BY <1>2, <2>1 DEF Calm, Numbered, Arrived, ActionNode, NamesRule, Node, Id, Kinds
<1>5. Stored(verification'[b]) =>
        /\ Arrived(b) /\ number[b]["Verification"] # 0
        /\ VerificationNode(b, verification[b])' = VerificationNode(b, verification'[b])
  <2>1. Stored(verification'[b]) =>
          Arrived(b) /\ (verification[b] # "none" \/ pc[b] = "verify")
    BY <1>1 DEF Calm, Placed, Undecided, OneAtATime, NewVerification, Stored, Arrived
  <2>. QED
    BY <1>2, <2>1 DEF Calm, Numbered, VerificationNode, Node, Id, Kinds
<1>6. CASE Arrive(b)
  <2>1. /\ UNCHANGED graphVars /\ pc[b] = "idle"
        /\ thinking'[b] # "stored" /\ action'[b] = action[b]
        /\ verification'[b] = verification[b] /\ edge'[b] = edge[b]
    BY <1>6 DEF Arrive, LookupHit, LookupMiss, StartThinking, Calm, TypeOK, auditVars
  <2>2. thinking[b] = "none" /\ action[b] = "none" /\ verification[b] = "none"
    BY <2>1 DEF Calm, Placed, Control, Controlled, Undecided
  <2>. QED
    BY <2>1, <2>2 DEF SameRecords, IsRecord, NewLink, Stored
<1>7. CASE ProxyTrail(b) \/ ScoreTrail(b) \/ DisconnectTrail(b)
  <2>1. GraphFollows(b) /\ Arrived(b)
    BY <1>7, StepArrived DEF ProxyTrail, ScoreTrail, DisconnectTrail, Calm, Arrived
  <2>2. CASE NewThinking(b)
    <3>1. Store!Insert(ThinkingNode(b))
      BY <1>1, <2>1, <2>2 DEF GraphFollows, OneAtATime
    <3>2. /\ Stored(action'[b]) \/ Stored(action[b]) => action'[b] = action[b]
          /\ Stored(verification'[b]) \/ Stored(verification[b]) => verification'[b] = verification[b]
      BY <1>1, <2>2 DEF Grows, OneAtATime, NewAction, NewVerification, Stored
    <3>3. ThinkingNode(b) \in Record
      BY <1>3, <2>1, <2>2 DEF Calm, TrailTypeOK, ThinkingNode, Node, Id, Record, Kinds,
         NewThinking
    <3>4. \A m : IsRecord(m, b)' <=> IsRecord(m, b) \/ m = ThinkingNode(b)
      BY <1>3, <1>4, <1>5, <2>1, <2>2, <3>2 DEF IsRecord, NewThinking
    <3>5. \A m : IsRecord(m, b) => m.type # "Thinking"
      BY <2>2 DEF IsRecord, NewThinking, ActionNode, VerificationNode, Node
    <3>6. Inserted(ThinkingNode(b), b)
      BY <1>1, <1>3, <2>1, <2>2, <3>1, <3>4, <3>5
         DEF Inserted, ThinkingNode, Node, Id, Kinds, OneAtATime, NewThinking
    <3>. QED
      BY <3>3, <3>6
  <2>3. CASE NewAction(b)
    <3>1. Store!Insert(ActionNode(b, action'[b]))
      BY <1>1, <2>1, <2>3 DEF GraphFollows, OneAtATime
    <3>2. /\ thinking'[b] = "stored" <=> thinking[b] = "stored"
          /\ Stored(verification'[b]) \/ Stored(verification[b]) => verification'[b] = verification[b]
      BY <1>1, <2>3 DEF Grows, OneAtATime, NewAction, NewThinking, NewVerification, Stored
    <3>3. ActionNode(b, action'[b]) \in Record
      <4>1. NamesRule(b) \in BOOLEAN
        BY DEF NamesRule
      <4>. QED
        BY <4>1 DEF Calm, TrailTypeOK, ActionNode, Node, Id, Record, Kinds
    <3>4. \A m : IsRecord(m, b)' <=> IsRecord(m, b) \/ m = ActionNode(b, action'[b])
      BY <1>3, <1>4, <1>5, <2>1, <2>3, <3>2 DEF IsRecord, NewAction
    <3>5. \A m : IsRecord(m, b) => m.type # "Action"
      BY <2>3 DEF IsRecord, NewAction, ThinkingNode, VerificationNode, Node
    <3>6. Inserted(ActionNode(b, action'[b]), b)
      BY <1>1, <1>4, <2>1, <2>3, <3>1, <3>4, <3>5
         DEF Inserted, ActionNode, Node, Id, Kinds, OneAtATime, NewAction
    <3>. QED
      BY <3>3, <3>6
  <2>4. CASE NewVerification(b)
    <3>1. Store!Insert(VerificationNode(b, verification'[b]))
      BY <1>1, <2>1, <2>4 DEF GraphFollows, OneAtATime
    <3>2. /\ thinking'[b] = "stored" <=> thinking[b] = "stored"
          /\ Stored(action'[b]) \/ Stored(action[b]) => action'[b] = action[b]
      BY <1>1, <2>4 DEF Grows, OneAtATime, NewAction, NewThinking, NewVerification, Stored
    <3>3. VerificationNode(b, verification'[b]) \in Record
      BY DEF Calm, TrailTypeOK, VerificationNode, Node, Id, Record, Kinds
    <3>4. \A m : IsRecord(m, b)' <=> IsRecord(m, b) \/ m = VerificationNode(b, verification'[b])
      BY <1>3, <1>4, <1>5, <2>1, <2>4, <3>2 DEF IsRecord, NewVerification
    <3>5. \A m : IsRecord(m, b) => m.type # "Verification"
      BY <2>4 DEF IsRecord, NewVerification, ThinkingNode, ActionNode, Node
    <3>6. Inserted(VerificationNode(b, verification'[b]), b)
      BY <1>1, <1>5, <2>1, <2>4, <3>1, <3>4, <3>5
         DEF Inserted, VerificationNode, Node, Id, Kinds, OneAtATime, NewVerification
    <3>. QED
      BY <3>3, <3>6
  <2>5. CASE ~NewThinking(b) /\ ~NewAction(b) /\ ~NewVerification(b)
    <3>1. SameRecords(b)
      <4>1. /\ thinking'[b] = "stored" <=> thinking[b] = "stored"
            /\ Stored(action'[b]) \/ Stored(action[b]) => action'[b] = action[b]
            /\ Stored(verification'[b]) \/ Stored(verification[b]) => verification'[b] = verification[b]
        BY <1>1, <2>5 DEF Grows, NewAction, NewThinking, NewVerification, Stored
      <4>. QED
        BY <1>3, <1>4, <1>5, <2>1, <4>1 DEF IsRecord, SameRecords
    <3>2. CASE NewLink(b)
      BY <2>1, <2>5, <3>1, <3>2 DEF GraphFollows
    <3>3. CASE ~NewLink(b)
      BY <2>1, <2>5, <3>1, <3>3 DEF GraphFollows
    <3>. QED
      BY <3>2, <3>3
  <2>. QED
    BY <2>2, <2>3, <2>4, <2>5
<1>. QED
  BY <1>6, <1>7 DEF TrailStep

\* Appending keeps what a sequence holds, at its place.
LEMMA AppendKeeps ==
  ASSUME NEW S, NEW s \in Seq(S), NEW e \in S
  PROVE  /\ Append(s, e) \in Seq(S)
         /\ \A i \in DOMAIN s : i \in DOMAIN Append(s, e) /\ Append(s, e)[i] = s[i]
         /\ DOMAIN Append(s, e) = DOMAIN s \cup {Len(s) + 1}
         /\ Append(s, e)[Len(s) + 1] = e
         /\ Len(s) + 1 \notin DOMAIN s
OBVIOUS

\* Nothing that was said of the graph service is taken back in a step.
LEMMA TrailGrows ==
  ASSUME Calm, NEW b \in Calls, TrailStep(b)
  PROVE  /\ \A f \in Flows : \A i \in DOMAIN nodes[f] :
              i \in DOMAIN nodes'[f] /\ nodes'[f][i] = nodes[f][i]
         /\ \A i \in DOMAIN violations :
              i \in DOMAIN violations' /\ violations'[i] = violations[i]
         /\ \A c \in Calls : Arrived(c) => /\ Arrived(c)' /\ key'[c] = key[c]
                                          /\ flow'[c] = flow[c]
         /\ \A c \in Calls : \A m : IsRecord(m, c) => Arrived(c) /\ IsRecord(m, c)'
<1>1. Grows(b) /\ \A c \in Calls \ {b} : Untouched(c)
  BY CallStepShape, TrailStepIsCallStep DEF Calm
<1>2. flow' = flow
  BY StepCounts DEF Calm, Counts
<1>3. \A c \in Calls : Arrived(c) => Arrived(c)' /\ key'[c] = key[c] /\ flow'[c] = flow[c]
  BY <1>1, <1>2 DEF Grows, Untouched, Arrived
<1>4. ASSUME NEW c \in Calls, NEW m, IsRecord(m, c)
      PROVE  Arrived(c) /\ IsRecord(m, c)'
  <2>1. Arrived(c)
    BY <1>4 DEF Calm, Placed, Control, Controlled, Undecided, IsRecord, Stored, Arrived
  <2>2. CASE c # b
    BY <1>4, <2>1, <2>2, OthersKeepRecords DEF SameRecords
  <2>3. CASE c = b
    BY <1>4, <2>1, <2>3, GraphStep DEF SameRecords, Inserted
  <2>. QED
    BY <2>1, <2>2, <2>3
<1>5. ASSUME NEW n \in Record, Inserted(n, b)
      PROVE  /\ \A f \in Flows : \A i \in DOMAIN nodes[f] :
                  i \in DOMAIN nodes'[f] /\ nodes'[f][i] = nodes[f][i]
             /\ \A i \in DOMAIN violations :
                  i \in DOMAIN violations' /\ violations'[i] = violations[i]
  <2>1. /\ nodes' = [nodes EXCEPT ![n.graph] =
                        IF \E i \in DOMAIN nodes[n.graph] : nodes[n.graph][i].id = n.id
                        THEN nodes[n.graph] ELSE Append(nodes[n.graph], n)]
        /\ violations' \in {violations, Append(violations, [graph |-> n.graph, node |-> n.id])}
    BY <1>5, InsertEffect DEF Calm, Inserted
  <2>2. nodes \in [Flows -> Seq(Record)] /\ n.graph \in Flows
    BY DEF Calm, TrailTypeOK, Record
  <2>3. ASSUME NEW f \in Flows, NEW i \in DOMAIN nodes[f]
        PROVE  i \in DOMAIN nodes'[f] /\ nodes'[f][i] = nodes[f][i]
    <3>1. nodes'[f] = nodes[f] \/ nodes'[f] = Append(nodes[f], n)
      BY <2>1, <2>2
    <3>. QED
      BY <2>2, <3>1
  <2>4. violations \in Seq([graph : Flows, node : Kinds \X Nat])
    BY DEF Calm, TrailTypeOK
  <2>5. [graph |-> n.graph, node |-> n.id] \in [graph : Flows, node : Kinds \X Nat]
    BY DEF Record
  <2>6. \A i \in DOMAIN violations : i \in DOMAIN violations' /\ violations'[i] = violations[i]
    <3>. DEFINE V == [graph : Flows, node : Kinds \X Nat]
                v == [graph |-> n.graph, node |-> n.id]
    <3>1. violations \in Seq(V) /\ v \in V /\ violations' \in {violations, Append(violations, v)}
      BY <2>1, <2>4, <2>5
    <3>. HIDE DEF V, v
    <3>. QED
      BY <3>1, AppendKeeps
  <2>. QED
    BY <2>3, <2>6
<1>6. ASSUME UNCHANGED <<nodes, violations>>
      PROVE  /\ \A f \in Flows : \A i \in DOMAIN nodes[f] :
                  i \in DOMAIN nodes'[f] /\ nodes'[f][i] = nodes[f][i]
             /\ \A i \in DOMAIN violations :
                  i \in DOMAIN violations' /\ violations'[i] = violations[i]
  BY <1>6
<1>. QED
  BY <1>3, <1>4, <1>5, <1>6, GraphStep, LinkEffect DEF graphVars

-----------------------------------------------------------------------------
(* Types                                                                   *)

\* Types and drawn numbers survive a step.
LEMMA TrailTypeStep ==
  ASSUME Calm, NEW b \in Calls, TrailStep(b)
  PROVE  TrailTypeOK'
<1>1. Counts(b) /\ \A c \in Calls \ {b} : Untouched(c)
  BY CallStepShape, TrailStepIsCallStep, StepCounts DEF Calm
<1>2. /\ counter' \in [Proxies -> Nat \ {0}] /\ flow' \in [Calls -> Flows]
      /\ number' \in [Calls -> [Kinds -> Nat]]
  BY <1>1 DEF Counts, Calm, TrailTypeOK
<1>3. ASSUME NEW c \in Calls, NEW kind \in Kinds, number'[c][kind] # 0
      PROVE  pc'[c] # "idle" /\ number'[c][kind] < counter'[ProxyOf[key'[c]]]
  <2>1. pc'[b] # "idle"
    BY CallStepShape, TrailStepIsCallStep DEF Calm, Grows
  <2>2. number[c][kind] # 0 =>
          /\ Arrived(c) /\ number'[c][kind] = number[c][kind] /\ number[c][kind] \in Nat
          /\ number[c][kind] < counter[ProxyOf[key[c]]] /\ ProxyOf[key[c]] \in Proxies
          /\ key'[c] = key[c]
    <3>. SUFFICES ASSUME number[c][kind] # 0
                  PROVE  /\ Arrived(c) /\ number'[c][kind] = number[c][kind]
                         /\ number[c][kind] \in Nat
                         /\ number[c][kind] < counter[ProxyOf[key[c]]]
                         /\ ProxyOf[key[c]] \in Proxies /\ key'[c] = key[c]
      OBVIOUS
    <3>1. /\ Arrived(c) /\ number[c][kind] \in Nat
          /\ number[c][kind] < counter[ProxyOf[key[c]]]
      BY DEF Calm, TrailTypeOK, Arrived
    <3>2. key[c] \in Keys /\ ProxyOf[key[c]] \in Proxies
      BY <3>1, ProxyOfAssumption DEF Calm, TypeOK, Arrived
    <3>3. key'[c] = key[c]
      BY <3>1, TrailGrows
    <3>4. number'[c][kind] = number[c][kind]
      BY <1>1, <3>1 DEF Counts
    <3>. QED
      BY <3>1, <3>2, <3>3, <3>4
  <2>3. CASE number[c][kind] # 0
    <3>1. \A q \in Proxies : /\ counter[q] <= counter'[q]
                             /\ counter[q] \in Nat /\ counter'[q] \in Nat
      BY <1>1 DEF Counts, Calm, TrailTypeOK
    <3>2. Arrived(c)'
      BY <2>2, <2>3, TrailGrows
    <3>. QED
      BY <2>2, <2>3, <3>1, <3>2 DEF Arrived
  <2>4. CASE number[c][kind] = 0
    <3>1. c = b
      BY <1>1, <1>3, <2>4 DEF Counts
    <3>. QED
      BY <1>1, <1>3, <2>1, <2>4, <3>1 DEF Counts
  <2>. QED
    BY <2>3, <2>4
<1>4. ASSUME NEW n \in Record, Inserted(n, b)
      PROVE  /\ live' \subseteq Flows /\ nodes' \in [Flows -> Seq(Record)] /\ edges' = edges
             /\ violations' \in Seq([graph : Flows, node : Kinds \X Nat])
  <2>1. /\ nodes' = [nodes EXCEPT ![n.graph] =
                        IF \E i \in DOMAIN nodes[n.graph] : nodes[n.graph][i].id = n.id
                        THEN nodes[n.graph] ELSE Append(nodes[n.graph], n)]
        /\ edges' = edges /\ live' = live \cup {n.graph}
        /\ violations' \in {violations, Append(violations, [graph |-> n.graph, node |-> n.id])}
    BY <1>4, InsertEffect DEF Calm, Inserted
  <2>2. /\ nodes \in [Flows -> Seq(Record)] /\ n.graph \in Flows /\ live \subseteq Flows
        /\ violations \in Seq([graph : Flows, node : Kinds \X Nat])
        /\ [graph |-> n.graph, node |-> n.id] \in [graph : Flows, node : Kinds \X Nat]
    BY DEF Calm, TrailTypeOK, Record
  <2>3. nodes' \in [Flows -> Seq(Record)]
    BY <2>1, <2>2
  <2>4. violations' \in Seq([graph : Flows, node : Kinds \X Nat])
    <3>. DEFINE V == [graph : Flows, node : Kinds \X Nat]
                v == [graph |-> n.graph, node |-> n.id]
    <3>1. violations \in Seq(V) /\ v \in V /\ violations' \in {violations, Append(violations, v)}
      BY <2>1, <2>2
    <3>2. violations' \in Seq(V)
      <4>. HIDE DEF V, v
      <4>. QED
        BY <3>1, AppendKeeps
    <3>. QED
      BY <3>2
  <2>. QED
    BY <2>1, <2>2, <2>3, <2>4
<1>5. ASSUME NEW g \in Flows, Store!LinkEdge(g, Edge(b))
      PROVE  /\ UNCHANGED <<live, nodes, violations>>
             /\ edges' \in [Flows -> SUBSET ((Kinds \X Nat) \X (Kinds \X Nat))]
  <2>1. Edge(b) \in (Kinds \X Nat) \X (Kinds \X Nat)
    BY DEF Calm, TrailTypeOK, Edge, Id, Kinds
  <2>2. edges' = [edges EXCEPT ![g] = @ \cup {Edge(b)}] /\ UNCHANGED <<live, nodes, violations>>
    BY <1>5, LinkEffect
  <2>. QED
    BY <2>1, <2>2 DEF Calm, TrailTypeOK
<1>6. /\ live' \subseteq Flows /\ nodes' \in [Flows -> Seq(Record)]
      /\ edges' \in [Flows -> SUBSET ((Kinds \X Nat) \X (Kinds \X Nat))]
      /\ violations' \in Seq([graph : Flows, node : Kinds \X Nat])
  BY <1>4, <1>5, GraphStep DEF graphVars, Calm, TrailTypeOK
<1>. QED
  BY <1>2, <1>3, <1>6 DEF TrailTypeOK

\* Calm is an inductive invariant of the calls and their numbers.
LEMMA CalmInit == TrailInit => Calm
<1> SUFFICES ASSUME TrailInit PROVE Calm
  OBVIOUS
<1>1. TypeOK
  BY TypeInit DEF TrailInit
<1>2. Control
  BY DEF TrailInit, Init, Control, Controlled, Undecided, Ended
<1>3. TrailTypeOK
  BY DEF TrailInit, TrailTypeOK, Kinds
<1>4. Distinct
  BY DEF TrailInit, Distinct
<1>5. \A c \in Calls : Placed(c) /\ Numbered(c)
  BY DEF TrailInit, Init, Placed, Numbered, Stored, Kinds
<1>. QED
  BY <1>1, <1>2, <1>3, <1>4, <1>5 DEF Calm

LEMMA CalmStep == Calm /\ [TrailNext]_trailVars => Calm'
<1> SUFFICES ASSUME Calm, [TrailNext]_trailVars PROVE Calm'
  OBVIOUS
<1>1. TypeOK' /\ Control'
  BY TrailStepIsStep, TypeStep, ControlStep DEF Calm
<1>2. ASSUME NEW b \in Calls, TrailStep(b)
      PROVE  TrailTypeOK' /\ Distinct' /\ \A c \in Calls : Placed(c)' /\ Numbered(c)'
  <2>1. TrailTypeOK' /\ Distinct'
    BY <1>2, TrailTypeStep, StepDistinct DEF Calm
  <2>2. Placed(b)' /\ Numbered(b)'
    BY <1>2, CallStepShape, TrailStepIsCallStep, StepCounts DEF Calm
  <2>3. ASSUME NEW c \in Calls \ {b}
        PROVE  Placed(c)' /\ Numbered(c)'
    <3>1. Untouched(c) /\ number'[c] = number[c] /\ verdict'[c] = verdict[c]
      <4>1. verdict'[c] = verdict[c]
        BY <1>2, TrailStepIsCallStep, StepCases
           DEF CallStep, Calm, TypeOK, LookupHit, LookupMiss, PolicyAnswer, PolicyReply,
               PolicyFail, ThinkingDone, JoinFailed, JoinDenied, JoinPermitted,
               HeadersArrive, SleepOver, ScoreFailsOnce, Judge, RecordAction,
               RecordVerification, LinkVerification, DriftOrigin, Forward, Disconnect
      <4>. QED
        BY <1>2, <4>1, OthersKeepRecords
    <3>. QED
      BY <3>1 DEF Untouched, Placed, Numbered, Calm
  <2>. QED
    BY <2>1, <2>2, <2>3
<1>3. CASE UNCHANGED trailVars
  <2>1. /\ UNCHANGED <<pc, key, dec, verdict, thinking, action, verification, edge>>
        /\ UNCHANGED <<counter, flow, number, live, nodes, edges, violations>>
    BY <1>3 DEF trailVars, numberVars, graphVars, vars, policyVars, auditVars
  <2>2. TrailTypeOK'
    BY <2>1 DEF Calm, TrailTypeOK
  <2>3. Distinct'
    BY <2>1 DEF Calm, Distinct, Arrived
  <2>4. \A c \in Calls : Placed(c)' /\ Numbered(c)'
    BY <2>1 DEF Calm, Placed, Numbered
  <2>. QED
    BY <1>1, <2>2, <2>3, <2>4 DEF Calm
<1>. QED
  BY <1>1, <1>2, <1>3 DEF TrailNext, TrailStep, Calm

\* Every reachable state is well typed, and a number that is in use was drawn.
THEOREM TrailTypeCorrect == TrailSpec => []TrailTypeOK
<1>1. Calm => TrailTypeOK
  BY DEF Calm
<1>. QED
  BY <1>1, CalmInit, CalmStep, PTL DEF TrailSpec

-----------------------------------------------------------------------------
(* Records are kept                                                        *)

\* Every node the graph service holds is the record of a call.
Genuine ==
  \A f \in Flows : \A i \in DOMAIN nodes[f] :
    \E d \in Calls : flow[d] = f /\ IsRecord(nodes[f][i], d)

Kept == \A c \in Calls : \A m : Alone(c) /\ IsRecord(m, c) => InGraph(m)

OwnEdges(f) == {Edge(c) : c \in {d \in Calls : flow[d] = f /\ edge[d] = "linked"}}
EdgesOwn == OneProxy => \A f \in Flows : edges[f] = OwnEdges(f)

\* Whoever shares a workflow, or everything, with others did so before.
LEMMA LonelinessFades ==
  ASSUME Calm, NEW b \in Calls, TrailStep(b)
  PROVE  /\ \A c \in Calls : Arrived(c) /\ Alone(c)' => Alone(c)
         /\ OneProxy' => OneProxy
BY TrailGrows DEF Alone, OneProxy

\* A record of a call that is alone meets no node under its id.
LEMMA FreshId ==
  ASSUME Calm, NEW b \in Calls, NEW n \in Record, Inserted(n, b), Alone(b),
         NEW d \in Calls, NEW m, IsRecord(m, d), flow[d] = flow[b]
  PROVE  m.id # n.id
<1>1. Arrived(d) /\ ProxyOf[key[b]] = ProxyOf[key[d]]
  BY DEF Calm, Placed, Control, Controlled, Undecided, IsRecord, Stored, Arrived, Alone
<1>2. m.type \in Kinds /\ m.id = <<m.type, number[d][m.type]>>
  BY RecordFacts DEF Calm, Control
<1>3. ASSUME m.id = n.id
      PROVE  b = d /\ n.type = m.type
  BY <1>1, <1>2, <1>3, IdsDiffer DEF Calm, Inserted
<1>. QED
  BY <1>3 DEF Inserted

\* Nothing gets into a graph that is not the record of one of its calls.
LEMMA GenuineStep ==
  ASSUME Calm, Genuine, NEW b \in Calls, TrailStep(b)
  PROVE  Genuine'
<1> SUFFICES ASSUME NEW f \in Flows, NEW i \in DOMAIN nodes'[f], NEW m, m = nodes'[f][i]
             PROVE  \E d \in Calls : flow'[d] = f /\ IsRecord(m, d)'
  BY DEF Genuine
<1>1. CASE i \in DOMAIN nodes[f]
  <2>1. m = nodes[f][i]
    BY <1>1, TrailGrows
  <2>2. PICK d \in Calls : flow[d] = f /\ IsRecord(m, d)
    BY <1>1, <2>1 DEF Genuine
  <2>. QED
    BY <2>2, TrailGrows
<1>2. ASSUME NEW n \in Record, Inserted(n, b), i \notin DOMAIN nodes[f]
      PROVE  m = n /\ f = n.graph
  <2>1. nodes' = [nodes EXCEPT ![n.graph] =
                    IF \E j \in DOMAIN nodes[n.graph] : nodes[n.graph][j].id = n.id
                    THEN nodes[n.graph] ELSE Append(nodes[n.graph], n)]
    BY <1>2, InsertEffect DEF Calm, Inserted
  <2>2. nodes \in [Flows -> Seq(Record)]
    BY DEF Calm, TrailTypeOK
  <2>3. f = n.graph /\ nodes'[f] = Append(nodes[f], n)
    BY <1>2, <2>1, <2>2
  <2>. QED
    BY <1>2, <2>2, <2>3, AppendKeeps
<1>3. ASSUME NEW n \in Record, Inserted(n, b), i \notin DOMAIN nodes[f]
      PROVE  flow'[b] = f /\ IsRecord(m, b)'
  BY <1>2, <1>3, TrailGrows DEF Inserted
<1>4. CASE nodes' = nodes
  BY <1>1, <1>4
<1>. QED
  BY <1>1, <1>3, <1>4, GraphStep, LinkEffect DEF graphVars

\* A new record of a call that is alone is appended, and none is lost.
LEMMA KeptStep ==
  ASSUME Calm, Genuine, Kept, NEW b \in Calls, TrailStep(b)
  PROVE  Kept'
<1> SUFFICES ASSUME NEW c \in Calls, NEW m, Alone(c)', IsRecord(m, c)'
             PROVE  InGraph(m)'
  BY DEF Kept
<1>1. CASE IsRecord(m, c)
  <2>1. Arrived(c)
    BY <1>1, TrailGrows
  <2>2. InGraph(m) /\ m.graph \in Flows
    BY <1>1, <2>1, LonelinessFades, RecordFacts DEF Kept, Calm, Control, TrailTypeOK
  <2>. QED
    BY <2>2, TrailGrows DEF InGraph
<1>2. CASE ~IsRecord(m, c)
  <2>1. c = b
    BY <1>2, OthersKeepRecords DEF SameRecords
  <2>2. PICK n \in Record : Inserted(n, b)
    BY <1>2, <2>1, GraphStep DEF SameRecords
  <2>3. m = n /\ Alone(b) /\ n.graph = flow[b]
    BY <1>2, <2>1, <2>2, LonelinessFades DEF Inserted
  <2>4. nodes \in [Flows -> Seq(Record)] /\ n.graph \in Flows
    BY DEF Calm, TrailTypeOK, Record
  <2>5. ~ \E i \in DOMAIN nodes[n.graph] : nodes[n.graph][i].id = n.id
    BY <2>2, <2>3, <2>4, FreshId DEF Genuine
  <2>6. nodes'[n.graph] = Append(nodes[n.graph], n)
    BY <2>2, <2>4, <2>5, InsertEffect DEF Calm, Inserted
  <2>7. nodes'[n.graph][Len(nodes[n.graph]) + 1] = n
        /\ Len(nodes[n.graph]) + 1 \in DOMAIN nodes'[n.graph]
    BY <2>4, <2>6, AppendKeeps
  <2>. QED
    BY <2>3, <2>7 DEF InGraph
<1>. QED
  BY <1>1, <1>2

\* An edge is added where its call's action is found, its own workflow.
LEMMA EdgesOwnStep ==
  ASSUME Calm, Genuine, EdgesOwn, NEW b \in Calls, TrailStep(b)
  PROVE  EdgesOwn'
<1> SUFFICES ASSUME OneProxy', NEW f \in Flows
             PROVE  edges'[f] = OwnEdges(f)'
  BY DEF EdgesOwn
<1>1. OneProxy /\ edges[f] = OwnEdges(f)
  BY LonelinessFades DEF EdgesOwn
<1>2. /\ flow' = flow
      /\ \A c \in Calls : edge[c] = "linked" => edge'[c] = "linked" /\ Edge(c)' = Edge(c)
      /\ \A c \in Calls \ {b} : edge'[c] = edge[c]
  <2>1. Grows(b)
    BY CallStepShape, TrailStepIsCallStep DEF Calm
  <2>2. Counts(b)
    BY StepCounts DEF Calm
  <2>3. \A c \in Calls : edge[c] = "linked" =>
          number[c]["Action"] # 0 /\ number[c]["Verification"] # 0
    BY DEF Calm, Placed, Numbered, Undecided
  <2>4. \A c \in Calls : edge[c] = "linked" => Edge(c)' = Edge(c)
    BY <2>2, <2>3 DEF Counts, Edge, Id, Kinds
  <2>. QED
    BY <2>1, <2>2, <2>4, OthersKeepRecords DEF Grows, Counts, Untouched
<1>3. CASE ~NewLink(b)
  <2>1. edges' = edges
    BY <1>3, GraphStep, InsertEffect DEF Calm, Inserted, graphVars
  <2>2. {d \in Calls : flow'[d] = f /\ edge'[d] = "linked"}
          = {d \in Calls : flow[d] = f /\ edge[d] = "linked"}
    BY <1>2, <1>3 DEF NewLink
  <2>. QED
    BY <1>1, <1>2, <2>1, <2>2 DEF OwnEdges
<1>4. CASE NewLink(b)
  <2>1. PICK g \in Flows : Arrived(b) /\ Store!LinkEdge(g, Edge(b))
    BY <1>4, GraphStep DEF Inserted
  <2>2. PICK i \in DOMAIN nodes[g] : nodes[g][i].id = Id(b, "Action")
    BY <2>1, LinkEffect DEF Edge
  <2>3. PICK d \in Calls : flow[d] = g /\ IsRecord(nodes[g][i], d)
    BY DEF Genuine
  <2>4. d = b
    <3>1. /\ nodes[g][i].type \in Kinds /\ Arrived(d)
          /\ Id(b, "Action") = <<nodes[g][i].type, number[d][nodes[g][i].type]>>
      BY <2>2, <2>3, RecordFacts, TrailGrows DEF Calm, Control
    <3>2. number[b]["Action"] # 0 /\ "Action" \in Kinds
      BY <2>1 DEF Calm, Numbered, Arrived, Kinds
    <3>. QED
      BY <1>1, <2>1, <3>1, <3>2, IdsDiffer DEF Calm, OneProxy, Id
  <2>5. /\ edges' = [edges EXCEPT ![flow[b]] = @ \cup {Edge(b)}]
        /\ edges \in [Flows -> SUBSET ((Kinds \X Nat) \X (Kinds \X Nat))]
    BY <2>1, <2>3, <2>4, LinkEffect DEF Calm, TrailTypeOK
  <2>6. Edge(b)' = Edge(b)
    <3>1. number[b]["Action"] # 0 /\ number[b]["Verification"] # 0
      <4>1. pc[b] = "link"
        BY <1>4, CallStepShape, TrailStepIsCallStep DEF Calm, OneAtATime
      <4>. QED
        BY <4>1 DEF Calm, Numbered
    <3>. QED
      BY <3>1, StepCounts DEF Calm, Counts, Edge, Id, Kinds
  <2>7. {e \in Calls : flow'[e] = f /\ edge'[e] = "linked"}
          = {e \in Calls : flow[e] = f /\ edge[e] = "linked"}
              \cup (IF f = flow[b] THEN {b} ELSE {})
    BY <1>2, <1>4 DEF NewLink
  <2>8. OwnEdges(f)' = OwnEdges(f) \cup (IF f = flow[b] THEN {Edge(b)} ELSE {})
    BY <1>2, <2>6, <2>7 DEF OwnEdges
  <2>. QED
    BY <1>1, <2>5, <2>8
<1>. QED
  BY <1>3, <1>4

-----------------------------------------------------------------------------
(* Violations                                                              *)

\* Every violation that is listed is the record of a call.
ViolationsGenuine ==
  \A i \in DOMAIN violations :
    \E d \in Calls : \E m :
      IsRecord(m, d) /\ Store!Reportable(m) /\ violations[i] = [graph |-> flow[d], node |-> m.id]

Lists(i, c, m) == violations[i] = [graph |-> flow[c], node |-> m.id]

ListedOnce ==
  \A c \in Calls : \A m : Alone(c) /\ IsRecord(m, c) /\ Store!Reportable(m) =>
    \E i \in DOMAIN violations :
      Lists(i, c, m) /\ \A j \in DOMAIN violations : Lists(j, c, m) => j = i

\* An insert lists one violation at most; whether it does depends on the node
\* alone when nobody else bears its id.
LEMMA InsertLists ==
  ASSUME Calm, Genuine, NEW b \in Calls, TrailStep(b), NEW n \in Record, Inserted(n, b)
  PROVE  LET v == [graph |-> n.graph, node |-> n.id]
         IN /\ violations' = violations \/
                 (/\ violations' = Append(violations, v)
                  /\ \E d \in Calls : \E m :
                       /\ (IsRecord(m, d) /\ flow[d] = n.graph)'
                       /\ Store!Reportable(m) /\ m.id = n.id)
            /\ Alone(b) /\ Store!Reportable(n) => violations' = Append(violations, v)
            /\ Alone(b) /\ ~Store!Reportable(n) => violations' = violations
<1>1. /\ nodes' = [nodes EXCEPT ![n.graph] =
                        IF \E i \in DOMAIN nodes[n.graph] : nodes[n.graph][i].id = n.id
                        THEN nodes[n.graph] ELSE Append(nodes[n.graph], n)]
      /\ violations' =
           IF \E i \in DOMAIN nodes'[n.graph] :
                nodes'[n.graph][i].id = n.id /\ Store!Reportable(nodes'[n.graph][i])
           THEN Append(violations, [graph |-> n.graph, node |-> n.id])
           ELSE violations
  BY InsertEffect DEF Calm, Inserted
<1>2. nodes \in [Flows -> Seq(Record)] /\ n.graph \in Flows
  BY DEF Calm, TrailTypeOK, Record
<1>0. n.graph = flow[b]
  BY DEF Inserted
<1>3. ASSUME NEW i \in DOMAIN nodes'[n.graph]
      PROVE  \E d \in Calls : \E m :
               (IsRecord(m, d) /\ flow[d] = n.graph)' /\ m = nodes'[n.graph][i]
  <2>1. PICK m : m = nodes'[n.graph][i]
    OBVIOUS
  <2>2. Genuine'
    BY GenuineStep
  <2>. QED
    BY <1>2, <2>1, <2>2 DEF Genuine
<1>4. ASSUME Alone(b)
      PROVE  \A i \in DOMAIN nodes'[n.graph] :
               nodes'[n.graph][i].id = n.id <=> i = Len(nodes[n.graph]) + 1
  <2>1. \A i \in DOMAIN nodes[n.graph] : nodes[n.graph][i].id # n.id
    BY <1>0, <1>2, <1>4, FreshId DEF Genuine
  <2>2. nodes'[n.graph] = Append(nodes[n.graph], n)
    BY <1>1, <1>2, <2>1
  <2>. QED
    BY <1>2, <2>1, <2>2, AppendKeeps
<1>5. ASSUME Alone(b)
      PROVE  /\ Len(nodes[n.graph]) + 1 \in DOMAIN nodes'[n.graph]
             /\ nodes'[n.graph][Len(nodes[n.graph]) + 1] = n
  <2>1. \A i \in DOMAIN nodes[n.graph] : nodes[n.graph][i].id # n.id
    BY <1>0, <1>2, <1>5, FreshId DEF Genuine
  <2>2. nodes'[n.graph] = Append(nodes[n.graph], n)
    BY <1>1, <1>2, <2>1
  <2>. QED
    BY <1>2, <2>2, AppendKeeps
<1>6. Alone(b) /\ Store!Reportable(n) =>
        violations' = Append(violations, [graph |-> n.graph, node |-> n.id])
  BY <1>1, <1>5
<1>7. Alone(b) /\ ~Store!Reportable(n) => violations' = violations
  BY <1>1, <1>4, <1>5
<1>8. CASE \E i \in DOMAIN nodes'[n.graph] :
             nodes'[n.graph][i].id = n.id /\ Store!Reportable(nodes'[n.graph][i])
  <2>1. PICK i \in DOMAIN nodes'[n.graph] :
               nodes'[n.graph][i].id = n.id /\ Store!Reportable(nodes'[n.graph][i])
    BY <1>8
  <2>2. PICK d, m : /\ d \in Calls /\ m = nodes'[n.graph][i]
                  /\ (IsRecord(m, d) /\ flow[d] = n.graph)'
    BY <1>3
  <2>. QED
    BY <1>1, <1>6, <1>7, <1>8, <2>1, <2>2
<1>9. CASE ~ \E i \in DOMAIN nodes'[n.graph] :
             nodes'[n.graph][i].id = n.id /\ Store!Reportable(nodes'[n.graph][i])
  BY <1>1, <1>6, <1>7, <1>9
<1>. QED
  BY <1>8, <1>9

\* Nothing is listed that is not the reportable record of a call.
LEMMA ViolationsGenuineStep ==
  ASSUME Calm, Genuine, ViolationsGenuine, NEW b \in Calls, TrailStep(b)
  PROVE  ViolationsGenuine'
<1> SUFFICES ASSUME NEW i \in DOMAIN violations', NEW v, v = violations'[i]
             PROVE  \E d \in Calls : \E m :
                      /\ IsRecord(m, d)' /\ Store!Reportable(m)
                      /\ v = [graph |-> flow'[d], node |-> m.id]
  BY DEF ViolationsGenuine
<1>1. CASE i \in DOMAIN violations
  <2>1. v = violations[i]
    BY <1>1, TrailGrows
  <2>2. PICK d, m :
          /\ d \in Calls /\ IsRecord(m, d) /\ Store!Reportable(m)
          /\ v = [graph |-> flow[d], node |-> m.id]
    BY <1>1, <2>1 DEF ViolationsGenuine
  <2>. QED
    BY <2>2, TrailGrows
<1>2. ASSUME NEW n \in Record, Inserted(n, b), i \notin DOMAIN violations
      PROVE  \E d \in Calls : \E m :
               /\ IsRecord(m, d)' /\ Store!Reportable(m)
               /\ v = [graph |-> flow'[d], node |-> m.id]
  <2>. DEFINE V == [graph : Flows, node : Kinds \X Nat]
              w == [graph |-> n.graph, node |-> n.id]
  <2>1. /\ violations' = Append(violations, w)
        /\ \E d \in Calls : \E m :
             (IsRecord(m, d) /\ flow[d] = n.graph)' /\ Store!Reportable(m) /\ m.id = n.id
    BY <1>2, InsertLists
  <2>2. violations \in Seq(V) /\ w \in V
    BY DEF Calm, TrailTypeOK, Record
  <2>3. v = w
    <3>. HIDE DEF V, w
    <3>. QED
      BY <1>2, <2>1, <2>2, AppendKeeps
  <2>. QED
    BY <2>1, <2>3
<1>3. CASE violations' = violations
  BY <1>1, <1>3
<1>. QED
  BY <1>1, <1>2, <1>3, GraphStep, LinkEffect DEF graphVars

\* A reportable record is listed as it is inserted, and not again.
LEMMA ListedOnceStep ==
  ASSUME Calm, Genuine, ViolationsGenuine, ListedOnce, NEW b \in Calls, TrailStep(b)
  PROVE  ListedOnce'
<1> SUFFICES ASSUME NEW c \in Calls, NEW m, Alone(c)', IsRecord(m, c)', Store!Reportable(m)
             PROVE  \E i \in DOMAIN violations' :
                      /\ violations'[i] = [graph |-> flow'[c], node |-> m.id]
                      /\ \A j \in DOMAIN violations' :
                           violations'[j] = [graph |-> flow'[c], node |-> m.id] => j = i
  BY DEF ListedOnce, Lists
<1>. DEFINE V == [graph : Flows, node : Kinds \X Nat]
            w == [graph |-> flow[c], node |-> m.id]
<1>1. violations \in Seq(V) /\ flow' = flow
  BY StepCounts DEF Calm, TrailTypeOK, Counts
<1>2. CASE IsRecord(m, c)
  <2>1. Arrived(c) /\ Alone(c)
    BY <1>2, TrailGrows, LonelinessFades
  <2>2. PICK i \in DOMAIN violations :
          violations[i] = w /\ \A j \in DOMAIN violations : violations[j] = w => j = i
    BY <1>2, <2>1 DEF ListedOnce, Lists
  <2>3. CASE violations' = violations
    BY <1>1, <2>2, <2>3
  <2>4. ASSUME NEW n \in Record, Inserted(n, b),
               violations' = Append(violations, [graph |-> n.graph, node |-> n.id])
        PROVE  \E k \in DOMAIN violations' :
                 violations'[k] = w /\ \A j \in DOMAIN violations' : violations'[j] = w => j = k
    <3>. DEFINE v == [graph |-> n.graph, node |-> n.id]
    <3>1. v # w
      <4>1. n.graph = flow[b] /\ Arrived(b)
        BY <2>4 DEF Inserted
      <4>2. CASE flow[b] = flow[c]
        <5>1. Alone(b)
          BY <2>1, <4>1, <4>2 DEF Alone
        <5>. QED
          BY <1>2, <2>4, <4>2, <5>1, FreshId
      <4>3. CASE flow[b] # flow[c]
        BY <4>1, <4>3
      <4>. QED
        BY <4>2, <4>3
    <3>2. v \in V
      BY DEF Record
    <3>3. violations' = Append(violations, v)
      BY <2>4
    <3>. HIDE DEF V, v, w
    <3>. QED
      BY <1>1, <2>2, <3>1, <3>2, <3>3, AppendKeeps
  <2>5. violations' = violations \/
          \E n \in Record : /\ Inserted(n, b)
                            /\ violations' = Append(violations, [graph |-> n.graph, node |-> n.id])
    BY GraphStep, LinkEffect, InsertLists DEF graphVars
  <2>. QED
    BY <1>1, <2>3, <2>4, <2>5
<1>3. CASE ~IsRecord(m, c)
  <2>1. c = b
    BY <1>3, OthersKeepRecords DEF SameRecords
  <2>2. PICK n \in Record : Inserted(n, b)
    BY <1>3, <2>1, GraphStep DEF SameRecords
  <2>3. m = n /\ n.graph = flow[c] /\ Arrived(b)
    BY <1>3, <2>1, <2>2 DEF Inserted
  <2>4. Alone(b)
    BY <2>1, <2>3, LonelinessFades
  <2>5. violations' = Append(violations, w) /\ w \in V
    BY <2>2, <2>3, <2>4, InsertLists DEF Record
  <2>6. \A j \in DOMAIN violations : violations[j] # w
    <3> SUFFICES ASSUME NEW j \in DOMAIN violations, violations[j] = w PROVE FALSE
      OBVIOUS
    <3>1. PICK d, r : /\ d \in Calls /\ IsRecord(r, d)
                     /\ violations[j] = [graph |-> flow[d], node |-> r.id]
      BY DEF ViolationsGenuine
    <3>2. flow[d] = flow[b] /\ r.id = n.id
      BY <2>1, <2>3, <3>1
    <3>. QED
      BY <2>2, <2>4, <3>1, <3>2, FreshId
  <2>7. \E i \in DOMAIN violations' :
          violations'[i] = w /\ \A j \in DOMAIN violations' : violations'[j] = w => j = i
    <3>. HIDE DEF V, w
    <3>. QED
      BY <1>1, <2>5, <2>6, AppendKeeps
  <2>. QED
    BY <1>1, <2>7
<1>. QED
  BY <1>2, <1>3

-----------------------------------------------------------------------------
(* Theorems                                                                *)

TrailInv == Calm /\ Genuine /\ Kept /\ EdgesOwn /\ ViolationsGenuine /\ ListedOnce

\* TrailInv is the inductive invariant behind the two theorems below.
LEMMA TrailInvInit == TrailInit => TrailInv
<1> SUFFICES ASSUME TrailInit PROVE TrailInv
  OBVIOUS
<1>1. \A c \in Calls : \A m : ~IsRecord(m, c)
  BY DEF TrailInit, Init, IsRecord, Stored
<1>2. Genuine /\ ViolationsGenuine
  BY DEF TrailInit, Genuine, ViolationsGenuine
<1>3. Kept /\ ListedOnce
  BY <1>1 DEF Kept, ListedOnce
<1>4. EdgesOwn
  BY DEF TrailInit, Init, EdgesOwn, OwnEdges
<1>. QED
  BY <1>2, <1>3, <1>4, CalmInit DEF TrailInv

LEMMA TrailInvStep == TrailInv /\ [TrailNext]_trailVars => TrailInv'
<1> SUFFICES ASSUME TrailInv, [TrailNext]_trailVars PROVE TrailInv'
  OBVIOUS
<1>1. Calm'
  BY CalmStep DEF TrailInv
<1>2. ASSUME NEW b \in Calls, TrailStep(b)
      PROVE  /\ Genuine' /\ Kept' /\ EdgesOwn' /\ ViolationsGenuine' /\ ListedOnce'
  BY <1>2, GenuineStep, KeptStep, EdgesOwnStep, ViolationsGenuineStep, ListedOnceStep
     DEF TrailInv
<1>3. CASE UNCHANGED trailVars
  <2>1. /\ UNCHANGED <<pc, key, dec, thinking, action, verification, edge>>
        /\ UNCHANGED <<flow, number, nodes, edges, violations>>
    BY <1>3 DEF trailVars, numberVars, graphVars, vars, policyVars, auditVars
  <2>2. \A c \in Calls : \A m : IsRecord(m, c)' <=> IsRecord(m, c)
    BY <2>1 DEF IsRecord, ThinkingNode, ActionNode, NamesRule, VerificationNode, Node, Id
  <2>3. Genuine' /\ Kept'
    BY <2>1, <2>2 DEF TrailInv, Genuine, Kept, InGraph, Alone, Arrived
  <2>4. EdgesOwn'
    BY <2>1 DEF TrailInv, EdgesOwn, OwnEdges, OneProxy, Arrived, Edge, Id
  <2>5. ViolationsGenuine' /\ ListedOnce'
    BY <2>1, <2>2 DEF TrailInv, ViolationsGenuine, ListedOnce, Lists, Alone, Arrived
  <2>. QED
    BY <1>1, <2>3, <2>4, <2>5 DEF TrailInv
<1>. QED
  BY <1>1, <1>2, <1>3 DEF TrailNext, TrailStep, TrailInv

\* What the graph service accepted of a call is under the call's own ids in
\* its workflow, and the edges of a workflow are those of its calls, whatever
\* the number of calls and their interleaving.
THEOREM RecordsOwnCorrect == TrailSpec => []RecordsOwn
<1>1. TrailInv => RecordsOwn
  <2> SUFFICES ASSUME TrailInv PROVE RecordsOwn
    OBVIOUS
  <2>1. ASSUME NEW c \in Calls, Alone(c)
        PROVE  /\ Stored(action[c]) => InGraph(ActionNode(c, action[c]))
               /\ Stored(verification[c]) => InGraph(VerificationNode(c, verification[c]))
               /\ thinking[c] = "stored" => InGraph(ThinkingNode(c))
    BY <2>1 DEF TrailInv, Kept, IsRecord
  <2>2. OneProxy => \A f \in Flows : edges[f] = OwnEdges(f)
    BY DEF TrailInv, EdgesOwn
  <2>. QED
    BY <2>1, <2>2 DEF RecordsOwn, OwnEdges
<1>. QED
  BY <1>1, TrailInvInit, TrailInvStep, PTL DEF TrailSpec

\* Who shares a workflow with a call that is alone there, or everything with
\* the others, and bears its id, is the call itself.
LEMMA SameIdSameRecord ==
  ASSUME Calm, NEW c \in Calls, NEW d \in Calls, NEW kind \in Kinds, number[c][kind] # 0,
         NEW m, IsRecord(m, d), m.id = <<kind, number[c][kind]>>, Arrived(c),
         (Alone(c) /\ flow[d] = flow[c]) \/ OneProxy
  PROVE  d = c /\ m.type = kind
<1>1. Arrived(d) /\ m.type \in Kinds /\ m.id = <<m.type, number[d][m.type]>>
  BY RecordFacts
     DEF Calm, Placed, Control, Controlled, Undecided, IsRecord, Stored, Arrived
<1>2. ProxyOf[key[c]] = ProxyOf[key[d]]
  BY <1>1 DEF Alone, OneProxy
<1>. QED
  BY <1>1, <1>2, IdsDiffer DEF Calm

\* What ListedOnce says of one node.
LEMMA ListedIs ==
  ASSUME TrailInv, NEW c \in Calls, Alone(c), Arrived(c),
         NEW kind \in Kinds, number[c][kind] # 0
  PROVE  /\ \A m : IsRecord(m, c) /\ m.type = kind /\ Store!Reportable(m) =>
               Listed(c, kind) = 1
         /\ (\A m : IsRecord(m, c) /\ m.type = kind => ~Store!Reportable(m)) =>
               Listed(c, kind) = 0
<1>. DEFINE v == [graph |-> flow[c], node |-> Id(c, kind)]
            L == {i \in DOMAIN violations : violations[i] = v}
<1>1. ASSUME NEW m, IsRecord(m, c), m.type = kind, Store!Reportable(m)
      PROVE  Cardinality(L) = 1
  <2>1. m.id = Id(c, kind)
    BY <1>1, RecordFacts DEF TrailInv, Calm, Control, Id
  <2>2. PICK i \in DOMAIN violations :
          violations[i] = v /\ \A j \in DOMAIN violations : violations[j] = v => j = i
    BY <1>1, <2>1 DEF TrailInv, ListedOnce, Lists
  <2>3. L = {i}
    BY <2>2
  <2>. QED
    BY <2>3, FS_Singleton
<1>2. ASSUME \A m : IsRecord(m, c) /\ m.type = kind => ~Store!Reportable(m)
      PROVE  Cardinality(L) = 0
  <2>1. ASSUME NEW i \in DOMAIN violations, violations[i] = v
        PROVE  FALSE
    <3>1. PICK d, m : /\ d \in Calls /\ IsRecord(m, d) /\ Store!Reportable(m)
                     /\ violations[i] = [graph |-> flow[d], node |-> m.id]
      BY DEF TrailInv, ViolationsGenuine
    <3>2. flow[d] = flow[c] /\ m.id = <<kind, number[c][kind]>>
      BY <2>1, <3>1 DEF Id
    <3>3. d = c /\ m.type = kind
      BY <3>1, <3>2, SameIdSameRecord DEF TrailInv
    <3>. QED
      BY <1>2, <3>1, <3>3
  <2>2. L = {}
    BY <2>1
  <2>. QED
    BY <2>2, FS_EmptySet
<1>. QED
  BY <1>1, <1>2 DEF Listed

\* A denial is listed exactly once if the action node took a rule of the decision,
\* a refused permitted call under its verification and, if its client named a rule,
\* under its action; a call let through never.  With one proxy no two violations
\* have the id of one node.
THEOREM BlocksListedCorrect == TrailSpec => []BlocksListed
<1>1. ASSUME TrailInv, NEW c \in Calls, Arrived(c), Alone(c)
      PROVE  Listed(c, "Action") =
               IF Stored(action[c]) /\ verdict[c] # "Allow" /\ NamesRule(c) THEN 1 ELSE 0
  <2>1. number[c]["Action"] # 0 /\ "Action" \in Kinds
    BY <1>1 DEF TrailInv, Calm, Numbered, Arrived, Kinds
  <2>2. ASSUME NEW m, IsRecord(m, c), m.type = "Action"
        PROVE  m = ActionNode(c, action[c]) /\ Stored(action[c])
    BY <2>2 DEF IsRecord, ThinkingNode, VerificationNode, ActionNode, Node
  <2>3. Stored(action[c]) => (action[c] = "Blocked" <=> verdict[c] # "Allow")
    BY <1>1 DEF TrailInv, Calm, Placed, ActionStatus
  <2>4. CASE Stored(action[c]) /\ verdict[c] # "Allow" /\ NamesRule(c)
    <3>1. Store!Reportable(ActionNode(c, action[c]))
      BY <2>3, <2>4 DEF Store!Reportable, ActionNode, Node
    <3>2. IsRecord(ActionNode(c, action[c]), c) /\ ActionNode(c, action[c]).type = "Action"
      BY <2>4 DEF IsRecord, ActionNode, Node
    <3>. QED
      BY <1>1, <2>1, <2>4, <3>1, <3>2, ListedIs
  <2>5. CASE ~(Stored(action[c]) /\ verdict[c] # "Allow" /\ NamesRule(c))
    <3>1. ASSUME NEW m, IsRecord(m, c), m.type = "Action", Store!Reportable(m)
          PROVE  FALSE
      <4>1. m = ActionNode(c, action[c]) /\ Stored(action[c])
        BY <2>2, <3>1
      <4>2. m.ruled /\ m.blocked
        BY <3>1, <4>1 DEF Store!Reportable, ActionNode, Node
      <4>3. m.ruled = NamesRule(c) /\ m.blocked = (action[c] = "Blocked")
        BY <4>1 DEF ActionNode, Node
      <4>. QED
        BY <2>3, <2>5, <4>1, <4>2, <4>3
    <3>. QED
      BY <1>1, <2>1, <2>5, <3>1, ListedIs
  <2>. QED
    BY <2>4, <2>5
<1>2. ASSUME TrailInv, NEW c \in Calls, Arrived(c), Alone(c), number[c]["Verification"] # 0
      PROVE  Listed(c, "Verification") = IF verification[c] = "Blocked" THEN 1 ELSE 0
  <2>1. "Verification" \in Kinds
    BY DEF Kinds
  <2>2. ASSUME NEW m, IsRecord(m, c), m.type = "Verification"
        PROVE  m = VerificationNode(c, verification[c])
    BY <2>2 DEF IsRecord, ThinkingNode, VerificationNode, ActionNode, Node
  <2>3. CASE verification[c] = "Blocked"
    <3>1. /\ IsRecord(VerificationNode(c, verification[c]), c)
          /\ VerificationNode(c, verification[c]).type = "Verification"
          /\ Store!Reportable(VerificationNode(c, verification[c]))
      BY <2>3 DEF IsRecord, Stored, Store!Reportable, VerificationNode, Node
    <3>. QED
      BY <1>2, <2>1, <2>3, <3>1, ListedIs
  <2>4. CASE verification[c] # "Blocked"
    <3>1. ASSUME NEW m, IsRecord(m, c), m.type = "Verification", Store!Reportable(m)
          PROVE  FALSE
      <4>1. m.blocked
        BY <3>1 DEF Store!Reportable
      <4>2. m.blocked = (verification[c] = "Blocked")
        BY <2>2, <3>1 DEF VerificationNode, Node
      <4>. QED
        BY <2>4, <4>1, <4>2
    <3>. QED
      BY <1>2, <2>1, <2>4, <3>1, ListedIs
  <2>. QED
    BY <2>3, <2>4
<1>3. ASSUME TrailInv, OneProxy, NEW i \in DOMAIN violations, NEW j \in DOMAIN violations,
             violations[i].node = violations[j].node
      PROVE  i = j
  <2>1. PICK c, m : /\ c \in Calls /\ IsRecord(m, c) /\ Store!Reportable(m)
                   /\ violations[i] = [graph |-> flow[c], node |-> m.id]
    BY <1>3 DEF ViolationsGenuine, TrailInv
  <2>2. PICK d, n : /\ d \in Calls /\ IsRecord(n, d) /\ Store!Reportable(n)
                   /\ violations[j] = [graph |-> flow[d], node |-> n.id]
    BY <1>3 DEF ViolationsGenuine, TrailInv
  <2>3. /\ m.type \in Kinds /\ number[c][m.type] # 0
        /\ m.id = <<m.type, number[c][m.type]>>
    BY <1>3, <2>1, RecordFacts DEF TrailInv, Calm, Control
  <2>4. Arrived(c)
    BY <1>3, <2>1
       DEF TrailInv, Calm, Placed, Control, Controlled, Undecided, IsRecord, Stored, Arrived
  <2>5. n.id = <<m.type, number[c][m.type]>>
    BY <1>3, <2>1, <2>2, <2>3
  <2>6. d = c /\ n.type = m.type
    BY <1>3, <2>1, <2>2, <2>3, <2>4, <2>5, SameIdSameRecord DEF TrailInv
  <2>7. Alone(c)
    BY <1>3, <2>1, <2>4 DEF Alone, OneProxy
  <2>8. violations[j] = violations[i]
    BY <1>3, <2>1, <2>2, <2>6
  <2>9. PICK k \in DOMAIN violations :
          \A l \in DOMAIN violations : Lists(l, c, m) => l = k
    BY <1>3, <2>1, <2>7 DEF TrailInv, ListedOnce
  <2>. QED
    BY <2>1, <2>8, <2>9 DEF Lists
<1>4. ASSUME TrailInv, NEW c \in Calls, Stored(action[c]), ~dec[c].allowed
      PROVE  verdict[c] # "Allow"
  BY <1>4 DEF TrailInv, Calm, Placed, ActionStatus
<1>5. TrailInv => BlocksListed
  BY <1>1, <1>2, <1>3, <1>4 DEF BlocksListed, NamesRule
<1>. QED
  BY <1>5, TrailInvInit, TrailInvStep, PTL DEF TrailSpec
=============================================================================
