------------------------------ MODULE AuditTrail ------------------------------
(***************************************************************************)
(* The proxies and the graph service together: what the calls that         *)
(* Enforcement judges leave in the graphs of GraphStore.                   *)
(*                                                                         *)
(* Every proxy process numbers its nodes by a NODE_COUNTER of its own that *)
(* starts at 1 (enforcement.rs), and so does a proxy that was restarted: a *)
(* proxy here is one life of a process.  A cache key belongs to the proxy  *)
(* whose cache it is in.  The workflow of a call is the text of its        *)
(* request id, or a fixed one for requests whose id is no text, so calls   *)
(* of several proxies meet in one workflow.                                *)
(*                                                                         *)
(* The steps of a call are those of Enforcement; where one of them changes *)
(* what the graph service holds, the service takes the step of GraphStore  *)
(* that belongs to it.  Its clock stands still here, and its disk, which   *)
(* no query reads, is left out.                                            *)
(***************************************************************************)
EXTENDS EnforcementProps, FiniteSets, Sequences

CONSTANTS
  Proxies,   \* the lives of proxy processes
  ProxyOf,   \* per key: the proxy whose cache it is in
  Flows,     \* the workflow ids
  NoObject,  \* the keys whose arguments are no JSON object
  Marked     \* the keys whose arguments have a text under __policy_rule_id already

ASSUME ArgumentsAssumption ==
  /\ NoObject \subseteq Keys /\ Marked \subseteq Keys
  /\ NoObject \cap (Traced \cup Marked) = {}
ASSUME ProxyOfAssumption == ProxyOf \in [Keys -> Proxies]
ASSUME CallsAssumption == IsFiniteSet(Calls)

VARIABLES
  counter,    \* per proxy: NODE_COUNTER
  flow,       \* per call: its workflow
  number,     \* per call: the numbers in the ids of its nodes; 0 for none
  live, nodes, edges, violations   \* the graph service, see GraphStore

numberVars == <<counter, flow, number>>
graphVars == <<live, nodes, edges, violations>>
trailVars == <<vars, numberVars, graphVars>>

Kinds == {"Thinking", "Action", "Verification"}

\* The part of GraphStore that is left out stands still.
Store == INSTANCE GraphStore WITH
  Graphs <- Flows, Ids <- Kinds \X Nat, Agents <- {}, Nodes <- {}, Links <- {},
  TTL <- 0, MaxGap <- 0, MaxNow <- 0, MaxViolations <- 2 * Cardinality(Calls),
  DiskFails <- FALSE, Crashes <- FALSE,
  now <- 0, touched <- [g \in Flows |-> 0], loop <- "flush", flushedAt <- 0,
  written <- {}, disk <- <<>>, reported <- {}, flushOk <- ~FALSE, crashed <- "never"

TrailInit ==
  /\ Init
  /\ counter = [p \in Proxies |-> 1]
  /\ flow \in [Calls -> Flows]
  /\ number = [c \in Calls |-> [kind \in Kinds |-> 0]]
  /\ live = {}
  /\ nodes = [f \in Flows |-> <<>>]
  /\ edges = [f \in Flows |-> {}]
  /\ violations = <<>>

-----------------------------------------------------------------------------
(* Numbers                                                                 *)

Id(c, kind) == <<kind, number[c][kind]>>
Edge(c) == <<Id(c, "Action"), Id(c, "Verification")>>

\* Mutant: the number is read and not taken.
NumberDrawnStuck(c, kind) ==
  number' = [number EXCEPT ![c][kind] = counter[ProxyOf[key[c]]]] /\ UNCHANGED counter

\* next_id, an atomic increment: the node of this kind gets the next number.
NumberDrawn(c, kind) ==
  LET p == ProxyOf[key[c]]
  IN /\ number' = [number EXCEPT ![c][kind] = counter[p]]
     /\ counter' = [counter EXCEPT ![p] = @ + 1]

\* A request arrives: its action node and, if there is a trace, its thinking
\* node and the trace are numbered before anything else happens.
NumbersOnArrival(c, k) ==
  LET p == ProxyOf[k]
      traced == k \in Traced
  IN /\ number' = [number EXCEPT ![c] =
          [kind \in Kinds |-> CASE kind = "Action" -> counter[p]
                                [] kind = "Thinking" /\ traced -> counter[p] + 1
                                [] OTHER -> 0]]
     /\ counter' = [counter EXCEPT ![p] = @ + IF traced THEN 3 ELSE 1]

\* The verification node is numbered when the action node has been sent; a
\* refusal takes a number for the client's violation id.
Numbers(c) ==
  /\ UNCHANGED flow
  /\ CASE pc[c] = "record" /\ pc'[c] = "verify" -> NumberDrawn(c, "Verification")
       [] verdict'[c] \in {"Block", "Error"} /\ pc[c] # "done" /\ pc'[c] = "done" ->
            /\ counter' = [counter EXCEPT ![ProxyOf[key[c]]] = @ + 1]
            /\ UNCHANGED number
       [] OTHER -> UNCHANGED <<counter, number>>

-----------------------------------------------------------------------------
(* Nodes                                                                   *)

\* What a call sends to the graph service: its id, where it belongs, what it
\* is about (the call stands for tool, arguments and trace), and what
\* capture_violation_if_needed looks at.
Node(c, kind, status, ruled) ==
  [id |-> Id(c, kind), graph |-> flow[c], type |-> kind, call |-> c,
   blocked |-> status = "Blocked", ruled |-> ruled]

\* Mutant: the rule is put beside the arguments and not into them.
NamesRuleNever(c) == dec[c].allowed /\ key[c] \in Marked

\* Whether the arguments of the action node name a rule: those of a denied call do
\* if they are an object and the decision has one, which replaces what the client
\* wrote there; those of any other call are the client's.
NamesRule(c) ==
  \/ ~dec[c].allowed /\ dec[c].ruled /\ key[c] \notin NoObject
  \/ dec[c].allowed /\ key[c] \in Marked

ActionNode(c, status) == Node(c, "Action", status, NamesRule(c))
VerificationNode(c, status) == Node(c, "Verification", status, FALSE)
ThinkingNode(c) == Node(c, "Thinking", "none", FALSE)

\* What the graph service accepts of call c in this step.
NewThinking(c) == thinking'[c] = "stored" /\ thinking[c] # "stored"
NewAction(c) == Stored(action'[c]) /\ ~Stored(action[c])
NewVerification(c) == Stored(verification'[c]) /\ ~Stored(verification[c])
NewLink(c) == edge'[c] = "linked" /\ edge[c] # "linked"

\* What it does then.
GraphFollows(c) ==
  \/ NewThinking(c) /\ Store!Insert(ThinkingNode(c))
  \/ NewAction(c) /\ Store!Insert(ActionNode(c, action'[c]))
  \/ NewVerification(c) /\ Store!Insert(VerificationNode(c, verification'[c]))
  \/ NewLink(c) /\ \E g \in Flows : Store!LinkEdge(g, Edge(c))
  \/ /\ ~NewThinking(c) /\ ~NewAction(c) /\ ~NewVerification(c) /\ ~NewLink(c)
     /\ UNCHANGED graphVars

-----------------------------------------------------------------------------
Arrive(c) ==
  \E k \in Keys :
    /\ LookupHit(c, k) \/ LookupMiss(c, k)
    /\ NumbersOnArrival(c, k)
    /\ UNCHANGED <<flow, graphVars>>

ProxyTrail(c) == ProxyStep(c) /\ Numbers(c) /\ GraphFollows(c)
ScoreTrail(c) == ScoreStep(c) /\ Numbers(c) /\ GraphFollows(c)
DisconnectTrail(c) == Disconnect(c) /\ Numbers(c) /\ GraphFollows(c)

\* Policies that change and decisions that expire are Enforcement's concern.
TrailNext ==
  \E c \in Calls : Arrive(c) \/ ProxyTrail(c) \/ ScoreTrail(c) \/ DisconnectTrail(c)

TrailSpec == TrailInit /\ [][TrailNext]_trailVars

\* As in Enforcement: the graph service and the policy service answer or fail; of
\* the verifier's message nothing is assumed.
TrailLiveSpec == TrailSpec /\ \A c \in Calls : WF_trailVars(ProxyTrail(c))

-----------------------------------------------------------------------------
(* Properties                                                              *)

Record == [id : Kinds \X Nat, graph : Flows, type : Kinds, call : Calls,
           blocked : BOOLEAN, ruled : BOOLEAN]

\* Every variable has its type, and a number in use was drawn from the counter
\* of its call's proxy.
TrailTypeOK ==
  /\ counter \in [Proxies -> Nat \ {0}]
  /\ flow \in [Calls -> Flows]
  /\ number \in [Calls -> [Kinds -> Nat]]
  /\ live \subseteq Flows
  /\ nodes \in [Flows -> Seq(Record)]
  /\ edges \in [Flows -> SUBSET ((Kinds \X Nat) \X (Kinds \X Nat))]
  /\ violations \in Seq([graph : Flows, node : Kinds \X Nat])
  /\ \A c \in Calls, kind \in Kinds : number[c][kind] # 0 =>
       pc[c] # "idle" /\ number[c][kind] < counter[ProxyOf[key[c]]]

\* Nobody but this call's proxy writes into its workflow; all arrived at one.
Arrived(c) == pc[c] # "idle"
Alone(c) ==
  \A d \in Calls : Arrived(d) /\ flow[d] = flow[c] => ProxyOf[key[d]] = ProxyOf[key[c]]
OneProxy == \A c, d \in Calls : Arrived(c) /\ Arrived(d) => ProxyOf[key[d]] = ProxyOf[key[c]]

InGraph(n) == \E i \in DOMAIN nodes[n.graph] : nodes[n.graph][i] = n

\* What the graph service accepted of a call is found under its own ids in its
\* own workflow, as long as no other proxy writes there: no call takes the
\* number of another one of its proxy, however they interleave.  And as long as
\* there is one proxy only (link_edge looks for the ids in all graphs), a
\* workflow holds the edges its calls were told of and no others, so that no
\* drift path leads from one call into another.
RecordsOwn ==
  /\ \A c \in Calls : Arrived(c) /\ Alone(c) =>
       /\ Stored(action[c]) => InGraph(ActionNode(c, action[c]))
       /\ Stored(verification[c]) => InGraph(VerificationNode(c, verification[c]))
       /\ thinking[c] = "stored" => InGraph(ThinkingNode(c))
  /\ OneProxy =>
       \A f \in Flows :
         edges[f] = {Edge(c) : c \in {d \in Calls : flow[d] = f /\ edge[d] = "linked"}}

\* How often a node is listed in /audit/violations.
Listed(c, kind) ==
  Cardinality({i \in DOMAIN violations :
                 violations[i] = [graph |-> flow[c], node |-> Id(c, kind)]})

\* A call that a rule denied is listed exactly once when its record was accepted,
\* if its arguments could take the rule; one that the lists of tools denied never,
\* for it has no rule (evaluate_tool_call with capture_violation_if_needed).  A
\* call the policy permitted is listed under its verification exactly once if it
\* was refused with a score, and under its action only if it was refused and the
\* client itself named a rule.  A call let through is never listed.  As long as
\* there is one proxy only, /audit/violations/:id finds every violation: its id
\* names its node and not its workflow, and the first that bears it is taken.
BlocksListed ==
  /\ \A c \in Calls : Arrived(c) /\ Alone(c) =>
       /\ Stored(action[c]) /\ ~dec[c].allowed =>
            Listed(c, "Action") = IF dec[c].ruled /\ key[c] \notin NoObject THEN 1 ELSE 0
       /\ Stored(action[c]) /\ dec[c].allowed =>
            Listed(c, "Action") = IF verdict[c] # "Allow" /\ key[c] \in Marked THEN 1 ELSE 0
       /\ ~Stored(action[c]) => Listed(c, "Action") = 0
       /\ number[c]["Verification"] # 0 =>
            Listed(c, "Verification") = IF verification[c] = "Blocked" THEN 1 ELSE 0
  /\ OneProxy =>
       \A i, j \in DOMAIN violations : violations[i].node = violations[j].node => i = j

\* RULES.md:8: audit records must be emitted for allow and block outcomes.
OutcomesRecorded ==
  \A c \in Calls :
    pc[c] = "done" /\ Stored(action[c]) => InGraph(ActionNode(c, action[c]))
=============================================================================
