----------------------------- MODULE CausalGraph -----------------------------
(***************************************************************************)
(* The causal graph of one workflow (graph/src/ccg.rs) and the operations  *)
(* of graph/src/algorithms.rs that change it.  It is a sequence of nodes,  *)
(* in the order of their petgraph index, and a set of edges between ids.   *)
(***************************************************************************)
EXTENDS Integers, Sequences

NodeTypes == {"Thinking", "Action", "Handoff", "Verification"}

Indices(ns) == DOMAIN ns
IdsOf(ns) == {ns[i].id : i \in Indices(ns)}
Holds(ns, id) == id \in IdsOf(ns)

\* upsert_node: a node whose id is known is not stored again, nor changed.
\* Mutant: it replaces the stored one.
UpsertReplacing(ns, n) ==
  IF Holds(ns, n.id) THEN [i \in Indices(ns) |-> IF ns[i].id = n.id THEN n ELSE ns[i]]
  ELSE Append(ns, n)

Upsert(ns, n) == IF Holds(ns, n.id) THEN ns ELSE Append(ns, n)

\* latest_action_node: the agent's action with the greatest index, if any.
LatestAction(ns, agent) ==
  {i \in Indices(ns) :
     /\ ns[i].type = "Action" /\ ns[i].agent = agent
     /\ \A j \in Indices(ns) :
          ns[j].type = "Action" /\ ns[j].agent = agent => j <= i}

\* link_handoff: the edge from that action to a handoff.
HandoffEdge(ns, n) ==
  IF n.type = "Handoff" THEN {<<ns[i].id, n.id>> : i \in LatestAction(ns, n.agent)}
  ELSE {}

\* validate_dag: toposort succeeds unless some nodes all have an edge from one
\* another.
IsDag(ns, es) ==
  ~ \E S \in SUBSET IdsOf(ns) :
      S # {} /\ \A b \in S : \E a \in S : <<a, b>> \in es
=============================================================================
