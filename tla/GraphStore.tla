----------------------------- MODULE GraphStore -----------------------------
(***************************************************************************)
(* The graph service: one causal graph per workflow, the violations it     *)
(* captures, and the loop that writes everything to JSONL files and then   *)
(* drops what has expired (graph/src/store.rs, ccg.rs, algorithms.rs,      *)
(* main.rs).                                                               *)
(*                                                                         *)
(* Every operation of the store runs under the write lock and is one step. *)
(* The loop flushes under the read lock, lets go of it, and cleans up      *)
(* under the write lock: operations come between the two.                  *)
(*                                                                         *)
(* A node is what a client sends: its id, its workflow, its type, its      *)
(* agent, whether it is blocked, whether its arguments name the rule that  *)
(* blocked it, and its score.  Edge types, parallel edges, texts and the   *)
(* snapshot inside a violation are left out.  A request that fails before  *)
(* it touches the store changes nothing and is not a step.                 *)
(***************************************************************************)
EXTENDS CausalGraph

CONSTANTS
  Graphs,         \* the workflow ids
  Ids,            \* the node ids
  Agents,         \* the agents
  Nodes,          \* the nodes clients may send
  Links,          \* the edges clients may send
  TTL,            \* ASTRAGRAPH_GRAPH_TTL_SECS, in ticks
  MaxGap,         \* bound on the time from a flush to its cleanup, in ticks
  MaxNow,         \* bound on the clock
  MaxViolations,  \* bound on the violations held
  DiskFails,      \* whether a flush may fail half-way
  Crashes         \* whether the service may crash and start again

ASSUME NodesAssumption ==
  Nodes \subseteq [id : Ids, graph : Graphs, type : NodeTypes, agent : Agents,
                   blocked : BOOLEAN, ruled : BOOLEAN, score : Int]
ASSUME LinksAssumption == Links \subseteq Ids \X Ids
ASSUME TimesAssumption ==
  /\ TTL \in Nat /\ MaxGap \in Nat /\ MaxNow \in Nat /\ MaxViolations \in Nat
  /\ MaxGap <= TTL

VARIABLES
  now,         \* the monotonic clock
  live,        \* the workflows that have a graph
  nodes,       \* per graph: its nodes in the order of their petgraph index
  edges,       \* per graph: its edges
  touched,     \* per graph: last_updated
  violations,  \* the violations captured, oldest first
  loop,        \* what the flush loop does next
  flushedAt,   \* when the loop last flushed (history)
  written,     \* the graphs the last flush wrote (history)
  disk,        \* per graph: the last line of its file
  reported,    \* the violations in violations.jsonl
  flushOk,     \* whether the last flush was complete (history)
  crashed      \* whether the service went down, and after a flush that was not (history)

store == <<live, nodes, edges, touched, violations>>
files == <<flushedAt, written, disk, reported, flushOk>>
vars == <<now, store, loop, files, crashed>>

Violations == [graph : Graphs, node : Ids]
NoFile == [nodes |-> <<>>, edges |-> {}]

Init ==
  /\ now = 0
  /\ live = {}
  /\ nodes = [g \in Graphs |-> <<>>]
  /\ edges = [g \in Graphs |-> {}]
  /\ touched = [g \in Graphs |-> 0]
  /\ violations = <<>>
  /\ loop = "flush"
  /\ flushedAt = 0
  /\ written = {}
  /\ disk = [g \in Graphs |-> NoFile]
  /\ reported = {}
  /\ flushOk = TRUE
  /\ crashed = "never"

-----------------------------------------------------------------------------
(* Requests                                                                *)

\* The nodes capture_violation_if_needed records: blocked verifications, and
\* blocked actions that name their rule.
Reportable(n) ==
  /\ n.blocked
  /\ n.type = "Verification" \/ (n.type = "Action" /\ n.ruled)

\* It looks the node up by its id.  Mutant: it trusts the node just received.
CaptureReceived(g, ns, n) ==
  IF Reportable(n) THEN Append(violations, [graph |-> g, node |-> n.id])
  ELSE violations

Capture(g, ns, n) ==
  IF \E i \in Indices(ns) : ns[i].id = n.id /\ Reportable(ns[i])
  THEN Append(violations, [graph |-> g, node |-> n.id])
  ELSE violations

\* Mutant: the graph is not checked for cycles after a handoff was linked.
InsertUnchecked(n) ==
  LET g == n.graph
      ns == Upsert(nodes[g], n)
      es == edges[g] \cup HandoffEdge(ns, n)
  IN /\ Len(Capture(g, ns, n)) <= MaxViolations
     /\ live' = live \cup {g}
     /\ nodes' = [nodes EXCEPT ![g] = ns]
     /\ edges' = [edges EXCEPT ![g] = es]
     /\ touched' = [touched EXCEPT ![g] = now]
     /\ violations' = Capture(g, ns, n)
     /\ UNCHANGED <<now, loop, files, crashed>>

\* Mutant: an insert into a live graph does not renew it.
InsertStale(n) ==
  LET g == n.graph
      ns == Upsert(nodes[g], n)
      es == edges[g] \cup HandoffEdge(ns, n)
  IN /\ IsDag(ns, es)
     /\ Len(Capture(g, ns, n)) <= MaxViolations
     /\ live' = live \cup {g}
     /\ nodes' = [nodes EXCEPT ![g] = ns]
     /\ edges' = [edges EXCEPT ![g] = es]
     /\ touched' = IF g \in live THEN touched ELSE [touched EXCEPT ![g] = now]
     /\ violations' = Capture(g, ns, n)
     /\ UNCHANGED <<now, loop, files, crashed>>

\* insert_node.  When the handoff closes a cycle the previous graph is put
\* back and nothing has changed; then its workflow was live already, for a
\* graph of one node has no cycle.
Insert(n) ==
  LET g == n.graph
      ns == Upsert(nodes[g], n)
      es == edges[g] \cup HandoffEdge(ns, n)
  IN /\ IsDag(ns, es)
     /\ Len(Capture(g, ns, n)) <= MaxViolations
     /\ live' = live \cup {g}
     /\ nodes' = [nodes EXCEPT ![g] = ns]
     /\ edges' = [edges EXCEPT ![g] = es]
     /\ touched' = [touched EXCEPT ![g] = now]
     /\ violations' = Capture(g, ns, n)
     /\ UNCHANGED <<now, loop, files, crashed>>

\* insert_node on a node without a payload: the error comes after the workflow
\* got its graph.
InsertInvalid(g) ==
  /\ g \notin live
  /\ live' = live \cup {g}
  /\ touched' = [touched EXCEPT ![g] = now]
  /\ UNCHANGED <<now, nodes, edges, violations, loop, files, crashed>>

\* link_edge, when the graph it finds holds both ends and stays acyclic.  It
\* takes any graph that holds one of the ends, so where two graphs do, the
\* edge may also be refused.
LinkEdge(g, e) ==
  /\ Holds(nodes[g], e[1]) /\ Holds(nodes[g], e[2])
  /\ IsDag(nodes[g], edges[g] \cup {e})
  /\ edges' = [edges EXCEPT ![g] = @ \cup {e}]
  /\ touched' = [touched EXCEPT ![g] = now]
  /\ UNCHANGED <<now, live, nodes, violations, loop, files, crashed>>

-----------------------------------------------------------------------------
(* The loop                                                                *)

ReportedViolations(k) == {violations[i] : i \in {j \in DOMAIN violations : j <= k}}

\* What a flush that got as far as the graphs S and k violations leaves.
Write(S, k) ==
  /\ written' = S
  /\ disk' = [g \in Graphs |-> IF g \in S THEN [nodes |-> nodes[g], edges |-> edges[g]]
                               ELSE disk[g]]
  /\ reported' = reported \cup ReportedViolations(k)

\* Mutants: the violations are forgotten; graphs about to expire are skipped.
FlushGraphsOnly ==
  /\ loop = "flush"
  /\ Write(live, 0)
  /\ loop' = "cleanup" /\ flushedAt' = now /\ flushOk' = TRUE
  /\ UNCHANGED <<now, store, crashed>>
FlushFresh ==
  /\ loop = "flush"
  /\ Write({g \in live : now - touched[g] <= TTL}, Len(violations))
  /\ loop' = "cleanup" /\ flushedAt' = now /\ flushOk' = TRUE
  /\ UNCHANGED <<now, store, crashed>>

\* flush_to_disk: every graph, then every violation.
Flush ==
  /\ loop = "flush"
  /\ Write(live, Len(violations))
  /\ loop' = "cleanup" /\ flushedAt' = now /\ flushOk' = TRUE
  /\ UNCHANGED <<now, store, crashed>>

\* An I/O error ends the flush; the graphs come in the order of a HashMap, the
\* violations after them.  The loop ignores the error and goes on.
FlushError ==
  /\ DiskFails
  /\ loop = "flush"
  /\ \/ \E S \in SUBSET live : Write(S, 0)
     \/ \E k \in DOMAIN violations : Write(live, k - 1)
  /\ loop' = "cleanup" /\ flushedAt' = now /\ flushOk' = FALSE
  /\ UNCHANGED <<now, store, crashed>>

Expired(g) == now - touched[g] > TTL

\* Mutant: the nodes are left behind.
CleanupEdges ==
  LET kept == {g \in live : ~Expired(g)}
  IN /\ loop = "cleanup"
     /\ live' = kept
     /\ edges' = [g \in Graphs |-> IF g \in kept THEN edges[g] ELSE {}]
     /\ loop' = "flush"
     /\ UNCHANGED <<now, nodes, touched, violations, files, crashed>>

\* cleanup_expired.
Cleanup ==
  LET kept == {g \in live : ~Expired(g)}
  IN /\ loop = "cleanup"
     /\ live' = kept
     /\ nodes' = [g \in Graphs |-> IF g \in kept THEN nodes[g] ELSE <<>>]
     /\ edges' = [g \in Graphs |-> IF g \in kept THEN edges[g] ELSE {}]
     /\ loop' = "flush"
     /\ UNCHANGED <<now, touched, violations, files, crashed>>

-----------------------------------------------------------------------------
(* The world                                                               *)

\* The service dies and starts again with an empty store; it never reads the
\* files.
Crash ==
  /\ Crashes
  /\ live' = {}
  /\ nodes' = [g \in Graphs |-> <<>>]
  /\ edges' = [g \in Graphs |-> {}]
  /\ violations' = <<>>
  /\ loop' = "flush"
  /\ crashed' = IF crashed = "torn" \/ ~flushOk THEN "torn" ELSE "clean"
  /\ UNCHANGED <<now, touched, files>>

Tick ==
  /\ now < MaxNow
  /\ loop = "cleanup" => now - flushedAt < MaxGap
  /\ now' = now + 1
  /\ UNCHANGED <<store, loop, files, crashed>>

-----------------------------------------------------------------------------
Next ==
  \/ \E n \in Nodes : Insert(n)
  \/ \E g \in Graphs : InsertInvalid(g)
  \/ \E g \in Graphs, e \in Links : LinkEdge(g, e)
  \/ Flush \/ FlushError \/ Cleanup
  \/ Crash \/ Tick

Spec == Init /\ [][Next]_vars

\* The loop is driven by a tokio interval and its errors do not end it.
LiveSpec == Spec /\ WF_vars(Flush) /\ WF_vars(Cleanup)
=============================================================================
