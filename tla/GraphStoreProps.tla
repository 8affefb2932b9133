--------------------------- MODULE GraphStoreProps ---------------------------
(***************************************************************************)
(* What the graph service must guarantee, stated over GraphStore.          *)
(***************************************************************************)
EXTENDS GraphStore, DriftPath

CONSTANT Thresholds  \* the thresholds a request for a drift path may name

\* Every variable has its type, and only a workflow with a graph has nodes.
TypeOK ==
  /\ now \in 0..MaxNow
  /\ live \subseteq Graphs
  /\ nodes \in [Graphs -> Seq(Nodes)]
  /\ edges \in [Graphs -> SUBSET (Ids \X Ids)]
  /\ touched \in [Graphs -> 0..MaxNow]
  /\ violations \in Seq(Violations)
  /\ loop \in {"flush", "cleanup"}
  /\ flushedAt \in 0..MaxNow
  /\ written \subseteq Graphs
  /\ disk \in [Graphs -> [nodes : Seq(Nodes), edges : SUBSET (Ids \X Ids)]]
  /\ reported \subseteq Violations
  /\ flushOk \in BOOLEAN /\ crashed \in {"never", "clean", "torn"}
  /\ \A g \in Graphs \ live : nodes[g] = <<>> /\ edges[g] = {}

-----------------------------------------------------------------------------
(* The graph                                                               *)

\* No sequence of inserts, repeated handoffs and links closes a cycle, in
\* memory or on disk (the roll-backs of insert_node and link_edge).
Acyclic ==
  \A g \in Graphs : /\ IsDag(nodes[g], edges[g])
                    /\ IsDag(disk[g].nodes, disk[g].edges)

\* An id stands for one node of its graph, so an edge, a violation and a drift
\* path by id are unambiguous (upsert_node's index).
IdsUnique ==
  \A g \in Graphs : \A i, j \in Indices(nodes[g]) :
    nodes[g][i].id = nodes[g][j].id => i = j

\* What was recorded about a workflow is not changed or forgotten as long as
\* its graph lives: not by a repeated id, a refused cycle or a flush.
RecordsKept ==
  [][\A g \in live \cap live' :
       /\ Len(nodes[g]) <= Len(nodes'[g])
       /\ \A i \in Indices(nodes[g]) : nodes'[g][i] = nodes[g][i]
       /\ edges[g] \subseteq edges'[g]]_vars

\* The service implements the abstract audit log: over any sequence of inserts,
\* repeats, links, refusals, expiries and restarts, a record is appended or
\* ignored, what is reported is what is stored as blocked then, and nothing of
\* a workflow is taken back while it lives (insert_node, link_edge,
\* cleanup_expired).
AbstractLog == INSTANCE AuditLog WITH
  Workflows <- Graphs, Records <- Nodes, Reportables <- {n \in Nodes : Reportable(n)},
  log <- nodes, links <- edges, reports <- violations
LogSpec == AbstractLog!Spec

\* Whatever nodes and edges a graph has and in whichever order they came, the
\* drift path of a node is its lineage: the root first, nothing twice, only
\* verifications below the threshold left out (get_drift_path).
DriftPathsSound ==
  \A g \in Graphs : \A i \in Indices(nodes[g]), threshold \in Thresholds :
    IsDriftPath(TraceDriftPath(nodes[g], edges[g], i, threshold),
                nodes[g], edges[g], i, threshold)

-----------------------------------------------------------------------------
(* Violations                                                              *)

Held == {violations[i] : i \in DOMAIN violations}
Violation(g, n) == [graph |-> g, node |-> n.id]

\* Every reportable node of a graph is among the violations, and one on disk is
\* among those held or those on disk, unless the service went down between a
\* flush that failed and the next: the graphs are written first.
BlockedReported ==
  \A g \in Graphs :
    /\ \A i \in Indices(nodes[g]) :
         Reportable(nodes[g][i]) => Violation(g, nodes[g][i]) \in Held
    /\ crashed # "torn" => \A i \in Indices(disk[g].nodes) :
         Reportable(disk[g].nodes[i])
           => Violation(g, disk[g].nodes[i]) \in Held \cup reported

\* A violation is only ever added for a node that is stored as blocked then,
\* even when a request reuses the id of a node that was allowed.
ViolationsGenuine ==
  [][\A k \in DOMAIN violations' \ DOMAIN violations :
       LET v == violations'[k]
       IN \E i \in Indices(nodes'[v.graph]) :
            /\ nodes'[v.graph][i].id = v.node
            /\ Reportable(nodes'[v.graph][i])]_vars

-----------------------------------------------------------------------------
(* Flush and cleanup                                                       *)

\* No graph is dropped but in the state it was written in, unless the flush before
\* failed and did not reach it: what arrives between the flush and the cleanup,
\* in a graph that was written or in a new one, renews the graph and keeps it
\* (main.rs takes the read lock for one and the write lock for the other).
Reached(g) == flushOk \/ g \in written
DropsAreFlushed ==
  [][Cleanup =>
       \A g \in live \ live' :
         Reached(g) => disk[g] = [nodes |-> nodes[g], edges |-> edges[g]]]_vars

\* Every node that was stored is written, unless a flush fails or the service
\* goes down: no graph is dropped before.
StoredIsFlushed ==
  \A n \in Nodes :
    (\E i \in Indices(nodes[n.graph]) : nodes[n.graph][i] = n)
      ~> \/ \E i \in Indices(disk[n.graph].nodes) : disk[n.graph].nodes[i] = n
         \/ ~flushOk \/ crashed # "never"
=============================================================================
