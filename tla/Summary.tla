------------------------------- MODULE Summary -------------------------------
(***************************************************************************)
(* slo_summary (graph/src/store.rs), what GET /audit/slo answers: how many *)
(* actions are stored and blocked, and the percentiles of the latencies of *)
(* the verifications, over all graphs.  It is read under the read lock, so *)
(* it is a function of a state of GraphStore.  The review queue and the    *)
(* actions that are pending are left out: the store's nodes do not tell    *)
(* them apart.                                                             *)
(***************************************************************************)
EXTENDS GraphStore, FiniteSetsExt

CONSTANT Latency  \* latency_ms of a node, 0 if it was not measured; only the summary reads it

ASSUME LatencyAssumption == Latency \in [Nodes -> Nat]

\* The nodes of all graphs, as pairs of a workflow and an index.
Stored == UNION {{<<g, i>> : i \in Indices(nodes[g])} : g \in live}
NodeAt(e) == nodes[e[1]][e[2]]
Actions == {e \in Stored : NodeAt(e).type = "Action"}
Blocked == {e \in Actions : NodeAt(e).blocked}
Sampled == {e \in Stored : NodeAt(e).type = "Verification" /\ Latency[NodeAt(e)] > 0}

\* The latencies of all samples, sorted.
Latencies ==
  LET n == Cardinality(Sampled)
      order == CHOOSE f \in [1..n -> Sampled] :
                 /\ IsInjective(f)
                 /\ \A j, k \in 1..n : j < k => Latency[NodeAt(f[j])] <= Latency[NodeAt(f[k])]
  IN [k \in 1..n |-> Latency[NodeAt(order[k])]]

\* percentile_ms: the rank is rounded up and counts from 1, the index of a slice
\* from 0.  Mutant: the rank is taken for the index.
PercentileMsShifted(sorted, percent) ==
  IF sorted = <<>> THEN 0
  ELSE LET rank == (percent * Len(sorted) + 99) \div 100
       IN sorted[Min({rank + 1, Len(sorted)})]
PercentileMs(sorted, percent) ==
  IF sorted = <<>> THEN 0
  ELSE LET rank == (percent * Len(sorted) + 99) \div 100
       IN sorted[Min({Max({rank, 1}), Len(sorted)})]

SloSummary ==
  [total |-> Cardinality(Actions), blocked |-> Cardinality(Blocked),
   ms |-> [percent \in {50, 95, 99} |-> PercentileMs(Latencies, percent)]]

-----------------------------------------------------------------------------
\* The reference: v is the least sample that percent of them do not exceed.
NearestRank(v, percent) ==
  LET upTo(P(_)) == Cardinality({e \in Sampled : P(Latency[NodeAt(e)])})
  IN /\ \E e \in Sampled : Latency[NodeAt(e)] = v
     /\ 100 * upTo(LAMBDA l : l <= v) >= percent * Cardinality(Sampled)
     /\ 100 * upTo(LAMBDA l : l < v) < percent * Cardinality(Sampled)

\* The actions as a reader of the graphs counts them: by workflow and id.
Named(P(_)) ==
  Cardinality({p \in live \X Ids :
    \E i \in Indices(nodes[p[1]]) : nodes[p[1]][i].id = p[2] /\ P(nodes[p[1]][i])})

\* In whatever order and however often nodes arrive, expire and are lost, the
\* summary counts each action by its id once and its percentiles are those of
\* the verifications stored by then, zero if there are none (get_slo_summary).
SummaryExact ==
  LET slo == SloSummary
  IN /\ slo.total = Named(LAMBDA n : n.type = "Action")
     /\ slo.blocked = Named(LAMBDA n : n.type = "Action" /\ n.blocked)
     /\ \A percent \in DOMAIN slo.ms :
          IF Sampled = {} THEN slo.ms[percent] = 0 ELSE NearestRank(slo.ms[percent], percent)
=============================================================================
