------------------------------ MODULE DriftPath ------------------------------
(***************************************************************************)
(* trace_drift_path (graph/src/algorithms.rs): from a node, back along the *)
(* incoming edge of the parent with the least index, as far as it goes.    *)
(* Verifications that score below the threshold are left out.  The path    *)
(* is a sequence of indices.                                               *)
(***************************************************************************)
EXTENDS CausalGraph

Parents(ns, es, i) == {p \in DOMAIN ns : <<ns[p].id, ns[i].id>> \in es}

\* Mutant: the parent with the greatest index.
LatestParent(ns, es, i) ==
  {p \in Parents(ns, es, i) : \A q \in Parents(ns, es, i) : q <= p}

\* The parent the walk goes to, if any.
EarliestParent(ns, es, i) ==
  {p \in Parents(ns, es, i) : \A q \in Parents(ns, es, i) : p <= q}

BelowThreshold(n, threshold) == n.type = "Verification" /\ n.score < threshold

\* collect_earliest_path, with each set of visited nodes and from each node.
CollectEarliestPath(ns, es, threshold) ==
  LET collect[visited \in SUBSET DOMAIN ns] ==
        [i \in DOMAIN ns |->
           IF i \in visited THEN <<>>
           ELSE LET up == EarliestParent(ns, es, i)
                    above == IF up = {} THEN <<>>
                             ELSE collect[visited \cup {i}][CHOOSE p \in up : TRUE]
                IN IF BelowThreshold(ns[i], threshold) THEN above ELSE Append(above, i)]
  IN collect

TraceDriftPath(ns, es, i, threshold) ==
  CollectEarliestPath(ns, es, threshold)[{}][i]

-----------------------------------------------------------------------------
\* The reference: i and every node it can be traced back to by always taking
\* the earliest parent, as the least set closed under that step.
Lineage(ns, es, i) ==
  LET closed(S) == \A k \in S : \A p \in Parents(ns, es, k) :
                     (\A q \in Parents(ns, es, k) : p <= q) => p \in S
  IN {j \in DOMAIN ns : \A S \in SUBSET (DOMAIN ns \ {j}) : i \in S => ~closed(S)}

\* p is the lineage of i from its root down, each node once and below the node
\* that led to it, without the verifications below the threshold.
IsDriftPath(p, ns, es, i, threshold) ==
  /\ {p[k] : k \in DOMAIN p} =
       {j \in Lineage(ns, es, i) : ~BelowThreshold(ns[j], threshold)}
  /\ \A k \in DOMAIN p :
       {p[l] : l \in (k + 1)..Len(p)} \cap Lineage(ns, es, p[k]) = {}
=============================================================================
