-------------------------- MODULE GraphStoreProofs --------------------------
(***************************************************************************)
(* Theorems about GraphStore, for every set of workflows, nodes and edges  *)
(* a client may send, every value of the times and every latency.          *)
(***************************************************************************)
EXTENDS GraphStoreProps, Summary, FiniteSetTheorems, FunctionTheorems,
        WellFoundedInduction, TLAPS

USE NodesAssumption, LinksAssumption, TimesAssumption

-----------------------------------------------------------------------------
(* The causal graph                                                        *)

\* A node is stored at the end, or not at all when its id is known.
LEMMA UpsertExtends ==
  ASSUME NEW ns \in Seq(Nodes), NEW n \in Nodes
  PROVE  /\ Upsert(ns, n) \in Seq(Nodes)
         /\ Len(ns) <= Len(Upsert(ns, n))
         /\ \A i \in DOMAIN ns : i \in DOMAIN Upsert(ns, n) /\ Upsert(ns, n)[i] = ns[i]
         /\ \A i \in DOMAIN Upsert(ns, n) \ DOMAIN ns :
              Upsert(ns, n)[i] = n /\ ~Holds(ns, n.id)
<1>1. CASE Holds(ns, n.id)
  BY <1>1 DEF Upsert
<1>2. CASE ~Holds(ns, n.id)
  BY <1>2 DEF Upsert
<1>. QED
  BY <1>1, <1>2

\* The edge of a handoff joins ids.
LEMMA HandoffEdgeType ==
  ASSUME NEW ns \in Seq(Nodes), NEW n \in Nodes
  PROVE  HandoffEdge(ns, n) \subseteq Ids \X Ids
<1>1. \A i \in DOMAIN ns : ns[i].id \in Ids
  OBVIOUS
<1>2. \A i \in LatestAction(ns, n.agent) : i \in DOMAIN ns
  BY DEF LatestAction, Indices
<1>3. n.id \in Ids
  OBVIOUS
<1>. QED
  BY <1>1, <1>2, <1>3 DEF HandoffEdge

\* A graph without nodes holds nothing and has no cycle.
LEMMA EmptyGraph ==
  /\ \A id : ~Holds(<<>>, id)
  /\ IsDag(<<>>, {})
<1>1. IdsOf(<<>>) = {}
  BY DEF IdsOf, Indices
<1>. QED
  BY <1>1 DEF Holds, IsDag

\* A violation is appended, or nothing is.
LEMMA CaptureExtends ==
  ASSUME violations \in Seq(Violations),
         NEW g \in Graphs, NEW ns \in Seq(Nodes), NEW n \in Nodes
  PROVE  /\ Capture(g, ns, n) \in Seq(Violations)
         /\ Capture(g, ns, n)
              \in {violations, Append(violations, [graph |-> g, node |-> n.id])}
<1>1. [graph |-> g, node |-> n.id] \in Violations
  BY DEF Violations
<1>. QED
  BY <1>1 DEF Capture

-----------------------------------------------------------------------------
(* Type correctness                                                        *)

LEMMA StoreTypeInit == Init => TypeOK
<1>1. <<>> \in Seq(Nodes) /\ <<>> \in Seq(Violations)
  OBVIOUS
<1>2. NoFile \in [nodes : Seq(Nodes), edges : SUBSET (Ids \X Ids)]
  BY <1>1 DEF NoFile
<1> SUFFICES ASSUME Init PROVE TypeOK
  OBVIOUS
<1>3. flushOk \in BOOLEAN /\ crashed \in {"never", "clean", "torn"}
  BY DEF Init
<1>. QED
  BY <1>1, <1>2, <1>3 DEF Init, TypeOK

LEMMA StoreTypeStep == TypeOK /\ [Next]_vars => TypeOK'
<1> SUFFICES ASSUME TypeOK, [Next]_vars PROVE TypeOK'
  OBVIOUS
<1> USE DEF TypeOK, files
<1>1. ASSUME NEW n \in Nodes, Insert(n) PROVE TypeOK'
  <2> DEFINE g == n.graph
             ns == Upsert(nodes[g], n)
  <2>1. g \in Graphs /\ nodes[g] \in Seq(Nodes)
    OBVIOUS
  <2>2. ns \in Seq(Nodes)
    BY <2>1, UpsertExtends
  <2>3. HandoffEdge(ns, n) \subseteq Ids \X Ids
    BY <2>2, HandoffEdgeType
  <2>4. Capture(g, ns, n) \in Seq(Violations)
    BY <2>1, <2>2, CaptureExtends
  <2> HIDE DEF ns
  <2>5. /\ nodes' = [nodes EXCEPT ![g] = ns]
        /\ edges' = [edges EXCEPT ![g] = edges[g] \cup HandoffEdge(ns, n)]
        /\ violations' = Capture(g, ns, n)
        /\ live' = live \cup {g}
        /\ touched' = [touched EXCEPT ![g] = now]
        /\ UNCHANGED <<now, loop, files, crashed>>
    BY <1>1 DEF Insert, ns
  <2> HIDE DEF g
  <2>. QED
    BY <2>1, <2>2, <2>3, <2>4, <2>5
<1>2. ASSUME NEW g \in Graphs, InsertInvalid(g) PROVE TypeOK'
  BY <1>2 DEF InsertInvalid
<1>3. ASSUME NEW g \in Graphs, NEW e \in Links, LinkEdge(g, e) PROVE TypeOK'
  <2>1. g \in live
    BY <1>3, EmptyGraph DEF LinkEdge
  <2>. QED
    BY <1>3, <2>1 DEF LinkEdge
<1>4. ASSUME NEW S \in SUBSET live, NEW k, Write(S, k) PROVE
        /\ written' \subseteq Graphs /\ reported' \subseteq Violations
        /\ disk' \in [Graphs -> [nodes : Seq(Nodes), edges : SUBSET (Ids \X Ids)]]
  BY <1>4 DEF Write, ReportedViolations
<1>5. CASE Flush \/ FlushError
  BY <1>4, <1>5 DEF Flush, FlushError, store
<1>6. CASE Cleanup
  BY <1>6 DEF Cleanup
<1>7. CASE Crash
  BY <1>7 DEF Crash
<1>8. CASE Tick
  BY <1>8 DEF Tick, store
<1>9. CASE UNCHANGED vars
  BY <1>9 DEF vars, store
<1>. QED
  BY <1>1, <1>2, <1>3, <1>5, <1>6, <1>7, <1>8, <1>9 DEF Next

\* Every reachable state is well typed.
THEOREM StoreTypeCorrect == Spec => []TypeOK
<1>. QED
  BY StoreTypeInit, StoreTypeStep, PTL DEF Spec

\* What insert_node does to its graph, in terms of one node appended or none.
LEMMA InsertCases ==
  ASSUME TypeOK, NEW n \in Nodes, Insert(n)
  PROVE  /\ n.graph \in Graphs /\ n.graph \in live'
         /\ live' = live \cup {n.graph}
         /\ nodes' = [nodes EXCEPT ![n.graph] = Upsert(nodes[n.graph], n)]
         /\ Upsert(nodes[n.graph], n) \in Seq(Nodes)
         /\ \A g \in Graphs \ {n.graph} : nodes'[g] = nodes[g] /\ edges'[g] = edges[g]
         /\ edges[n.graph] \subseteq edges'[n.graph]
         /\ nodes'[n.graph] = Upsert(nodes[n.graph], n)
         /\ IsDag(nodes'[n.graph], edges'[n.graph])
         /\ violations' = Capture(n.graph, nodes'[n.graph], n)
         /\ touched' = [touched EXCEPT ![n.graph] = now]
         /\ UNCHANGED <<now, loop, files, crashed>>
<1>1. n.graph \in Graphs /\ nodes[n.graph] \in Seq(Nodes)
  BY DEF TypeOK
<1>2. Upsert(nodes[n.graph], n) \in Seq(Nodes)
  BY <1>1, UpsertExtends
<1>. QED
  BY <1>1, <1>2 DEF Insert, TypeOK

\* Steps that leave every graph as it is, or empty it.
LEMMA QuietSteps ==
  ASSUME TypeOK,
         Flush \/ FlushError \/ Cleanup \/ Crash \/ Tick \/ UNCHANGED vars
           \/ \E g \in Graphs : InsertInvalid(g)
  PROVE  \A g \in Graphs :
           \/ nodes'[g] = nodes[g] /\ edges'[g] = edges[g]
           \/ nodes'[g] = <<>> /\ edges'[g] = {} /\ g \notin live'
BY DEF Flush, FlushError, Cleanup, Crash, Tick, InsertInvalid, vars, store, TypeOK

-----------------------------------------------------------------------------
(* Acyclic graphs                                                          *)

LEMMA AcyclicStep == TypeOK /\ Acyclic /\ [Next]_vars => Acyclic'
<1> SUFFICES ASSUME TypeOK, Acyclic, [Next]_vars, NEW b \in Graphs
             PROVE  /\ IsDag(nodes[b], edges[b])'
                    /\ IsDag(disk[b].nodes, disk[b].edges)'
  BY DEF Acyclic
<1>0. IsDag(nodes[b], edges[b]) /\ IsDag(disk[b].nodes, disk[b].edges)
  BY DEF Acyclic
<1>1. IsDag(nodes[b], edges[b])'
  <2>1. ASSUME NEW n \in Nodes, Insert(n) PROVE IsDag(nodes[b], edges[b])'
    <3>1. CASE b = n.graph
      BY <2>1, <3>1, InsertCases
    <3>2. CASE b # n.graph
      BY <1>0, <2>1, <3>2, InsertCases
    <3>. QED
      BY <3>1, <3>2
  <2>2. ASSUME NEW g \in Graphs, NEW e \in Links, LinkEdge(g, e)
        PROVE  IsDag(nodes[b], edges[b])'
    BY <1>0, <2>2 DEF LinkEdge, TypeOK
  <2>3. CASE Flush \/ FlushError \/ Cleanup \/ Crash \/ Tick \/ UNCHANGED vars
               \/ \E g \in Graphs : InsertInvalid(g)
    BY <1>0, <2>3, QuietSteps, EmptyGraph
  <2>. QED
    BY <2>1, <2>2, <2>3 DEF Next
<1>2. IsDag(disk[b].nodes, disk[b].edges)'
  <2>1. CASE Flush \/ FlushError
    <3>1. \/ disk'[b] = disk[b]
          \/ disk'[b] = [nodes |-> nodes[b], edges |-> edges[b]]
      BY <2>1 DEF Flush, FlushError, Write
    <3>. QED
      BY <1>0, <3>1
  <2>2. CASE UNCHANGED disk
    BY <1>0, <2>2
  <2>. QED
    BY <2>1, <2>2 DEF Next, Insert, InsertInvalid, LinkEdge, Cleanup, Crash, Tick,
       files, vars
<1>. QED
  BY <1>1, <1>2

\* No sequence of requests, flushes and failures closes a cycle, in memory or
\* on disk.
THEOREM AcyclicCorrect == Spec => []Acyclic
<1>1. Init => Acyclic
  <2> SUFFICES ASSUME Init, NEW g \in Graphs
               PROVE  IsDag(nodes[g], edges[g]) /\ IsDag(disk[g].nodes, disk[g].edges)
    BY DEF Acyclic
  <2>1. /\ nodes[g] = <<>> /\ edges[g] = {}
        /\ disk[g].nodes = <<>> /\ disk[g].edges = {}
    BY DEF Init, NoFile
  <2>. QED
    BY <2>1, EmptyGraph
<1>. QED
  BY <1>1, AcyclicStep, StoreTypeCorrect, PTL DEF Spec

-----------------------------------------------------------------------------
(* Unique ids, and records that are kept                                   *)

\* Upsert does not repeat an id.
LEMMA UpsertUnique ==
  ASSUME NEW ns \in Seq(Nodes), NEW n \in Nodes,
         \A i, j \in DOMAIN ns : ns[i].id = ns[j].id => i = j
  PROVE  \A i, j \in DOMAIN Upsert(ns, n) :
           Upsert(ns, n)[i].id = Upsert(ns, n)[j].id => i = j
<1>1. CASE Holds(ns, n.id)
  BY <1>1 DEF Upsert
<1>2. CASE ~Holds(ns, n.id)
  <2>1. \A i \in DOMAIN ns : ns[i].id # n.id
    BY <1>2 DEF Holds, IdsOf, Indices
  <2>. QED
    BY <1>2, <2>1 DEF Upsert
<1>. QED
  BY <1>1, <1>2

LEMMA IdsUniqueStep == TypeOK /\ IdsUnique /\ [Next]_vars => IdsUnique'
<1> SUFFICES ASSUME TypeOK, IdsUnique, [Next]_vars, NEW b \in Graphs
             PROVE  \A i, j \in DOMAIN nodes'[b] :
                      nodes'[b][i].id = nodes'[b][j].id => i = j
  BY DEF IdsUnique, Indices
<1>0. \A i, j \in DOMAIN nodes[b] : nodes[b][i].id = nodes[b][j].id => i = j
  BY DEF IdsUnique, Indices
<1>1. ASSUME NEW n \in Nodes, Insert(n) PROVE nodes'[b] = nodes[b] \/ nodes'[b] = Upsert(nodes[b], n)
  BY <1>1, InsertCases
<1>2. ASSUME NEW g \in Graphs, NEW e \in Links, LinkEdge(g, e)
      PROVE  nodes'[b] = nodes[b]
  BY <1>2 DEF LinkEdge
<1>3. \/ nodes'[b] = nodes[b] \/ nodes'[b] = <<>>
      \/ \E n \in Nodes : nodes'[b] = Upsert(nodes[b], n)
  BY <1>1, <1>2, QuietSteps DEF Next
<1>4. nodes[b] \in Seq(Nodes)
  BY DEF TypeOK
<1>5. ASSUME NEW n \in Nodes, nodes'[b] = Upsert(nodes[b], n)
      PROVE  \A i, j \in DOMAIN nodes'[b] : nodes'[b][i].id = nodes'[b][j].id => i = j
  BY <1>0, <1>4, <1>5, UpsertUnique
<1>. QED
  BY <1>0, <1>3, <1>5

\* An id stands for one node of its graph.
THEOREM IdsUniqueCorrect == Spec => []IdsUnique
<1>1. Init => IdsUnique
  BY DEF Init, IdsUnique, Indices
<1>. QED
  BY <1>1, IdsUniqueStep, StoreTypeCorrect, PTL DEF Spec

LEMMA KeepsRecords ==
  ASSUME TypeOK, [Next]_vars, NEW b \in live \cap live'
  PROVE  /\ Len(nodes[b]) <= Len(nodes'[b])
         /\ \A i \in Indices(nodes[b]) : nodes'[b][i] = nodes[b][i]
         /\ edges[b] \subseteq edges'[b]
<1>0. b \in Graphs /\ nodes[b] \in Seq(Nodes)
  BY DEF TypeOK
<1>1. ASSUME NEW n \in Nodes, Insert(n)
      PROVE  nodes'[b] \in {nodes[b], Upsert(nodes[b], n)} /\ edges[b] \subseteq edges'[b]
  <2>1. CASE b = n.graph
    BY <1>1, <2>1, InsertCases
  <2>2. CASE b # n.graph
    BY <1>0, <1>1, <2>2, InsertCases
  <2>. QED
    BY <2>1, <2>2
<1>2. ASSUME NEW n \in Nodes
      PROVE  /\ Len(nodes[b]) <= Len(Upsert(nodes[b], n))
             /\ \A i \in DOMAIN nodes[b] : Upsert(nodes[b], n)[i] = nodes[b][i]
  BY <1>0, UpsertExtends
<1>3. Len(nodes[b]) <= Len(nodes[b])
  BY <1>0
<1>4. ASSUME NEW g \in Graphs, NEW e \in Links, LinkEdge(g, e)
      PROVE  nodes'[b] = nodes[b] /\ edges[b] \subseteq edges'[b]
  BY <1>0, <1>4 DEF LinkEdge, TypeOK
<1>5. CASE \E n \in Nodes : Insert(n)
  BY <1>1, <1>2, <1>3, <1>5 DEF Indices
<1>6. CASE \E g \in Graphs, e \in Links : LinkEdge(g, e)
  BY <1>3, <1>4, <1>6
<1>7. CASE Flush \/ FlushError \/ Cleanup \/ Crash \/ Tick \/ UNCHANGED vars
             \/ \E g \in Graphs : InsertInvalid(g)
  BY <1>0, <1>3, <1>7, QuietSteps
<1>. QED
  BY <1>5, <1>6, <1>7 DEF Next

\* What was recorded about a workflow is kept as long as its graph lives.
THEOREM RecordsKeptCorrect == Spec => RecordsKept
<1>1. TypeOK /\ [Next]_vars
        => [\A g \in live \cap live' :
              /\ Len(nodes[g]) <= Len(nodes'[g])
              /\ \A i \in Indices(nodes[g]) : nodes'[g][i] = nodes[g][i]
              /\ edges[g] \subseteq edges'[g]]_vars
  BY KeepsRecords
<1>. QED
  BY <1>1, StoreTypeCorrect, PTL DEF Spec, RecordsKept

-----------------------------------------------------------------------------
(* Violations                                                              *)

LEMMA GenuineStep ==
  ASSUME TypeOK, [Next]_vars, NEW k \in DOMAIN violations' \ DOMAIN violations
  PROVE  \E i \in Indices(nodes'[violations'[k].graph]) :
           /\ nodes'[violations'[k].graph][i].id = violations'[k].node
           /\ Reportable(nodes'[violations'[k].graph][i])
<1>1. PICK n \in Nodes : Insert(n)
  <2>1. CASE Crash
    BY <2>1 DEF Crash
  <2>2. CASE UNCHANGED violations
    BY <2>2
  <2>. QED
    BY <2>1, <2>2 DEF Next, InsertInvalid, LinkEdge, Flush, FlushError, Cleanup,
       Tick, vars, store
<1> DEFINE g == n.graph
           ns == nodes'[g]
<1>2. violations' = Capture(g, ns, n) /\ g \in Graphs /\ violations \in Seq(Violations)
  BY <1>1, InsertCases DEF TypeOK
<1>3. /\ \E i \in Indices(ns) : ns[i].id = n.id /\ Reportable(ns[i])
      /\ violations' = Append(violations, [graph |-> g, node |-> n.id])
  BY <1>2 DEF Capture
<1>4. violations'[k] = [graph |-> g, node |-> n.id]
  BY <1>2, <1>3
<1>. QED
  BY <1>3, <1>4

\* A violation is only ever added for a node stored as blocked.
THEOREM ViolationsGenuineCorrect == Spec => ViolationsGenuine
<1>1. TypeOK /\ [Next]_vars
        => [\A k \in DOMAIN violations' \ DOMAIN violations :
              LET v == violations'[k]
              IN \E i \in Indices(nodes'[v.graph]) :
                   /\ nodes'[v.graph][i].id = v.node
                   /\ Reportable(nodes'[v.graph][i])]_vars
  BY GenuineStep
<1>. QED
  BY <1>1, StoreTypeCorrect, PTL DEF Spec, ViolationsGenuine

\* BlockedReported is not inductive: a crash forgets the violations held, so
\* after a complete flush those of the disk must all be in the file.
BlockedIn(ns, g, where) ==
  \A i \in DOMAIN ns : Reportable(ns[i]) => Violation(g, ns[i]) \in where

ReportedInv ==
  \A g \in Graphs :
    /\ BlockedIn(nodes[g], g, Held)
    /\ crashed # "torn" => BlockedIn(disk[g].nodes, g, Held \cup reported)
    /\ crashed # "torn" /\ flushOk => BlockedIn(disk[g].nodes, g, reported)

\* Insert reports the node it stores, and forgets no violation.
LEMMA InsertReports ==
  ASSUME TypeOK, ReportedInv, NEW n \in Nodes, Insert(n)
  PROVE  /\ Held \subseteq Held'
         /\ \A g \in Graphs : BlockedIn(nodes'[g], g, Held')
<1> DEFINE h == n.graph
           ns == nodes'[h]
<1>1. /\ h \in Graphs /\ nodes[h] \in Seq(Nodes) /\ violations \in Seq(Violations)
      /\ violations' = Capture(h, ns, n)
      /\ ns = Upsert(nodes[h], n) /\ ns \in Seq(Nodes)
      /\ \A g \in Graphs \ {h} : nodes'[g] = nodes[g]
  BY InsertCases DEF TypeOK
<1>2. violations' \in {violations, Append(violations, [graph |-> h, node |-> n.id])}
  BY <1>1, CaptureExtends
<1>3. Held \subseteq Held'
  <2>0. violations \in Seq(Violations)
    BY <1>1
  <2>1. ASSUME NEW j \in DOMAIN violations, NEW v
        PROVE  /\ j \in DOMAIN Append(violations, v)
               /\ Append(violations, v)[j] = violations[j]
    BY <2>0
  <2>2. \A j \in DOMAIN violations :
          j \in DOMAIN violations' /\ violations'[j] = violations[j]
    BY <1>2, <2>1
  <2>. QED
    BY <2>2 DEF Held
<1>4. /\ \A i \in DOMAIN nodes[h] : ns[i] = nodes[h][i]
      /\ \A i \in DOMAIN ns \ DOMAIN nodes[h] : ns[i] = n
  <2>1. nodes[h] \in Seq(Nodes) /\ ns \in {nodes[h], Append(nodes[h], n)}
    BY <1>1 DEF Upsert
  <2>2. \A i \in DOMAIN nodes[h] : Append(nodes[h], n)[i] = nodes[h][i]
    BY <2>1
  <2>3. \A i \in DOMAIN Append(nodes[h], n) \ DOMAIN nodes[h] : Append(nodes[h], n)[i] = n
    BY <2>1
  <2>. QED
    BY <2>1, <2>2, <2>3
<1>5. ASSUME NEW g \in Graphs PROVE BlockedIn(nodes[g], g, Held')
  BY <1>3 DEF ReportedInv, BlockedIn
<1>6. ASSUME NEW i \in DOMAIN ns, Reportable(ns[i])
      PROVE  Violation(h, ns[i]) \in Held'
  <2>1. CASE i \in DOMAIN nodes[h]
    BY <1>1, <1>4, <1>5, <1>6, <2>1 DEF BlockedIn
  <2>2. CASE i \notin DOMAIN nodes[h]
    <3>1. ns[i] = n
      BY <1>4, <1>6, <2>2
    <3>2. violations' = Append(violations, [graph |-> h, node |-> n.id])
      BY <1>1, <1>6, <3>1 DEF Capture, Indices
    <3>3. /\ Len(violations) + 1 \in DOMAIN violations'
          /\ violations'[Len(violations) + 1] = [graph |-> h, node |-> n.id]
      BY <1>1, <3>2
    <3>. QED
      BY <3>1, <3>3 DEF Violation, Held
  <2>. QED
    BY <2>1, <2>2
<1>7. BlockedIn(ns, h, Held')
  BY <1>6 DEF BlockedIn
<1> HIDE DEF h
<1>. QED
  BY <1>1, <1>3, <1>5, <1>7

\* What a flush writes and reports covers what it left on disk.
LEMMA FlushReports ==
  ASSUME TypeOK, ReportedInv, Flush \/ FlushError
  PROVE  ReportedInv'
<1>1. UNCHANGED <<nodes, violations, crashed>> /\ reported \subseteq reported'
  BY DEF Flush, FlushError, Write, store
<1>2. Held' = Held
  BY <1>1 DEF Held
<1>3. ASSUME NEW g \in Graphs
      PROVE  disk'[g].nodes = disk[g].nodes \/ disk'[g].nodes = nodes[g]
  BY DEF Flush, FlushError, Write
<1>4. ASSUME flushOk' PROVE Held \subseteq reported'
  <2>1. Flush /\ violations \in Seq(Violations)
    BY <1>4 DEF Flush, FlushError, TypeOK
  <2>. QED
    BY <2>1 DEF Flush, Write, ReportedViolations, Held
<1> SUFFICES ASSUME NEW g \in Graphs
             PROVE  /\ BlockedIn(nodes'[g], g, Held')
                    /\ crashed' # "torn" => BlockedIn(disk'[g].nodes, g, Held' \cup reported')
                    /\ crashed' # "torn" /\ flushOk' => BlockedIn(disk'[g].nodes, g, reported')
  BY DEF ReportedInv
<1>5. /\ BlockedIn(nodes[g], g, Held)
      /\ crashed # "torn" => BlockedIn(disk[g].nodes, g, Held \cup reported)
  BY DEF ReportedInv
<1>6. crashed # "torn" => BlockedIn(disk'[g].nodes, g, Held \cup reported')
  BY <1>1, <1>3, <1>5 DEF BlockedIn
<1>7. crashed # "torn" /\ flushOk' => BlockedIn(disk'[g].nodes, g, reported')
  BY <1>4, <1>6 DEF BlockedIn
<1>. QED
  BY <1>1, <1>2, <1>5, <1>6, <1>7

LEMMA ReportedStep == TypeOK /\ ReportedInv /\ [Next]_vars => ReportedInv'
<1> SUFFICES ASSUME TypeOK, ReportedInv, [Next]_vars PROVE ReportedInv'
  OBVIOUS
<1>1. ASSUME NEW n \in Nodes, Insert(n) PROVE ReportedInv'
  <2>1. UNCHANGED <<crashed, disk, reported, flushOk>>
    BY <1>1, InsertCases DEF files
  <2>. QED
    BY <1>1, <2>1, InsertReports DEF ReportedInv, BlockedIn
<1>2. CASE UNCHANGED <<nodes, violations, crashed, disk, reported, flushOk>>
  BY <1>2 DEF ReportedInv, Held
<1>3. CASE Flush \/ FlushError
  BY <1>3, FlushReports
<1>4. CASE Cleanup
  <2>1. /\ UNCHANGED <<violations, crashed, disk, reported, flushOk>>
        /\ \A g \in Graphs : nodes'[g] = nodes[g] \/ nodes'[g] = <<>>
    BY <1>4 DEF Cleanup, files
  <2>. QED
    BY <2>1 DEF ReportedInv, Held, BlockedIn
<1>5. CASE Crash
  <2>1. /\ UNCHANGED <<disk, reported, flushOk>>
        /\ \A g \in Graphs : nodes'[g] = <<>>
        /\ crashed' = IF crashed = "torn" \/ ~flushOk THEN "torn" ELSE "clean"
    BY <1>5 DEF Crash, files
  <2>2. ASSUME NEW g \in Graphs, NEW S
        PROVE  BlockedIn(nodes'[g], g, S)
    BY <2>1 DEF BlockedIn
  <2>3. ASSUME NEW g \in Graphs, crashed' # "torn"
        PROVE  BlockedIn(disk'[g].nodes, g, reported')
    BY <2>1, <2>3 DEF ReportedInv
  <2>. QED
    BY <2>2, <2>3 DEF ReportedInv, BlockedIn
<1>. QED
  BY <1>1, <1>2, <1>3, <1>4, <1>5
     DEF Next, InsertInvalid, LinkEdge, Tick, files, store, vars

\* Every blocked node is reported, in memory and, unless the service died
\* between a failed flush and the next, on disk.
THEOREM BlockedReportedCorrect == Spec => []BlockedReported
<1>1. Init => ReportedInv
  BY DEF Init, ReportedInv, BlockedIn, NoFile
<1>2. ReportedInv => BlockedReported
  BY DEF ReportedInv, BlockedIn, BlockedReported, Indices
<1>. QED
  BY <1>1, <1>2, ReportedStep, StoreTypeCorrect, PTL DEF Spec

-----------------------------------------------------------------------------
(* What a cleanup drops                                                    *)

OnDisk(g) == disk[g] = [nodes |-> nodes[g], edges |-> edges[g]]

\* From a flush to its cleanup, every graph but those that a failed flush did not
\* reach is on disk as it is, or was renewed or created since; and that time is
\* shorter than the TTL.
FlushedInv ==
  loop = "cleanup" =>
    /\ flushedAt <= now /\ now - flushedAt <= MaxGap
    /\ \A g \in live : Reached(g) => OnDisk(g) \/ touched[g] >= flushedAt

LEMMA FlushedStep == TypeOK /\ FlushedInv /\ [Next]_vars => FlushedInv'
<1> SUFFICES ASSUME TypeOK, FlushedInv, [Next]_vars PROVE FlushedInv'
  OBVIOUS
<1> USE DEF FlushedInv, OnDisk, Reached
<1>0. now \in Nat /\ flushedAt \in Nat
  BY DEF TypeOK
<1>1. ASSUME NEW n \in Nodes, Insert(n) PROVE FlushedInv'
  <2>1. /\ n.graph \in Graphs /\ live' = live \cup {n.graph}
        /\ touched' = [touched EXCEPT ![n.graph] = now]
        /\ \A g \in Graphs \ {n.graph} : nodes'[g] = nodes[g] /\ edges'[g] = edges[g]
        /\ UNCHANGED <<now, loop, flushedAt, written, flushOk, disk>>
    BY <1>1, InsertCases DEF files
  <2>. QED
    BY <1>0, <2>1 DEF TypeOK
<1>2. ASSUME NEW g \in Graphs, InsertInvalid(g) PROVE FlushedInv'
  BY <1>0, <1>2 DEF InsertInvalid, files, TypeOK
<1>3. ASSUME NEW g \in Graphs, NEW e \in Links, LinkEdge(g, e) PROVE FlushedInv'
  BY <1>0, <1>3 DEF LinkEdge, files, TypeOK
<1>4. CASE Flush \/ FlushError
  <2>1. /\ flushedAt' = now /\ now' = now /\ live' = live
        /\ \A g \in written' : g \in live /\ OnDisk(g)'
        /\ flushOk' => written' = live
    BY <1>4 DEF Flush, FlushError, Write, store, TypeOK
  <2>. QED
    BY <1>0, <2>1
<1>5. CASE Cleanup \/ Crash
  BY <1>5 DEF Cleanup, Crash
<1>6. CASE Tick
  BY <1>0, <1>6 DEF Tick, store, files
<1>7. CASE UNCHANGED vars
  BY <1>7 DEF vars, store, files
<1>. QED
  BY <1>1, <1>2, <1>3, <1>4, <1>5, <1>6, <1>7 DEF Next

LEMMA DropsStep ==
  ASSUME TypeOK, FlushedInv, Cleanup, NEW g \in live \ live', Reached(g)
  PROVE  OnDisk(g)
<1>1. Expired(g) /\ g \in Graphs
  BY DEF Cleanup, TypeOK
<1>2. touched[g] \in Nat /\ flushedAt \in Nat /\ now \in Nat
  BY <1>1 DEF TypeOK
<1>3. loop = "cleanup" /\ now - touched[g] > TTL
  BY <1>1 DEF Cleanup, Expired
<1>. QED
  BY <1>2, <1>3 DEF FlushedInv

\* A graph is dropped only in the state it was written in, unless the flush before
\* failed and did not reach it.
THEOREM DropsAreFlushedCorrect == Spec => DropsAreFlushed
<1>1. Init => FlushedInv
  BY DEF Init, FlushedInv
<1>2. TypeOK /\ FlushedInv
        => [Cleanup => \A g \in live \ live' :
              Reached(g) => disk[g] = [nodes |-> nodes[g], edges |-> edges[g]]]_vars
  BY DropsStep DEF OnDisk
<1>. QED
  BY <1>1, <1>2, FlushedStep, StoreTypeCorrect, PTL DEF Spec, DropsAreFlushed
-----------------------------------------------------------------------------
(* GraphStore implements AuditLog                                          *)

Due == {n \in Nodes : Reportable(n)}

\* After an insert the id is held, and the handoff edge joins held ids.
LEMMA InsertHolds ==
  ASSUME NEW ns \in Seq(Nodes), NEW n \in Nodes
  PROVE  /\ n.id \in IdsOf(Upsert(ns, n))
         /\ HandoffEdge(Upsert(ns, n), n)
              \subseteq IdsOf(Upsert(ns, n)) \X IdsOf(Upsert(ns, n))
<1> DEFINE us == Upsert(ns, n)
<1>1. n.id \in IdsOf(us)
  <2>1. CASE Holds(ns, n.id)
    BY <2>1 DEF Holds, Upsert
  <2>2. CASE ~Holds(ns, n.id)
    <3>1. us = Append(ns, n)
      BY <2>2 DEF Upsert
    <3>2. Len(ns) + 1 \in DOMAIN us /\ us[Len(ns) + 1] = n
      BY <3>1
    <3>. QED
      BY <3>2 DEF IdsOf, Indices
  <2>. QED
    BY <2>1, <2>2
<1>2. \A i \in LatestAction(us, n.agent) : us[i].id \in IdsOf(us)
  BY DEF LatestAction, IdsOf, Indices
<1>3. HandoffEdge(us, n) \subseteq IdsOf(us) \X IdsOf(us)
  BY <1>1, <1>2 DEF HandoffEdge
<1>. QED
  BY <1>1, <1>3

\* An insert is a record or a repeat of the log.
LEMMA InsertRefines ==
  ASSUME TypeOK, NEW n \in Nodes, Insert(n)
  PROVE  AbstractLog!Record(n) \/ AbstractLog!Repeat(n)
<1> DEFINE g == n.graph
           ns == Upsert(nodes[g], n)
<1>1. g \in Graphs /\ nodes[g] \in Seq(Nodes)
  BY DEF TypeOK
<1>2. ns \in Seq(Nodes)
  BY <1>1, UpsertExtends
<1>3. /\ nodes' = [nodes EXCEPT ![g] = ns]
      /\ edges' = [edges EXCEPT ![g] = edges[g] \cup HandoffEdge(ns, n)]
      /\ violations' = Capture(g, ns, n)
  BY DEF Insert
<1>4. nodes'[g] = ns /\ edges'[g] = edges[g] \cup HandoffEdge(ns, n)
  BY <1>1, <1>3 DEF TypeOK
<1>5. HandoffEdge(ns, n) \subseteq IdsOf(ns) \X IdsOf(ns)
  BY <1>1, InsertHolds
<1>6. AbstractLog!LinksGrow(g)
  <2>1. AbstractLog!IdsIn(nodes'[g]) = IdsOf(ns)
    BY <1>4 DEF AbstractLog!IdsIn, IdsOf, Indices
  <2> HIDE DEF g, ns
  <2>. QED
    BY <1>3, <1>4, <1>5, <2>1 DEF AbstractLog!LinksGrow
<1>7. AbstractLog!ReportIfDue(n)
  <2>1. \A i \in DOMAIN ns : ns[i] \in Due <=> Reportable(ns[i])
    BY <1>2 DEF Due
  <2>. QED
    BY <1>3, <1>4, <2>1 DEF AbstractLog!ReportIfDue, Capture, Indices, Due
<1>8. AbstractLog!Recorded(n) <=> Holds(nodes[g], n.id)
  BY DEF AbstractLog!Recorded, AbstractLog!IdsIn, Holds, IdsOf, Indices
<1>9. CASE Holds(nodes[g], n.id)
  <2>1. ns = nodes[g]
    BY <1>9 DEF Upsert
  <2>2. nodes' = nodes
    BY <1>1, <1>3, <2>1 DEF TypeOK
  <2>. QED
    BY <1>6, <1>7, <1>8, <1>9, <2>2 DEF AbstractLog!Repeat
<1>10. CASE ~Holds(nodes[g], n.id)
  <2>1. nodes' = [nodes EXCEPT ![g] = Append(nodes[g], n)]
    BY <1>3, <1>10 DEF Upsert
  <2>. QED
    BY <1>6, <1>7, <1>8, <1>10, <2>1 DEF AbstractLog!Record
<1>. QED
  BY <1>9, <1>10

\* Every step is a step of the log or leaves it alone.
LEMMA LogStep ==
  TypeOK /\ [Next]_vars => [AbstractLog!Next]_<<nodes, edges, violations>>
<1> SUFFICES ASSUME TypeOK, [Next]_vars
             PROVE  AbstractLog!Next \/ UNCHANGED <<nodes, edges, violations>>
  OBVIOUS
<1>1. ASSUME NEW n \in Nodes, Insert(n) PROVE AbstractLog!Next
  BY <1>1, InsertRefines DEF AbstractLog!Next
<1>2. ASSUME NEW g \in Graphs, NEW e \in Links, LinkEdge(g, e)
      PROVE  AbstractLog!Next
  <2>1. /\ edges' = [edges EXCEPT ![g] = edges[g] \cup {e}]
        /\ nodes' = nodes /\ violations' = violations
        /\ e[1] \in IdsOf(nodes[g]) /\ e[2] \in IdsOf(nodes[g])
    BY <1>2 DEF LinkEdge, Holds
  <2>2. edges'[g] = edges[g] \cup {e}
    BY <2>1 DEF TypeOK
  <2>3. e \in IdsOf(nodes[g]) \X IdsOf(nodes[g])
    BY <2>1
  <2>4. AbstractLog!LinksGrow(g)
    BY <2>1, <2>2, <2>3 DEF AbstractLog!LinksGrow, AbstractLog!IdsIn, IdsOf, Indices
  <2>. QED
    BY <2>1, <2>4 DEF AbstractLog!Next, AbstractLog!Link
<1>3. CASE Cleanup
  <2> DEFINE dropped == {g \in Graphs : g \notin live \/ Expired(g)}
  <2>1. /\ nodes' = [g \in Graphs |-> IF g \in dropped THEN <<>> ELSE nodes[g]]
        /\ edges' = [g \in Graphs |-> IF g \in dropped THEN {} ELSE edges[g]]
        /\ violations' = violations
    BY <1>3 DEF Cleanup
  <2> HIDE DEF dropped
  <2>2. AbstractLog!Forget(dropped)
    BY <2>1 DEF AbstractLog!Forget
  <2>3. dropped \in SUBSET Graphs
    BY DEF dropped
  <2>. QED
    BY <2>2, <2>3 DEF AbstractLog!Next
<1>4. CASE Crash
  BY <1>4 DEF Crash, AbstractLog!Next, AbstractLog!Restart
<1>5. ASSUME NEW g \in Graphs, InsertInvalid(g)
      PROVE  UNCHANGED <<nodes, edges, violations>>
  BY <1>5 DEF InsertInvalid
<1>6. CASE Flush \/ FlushError \/ Tick \/ UNCHANGED vars
  BY <1>6 DEF Flush, FlushError, Tick, store, vars
<1>. QED
  BY <1>1, <1>2, <1>3, <1>4, <1>5, <1>6 DEF Next

\* The graph service implements the abstract audit log, for any workflows,
\* nodes, edges and times (insert_node, link_edge, cleanup_expired, restarts).
THEOREM GraphStoreImplementsAuditLog == Spec => LogSpec
<1>1. Init => AbstractLog!Init
  BY DEF Init, AbstractLog!Init
<1>2. TypeOK /\ [Next]_vars => [AbstractLog!Next]_AbstractLog!vars
  BY LogStep DEF AbstractLog!vars
<1>. QED
  BY <1>1, <1>2, StoreTypeCorrect, PTL DEF Spec, LogSpec, AbstractLog!Spec
-----------------------------------------------------------------------------
(* Drift paths                                                             *)

\* A set of numbers has a least one.
LEMMA LeastExists ==
  ASSUME NEW I \in SUBSET Nat, I # {}
  PROVE  \E i \in I : \A j \in I : i <= j
<1>1. PICK i \in I : \A j \in I : ~(<<j, i>> \in OpToRel(<, Nat))
  BY NatLessThanWellFounded, WFMin, Zenon
<1> QED
  <2>1. \A j \in I : j < i => <<j, i>> \in OpToRel(<, Nat)
    BY DEF OpToRel
  <2>2. \A j \in I : ~(j < i) => i <= j
    OBVIOUS
  <2> QED
    BY <1>1, <2>1, <2>2

\* Every node is of its own lineage, which the step to the earliest parent does not
\* leave, and no set with both is smaller.
LEMMA LineageLeast ==
  ASSUME NEW ns, NEW es, NEW i \in DOMAIN ns
  PROVE  /\ i \in Lineage(ns, es, i) /\ Lineage(ns, es, i) \subseteq DOMAIN ns
         /\ \A j \in Lineage(ns, es, i) : EarliestParent(ns, es, j) \subseteq Lineage(ns, es, i)
         /\ \A S \in SUBSET DOMAIN ns :
              i \in S /\ (\A j \in S : EarliestParent(ns, es, j) \subseteq S)
                => Lineage(ns, es, i) \subseteq S
<1> DEFINE Closed(S) == \A j \in S : EarliestParent(ns, es, j) \subseteq S
<1>1. \A S : Closed(S) <=> \A k \in S : \A p \in Parents(ns, es, k) :
                             (\A q \in Parents(ns, es, k) : p <= q) => p \in S
  BY Zenon DEF EarliestParent
<1>2. Lineage(ns, es, i) =
        {j \in DOMAIN ns : \A S \in SUBSET (DOMAIN ns \ {j}) : i \in S => ~Closed(S)}
  <2> HIDE DEF Closed
  <2> QED
    BY <1>1, Zenon DEF Lineage
<1>3. i \in Lineage(ns, es, i) /\ Lineage(ns, es, i) \subseteq DOMAIN ns
  BY <1>2
<1>4. ASSUME NEW j \in Lineage(ns, es, i), NEW p \in EarliestParent(ns, es, j),
             p \notin Lineage(ns, es, i)
      PROVE  FALSE
  <2>1. p \in DOMAIN ns
    BY DEF EarliestParent, Parents
  <2>2. PICK S \in SUBSET (DOMAIN ns \ {p}) : i \in S /\ Closed(S)
    BY <1>2, <1>4, <2>1, Zenon
  <2>3. j \notin S
    BY <1>4, <2>2
  <2> QED
    BY <1>2, <2>2, <2>3
<1>5. ASSUME NEW S \in SUBSET DOMAIN ns, i \in S, Closed(S),
             NEW j \in Lineage(ns, es, i), j \notin S
      PROVE  FALSE
  BY <1>2, <1>5
<1> QED
  BY <1>3, <1>4, <1>5

\* The lineage of a node is that of its earliest parent and the node itself.
LEMMA LineageSteps ==
  ASSUME NEW ns, NEW es, NEW i \in DOMAIN ns
  PROVE  /\ EarliestParent(ns, es, i) = {} => Lineage(ns, es, i) = {i}
         /\ \A p : EarliestParent(ns, es, i) = {p} =>
              /\ p \in DOMAIN ns
              /\ Lineage(ns, es, i) = {i} \cup Lineage(ns, es, p)
         /\ \A j \in Lineage(ns, es, i) : Lineage(ns, es, j) \subseteq Lineage(ns, es, i)
<1>1. ASSUME EarliestParent(ns, es, i) = {}
      PROVE  Lineage(ns, es, i) = {i}
  <2>1. {i} \in SUBSET DOMAIN ns /\ \A j \in {i} : EarliestParent(ns, es, j) \subseteq {i}
    BY <1>1
  <2>2. Lineage(ns, es, i) \subseteq {i}
    BY <2>1, LineageLeast
  <2> QED
    BY <2>2, LineageLeast
<1>2. ASSUME NEW j \in Lineage(ns, es, i)
      PROVE  Lineage(ns, es, j) \subseteq Lineage(ns, es, i)
  BY LineageLeast
<1>3. ASSUME NEW p, EarliestParent(ns, es, i) = {p}
      PROVE  /\ p \in DOMAIN ns
             /\ Lineage(ns, es, i) = {i} \cup Lineage(ns, es, p)
  <2>1. p \in DOMAIN ns
    BY <1>3 DEF EarliestParent, Parents
  <2>2. p \in Lineage(ns, es, i) /\ i \in Lineage(ns, es, i)
    BY <1>3, LineageLeast
  <2>3. Lineage(ns, es, p) \subseteq Lineage(ns, es, i)
    BY <1>2, <2>2
  <2>4. PICK S : S = {i} \cup Lineage(ns, es, p)
    OBVIOUS
  <2>5. /\ S \in SUBSET DOMAIN ns /\ i \in S
        /\ \A j \in S : EarliestParent(ns, es, j) \subseteq S
    BY <1>3, <2>1, <2>4, LineageLeast
  <2>6. Lineage(ns, es, i) \subseteq S
    BY <2>5, LineageLeast
  <2> QED
    BY <2>1, <2>2, <2>3, <2>4, <2>6
<1> QED
  BY <1>1, <1>2, <1>3

\* There is one earliest parent, or none.
LEMMA EarliestIsOne ==
  ASSUME NEW R, NEW ns \in Seq(R), NEW es, NEW i, EarliestParent(ns, es, i) # {}
  PROVE  /\ EarliestParent(ns, es, i) = {CHOOSE p \in EarliestParent(ns, es, i) : TRUE}
         /\ \A p \in EarliestParent(ns, es, i) : <<ns[p].id, ns[i].id>> \in es
<1>1. ASSUME NEW p \in EarliestParent(ns, es, i), NEW q \in EarliestParent(ns, es, i)
      PROVE  p = q
  <2>1. p \in Nat /\ q \in Nat /\ p <= q /\ q <= p
    BY DEF EarliestParent, Parents
  <2> QED
    BY <2>1
<1>2. \A p \in EarliestParent(ns, es, i) : <<ns[p].id, ns[i].id>> \in es
  BY DEF EarliestParent, Parents
<1>3. (CHOOSE p \in EarliestParent(ns, es, i) : TRUE) \in EarliestParent(ns, es, i)
  OBVIOUS
<1> QED
  BY <1>1, <1>2, <1>3

\* In a graph without a cycle, no node is of the lineage of its parent.
LEMMA LineageLoopless ==
  ASSUME NEW R, NEW ns \in Seq(R), NEW es, IsDag(ns, es),
         NEW i \in DOMAIN ns, NEW p, EarliestParent(ns, es, i) = {p}
  PROVE  i \notin Lineage(ns, es, p)
<1> SUFFICES ASSUME i \in Lineage(ns, es, p)
             PROVE  FALSE
  OBVIOUS
<1>1. p \in DOMAIN ns
  BY LineageSteps
<1>2. PICK T : T = {j \in Lineage(ns, es, p) : i \in Lineage(ns, es, j)}
  OBVIOUS
<1>3. p \in T /\ T \subseteq DOMAIN ns
  BY <1>1, <1>2, LineageLeast
<1>4. ASSUME NEW j \in T
      PROVE  \E r \in T : <<ns[r].id, ns[j].id>> \in es
  <2>1. j \in DOMAIN ns /\ j \in Lineage(ns, es, p) /\ i \in Lineage(ns, es, j)
    BY <1>2, <1>3
  <2>2. CASE j = i
    BY <1>3, <2>2, EarliestIsOne
  <2>3. CASE j # i
    <3>1. EarliestParent(ns, es, j) # {}
      BY <2>1, <2>3, LineageSteps
    <3>2. PICK r : EarliestParent(ns, es, j) = {r}
      <4>1. EarliestParent(ns, es, j) = {CHOOSE q \in EarliestParent(ns, es, j) : TRUE}
        BY <3>1, EarliestIsOne
      <4> QED
        BY <4>1, Zenon
    <3>3. Lineage(ns, es, j) = {j} \cup Lineage(ns, es, r) /\ r \in DOMAIN ns
      BY <2>1, <3>2, LineageSteps
    <3>4. i \in Lineage(ns, es, r) /\ r \in Lineage(ns, es, p)
      BY <1>1, <2>1, <2>3, <3>2, <3>3, LineageLeast
    <3>5. <<ns[r].id, ns[j].id>> \in es
      BY <3>1, <3>2, EarliestIsOne
    <3> QED
      BY <1>2, <3>4, <3>5
  <2> QED
    BY <2>2, <2>3
<1>5. PICK S : S = {ns[j].id : j \in T}
  OBVIOUS
<1>6. S \in SUBSET IdsOf(ns) /\ S # {} /\ \A b \in S : \E a \in S : <<a, b>> \in es
  BY <1>3, <1>4, <1>5 DEF IdsOf, Indices
<1> QED
  BY <1>6 DEF IsDag

\* The path from a node, given those from all nodes with this one visited too.
PathFrom(next, ns, es, threshold, visited, i) ==
  IF i \in visited THEN <<>>
  ELSE LET up == EarliestParent(ns, es, i)
           above == IF up = {} THEN <<>> ELSE next[CHOOSE p \in up : TRUE]
       IN IF BelowThreshold(ns[i], threshold) THEN above ELSE Append(above, i)

\* The sets of visited nodes that leave fewer than n, and the paths for these.
Level(ns, n) == {visited \in SUBSET DOMAIN ns : Cardinality(DOMAIN ns \ visited) < n}
Collects(paths, level, ns, es, threshold) ==
  paths = [visited \in level |-> [i \in DOMAIN ns |->
             PathFrom(paths[visited \cup {i}], ns, es, threshold, visited, i)]]

LEMMA NodesFinite ==
  ASSUME NEW R, NEW ns \in Seq(R)
  PROVE  IsFiniteSet(DOMAIN ns)
<1>1. DOMAIN ns = 1..Len(ns) /\ Len(ns) \in Nat
  OBVIOUS
<1> QED
  BY <1>1, FS_Interval

\* A step of the walk leaves one node less.
LEMMA OneLessLeft ==
  ASSUME NEW R, NEW ns \in Seq(R), NEW visited \in SUBSET DOMAIN ns,
         NEW i \in DOMAIN ns \ visited
  PROVE  /\ visited \cup {i} \in SUBSET DOMAIN ns
         /\ Cardinality(DOMAIN ns \ visited) \in Nat
         /\ Cardinality(DOMAIN ns \ (visited \cup {i})) \in Nat
         /\ Cardinality(DOMAIN ns \ (visited \cup {i})) + 1 = Cardinality(DOMAIN ns \ visited)
<1>1. IsFiniteSet(DOMAIN ns)
  BY NodesFinite
<1>2. IsFiniteSet(DOMAIN ns \ visited)
  BY <1>1, FS_Difference
<1>3. DOMAIN ns \ (visited \cup {i}) = (DOMAIN ns \ visited) \ {i}
  OBVIOUS
<1>4. /\ Cardinality(DOMAIN ns \ visited) \in Nat
      /\ Cardinality((DOMAIN ns \ visited) \ {i}) = Cardinality(DOMAIN ns \ visited) - 1
      /\ Cardinality((DOMAIN ns \ visited) \ {i}) \in Nat
  <2>1. IsFiniteSet((DOMAIN ns \ visited) \ {i})
    BY <1>2, FS_Difference
  <2> QED
    BY <1>2, <2>1, FS_RemoveElement, FS_CardinalityType
<1>5. Cardinality(DOMAIN ns \ (visited \cup {i})) = Cardinality((DOMAIN ns \ visited) \ {i})
  BY <1>3, Zenon
<1> QED
  BY <1>4, <1>5

\* The recursion of collect_earliest_path ends: there are such paths for every level.
LEMMA PathsExist ==
  ASSUME NEW R, NEW ns \in Seq(R), NEW es, NEW threshold, NEW n \in Nat
  PROVE  \E paths : Collects(paths, Level(ns, n), ns, es, threshold)
<1> SUFFICES ASSUME ~ \E paths : Collects(paths, Level(ns, n), ns, es, threshold)
             PROVE  FALSE
  OBVIOUS
<1>1. PICK I \in SUBSET Nat :
        \A m \in Nat : m \in I <=> ~ \E paths : Collects(paths, Level(ns, m), ns, es, threshold)
  <2> DEFINE J == {m \in Nat : ~ \E paths : Collects(paths, Level(ns, m), ns, es, threshold)}
  <2>1. J \in SUBSET Nat /\ \A m \in Nat : m \in J <=>
          ~ \E paths : Collects(paths, Level(ns, m), ns, es, threshold)
    OBVIOUS
  <2> QED
    BY <2>1
<1>2. PICK m \in I : \A k \in I : m <= k
  BY <1>1, LeastExists
<1>3. m # 0
  <2>1. Level(ns, 0) = {}
    <3>1. ASSUME NEW visited \in Level(ns, 0)
          PROVE  FALSE
      <4>1. IsFiniteSet(DOMAIN ns \ visited)
        BY NodesFinite, FS_Difference
      <4> QED
        BY <3>1, <4>1, FS_CardinalityType DEF Level
    <3> QED
      BY <3>1
  <2>2. Collects([visited \in {} |-> [i \in DOMAIN ns |-> <<>>]], {}, ns, es, threshold)
    BY DEF Collects
  <2> QED
    BY <1>1, <1>2, <2>1, <2>2
<1>4. m - 1 \in Nat /\ m - 1 \notin I
  BY <1>1, <1>2, <1>3
<1>5. PICK f : Collects(f, Level(ns, m - 1), ns, es, threshold)
  BY <1>1, <1>4
<1>6. PICK g : g = [visited \in Level(ns, m) |-> [i \in DOMAIN ns |->
                     PathFrom(f[visited \cup {i}], ns, es, threshold, visited, i)]]
  OBVIOUS
<1>7. ASSUME NEW visited \in Level(ns, m), NEW i \in DOMAIN ns, i \notin visited
      PROVE  g[visited \cup {i}] = f[visited \cup {i}]
  <2>1. visited \cup {i} \in Level(ns, m - 1) /\ visited \cup {i} \in Level(ns, m)
    BY <1>1, <1>7, OneLessLeft DEF Level
  <2>2. f[visited \cup {i}] = [j \in DOMAIN ns |->
          PathFrom(f[visited \cup {i} \cup {j}], ns, es, threshold, visited \cup {i}, j)]
    BY <1>5, <2>1, Zenon DEF Collects
  <2> QED
    BY <1>6, <2>1, <2>2, Zenon
<1>8. ASSUME NEW visited \in Level(ns, m), NEW i \in DOMAIN ns
      PROVE  PathFrom(f[visited \cup {i}], ns, es, threshold, visited, i)
               = PathFrom(g[visited \cup {i}], ns, es, threshold, visited, i)
  <2>1. CASE i \in visited
    BY <2>1, Zenon DEF PathFrom
  <2>2. CASE i \notin visited
    BY <1>7, <2>2, Zenon
  <2> QED
    BY <2>1, <2>2
<1>9. Collects(g, Level(ns, m), ns, es, threshold)
  <2>1. [visited \in Level(ns, m) |-> [i \in DOMAIN ns |->
           PathFrom(f[visited \cup {i}], ns, es, threshold, visited, i)]]
          = [visited \in Level(ns, m) |-> [i \in DOMAIN ns |->
               PathFrom(g[visited \cup {i}], ns, es, threshold, visited, i)]]
    BY <1>8
  <2> QED
    BY <1>6, <2>1 DEF Collects
<1> QED
  BY <1>1, <1>2, <1>9

\* So collect_earliest_path is what its own text says.
LEMMA PathsCollected ==
  ASSUME NEW R, NEW ns \in Seq(R), NEW es, NEW threshold,
         NEW paths, paths = CollectEarliestPath(ns, es, threshold)
  PROVE  Collects(paths, SUBSET DOMAIN ns, ns, es, threshold)
<1> DEFINE Recurs(collect) == collect = [v \in SUBSET DOMAIN ns |->
             [j \in DOMAIN ns |->
               IF j \in v THEN <<>>
               ELSE LET up == EarliestParent(ns, es, j)
                        above == IF up = {} THEN <<>>
                                 ELSE collect[v \cup {j}][CHOOSE p \in up : TRUE]
                    IN IF BelowThreshold(ns[j], threshold) THEN above ELSE Append(above, j)]]
<1>1. \E some : Recurs(some)
  <2>1. IsFiniteSet(DOMAIN ns)
    BY NodesFinite
  <2>2. PICK n \in Nat : n = Cardinality(DOMAIN ns) + 1
    BY <2>1, FS_CardinalityType
  <2>3. Level(ns, n) = SUBSET DOMAIN ns
    <3>1. ASSUME NEW v \in SUBSET DOMAIN ns
          PROVE  Cardinality(DOMAIN ns \ v) < n
      <4>1. IsFiniteSet(DOMAIN ns \ v) /\ Cardinality(DOMAIN ns \ v) <= Cardinality(DOMAIN ns)
        BY <2>1, FS_Subset
      <4> QED
        BY <2>1, <2>2, <4>1, FS_CardinalityType
    <3> QED
      BY <3>1 DEF Level
  <2>4. PICK some : Collects(some, SUBSET DOMAIN ns, ns, es, threshold)
    <3>1. \E some : Collects(some, Level(ns, n), ns, es, threshold)
      BY PathsExist
    <3> QED
      BY <2>3, <3>1, Zenon
  <2>5. Recurs(some)
    BY <2>4, Zenon DEF Collects, PathFrom
  <2> QED
    BY <2>5, Zenon
<1>2. CollectEarliestPath(ns, es, threshold) = CHOOSE p : Recurs(p)
  BY Zenon DEF CollectEarliestPath
<1>3. Recurs(paths)
  <2> HIDE DEF Recurs
  <2> QED
    BY <1>1, <1>2, Zenon
<1> QED
  BY <1>3, Zenon DEF Collects, PathFrom

\* A drift path with a node below it is one of this node, if its lineage is what the
\* path is of and the node.
LEMMA DriftPathGrows ==
  ASSUME NEW R, NEW ns \in Seq(R), NEW es, NEW threshold, NEW i \in DOMAIN ns,
         NEW q, EarliestParent(ns, es, i) = {q}, i \notin Lineage(ns, es, q),
         NEW above \in Seq(DOMAIN ns), IsDriftPath(above, ns, es, q, threshold)
  PROVE  IsDriftPath(IF BelowThreshold(ns[i], threshold) THEN above ELSE Append(above, i),
                     ns, es, i, threshold)
<1>1. q \in DOMAIN ns /\ Lineage(ns, es, i) = {i} \cup Lineage(ns, es, q)
  BY LineageSteps
<1>2. /\ {above[k] : k \in DOMAIN above} =
           {j \in Lineage(ns, es, q) : ~BelowThreshold(ns[j], threshold)}
      /\ \A k \in DOMAIN above :
           {above[l] : l \in (k + 1)..Len(above)} \cap Lineage(ns, es, above[k]) = {}
  BY DEF IsDriftPath
<1>3. CASE BelowThreshold(ns[i], threshold)
  BY <1>1, <1>2, <1>3 DEF IsDriftPath
<1>4. CASE ~BelowThreshold(ns[i], threshold)
  <2>1. PICK p : p = Append(above, i)
    OBVIOUS
  <2>2. PICK n \in Nat : n = Len(above)
    OBVIOUS
  <2>3. /\ Len(p) = n + 1 /\ DOMAIN p = 1..(n + 1) /\ p[n + 1] = i /\ DOMAIN above = 1..n
        /\ \A k \in 1..n : p[k] = above[k]
    BY <2>1, <2>2
  <2>4. {p[k] : k \in DOMAIN p} = {above[k] : k \in DOMAIN above} \cup {i}
    <3>1. 1..(n + 1) = (1..n) \cup {n + 1}
      BY <2>2
    <3>2. {p[k] : k \in (1..n) \cup {n + 1}} = {p[k] : k \in 1..n} \cup {p[n + 1]}
      BY Zenon
    <3>3. {p[k] : k \in 1..n} = {above[k] : k \in 1..n}
      BY <2>3, Zenon
    <3> QED
      BY <2>3, <3>1, <3>2, <3>3, Zenon
  <2>5. {p[k] : k \in DOMAIN p} = {j \in Lineage(ns, es, i) : ~BelowThreshold(ns[j], threshold)}
    BY <1>1, <1>2, <1>4, <2>4
  <2>6. ASSUME NEW k \in DOMAIN p
        PROVE  {p[l] : l \in (k + 1)..Len(p)} \cap Lineage(ns, es, p[k]) = {}
    <3>1. CASE k = n + 1
      BY <2>2, <2>3, <3>1
    <3>2. CASE k # n + 1
      <4>1. k \in 1..n /\ p[k] = above[k]
        BY <2>2, <2>3, <3>2
      <4>2. above[k] \in Lineage(ns, es, q)
        BY <1>2, <2>3, <4>1
      <4>3. i \notin Lineage(ns, es, above[k])
        BY <1>1, <4>2, LineageSteps
      <4>4. {p[l] : l \in (k + 1)..Len(p)} = {above[l] : l \in (k + 1)..Len(above)} \cup {i}
        <5>1. (k + 1)..Len(p) = ((k + 1)..n) \cup {n + 1} /\ (k + 1)..n \subseteq 1..n
          BY <2>2, <2>3, <4>1
        <5>2. \A l \in (k + 1)..n : p[l] = above[l]
          BY <2>3, <5>1
        <5> QED
          <6>1. {p[l] : l \in ((k + 1)..n) \cup {n + 1}} = {p[l] : l \in (k + 1)..n} \cup {p[n + 1]}
            BY Zenon
          <6>2. {p[l] : l \in (k + 1)..n} = {above[l] : l \in (k + 1)..n}
            BY <5>2, Zenon
          <6> QED
            BY <2>2, <2>3, <5>1, <6>1, <6>2, Zenon
      <4> QED
        BY <1>2, <2>3, <4>1, <4>3, <4>4
    <3> QED
      BY <3>1, <3>2
  <2>7. IsDriftPath(p, ns, es, i, threshold)
    BY <2>5, <2>6 DEF IsDriftPath
  <2> QED
    BY <1>4, <2>1, <2>7
<1> QED
  BY <1>3, <1>4

\* From a node none of whose lineage was visited, the walk gives its drift path.
LEMMA WalkGivesDriftPath ==
  ASSUME NEW R, NEW ns \in Seq(R), NEW es, IsDag(ns, es), NEW threshold,
         NEW visited \in SUBSET DOMAIN ns, NEW i \in DOMAIN ns,
         Lineage(ns, es, i) \cap visited = {}
  PROVE  IsDriftPath(CollectEarliestPath(ns, es, threshold)[visited][i], ns, es, i, threshold)
<1>0. PICK walk : walk = CollectEarliestPath(ns, es, threshold)
  OBVIOUS
<1> DEFINE Sound(v, j) == /\ walk[v][j] \in Seq(DOMAIN ns)
               /\ IsDriftPath(walk[v][j], ns, es, j, threshold)
           Free(v, j) == Lineage(ns, es, j) \cap v = {}
           Left(v) == Cardinality(DOMAIN ns \ v)
<1>1. ASSUME NEW v \in SUBSET DOMAIN ns, NEW j \in DOMAIN ns, Free(v, j),
             \A w \in SUBSET DOMAIN ns, k \in DOMAIN ns :
               Left(w) < Left(v) /\ Free(w, k) => Sound(w, k)
      PROVE  Sound(v, j)
  <2>1. walk[v][j] = PathFrom(walk[v \cup {j}], ns, es, threshold, v, j)
    <3>1. Collects(walk, SUBSET DOMAIN ns, ns, es, threshold)
      BY <1>0, PathsCollected
    <3>2. walk[v] = [k \in DOMAIN ns |-> PathFrom(walk[v \cup {k}], ns, es, threshold, v, k)]
      BY <3>1, Zenon DEF Collects
    <3> QED
      BY <3>2, Zenon
  <2>2. j \notin v /\ j \in Lineage(ns, es, j)
    BY <1>1, LineageLeast
  <2>3. CASE EarliestParent(ns, es, j) = {}
    <3>1. walk[v][j] = IF BelowThreshold(ns[j], threshold) THEN <<>> ELSE Append(<<>>, j)
      BY <2>1, <2>2, <2>3 DEF PathFrom
    <3>2. Lineage(ns, es, j) = {j}
      BY <2>3, LineageSteps
    <3>3. CASE BelowThreshold(ns[j], threshold)
      BY <3>1, <3>2, <3>3 DEF IsDriftPath
    <3>4. CASE ~BelowThreshold(ns[j], threshold)
      <4>1. walk[v][j] = <<j>>
        BY <3>1, <3>4
      <4> QED
        BY <3>2, <3>4, <4>1 DEF IsDriftPath
    <3> QED
      BY <3>3, <3>4
  <2>4. CASE EarliestParent(ns, es, j) # {}
    <3>1. PICK q : q = CHOOSE p \in EarliestParent(ns, es, j) : TRUE
      OBVIOUS
    <3>2. EarliestParent(ns, es, j) = {q}
      BY <2>4, <3>1, EarliestIsOne
    <3>3. PICK above : above = walk[v \cup {j}][q]
      OBVIOUS
    <3>4. walk[v][j] = IF BelowThreshold(ns[j], threshold) THEN above ELSE Append(above, j)
      BY <2>1, <2>2, <2>4, <3>1, <3>3 DEF PathFrom
    <3>5. /\ q \in DOMAIN ns /\ Lineage(ns, es, j) = {j} \cup Lineage(ns, es, q)
          /\ j \notin Lineage(ns, es, q)
      BY <3>2, LineageSteps, LineageLoopless
    <3>6. v \cup {j} \in SUBSET DOMAIN ns /\ Left(v \cup {j}) < Left(v)
      BY <2>2, OneLessLeft
    <3>7. Free(v \cup {j}, q)
      BY <1>1, <3>5
    <3>8. Sound(v \cup {j}, q)
      BY <1>1, <3>5, <3>6, <3>7
    <3>9. above \in Seq(DOMAIN ns) /\ IsDriftPath(above, ns, es, q, threshold)
      BY <3>3, <3>8
    <3>10. IsDriftPath(walk[v][j], ns, es, j, threshold)
      BY <3>2, <3>4, <3>5, <3>9, DriftPathGrows
    <3>11. walk[v][j] \in Seq(DOMAIN ns)
      <4>1. Append(above, j) \in Seq(DOMAIN ns)
        BY <3>9
      <4> QED
        BY <3>4, <3>9, <4>1, Zenon
    <3> QED
      BY <3>10, <3>11
  <2> QED
    BY <2>3, <2>4
<1>2. \A v \in SUBSET DOMAIN ns : Left(v) \in Nat
  <2> SUFFICES ASSUME NEW v \in SUBSET DOMAIN ns
               PROVE  Left(v) \in Nat
    OBVIOUS
  <2>1. IsFiniteSet(DOMAIN ns \ v)
    BY NodesFinite, FS_Difference
  <2> QED
    BY <2>1, FS_CardinalityType
<1> HIDE DEF Sound, Free, Left
<1>3. \A v \in SUBSET DOMAIN ns, j \in DOMAIN ns : Free(v, j) => Sound(v, j)
  <2> SUFFICES ASSUME NEW v \in SUBSET DOMAIN ns, NEW j \in DOMAIN ns, Free(v, j), ~Sound(v, j)
               PROVE  FALSE
    OBVIOUS
  <2>1. PICK I : I = {Left(w) : w \in {w \in SUBSET DOMAIN ns :
                        \E k \in DOMAIN ns : Free(w, k) /\ ~Sound(w, k)}}
    OBVIOUS
  <2>2. I \in SUBSET Nat /\ I # {}
    BY <1>2, <2>1
  <2>3. PICK n \in I : \A k \in I : n <= k
    BY <2>2, LeastExists
  <2>4. PICK w \in SUBSET DOMAIN ns : /\ Left(w) = n
                                      /\ \E k \in DOMAIN ns : Free(w, k) /\ ~Sound(w, k)
    BY <2>1
  <2>5. \A x \in SUBSET DOMAIN ns, k \in DOMAIN ns :
          Left(x) < Left(w) /\ Free(x, k) => Sound(x, k)
    BY <1>2, <2>1, <2>2, <2>3, <2>4
  <2> QED
    BY <1>1, <2>4, <2>5
<1>4. Free(visited, i)
  BY DEF Free
<1> QED
  BY <1>0, <1>3, <1>4 DEF Sound

\* Whatever was inserted and linked, and for any threshold, the path that is traced from
\* a node is its lineage, down from the root, without the verifications below the
\* threshold (trace_drift_path, collect_earliest_path).
THEOREM DriftPathsAlwaysSound == Spec => []DriftPathsSound
<1>1. TypeOK /\ Acyclic => DriftPathsSound
  <2> SUFFICES ASSUME TypeOK, Acyclic, NEW g \in Graphs, NEW i \in Indices(nodes[g]),
                      NEW threshold \in Thresholds
               PROVE  IsDriftPath(TraceDriftPath(nodes[g], edges[g], i, threshold),
                                  nodes[g], edges[g], i, threshold)
    BY DEF DriftPathsSound
  <2>1. nodes[g] \in Seq(Nodes) /\ i \in DOMAIN nodes[g] /\ IsDag(nodes[g], edges[g])
    BY DEF TypeOK, Acyclic, Indices
  <2>2. {} \in SUBSET DOMAIN nodes[g] /\ Lineage(nodes[g], edges[g], i) \cap {} = {}
    OBVIOUS
  <2> QED
    BY <2>1, <2>2, WalkGivesDriftPath DEF TraceDriftPath
<1> QED
  BY <1>1, StoreTypeCorrect, AcyclicCorrect, PTL

-----------------------------------------------------------------------------
(* The summary                                                             *)

\* The ways to list a set in the order of its latencies.
SortedLists(T, lat) ==
  {f \in [1..Cardinality(T) -> T] :
     IsInjective(f) /\ \A j, k \in 1..Cardinality(T) : j < k => lat[f[j]] <= lat[f[k]]}

\* An element is put before the first that is greater.
LEMMA InsertSorted ==
  ASSUME NEW T, NEW lat \in [T -> Nat], NEW e \in T, IsFiniteSet(T),
         SortedLists(T \ {e}, lat) # {}
  PROVE  SortedLists(T, lat) # {}
<1>1. PICK n \in Nat : n = Cardinality(T)
  BY FS_CardinalityType
<1>2. n \in Nat \ {0} /\ Cardinality(T \ {e}) = n - 1
  <2>1. Cardinality(T \ {e}) = n - 1 /\ IsFiniteSet(T \ {e})
    BY <1>1, FS_RemoveElement
  <2> QED
    BY <1>1, <2>1, FS_CardinalityType
<1>3. PICK f \in [1..(n - 1) -> T \ {e}] :
        /\ \A j, k \in 1..(n - 1) : f[j] = f[k] => j = k
        /\ \A j, k \in 1..(n - 1) : j < k => lat[f[j]] <= lat[f[k]]
  BY <1>2 DEF SortedLists, IsInjective
<1>4. PICK c \in {k \in 1..n : k = n \/ lat[f[k]] > lat[e]} :
        \A d \in {k \in 1..n : k = n \/ lat[f[k]] > lat[e]} : c <= d
  <2>1. {k \in 1..n : k = n \/ lat[f[k]] > lat[e]} \in SUBSET Nat
    BY <1>2
  <2>2. n \in {k \in 1..n : k = n \/ lat[f[k]] > lat[e]}
    BY <1>2
  <2> QED
    BY <2>1, <2>2, LeastExists
<1>5. /\ c \in 1..n
      /\ \A k \in 1..(n - 1) : k < c => lat[f[k]] <= lat[e]
      /\ c \in 1..(n - 1) => lat[e] < lat[f[c]]
  <2>1. \A k \in 1..(n - 1) : lat[f[k]] \in Nat /\ lat[e] \in Nat
    OBVIOUS
  <2> QED
    BY <1>2, <1>4, <2>1
<1>6. \A k \in 1..(n - 1) : c <= k => lat[e] <= lat[f[k]]
  <2> SUFFICES ASSUME NEW k \in 1..(n - 1), c <= k
               PROVE  lat[e] <= lat[f[k]]
    OBVIOUS
  <2>1. c \in 1..(n - 1) /\ lat[f[k]] \in Nat /\ lat[e] \in Nat /\ lat[f[c]] \in Nat
    BY <1>2, <1>5
  <2>2. lat[f[c]] <= lat[f[k]]
    BY <1>2, <1>3, <2>1
  <2> QED
    BY <1>5, <2>1, <2>2
<1>7. PICK g : g = [k \in 1..n |-> IF k < c THEN f[k] ELSE IF k = c THEN e ELSE f[k - 1]]
  OBVIOUS
<1>8. ASSUME NEW k \in 1..n
      PROVE  /\ k < c => k \in 1..(n - 1) /\ g[k] = f[k]
             /\ k = c => g[k] = e
             /\ k > c => k - 1 \in 1..(n - 1) /\ c <= k - 1 /\ g[k] = f[k - 1]
             /\ k < c \/ k = c \/ k > c
  BY <1>2, <1>5, <1>7
<1>9. g \in [1..n -> T]
  <2>1. \A k \in 1..(n - 1) : f[k] \in T
    OBVIOUS
  <2>2. ASSUME NEW k \in 1..n
        PROVE  g[k] \in T
    <3>1. k < c \/ k = c \/ k > c
      BY <1>2, <1>5
    <3> QED
      BY <1>8, <2>1, <3>1
  <2> QED
    BY <1>7, <2>2
<1>10. ASSUME NEW j \in 1..n, NEW k \in 1..n, g[j] = g[k]
       PROVE  j = k
  <2>1. \A m \in 1..(n - 1) : f[m] # e
    OBVIOUS
  <2> QED
    BY <1>2, <1>3, <1>5, <1>8, <1>10, <2>1
<1>11. ASSUME NEW j \in 1..n, NEW k \in 1..n, j < k
       PROVE  lat[g[j]] <= lat[g[k]]
  <2>1. CASE k < c
    BY <1>2, <1>3, <1>5, <1>8, <1>11, <2>1
  <2>2. CASE k = c
    BY <1>2, <1>5, <1>8, <1>11, <2>2
  <2>3. CASE k > c /\ j < c
    <3>1. j \in 1..(n - 1) /\ k - 1 \in 1..(n - 1) /\ g[j] = f[j] /\ g[k] = f[k - 1] /\ c <= k - 1
      BY <1>2, <1>5, <1>8, <2>3
    <3>2. lat[f[j]] <= lat[e] /\ lat[e] <= lat[f[k - 1]]
      BY <1>5, <1>6, <2>3, <3>1
    <3>3. lat[f[j]] \in Nat /\ lat[e] \in Nat /\ lat[f[k - 1]] \in Nat
      BY <3>1
    <3> QED
      BY <3>1, <3>2, <3>3
  <2>4. CASE k > c /\ j = c
    <3>1. k - 1 \in 1..(n - 1) /\ g[j] = e /\ g[k] = f[k - 1] /\ c <= k - 1
      BY <1>2, <1>5, <1>8, <2>4
    <3> QED
      BY <1>6, <3>1
  <2>5. CASE k > c /\ j > c
    <3>1. /\ j - 1 \in 1..(n - 1) /\ k - 1 \in 1..(n - 1)
          /\ g[j] = f[j - 1] /\ g[k] = f[k - 1] /\ j - 1 < k - 1
      BY <1>2, <1>5, <1>8, <1>11, <2>5
    <3> QED
      BY <1>3, <3>1
  <2> QED
    BY <1>2, <1>5, <2>1, <2>2, <2>3, <2>4, <2>5
<1>12. g \in SortedLists(T, lat)
  BY <1>1, <1>9, <1>10, <1>11 DEF SortedLists, IsInjective
<1> QED
  BY <1>12

\* Every finite set can be listed in the order of its latencies.
LEMMA CanBeSorted ==
  ASSUME NEW S, NEW lat \in [S -> Nat], IsFiniteSet(S)
  PROVE  SortedLists(S, lat) # {}
<1> SUFFICES ASSUME SortedLists(S, lat) = {}
             PROVE  FALSE
  OBVIOUS
<1>1. PICK T \in {U \in SUBSET S : SortedLists(U, lat) = {}} :
        \A U \in {U \in SUBSET S : SortedLists(U, lat) = {}} :
          ~(<<U, T>> \in StrictSubsetOrdering(S))
  <2>1. S \in {U \in SUBSET S : SortedLists(U, lat) = {}}
    OBVIOUS
  <2>2. {U \in SUBSET S : SortedLists(U, lat) = {}} \subseteq FiniteSubsetsOf(S)
    BY FS_Subset DEF FiniteSubsetsOf
  <2> QED
    BY <2>1, <2>2, FS_StrictSubsetOrderingWellFounded, WFMin, Zenon
<1>2. IsFiniteSet(T) /\ T \in SUBSET S
  BY FS_Subset
<1>3. T # {}
  <2>1. SUFFICES ASSUME T = {}
                 PROVE  FALSE
    OBVIOUS
  <2>2. Cardinality(T) = 0
    BY <2>1, FS_EmptySet
  <2>3. <<>> \in SortedLists(T, lat)
    BY <2>1, <2>2 DEF SortedLists, IsInjective
  <2> QED
    BY <1>1, <2>3
<1>4. PICK e \in T : TRUE
  BY <1>3
<1>5. SortedLists(T \ {e}, lat) # {}
  <2>1. <<T \ {e}, T>> \in StrictSubsetOrdering(S)
    BY <1>2, <1>4 DEF StrictSubsetOrdering
  <2> QED
    BY <1>1, <1>2, <2>1
<1>6. PICK lt : lt = [t \in T |-> lat[t]]
  OBVIOUS
<1>7. lt \in [T -> Nat] /\ \A t \in T : lt[t] = lat[t]
  BY <1>2, <1>6
<1>8. SortedLists(T \ {e}, lt) # {}
  BY <1>5, <1>7 DEF SortedLists
<1>9. SortedLists(T, lt) # {}
  BY <1>2, <1>7, <1>8, InsertSorted
<1>10. SortedLists(T, lat) # {}
  BY <1>7, <1>9 DEF SortedLists
<1> QED
  BY <1>1, <1>10

\* There are finitely many workflows at a time, since each came with a request.
LiveIsFinite == IsFiniteSet(live)

LEMMA LiveFiniteStep == LiveIsFinite /\ [Next]_vars => LiveIsFinite'
<1> SUFFICES ASSUME LiveIsFinite, [Next]_vars
             PROVE  IsFiniteSet(live')
  BY DEF LiveIsFinite
<1>1. IsFiniteSet(live)
  BY DEF LiveIsFinite
<1>2. ASSUME NEW g \in Graphs
      PROVE  IsFiniteSet(live \cup {g})
  BY <1>1, FS_AddElement
<1>3. ASSUME NEW n \in Nodes, Insert(n)
      PROVE  IsFiniteSet(live')
  <2>1. n.graph \in Graphs
    BY NodesAssumption
  <2>2. live' = live \cup {n.graph}
    BY <1>3 DEF Insert
  <2> QED
    BY <1>2, <2>1, <2>2
<1>4. ASSUME NEW g \in Graphs, InsertInvalid(g)
      PROVE  IsFiniteSet(live')
  BY <1>2, <1>4 DEF InsertInvalid
<1>5. CASE Cleanup
  <2>1. live' \in SUBSET live
    BY <1>5 DEF Cleanup
  <2> QED
    BY <1>1, <2>1, FS_Subset
<1>6. CASE Crash
  BY <1>6, FS_EmptySet DEF Crash
<1>7. ASSUME NEW g \in Graphs, NEW e \in Links, LinkEdge(g, e)
      PROVE  IsFiniteSet(live')
  BY <1>1, <1>7 DEF LinkEdge
<1>8. CASE Flush \/ FlushError \/ Tick \/ UNCHANGED vars
  BY <1>1, <1>8 DEF Flush, FlushError, Tick, vars, store
<1> QED
  BY <1>3, <1>4, <1>5, <1>6, <1>7, <1>8 DEF Next

\* So the nodes of all graphs are finitely many.
LEMMA StoredFinite ==
  ASSUME TypeOK, LiveIsFinite
  PROVE  /\ IsFiniteSet(Stored)
         /\ \A e \in Stored : e[1] \in live /\ NodeAt(e) \in Nodes
<1>1. \A g \in live : nodes[g] \in Seq(Nodes)
  BY DEF TypeOK
<1>2. PICK T : T = {{<<g, i>> : i \in Indices(nodes[g])} : g \in live}
  OBVIOUS
<1>3. IsFiniteSet(T)
  <2>1. PICK f : f = [g \in live |-> {<<g, i>> : i \in Indices(nodes[g])}]
    OBVIOUS
  <2>2. f \in Surjection(live, T)
    <3>1. f \in [live -> T] /\ \A t \in T : \E g \in live : f[g] = t
      BY <1>2, <2>1
    <3> QED
      BY <3>1, Fun_IsSurj
  <2> QED
    BY <2>2, FS_Surjection DEF LiveIsFinite
<1>4. ASSUME NEW g \in live
      PROVE  IsFiniteSet({<<g, i>> : i \in Indices(nodes[g])})
  <2>1. IsFiniteSet(Indices(nodes[g]))
    <3>1. Indices(nodes[g]) = 1..Len(nodes[g]) /\ Len(nodes[g]) \in Nat
      BY <1>1 DEF Indices
    <3> QED
      BY <3>1, FS_Interval
  <2>2. PICK f : f = [i \in Indices(nodes[g]) |-> <<g, i>>]
    OBVIOUS
  <2>3. f \in Surjection(Indices(nodes[g]), {<<g, i>> : i \in Indices(nodes[g])})
    <3>1. /\ f \in [Indices(nodes[g]) -> {<<g, i>> : i \in Indices(nodes[g])}]
          /\ \A t \in {<<g, i>> : i \in Indices(nodes[g])} :
               \E i \in Indices(nodes[g]) : f[i] = t
      BY <2>2
    <3> QED
      BY <3>1, Fun_IsSurj
  <2> QED
    BY <2>1, <2>3, FS_Surjection
<1>5. \A t \in T : IsFiniteSet(t)
  BY <1>2, <1>4
<1>6. Stored = UNION T
  BY <1>2 DEF Stored
<1>7. ASSUME NEW e \in Stored
      PROVE  e[1] \in live /\ NodeAt(e) \in Nodes
  <2>1. PICK g \in live : \E i \in Indices(nodes[g]) : e = <<g, i>>
    BY <1>2, <1>6
  <2>2. PICK i \in Indices(nodes[g]) : e = <<g, i>>
    BY <2>1
  <2> QED
    BY <1>1, <2>2 DEF NodeAt, Indices
<1> QED
  BY <1>3, <1>5, <1>6, <1>7, FS_UNION

\* The latencies are listed in order, and each sample at one place.
LEMMA LatenciesSorted ==
  ASSUME TypeOK, LiveIsFinite, NEW n, n = Cardinality(Sampled)
  PROVE  /\ n \in Nat /\ IsFiniteSet(Sampled)
         /\ \A e \in Sampled : Latency[NodeAt(e)] \in Nat
         /\ \E order \in Bijection(1..n, Sampled) :
              /\ Latencies = [k \in 1..n |-> Latency[NodeAt(order[k])]]
              /\ \A j, k \in 1..n : j < k => Latency[NodeAt(order[j])] <= Latency[NodeAt(order[k])]
<1>1. IsFiniteSet(Sampled) /\ n \in Nat
  <2>1. Sampled \in SUBSET Stored
    BY DEF Sampled
  <2> QED
    BY <2>1, StoredFinite, FS_Subset, FS_CardinalityType
<1>2. \A e \in Sampled : Latency[NodeAt(e)] \in Nat
  BY StoredFinite, LatencyAssumption DEF Sampled
<1> DEFINE Orders(f) == /\ IsInjective(f)
                        /\ \A j, k \in 1..Cardinality(Sampled) : j < k =>
                             Latency[NodeAt(f[j])] <= Latency[NodeAt(f[k])]
<1>3. \E f \in [1..Cardinality(Sampled) -> Sampled] : Orders(f)
  <2>1. PICK lat : lat = [e \in Sampled |-> Latency[NodeAt(e)]]
    OBVIOUS
  <2>2. lat \in [Sampled -> Nat] /\ \A e \in Sampled : lat[e] = Latency[NodeAt(e)]
    BY <1>2, <2>1
  <2>3. PICK f \in [1..Cardinality(Sampled) -> Sampled] :
          IsInjective(f) /\ \A j, k \in 1..Cardinality(Sampled) :
                                j < k => lat[f[j]] <= lat[f[k]]
    BY <1>1, <2>2, CanBeSorted DEF SortedLists
  <2>4. \A k \in 1..Cardinality(Sampled) : lat[f[k]] = Latency[NodeAt(f[k])]
    BY <2>2
  <2>5. Orders(f)
    BY <2>3, <2>4
  <2> QED
    BY <2>5
<1> DEFINE order == CHOOSE f \in [1..Cardinality(Sampled) -> Sampled] : Orders(f)
<1>4. Latencies = [k \in 1..Cardinality(Sampled) |-> Latency[NodeAt(order[k])]]
  BY Zenon DEF Latencies
<1>5. order \in [1..Cardinality(Sampled) -> Sampled] /\ Orders(order)
  <2> HIDE DEF Orders
  <2> QED
    BY <1>3, Zenon
<1> HIDE DEF order
<1>6. order \in Bijection(1..n, Sampled)
  <2>1. order \in Injection(1..n, Sampled)
    <3>1. order \in [1..n -> Sampled] /\ \A j, k \in 1..n : order[j] = order[k] => j = k
      BY <1>5 DEF IsInjective
    <3> QED
      BY <3>1, Fun_IsInj
  <2>2. Cardinality(1..n) = n
    BY <1>1, FS_Interval
  <2>3. order \in Surjection(1..n, Sampled)
    BY <1>1, <2>1, <2>2, FS_Injection
  <2> QED
    BY <2>1, <2>3, Fun_IsBij
<1> QED
  BY <1>1, <1>2, <1>4, <1>5, <1>6
\* Where percentile_ms looks in a list of n, and the hundredths that are to be covered.
Rank(percent, n) == Min({Max({(percent * n + 99) \div 100, 1}), n})
Wanted(percent, n) == percent * n
Covers(r, w, n) == r \in 1..n /\ w \in Nat /\ 100 * r >= w /\ 100 * (r - 1) < w

\* The rank is within the list, and the least that covers the percentage.
LEMMA RankCovers ==
  ASSUME NEW percent \in {50, 95, 99}, NEW n \in Nat \ {0}
  PROVE  Covers(Rank(percent, n), Wanted(percent, n), n)
<1>0. PICK r, w : r = Rank(percent, n) /\ w = Wanted(percent, n)
  OBVIOUS
<1>1. PICK m : m = percent * n + 99
  OBVIOUS
<1>2. m \in Nat /\ m >= 149 /\ m <= 99 * n + 99
  <2>1. CASE percent = 50
    BY <1>1, <2>1
  <2>2. CASE percent = 95
    BY <1>1, <2>2
  <2>3. CASE percent = 99
    BY <1>1, <2>3
  <2> QED
    BY <2>1, <2>2, <2>3
<1>3. PICK q : q = m \div 100
  OBVIOUS
<1>4. q \in Int /\ 100 * q <= m /\ m < 100 * q + 100
  BY <1>2, <1>3
<1>5. q \in 1..n
  BY <1>2, <1>4
<1>6. Max({q, 1}) = q
  <2>1. \A x \in {q, 1} : (\A y \in {q, 1} : x >= y) <=> x = q
    BY <1>5
  <2> QED
    BY <2>1 DEF Max
<1>7. Min({q, n}) = q
  <2>1. \A x \in {q, n} : (\A y \in {q, n} : x =< y) <=> x = q
    BY <1>5
  <2> QED
    BY <2>1 DEF Min
<1>8. r = q
  BY <1>0, <1>1, <1>3, <1>6, <1>7 DEF Rank
<1>9. w = m - 99
  <2>1. CASE percent = 50
    BY <1>0, <1>1, <2>1 DEF Wanted
  <2>2. CASE percent = 95
    BY <1>0, <1>1, <2>2 DEF Wanted
  <2>3. CASE percent = 99
    BY <1>0, <1>1, <2>3 DEF Wanted
  <2> QED
    BY <2>1, <2>2, <2>3
<1>10. r \in 1..n /\ w \in Nat /\ 100 * r >= w /\ 100 * (r - 1) < w
  BY <1>2, <1>4, <1>5, <1>8, <1>9
<1> QED
  BY <1>0, <1>10 DEF Covers

\* The samples up to a value and below it, and a listing of them in order.
UpTo(S, lat, v) == {e \in S : lat[e] <= v}
Sorts(order, n, lat) == \A j, k \in 1..n : j < k => lat[order[j]] <= lat[order[k]]
Below(S, lat, v) == {e \in S : lat[e] < v}

\* As many samples as its rank do not exceed what is at the rank, and fewer lie below.
LEMMA RankCounts ==
  ASSUME NEW S, IsFiniteSet(S), NEW lat \in [S -> Nat], NEW n \in Nat,
         NEW order \in Bijection(1..n, S), Sorts(order, n, lat),
         NEW r \in 1..n, NEW v, v = lat[order[r]]
  PROVE  /\ Cardinality(UpTo(S, lat, v)) \in Nat
         /\ r <= Cardinality(UpTo(S, lat, v))
         /\ Cardinality(Below(S, lat, v)) \in Nat
         /\ Cardinality(Below(S, lat, v)) <= r - 1
<1>1. /\ order \in [1..n -> S]
      /\ \A a, b \in 1..n : order[a] = order[b] => a = b
      /\ \A e \in S : \E k \in 1..n : order[k] = e
  BY Fun_BijectionProperties
<1>2. r \in Nat \ {0} /\ r <= n /\ v \in Nat
  BY <1>1
<1>3. PICK B : B = {e \in S : lat[e] <= v}
  OBVIOUS
<1>4. PICK L : L = {e \in S : lat[e] < v}
  OBVIOUS
<1>5. IsFiniteSet(B) /\ IsFiniteSet(L)
  BY <1>3, <1>4, FS_Subset
<1>6. Cardinality(1..r) = r /\ IsFiniteSet(1..(r - 1)) /\ Cardinality(1..(r - 1)) = r - 1
  <2>1. Cardinality(1..r) = r
    BY <1>2, FS_Interval
  <2>2. PICK m : m = r - 1
    OBVIOUS
  <2>3. m \in Int /\ (1 > m => m = 0) /\ m - 1 + 1 = m
    BY <1>2, <2>2
  <2>4. IsFiniteSet(1..m) /\ Cardinality(1..m) = m
    BY <2>3, FS_Interval
  <2> QED
    BY <2>1, <2>2, <2>4
<1>7. r <= Cardinality(B)
  <2>1. PICK f : f = [k \in 1..r |-> order[k]]
    OBVIOUS
  <2>2. \A k \in 1..r : k \in 1..n /\ f[k] = order[k] /\ f[k] \in B
    <3> SUFFICES ASSUME NEW k \in 1..r
                 PROVE  k \in 1..n /\ order[k] \in B
      BY <2>1
    <3>1. k \in 1..n /\ (k = r \/ k < r)
      BY <1>2
    <3>2. lat[order[k]] <= v
      BY <1>2, <3>1 DEF Sorts
    <3> QED
      BY <1>1, <1>3, <3>1, <3>2
  <2>3. f \in [1..r -> B] /\ \A a, b \in 1..r : f[a] = f[b] => a = b
    BY <1>1, <2>1, <2>2
  <2>4. f \in Injection(1..r, B)
    BY <2>3, Fun_IsInj
  <2> QED
    BY <1>5, <1>6, <2>4, FS_Injection
<1>8. Cardinality(L) <= r - 1
  <2>1. PICK f : f = [e \in L |-> CHOOSE k \in 1..n : order[k] = e]
    OBVIOUS
  <2>2. \A e \in L : f[e] \in 1..(r - 1) /\ order[f[e]] = e
    <3> SUFFICES ASSUME NEW e \in L
                 PROVE  f[e] \in 1..(r - 1) /\ order[f[e]] = e
      OBVIOUS
    <3>1. f[e] \in 1..n /\ order[f[e]] = e
      BY <1>1, <1>4, <2>1
    <3>2. lat[e] \in Nat /\ lat[e] < v
      BY <1>4
    <3>3. ~(r <= f[e])
      <4>1. SUFFICES ASSUME r <= f[e]
                     PROVE  FALSE
        OBVIOUS
      <4>2. r = f[e] \/ r < f[e]
        BY <1>2, <3>1, <4>1
      <4>3. v <= lat[e]
        BY <1>2, <3>1, <4>2 DEF Sorts
      <4> QED
        BY <1>2, <3>2, <4>3
    <3> QED
      BY <1>2, <3>1, <3>3
  <2>3. f \in [L -> 1..(r - 1)] /\ \A a, b \in L : f[a] = f[b] => a = b
    BY <2>1, <2>2
  <2>4. f \in Injection(L, 1..(r - 1))
    BY <2>3, Fun_IsInj
  <2> QED
    BY <1>6, <2>4, FS_Injection
<1> QED
  BY <1>3, <1>4, <1>5, <1>7, <1>8, FS_CardinalityType DEF UpTo, Below

\* So what percentile_ms picks is the sample that the reference names.
LEMMA PercentilesExact ==
  ASSUME TypeOK, LiveIsFinite, NEW percent \in {50, 95, 99}
  PROVE  IF Sampled = {} THEN PercentileMs(Latencies, percent) = 0
         ELSE NearestRank(PercentileMs(Latencies, percent), percent)
<1>1. PICK n : n = Cardinality(Sampled)
  OBVIOUS
<1>2. PICK order \in Bijection(1..n, Sampled) :
        /\ Latencies = [k \in 1..n |-> Latency[NodeAt(order[k])]]
        /\ \A j, k \in 1..n : j < k => Latency[NodeAt(order[j])] <= Latency[NodeAt(order[k])]
  BY <1>1, LatenciesSorted
<1>3. /\ n \in Nat /\ IsFiniteSet(Sampled)
      /\ \A e \in Sampled : Latency[NodeAt(e)] \in Nat
  BY <1>1, LatenciesSorted
<1>4. order \in [1..n -> Sampled]
  BY <1>2, Fun_BijectionProperties
<1>5. CASE Sampled = {}
  <2>1. n = 0
    BY <1>1, <1>5, FS_EmptySet
  <2>2. Latencies = <<>>
    BY <1>2, <2>1
  <2> QED
    BY <1>5, <2>2 DEF PercentileMs
<1>6. CASE Sampled # {}
  <2>1. n \in Nat \ {0}
    BY <1>1, <1>3, <1>6, FS_EmptySet
  <2>2. Len(Latencies) = n /\ Latencies # <<>>
    <3>1. Latencies \in Seq(Nat) /\ DOMAIN Latencies = 1..n
      <4>1. \A k \in 1..n : Latency[NodeAt(order[k])] \in Nat
        BY <1>3, <1>4
      <4> QED
        BY <1>2, <1>3, <4>1
    <3>2. Len(Latencies) = n
      BY <2>1, <3>1
    <3> QED
      BY <2>1, <3>2
  <2>3. PICK r : r = Rank(percent, n)
    OBVIOUS
  <2> DEFINE w == Wanted(percent, n)
  <2>4. r \in 1..n /\ w \in Nat /\ 100 * r >= w /\ 100 * (r - 1) < w
    <3>1. Covers(Rank(percent, n), Wanted(percent, n), n)
      BY <2>1, RankCovers
    <3> QED
      BY <2>3, <3>1 DEF Covers
  <2>5. PICK v : v = PercentileMs(Latencies, percent)
    OBVIOUS
  <2>6. v = Latencies[r]
    BY <2>2, <2>3, <2>5 DEF PercentileMs, Rank
  <2>7. v = Latency[NodeAt(order[r])] /\ order[r] \in Sampled
    BY <1>2, <1>4, <2>4, <2>6
  <2>8. /\ Cardinality({e \in Sampled : Latency[NodeAt(e)] <= v}) \in Nat
        /\ r <= Cardinality({e \in Sampled : Latency[NodeAt(e)] <= v})
        /\ Cardinality({e \in Sampled : Latency[NodeAt(e)] < v}) \in Nat
        /\ Cardinality({e \in Sampled : Latency[NodeAt(e)] < v}) <= r - 1
    <3>1. PICK lat : lat = [e \in Sampled |-> Latency[NodeAt(e)]]
      OBVIOUS
    <3>2. lat \in [Sampled -> Nat] /\ \A e \in Sampled : lat[e] = Latency[NodeAt(e)]
      BY <1>3, <3>1
    <3>3. v = lat[order[r]] /\ Sorts(order, n, lat)
      BY <1>2, <1>4, <2>7, <3>2 DEF Sorts
    <3>4. /\ Cardinality(UpTo(Sampled, lat, v)) \in Nat
          /\ r <= Cardinality(UpTo(Sampled, lat, v))
          /\ Cardinality(Below(Sampled, lat, v)) \in Nat
          /\ Cardinality(Below(Sampled, lat, v)) <= r - 1
      <4>1. n \in Nat /\ IsFiniteSet(Sampled) /\ order \in Bijection(1..n, Sampled)
        BY <1>2, <1>3
      <4> QED
        BY <2>4, <3>2, <3>3, <4>1, RankCounts, SMTT(30)
    <3>5. /\ UpTo(Sampled, lat, v) = {e \in Sampled : Latency[NodeAt(e)] <= v}
          /\ Below(Sampled, lat, v) = {e \in Sampled : Latency[NodeAt(e)] < v}
      BY <3>2 DEF UpTo, Below
    <3> QED
      BY <3>4, <3>5
  <2>9. PICK above, below : /\ above = Cardinality({e \in Sampled : Latency[NodeAt(e)] <= v})
                            /\ below = Cardinality({e \in Sampled : Latency[NodeAt(e)] < v})
    OBVIOUS
  <2>10. 100 * above >= w /\ 100 * below < w
    <3>1. above \in Nat /\ below \in Nat /\ r <= above /\ below <= r - 1 /\ r \in Nat
      BY <2>4, <2>8, <2>9
    <3> QED
      BY <2>4, <3>1
  <2>11. NearestRank(v, percent)
    BY <1>1, <2>7, <2>9, <2>10 DEF NearestRank, Wanted
  <2> QED
    BY <1>6, <2>5, <2>11
<1> QED
  BY <1>5, <1>6

\* A node is found by its workflow and its place, and the same by its workflow and its id.
LEMMA StoredAt ==
  ASSUME TypeOK
  PROVE  \A e : e \in Stored <=>
           \E g \in live : \E i \in Indices(nodes[g]) : e = <<g, i>>
<1>1. PICK F : F = {{<<g, i>> : i \in Indices(nodes[g])} : g \in live}
  OBVIOUS
<1>2. Stored = UNION F
  BY <1>1 DEF Stored
<1>3. ASSUME NEW e, e \in Stored
      PROVE  \E g \in live : \E i \in Indices(nodes[g]) : e = <<g, i>>
  BY <1>1, <1>2, <1>3
<1>4. ASSUME NEW g \in live, NEW i \in Indices(nodes[g])
      PROVE  <<g, i>> \in Stored
  <2>1. {<<g, j>> : j \in Indices(nodes[g])} \in F
    BY <1>1
  <2>2. <<g, i>> \in {<<g, j>> : j \in Indices(nodes[g])}
    OBVIOUS
  <2> QED
    BY <1>2, <2>1, <2>2
<1> QED
  BY <1>3, <1>4

LEMMA CountedOnce ==
  ASSUME TypeOK, IdsUnique, LiveIsFinite, NEW A \in SUBSET Stored, NEW T,
         \A p : p \in T <=> \E e \in A : p = <<e[1], NodeAt(e).id>>
  PROVE  Cardinality(A) = Cardinality(T)
<1>1. PICK f : f = [e \in A |-> <<e[1], NodeAt(e).id>>]
  OBVIOUS
<1>2. f \in [A -> T] /\ \A t \in T : \E e \in A : f[e] = t
  BY <1>1
<1>3. ASSUME NEW a \in A, NEW b \in A, f[a] = f[b]
      PROVE  a = b
  <2>1. PICK g \in live : \E i \in Indices(nodes[g]) : a = <<g, i>>
    BY StoredAt
  <2>2. PICK i \in Indices(nodes[g]) : a = <<g, i>>
    BY <2>1
  <2>3. PICK h \in live : \E j \in Indices(nodes[h]) : b = <<h, j>>
    BY StoredAt
  <2>4. PICK j \in Indices(nodes[h]) : b = <<h, j>>
    BY <2>3
  <2>5. <<a[1], NodeAt(a).id>> = <<b[1], NodeAt(b).id>>
    BY <1>1, <1>3
  <2>6. g = h /\ nodes[g][i].id = nodes[h][j].id
    BY <2>2, <2>4, <2>5 DEF NodeAt
  <2>7. g \in Graphs
    BY DEF TypeOK
  <2>8. i = j
    BY <2>2, <2>4, <2>6, <2>7 DEF IdsUnique
  <2> QED
    BY <2>2, <2>4, <2>6, <2>8
<1>4. f \in Bijection(A, T)
  BY <1>2, <1>3, Fun_IsBij
<1>5. ExistsBijection(A, T)
  BY <1>4, Fun_ExistsBij
<1>6. IsFiniteSet(A)
  BY StoredFinite, FS_Subset
<1> QED
  BY <1>5, <1>6, FS_Bijection

\* So each action is counted once, whatever was stored before it.
LEMMA ActionsCounted ==
  ASSUME TypeOK, IdsUnique, LiveIsFinite
  PROVE  /\ Cardinality(Actions) = Named(LAMBDA n : n.type = "Action")
         /\ Cardinality(Blocked) = Named(LAMBDA n : n.type = "Action" /\ n.blocked)
<1>1. \A g \in live : nodes[g] \in Seq(Nodes)
  BY DEF TypeOK
<1>2. \A g \in live : \A i \in Indices(nodes[g]) : nodes[g][i].id \in Ids
  <2> SUFFICES ASSUME NEW g \in live, NEW i \in Indices(nodes[g])
               PROVE  nodes[g][i].id \in Ids
    OBVIOUS
  <2>1. nodes[g][i] \in Nodes
    BY <1>1 DEF Indices
  <2> QED
    BY <2>1, NodesAssumption
<1>3. Cardinality(Actions) = Named(LAMBDA n : n.type = "Action")
  <2>1. PICK T : T = {p \in live \X Ids : \E i \in Indices(nodes[p[1]]) :
                        nodes[p[1]][i].id = p[2] /\ nodes[p[1]][i].type = "Action"}
    OBVIOUS
  <2>2. ASSUME NEW p
        PROVE  p \in T <=> \E e \in Actions : p = <<e[1], NodeAt(e).id>>
    <3>1. ASSUME p \in T
          PROVE  \E e \in Actions : p = <<e[1], NodeAt(e).id>>
      <4>1. p \in live \X Ids /\ p[1] \in live /\ p = <<p[1], p[2]>>
        BY <2>1, <3>1
      <4>2. PICK i \in Indices(nodes[p[1]]) :
                   nodes[p[1]][i].id = p[2] /\ nodes[p[1]][i].type = "Action"
        BY <2>1, <3>1
      <4>3. <<p[1], i>> \in Stored
        BY <4>1, StoredAt
      <4>4. NodeAt(<<p[1], i>>) = nodes[p[1]][i]
        BY DEF NodeAt
      <4>5. <<p[1], i>> \in Actions
        BY <4>2, <4>3, <4>4 DEF Actions
      <4> QED
        BY <4>1, <4>2, <4>4, <4>5
    <3>2. ASSUME NEW e \in Actions, p = <<e[1], NodeAt(e).id>>
          PROVE  p \in T
      <4>1. e \in Stored /\ NodeAt(e).type = "Action"
        BY DEF Actions
      <4>2. PICK g \in live : \E i \in Indices(nodes[g]) : e = <<g, i>>
        BY <4>1, StoredAt
      <4>3. PICK i \in Indices(nodes[g]) : e = <<g, i>>
        BY <4>2
      <4>4. NodeAt(e) = nodes[g][i] /\ p = <<g, nodes[g][i].id>>
        BY <3>2, <4>3 DEF NodeAt
      <4>5. nodes[g][i].id \in Ids /\ nodes[g][i].type = "Action"
        BY <1>2, <4>1, <4>4
      <4>6. p \in live \X Ids /\ p[1] = g /\ p[2] = nodes[g][i].id
        BY <4>4, <4>5
      <4> QED
        BY <2>1, <4>5, <4>6
    <3> QED
      BY <3>1, <3>2
  <2>3. Actions \in SUBSET Stored
    BY DEF Actions
  <2>4. Cardinality(Actions) = Cardinality(T)
    BY <2>2, <2>3, CountedOnce
  <2> QED
    BY <2>1, <2>4 DEF Named
<1>4. Cardinality(Blocked) = Named(LAMBDA n : n.type = "Action" /\ n.blocked)
  <2>1. PICK T : T = {p \in live \X Ids : \E i \in Indices(nodes[p[1]]) :
                        /\ nodes[p[1]][i].id = p[2]
                        /\ nodes[p[1]][i].type = "Action" /\ nodes[p[1]][i].blocked}
    OBVIOUS
  <2>2. ASSUME NEW p
        PROVE  p \in T <=> \E e \in Blocked : p = <<e[1], NodeAt(e).id>>
    <3>1. ASSUME p \in T
          PROVE  \E e \in Blocked : p = <<e[1], NodeAt(e).id>>
      <4>1. p \in live \X Ids /\ p[1] \in live /\ p = <<p[1], p[2]>>
        BY <2>1, <3>1
      <4>2. PICK i \in Indices(nodes[p[1]]) :
                   /\ nodes[p[1]][i].id = p[2]
                   /\ nodes[p[1]][i].type = "Action" /\ nodes[p[1]][i].blocked
        BY <2>1, <3>1
      <4>3. <<p[1], i>> \in Stored
        BY <4>1, StoredAt
      <4>4. NodeAt(<<p[1], i>>) = nodes[p[1]][i]
        BY DEF NodeAt
      <4>5. <<p[1], i>> \in Blocked
        BY <4>2, <4>3, <4>4 DEF Actions, Blocked
      <4> QED
        BY <4>1, <4>2, <4>4, <4>5
    <3>2. ASSUME NEW e \in Blocked, p = <<e[1], NodeAt(e).id>>
          PROVE  p \in T
      <4>1. e \in Stored /\ NodeAt(e).type = "Action" /\ NodeAt(e).blocked
        BY DEF Actions, Blocked
      <4>2. PICK g \in live : \E i \in Indices(nodes[g]) : e = <<g, i>>
        BY <4>1, StoredAt
      <4>3. PICK i \in Indices(nodes[g]) : e = <<g, i>>
        BY <4>2
      <4>4. NodeAt(e) = nodes[g][i] /\ p = <<g, nodes[g][i].id>>
        BY <3>2, <4>3 DEF NodeAt
      <4>5. nodes[g][i].id \in Ids /\ nodes[g][i].type = "Action" /\ nodes[g][i].blocked
        BY <1>2, <4>1, <4>4
      <4>6. p \in live \X Ids /\ p[1] = g /\ p[2] = nodes[g][i].id
        BY <4>4, <4>5
      <4> QED
        BY <2>1, <4>5, <4>6
    <3> QED
      BY <3>1, <3>2
  <2>3. Blocked \in SUBSET Stored
    BY DEF Actions, Blocked
  <2>4. Cardinality(Blocked) = Cardinality(T)
    BY <2>2, <2>3, CountedOnce
  <2> QED
    BY <2>1, <2>4 DEF Named
<1> QED
  BY <1>3, <1>4

\* What get_slo_summary answers counts each action once and gives the
\* percentiles of the verifications stored, in every state of the store.
LEMMA SummaryIsExact == TypeOK /\ IdsUnique /\ LiveIsFinite => SummaryExact
<1> SUFFICES ASSUME TypeOK, IdsUnique, LiveIsFinite
             PROVE  SummaryExact
  OBVIOUS
<1>1. PICK slo : slo = SloSummary
  OBVIOUS
<1>2. /\ slo.total = Cardinality(Actions) /\ slo.blocked = Cardinality(Blocked)
      /\ slo.ms = [percent \in {50, 95, 99} |-> PercentileMs(Latencies, percent)]
  BY <1>1 DEF SloSummary
<1>3. /\ slo.total = Named(LAMBDA n : n.type = "Action")
      /\ slo.blocked = Named(LAMBDA n : n.type = "Action" /\ n.blocked)
  BY <1>2, ActionsCounted
<1>4. ASSUME NEW percent \in DOMAIN slo.ms
      PROVE  IF Sampled = {} THEN slo.ms[percent] = 0 ELSE NearestRank(slo.ms[percent], percent)
  <2>1. percent \in {50, 95, 99} /\ slo.ms[percent] = PercentileMs(Latencies, percent)
    BY <1>2, <1>4
  <2> QED
    BY <2>1, PercentilesExact
<1> QED
  BY <1>1, <1>3, <1>4 DEF SummaryExact

\* The summary is exact over any sequence of inserts, repeats, expiries and
\* restarts, whatever the latencies of the nodes.
THEOREM SummaryAlwaysExact == Spec => []SummaryExact
<1>1. Init => LiveIsFinite
  BY FS_EmptySet DEF Init, LiveIsFinite
<1> QED
  BY <1>1, LiveFiniteStep, SummaryIsExact, StoreTypeCorrect, IdsUniqueCorrect, PTL DEF Spec
=============================================================================
