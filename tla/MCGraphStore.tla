---------------------------- MODULE MCGraphStore ----------------------------
(***************************************************************************)
(* Constants for the runs on GraphStore.                                   *)
(***************************************************************************)
EXTENDS GraphStoreProps, Summary

Node(id, graph, type, blocked) ==
  [id |-> id, graph |-> graph, type |-> type, agent |-> "agent",
   blocked |-> blocked, ruled |-> TRUE, score |-> 1]

\* One workflow: an action, one that reuses its id and is blocked, the handoff
\* of a task, and a blocked verification that may lead to another action.
OneGraph == {"w"}
GraphIds == {"a", "b", "h", "v"}
GraphNodes == {Node("a", "w", "Action", FALSE), Node("a", "w", "Action", TRUE),
               Node("b", "w", "Action", FALSE), Node("h", "w", "Handoff", FALSE),
               Node("v", "w", "Verification", TRUE)}
GraphLinks == ({"a", "b", "h"} \X {"a", "b", "h"}) \cup {<<"a", "v">>, <<"v", "b">>}

\* Two workflows: a blocked action and a blocked verification in one, a quicker
\* verification in the other.
TwoGraphs == {"w", "x"}
DiskIds == {"a", "b"}
DiskNodes == {Node("a", "w", "Action", TRUE), Node("b", "w", "Verification", TRUE),
              Node("a", "x", "Verification", TRUE)}
DiskLatency == [n \in DiskNodes |->
  IF n.type = "Action" THEN 0 ELSE IF n.graph = "w" THEN 20 ELSE 10]
DiskLinks == {}  \* edges do not touch what is flushed and reported

GraphLatency == [n \in GraphNodes |-> 0]

Agent == {"agent"}
=============================================================================
