----------------------------- MODULE MCA2aProxy -----------------------------
(* Constants for the run on A2aProxy. *)
EXTENDS A2aProxy, TLC

Request(isTask, agent, target, node, url) ==
  [isTask |-> isTask, agent |-> agent, target |-> target, node |-> node, url |-> url]

\* Two tasks of one agent whose cards come from different urls, the second naming
\* its agent only in its target and repeating the id of the first; a request that is no task.
SomeRequests ==
  {Request(TRUE, "a", "a", "t1", "u"), Request(TRUE, "a", "agent-unknown", "t1", "v"),
   Request(FALSE, "a", "a", "t1", "u")}

HandlersAlike == Permutations(Handlers)
=============================================================================
