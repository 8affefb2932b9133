------------------------------- MODULE AuditLog -------------------------------
(***************************************************************************)
(* What the graph service promises about the audit trail: a workflow is a  *)
(* log to which records are only appended, the first record of an id is    *)
(* the one that stays, links join what was recorded and are never taken    *)
(* back, and every record that must be reported is reported as it is       *)
(* received, nothing else is.  A log is forgotten as a whole or not at     *)
(* all.  GraphStore implements this specification.                         *)
(***************************************************************************)
EXTENDS Sequences

CONSTANTS
  Workflows,
  Records,     \* each with its id and its workflow (graph)
  Reportables  \* the records that must be reported

VARIABLES
  log,      \* per workflow: its records
  links,    \* per workflow: pairs of ids
  reports   \* what was reported, oldest first

vars == <<log, links, reports>>

IdsIn(records) == {records[i].id : i \in DOMAIN records}
Recorded(n) == n.id \in IdsIn(log[n.graph])

Init ==
  /\ log = [w \in Workflows |-> <<>>]
  /\ links = [w \in Workflows |-> {}]
  /\ reports = <<>>

\* Links are added to workflow w, between what is recorded by then.
LinksGrow(w) ==
  /\ links' = [links EXCEPT ![w] = links'[w]]
  /\ links[w] \subseteq links'[w]
  /\ links'[w] \ links[w] \subseteq IdsIn(log'[w]) \X IdsIn(log'[w])

\* The id n came with is reported when its record must be.
ReportIfDue(n) ==
  reports' = IF \E i \in DOMAIN log'[n.graph] :
                  log'[n.graph][i].id = n.id /\ log'[n.graph][i] \in Reportables
             THEN Append(reports, [graph |-> n.graph, node |-> n.id])
             ELSE reports

\* A record with a new id.
Record(n) ==
  /\ ~Recorded(n)
  /\ log' = [log EXCEPT ![n.graph] = Append(@, n)]
  /\ LinksGrow(n.graph)
  /\ ReportIfDue(n)

\* A record with an id that is taken, the same one sent again or another one.
Repeat(n) ==
  /\ Recorded(n)
  /\ UNCHANGED log
  /\ LinksGrow(n.graph)
  /\ ReportIfDue(n)

Link(w) ==
  /\ LinksGrow(w)
  /\ UNCHANGED <<log, reports>>

\* Expired workflows are forgotten, their reports stay.
Forget(W) ==
  /\ log' = [w \in Workflows |-> IF w \in W THEN <<>> ELSE log[w]]
  /\ links' = [w \in Workflows |-> IF w \in W THEN {} ELSE links[w]]
  /\ UNCHANGED reports

\* The service starts again.
Restart ==
  /\ log' = [w \in Workflows |-> <<>>]
  /\ links' = [w \in Workflows |-> {}]
  /\ reports' = <<>>

Next ==
  \/ \E n \in Records : Record(n) \/ Repeat(n)
  \/ \E w \in Workflows : Link(w)
  \/ \E W \in SUBSET Workflows : Forget(W)
  \/ Restart

Spec == Init /\ [][Next]_vars
=============================================================================
