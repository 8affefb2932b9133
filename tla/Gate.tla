-------------------------------- MODULE Gate --------------------------------
(***************************************************************************)
(* What the proxy promises about each tool call, whatever happens between  *)
(* its services: the verifier is asked about it twice at most, and not     *)
(* after the verdict; the call is judged at most once, the verdict is      *)
(* final, and it is queued only after the second try; the audit log says   *)
(* what the verdict says, nothing is logged about a call once it has been  *)
(* released upstream, and only an allowed call is released.  Enforcement   *)
(* implements this specification.                                          *)
(***************************************************************************)
EXTENDS Naturals

CONSTANT Calls

VARIABLES
  tries,      \* how often the verifier was asked for a score of each call
  verdict,    \* the verdict of each call, "none" until it is judged
  logged,     \* the status of the call's action record in the audit graph
  released    \* whether the call has been sent to the upstream server

vars == <<tries, verdict, logged, released>>

Verdicts == {"Allow", "Block", "Queue", "Error"}

\* The status an action record must carry for a verdict.
Status(v) == IF v = "Allow" THEN "Allowed" ELSE "Blocked"

Init ==
  /\ tries = [c \in Calls |-> 0]
  /\ verdict = [c \in Calls |-> "none"]
  /\ logged = [c \in Calls |-> "none"]
  /\ released = [c \in Calls |-> FALSE]

Ask(c) ==
  /\ verdict[c] = "none" /\ tries[c] < 2
  /\ tries' = [tries EXCEPT ![c] = @ + 1]
  /\ UNCHANGED <<verdict, logged, released>>

Judge(c) ==
  /\ verdict[c] = "none"
  /\ \E v \in Verdicts : /\ v = "Queue" => tries[c] = 2
                         /\ verdict' = [verdict EXCEPT ![c] = v]
  /\ UNCHANGED <<tries, logged, released>>

Log(c) ==
  /\ verdict[c] # "none"
  /\ logged[c] = "none"
  /\ ~released[c]
  /\ logged' = [logged EXCEPT ![c] = Status(verdict[c])]
  /\ UNCHANGED <<tries, verdict, released>>

Release(c) ==
  /\ verdict[c] = "Allow"
  /\ ~released[c]
  /\ released' = [released EXCEPT ![c] = TRUE]
  /\ UNCHANGED <<tries, verdict, logged>>

Next == \E c \in Calls : Ask(c) \/ Judge(c) \/ Log(c) \/ Release(c)

Spec == Init /\ [][Next]_vars
=============================================================================
