--------------------------- MODULE StdioTransport ---------------------------
(***************************************************************************)
(* The stdio front end of the proxy (proxy/src/mcp/transport.rs): between  *)
(* an agent and an MCP server it started, its child, run two pumps.  One   *)
(* takes the agent's lines, has its tool calls judged, and passes lines on *)
(* to the child or answers them itself; the other takes the child's lines  *)
(* to the agent.  Both write to one stdout, a line at a time.              *)
(*                                                                         *)
(* A line of the agent is its number, a line of the child too.  A pipe is  *)
(* full at PipeSize; what is in stdout's pipe are the texts and the ends   *)
(* of lines.                                                               *)
(***************************************************************************)
EXTENDS Integers, Sequences

CONSTANTS
  MaxLines,  \* bound on the lines of the agent
  MaxSaid,   \* bound on the lines of the child
  PipeSize   \* what a pipe holds

ASSUME BoundsAssumption == MaxLines \in Nat /\ MaxSaid \in Nat /\ PipeSize \in Nat \ {0}

\* What a line is: a tool call, another message, blank, no message that parses,
\* no UTF-8.
Kinds == {"call", "other", "blank", "bad", "invalid"}

Pumps == {"agent", "child"}

VARIABLES
  input,    \* the kinds of the agent's lines
  closed,   \* whether the agent has closed its end
  said,     \* the kinds of the child's lines
  running,  \* whether the child runs
  at,       \* of each pump: where it is
  taken,    \* of each pump: how many lines it has taken
  toChild,  \* the lines in the child's stdin
  heard,    \* the lines the child has read from it
  refused,  \* the calls that were not allowed (history)
  lock,     \* who holds the lock on stdout: a pump or "none"
  out,      \* what was written to stdout
  seen      \* how much of it the agent has read

vars == <<input, closed, said, running, at, taken, toChild, heard, refused, lock, out, seen>>

Init ==
  /\ input = <<>> /\ closed = FALSE
  /\ said = <<>> /\ running = TRUE
  /\ at = [p \in Pumps |-> "read"] /\ taken = [p \in Pumps |-> 0]
  /\ toChild = <<>> /\ heard = <<>> /\ refused = {}
  /\ lock = "none" /\ out = <<>> /\ seen = 0

-----------------------------------------------------------------------------
(* The agent and the child                                                 *)

AgentWrites ==
  /\ ~closed /\ Len(input) < MaxLines
  /\ \E k \in Kinds : input' = Append(input, k)
  /\ UNCHANGED <<closed, said, running, at, taken, toChild, heard, refused, lock, out, seen>>
AgentCloses ==
  /\ ~closed /\ closed' = TRUE
  /\ UNCHANGED <<input, said, running, at, taken, toChild, heard, refused, lock, out, seen>>
AgentReads ==
  /\ seen < Len(out) /\ seen' = seen + 1
  /\ UNCHANGED <<input, closed, said, running, at, taken, toChild, heard, refused, lock, out>>

ChildReads ==
  /\ running /\ toChild # <<>>
  /\ heard' = Append(heard, Head(toChild)) /\ toChild' = Tail(toChild)
  /\ UNCHANGED <<input, closed, said, running, at, taken, refused, lock, out, seen>>
ChildWrites ==
  /\ running /\ Len(said) < MaxSaid
  /\ Len(said) - taken["child"] < PipeSize
  /\ \E k \in Kinds \ {"call", "bad"} : said' = Append(said, k)
  /\ UNCHANGED <<input, closed, running, at, taken, toChild, heard, refused, lock, out, seen>>
\* The child ends when it likes; its stdin stays open until run_stdio is done with
\* both pumps, so the agent's closing does not make it.
ChildExits ==
  /\ running /\ running' = FALSE
  /\ UNCHANGED <<input, closed, said, at, taken, toChild, heard, refused, lock, out, seen>>

-----------------------------------------------------------------------------
(* The pumps                                                               *)

\* next_line and parse_message.  A line that is no UTF-8 ends the pump like the end
\* of its input; one that does not parse is sent back, and then ends it too.
TakeLine ==
  LET n == taken["agent"] + 1
  IN /\ at["agent"] = "read" /\ n <= Len(input)
     /\ taken' = [taken EXCEPT !["agent"] = n]
     /\ at' = [at EXCEPT !["agent"] = CASE input[n] = "call" -> "judge"
                                        [] input[n] = "other" -> "forward"
                                        [] input[n] = "blank" -> "read"
                                        [] input[n] = "bad" -> "lock"
                                        [] input[n] = "invalid" -> "over"]
     /\ UNCHANGED <<input, closed, said, running, toChild, heard, refused, lock, out, seen>>

\* Mutant: a line of the child is skipped while the agent's pump writes.
TakeChildLineTrying ==
  LET n == taken["child"] + 1
  IN /\ at["child"] = "read" /\ n <= Len(said)
     /\ taken' = [taken EXCEPT !["child"] = n]
     /\ at' = [at EXCEPT !["child"] = CASE said[n] = "other" /\ lock = "none" -> "lock"
                                        [] said[n] = "other" /\ lock # "none" -> "read"
                                        [] said[n] = "blank" -> "read"
                                        [] said[n] = "invalid" -> "over"]
     /\ UNCHANGED <<input, closed, said, running, toChild, heard, refused, lock, out, seen>>

TakeChildLine ==
  LET n == taken["child"] + 1
  IN /\ at["child"] = "read" /\ n <= Len(said)
     /\ taken' = [taken EXCEPT !["child"] = n]
     /\ at' = [at EXCEPT !["child"] = CASE said[n] = "other" -> "lock"
                                        [] said[n] = "blank" -> "read"
                                        [] said[n] = "invalid" -> "over"]
     /\ UNCHANGED <<input, closed, said, running, toChild, heard, refused, lock, out, seen>>

\* A side has ended and all of its lines are taken.
Ended(p) == IF p = "agent" THEN closed /\ taken[p] = Len(input)
            ELSE ~running /\ taken[p] = Len(said)

\* Mutant: the end of the input is read like a blank line.
TakeEndBlank(p) ==
  /\ at[p] = "read" /\ Ended(p)
  /\ UNCHANGED vars

TakeEnd(p) ==
  /\ at[p] = "read" /\ Ended(p)
  /\ at' = [at EXCEPT ![p] = "over"]
  /\ UNCHANGED <<input, closed, said, running, taken, toChild, heard, refused, lock, out, seen>>

\* evaluate_tool_call, see Enforcement; what is not allowed is answered here.
Judge ==
  /\ at["agent"] = "judge"
  /\ \/ at' = [at EXCEPT !["agent"] = "forward"] /\ UNCHANGED refused
     \/ /\ at' = [at EXCEPT !["agent"] = "lock"]
        /\ refused' = refused \cup {taken["agent"]}
  /\ UNCHANGED <<input, closed, said, running, taken, toChild, heard, lock, out, seen>>

\* Mutant: a line for which there is no room is dropped.
ForwardTrying ==
  /\ at["agent"] = "forward"
  /\ toChild' = IF running /\ Len(toChild) < PipeSize THEN Append(toChild, taken["agent"])
                ELSE toChild
  /\ at' = [at EXCEPT !["agent"] = "read"]
  /\ UNCHANGED <<input, closed, said, running, taken, heard, refused, lock, out, seen>>

\* Mutant: the lines for the child are buffered without a bound.
ForwardBuffering ==
  /\ at["agent"] = "forward"
  /\ toChild' = IF running THEN Append(toChild, taken["agent"]) ELSE toChild
  /\ at' = [at EXCEPT !["agent"] = "read"]
  /\ UNCHANGED <<input, closed, said, running, taken, heard, refused, lock, out, seen>>

\* write_line to the child; a child that has gone is not noticed.
Forward ==
  /\ at["agent"] = "forward"
  /\ \/ /\ running /\ Len(toChild) < PipeSize
        /\ toChild' = Append(toChild, taken["agent"])
     \/ ~running /\ UNCHANGED toChild
  /\ at' = [at EXCEPT !["agent"] = "read"]
  /\ UNCHANGED <<input, closed, said, running, taken, heard, refused, lock, out, seen>>

\* write_line to stdout.  Mutant: it is not locked.
LockNever(p) ==
  /\ at[p] = "lock"
  /\ at' = [at EXCEPT ![p] = "text"]
  /\ UNCHANGED <<input, closed, said, running, taken, toChild, heard, refused, lock, out, seen>>

Lock(p) ==
  /\ at[p] = "lock" /\ lock = "none"
  /\ lock' = p
  /\ at' = [at EXCEPT ![p] = "text"]
  /\ UNCHANGED <<input, closed, said, running, taken, toChild, heard, refused, out, seen>>

Piece(p, part) == [from |-> p, line |-> taken[p], part |-> part]

WriteText(p) ==
  /\ at[p] = "text" /\ Len(out) - seen < PipeSize
  /\ out' = Append(out, Piece(p, "text"))
  /\ at' = [at EXCEPT ![p] = "end"]
  /\ UNCHANGED <<input, closed, said, running, taken, toChild, heard, refused, lock, seen>>

\* Mutant: the child's pump holds on to the lock.
WriteEndKeeping(p) ==
  /\ at[p] = "end" /\ Len(out) - seen < PipeSize
  /\ out' = Append(out, Piece(p, "end"))
  /\ at' = [at EXCEPT ![p] = IF p = "agent" /\ input[taken[p]] = "bad" THEN "over" ELSE "read"]
  /\ lock' = IF p = "agent" THEN "none" ELSE lock
  /\ UNCHANGED <<input, closed, said, running, taken, toChild, heard, refused, seen>>

WriteEnd(p) ==
  /\ at[p] = "end" /\ Len(out) - seen < PipeSize
  /\ out' = Append(out, Piece(p, "end"))
  /\ at' = [at EXCEPT ![p] = IF p = "agent" /\ input[taken[p]] = "bad" THEN "over" ELSE "read"]
  /\ lock' = "none"
  /\ UNCHANGED <<input, closed, said, running, taken, toChild, heard, refused, seen>>

PumpStep(p) ==
  \/ p = "agent" /\ (TakeLine \/ Judge \/ Forward)
  \/ p = "child" /\ TakeChildLine
  \/ TakeEnd(p) \/ Lock(p) \/ WriteText(p) \/ WriteEnd(p)

Next ==
  \/ AgentWrites \/ AgentCloses \/ AgentReads
  \/ ChildReads \/ ChildWrites \/ ChildExits
  \/ TakeLine \/ Judge \/ Forward \/ TakeChildLine
  \/ \E p \in Pumps : TakeEnd(p) \/ Lock(p) \/ WriteText(p) \/ WriteEnd(p)

\* tokio runs the pumps, both sides read what they are sent, and judging a call ends,
\* which is assumed: Answered of EnforcementProps says what it may wait for.
Spec ==
  /\ Init /\ [][Next]_vars
  /\ \A p \in Pumps : WF_vars(PumpStep(p))
  /\ WF_vars(AgentReads) /\ WF_vars(ChildReads)

-----------------------------------------------------------------------------
(* What the transport guarantees                                           *)

\* The types, and that a pipe never holds more than it can (write_all waits) and
\* the counts never run ahead of the lines.
PumpsTyped ==
  /\ input \in Seq(Kinds) /\ closed \in BOOLEAN
  /\ said \in Seq(Kinds \ {"call", "bad"}) /\ running \in BOOLEAN
  /\ at \in [Pumps -> {"read", "judge", "forward", "lock", "text", "end", "over"}]
  /\ at["child"] \notin {"judge", "forward"}
  /\ taken \in [Pumps -> Nat] /\ taken["agent"] <= Len(input) /\ taken["child"] <= Len(said)
  /\ at["agent"] \in {"judge", "forward", "lock", "text", "end"} => taken["agent"] > 0
  /\ refused \subseteq 1..taken["agent"]
  /\ lock \in Pumps \cup {"none"}
ChildPipeTyped ==
  toChild \in Seq(Nat) /\ Len(toChild) <= PipeSize /\ heard \in Seq(Nat)
OutTyped ==
  /\ out \in Seq([from : Pumps, line : Nat, part : {"text", "end"}])
  /\ seen \in 0..Len(out) /\ Len(out) - seen <= PipeSize
TypeOK == PumpsTyped /\ ChildPipeTyped /\ OutTyped

\* The agent reads whole lines, whichever pump wrote them: a text is followed by
\* its own end (write_line holds the lock for both).
LinesWhole ==
  \A i \in DOMAIN out :
    IF i % 2 = 1 THEN out[i].part = "text"
    ELSE out[i] = [out[i - 1] EXCEPT !.part = "end"]

Forwarded == heard \o toChild
IsText(i, p) == out[i].from = p /\ out[i].part = "text"
Written(p, n) == \E i \in DOMAIN out : IsText(i, p) /\ out[i].line = n
InHand(p, n) == n = taken[p] /\ at[p] \in {"judge", "forward", "lock", "text"}

\* The child gets the agent's messages in their order, without the calls that were
\* refused; those, and a line that does not parse, are answered; and as long as the child
\* runs no message is dropped.
AgentLinesKept ==
  /\ \A i, j \in DOMAIN Forwarded : i < j => Forwarded[i] < Forwarded[j]
  /\ \A n \in 1..taken["agent"] :
       LET passes == input[n] = "other" \/ (input[n] = "call" /\ n \notin refused)
           answers == input[n] = "bad" \/ n \in refused
           passed == \E i \in DOMAIN Forwarded : Forwarded[i] = n
       IN /\ passed => passes
          /\ Written("agent", n) => answers
          /\ running => InHand("agent", n) \/ (passed <=> passes)
          /\ InHand("agent", n) \/ (Written("agent", n) <=> answers)

\* The child's messages come to the agent, each once and in their order.
ChildLinesKept ==
  /\ \A i, j \in DOMAIN out :
       i < j /\ IsText(i, "child") /\ IsText(j, "child") => out[i].line < out[j].line
  /\ \A n \in 1..taken["child"] :
       /\ Written("child", n) => said[n] = "other"
       /\ InHand("child", n) \/ (Written("child", n) <=> said[n] = "other")

\* No line is lost, sent twice or overtaken, in either direction, although both
\* pumps wait for full pipes and for each other (handle_message, write_line).
LinesKept == AgentLinesKept /\ ChildLinesKept

\* A line the agent sent is taken, and what answers it is read, in whatever way the
\* pumps wait for full pipes and for each other; unless the pump has ended.
LinesFlow ==
  \A n \in 1..MaxLines :
    Len(input) >= n ~> \/ at["agent"] = "over"
                       \/ taken["agent"] >= n /\ ~InHand("agent", n) /\ seen = Len(out)

\* Once the agent has closed its end and the child has gone, run_stdio ends.
EndsWithBoth ==
  (closed /\ ~running) ~> \A p \in Pumps : at[p] = "over"
=============================================================================
