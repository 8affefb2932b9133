--------------------------- MODULE ResponseStream ---------------------------
(***************************************************************************)
(* How a forwarded request is answered (build_intercepted_response in      *)
(* proxy/src/a2a/http.rs and proxy/src/mcp/http.rs): a task of its own     *)
(* takes the chunks of the upstream's body, inspects each, and hands it to *)
(* the client through a bounded channel.                                   *)
(*                                                                         *)
(* A body is a sequence of units, and a chunk ends after any of them: the  *)
(* names of the two fields, line ends, texts, and the two bytes of a       *)
(* character, which only read as one when a chunk has both.                *)
(***************************************************************************)
EXTENDS Integers, Sequences, FiniteSetsExt

CONSTANTS
  Units,        \* what a body consists of
  Bodies,       \* the bodies an upstream may answer with: their type and units
  ChannelSize,  \* the chunks the channel holds
  TaskStatus, Lead, Trail, Replacement,
  Failure       \* the error of an upstream that broke off, which is no part of a body

ASSUME ChannelAssumption == ChannelSize \in Nat \ {0}
ASSUME BodiesAssumption ==
  /\ Bodies \subseteq [type : {"event-stream", "json", "other"}, units : Seq(Units)]
  /\ Failure \notin Units
ASSUME CharactersAssumption ==
  {Lead, Trail, Replacement} \cap {"\n", "\r", "event:", "data:", TaskStatus} = {}

VARIABLES
  byEvent,    \* whether only task_status events are of interest (A2A; not MCP)
  body,       \* the upstream's body
  taken,      \* how many of its units have arrived
  inspector,  \* SseInspector, and the data lines it has found
  task,       \* the task: "read", "send" or "over"
  hand,       \* the chunk it is sending
  channel,    \* the chunks sent and not received
  got,        \* the units the client has
  client      \* the client: "reads", "complete", "failed" or "left"

streamVars == <<byEvent, body, taken, inspector, task, hand, channel, got, client>>

-----------------------------------------------------------------------------
(* The inspector                                                           *)

\* String::from_utf8_lossy on one chunk.
FromUtf8Lossy(chunk) ==
  [i \in DOMAIN chunk |->
     IF \/ chunk[i] = Lead /\ (i = Len(chunk) \/ chunk[i + 1] # Trail)
        \/ chunk[i] = Trail /\ (i = 1 \/ chunk[i - 1] # Lead)
     THEN Replacement ELSE chunk[i]]

\* str::trim, with "\r" for every white space but the line end.
Trim(text) ==
  LET kept == {i \in DOMAIN text : text[i] # "\r"}
  IN IF kept = {} THEN <<>> ELSE SubSeq(text, Min(kept), Max(kept))

NewInspector == [pending |-> <<>>, event |-> <<>>, data |-> <<>>, found |-> <<>>]

\* Mutant: the name of an event outlives it.
FlushEventKeeping(s) ==
  [s EXCEPT !.data = <<>>,
            !.found = IF byEvent /\ s.event # <<TaskStatus>> THEN @ ELSE @ \o s.data]

\* flush_event
FlushEvent(s) ==
  [s EXCEPT !.data = <<>>, !.event = <<>>,
            !.found = IF byEvent /\ s.event # <<TaskStatus>> THEN @ ELSE @ \o s.data]

\* push_line
PushLine(s, line) ==
  IF Trim(line) = <<>> THEN FlushEvent(s)
  ELSE IF line[1] = "event:" THEN [s EXCEPT !.event = Trim(Tail(line))]
  ELSE IF line[1] = "data:" THEN [s EXCEPT !.data = Append(@, Trim(Tail(line)))]
  ELSE s

\* push_chunk: what is pending becomes a line where a line end is found.  There is
\* none in what was pending before, so only the new text is searched; a \r that
\* ends a line is popped, which the trimming does as well.
PushChunk(s, chunk) ==
  LET text == FromUtf8Lossy(chunk)
      after[n \in 0..Len(text)] ==
        IF n = 0 THEN s
        ELSE LET t == after[n - 1]
             IN IF text[n] # "\n" THEN [t EXCEPT !.pending = Append(@, text[n])]
                ELSE PushLine([t EXCEPT !.pending = <<>>], t.pending)
  IN after[Len(text)]

\* finish: the last line may have no end, and the last event no blank line.
Finish(s) ==
  FlushEvent(IF Trim(s.pending) = <<>> THEN s
             ELSE PushLine([s EXCEPT !.pending = <<>>], s.pending))

-----------------------------------------------------------------------------
(* The task and the client                                                 *)

\* The answer's head has gone to the client, the task is spawned.
StreamInit ==
  /\ byEvent \in BOOLEAN /\ body \in Bodies
  /\ taken = 0 /\ inspector = NewInspector
  /\ task = "read" /\ hand = <<>> /\ channel = <<>>
  /\ got = <<>> /\ client = "reads"

\* The next chunk arrives and is inspected: events at once, a JSON body is kept.
TakeChunk ==
  /\ task = "read"
  /\ \E n \in 1..(Len(body.units) - taken) :
       LET chunk == SubSeq(body.units, taken + 1, taken + n)
       IN /\ inspector' = CASE body.type = "event-stream" -> PushChunk(inspector, chunk)
                             [] body.type = "json" -> [inspector EXCEPT !.pending = @ \o chunk]
                             [] OTHER -> inspector
          /\ taken' = taken + n /\ hand' = chunk /\ task' = "send"
  /\ UNCHANGED <<byEvent, body, channel, got, client>>

\* Mutant: an upstream that breaks off looks like the end of the body.
FailSilently ==
  /\ task = "read" /\ task' = "over"
  /\ UNCHANGED <<byEvent, body, taken, inspector, hand, channel, got, client>>

\* The upstream breaks off; the error is sent like a chunk.
Fail ==
  /\ task = "read" /\ task' = "send" /\ hand' = <<Failure>>
  /\ UNCHANGED <<byEvent, body, taken, inspector, channel, got, client>>

\* Mutant: a task whose client left keeps waiting for room.
SendStuck ==
  /\ task = "send" /\ client = "reads" /\ Len(channel) < ChannelSize
  /\ channel' = Append(channel, hand) /\ hand' = <<>>
  /\ task' = IF hand = <<Failure>> THEN "over" ELSE "read"
  /\ UNCHANGED <<byEvent, body, taken, inspector, got, client>>

\* tx.send waits for room; when the client is gone the task stops where it is.
Send ==
  /\ task = "send"
  /\ \/ /\ client # "reads"
        /\ task' = "over"
        /\ UNCHANGED <<hand, channel>>
     \/ /\ client = "reads" /\ Len(channel) < ChannelSize
        /\ channel' = Append(channel, hand) /\ hand' = <<>>
        /\ task' = IF hand = <<Failure>> THEN "over" ELSE "read"
  /\ UNCHANGED <<byEvent, body, taken, inspector, got, client>>

\* The body ends: what is left is inspected and the channel closed.
End ==
  /\ task = "read" /\ taken = Len(body.units)
  /\ task' = "over"
  /\ inspector' = CASE body.type = "event-stream" -> Finish(inspector)
                     [] body.type = "json" ->
                          [inspector EXCEPT !.pending = <<>>, !.found = <<inspector.pending>>]
                     [] OTHER -> inspector
  /\ UNCHANGED <<byEvent, body, taken, hand, channel, got, client>>

\* The client receives, sees the channel closed, or goes away and drops it.
ReceiveChunk ==
  /\ client = "reads" /\ channel # <<>>
  /\ channel' = Tail(channel)
  /\ IF Head(channel) = <<Failure>> THEN client' = "failed" /\ UNCHANGED got
     ELSE got' = got \o Head(channel) /\ UNCHANGED client
  /\ UNCHANGED <<byEvent, body, taken, inspector, task, hand>>
ReceiveEnd ==
  /\ client = "reads" /\ channel = <<>> /\ task = "over"
  /\ client' = "complete"
  /\ UNCHANGED <<byEvent, body, taken, inspector, task, hand, channel, got>>
Leave ==
  /\ client = "reads"
  /\ client' = "left" /\ channel' = <<>>
  /\ UNCHANGED <<byEvent, body, taken, inspector, task, hand, got>>

StreamNext == TakeChunk \/ Fail \/ Send \/ End \/ ReceiveChunk \/ ReceiveEnd \/ Leave

\* tokio runs the task whenever it can go on; nothing is assumed of the upstream
\* and of the client.
StreamSpec == StreamInit /\ [][StreamNext]_streamVars /\ WF_streamVars(Send)

-----------------------------------------------------------------------------
(* What the stream guarantees                                              *)

\* A client for which the answer ended without an error has all of the body: one
\* that broke off is never taken for complete.
CompleteIsWhole == client = "complete" => got = body.units

\* The lines of a text, by where they start, and the blocks between blank lines.
Starts(text) == {i \in 1..(Len(text) + 1) : i = 1 \/ text[i - 1] = "\n"}
LineAt(text, i) ==
  LET end == CHOOSE e \in i..(Len(text) + 1) :
               /\ e > Len(text) \/ text[e] = "\n"
               /\ \A k \in i..(e - 1) : text[k] # "\n"
  IN SubSeq(text, i, end - 1)
IsField(text, i, name) == LineAt(text, i) # <<>> /\ LineAt(text, i)[1] = name
Value(text, i) == Trim(Tail(LineAt(text, i)))
SameBlock(text, i, j) ==
  \A k \in Starts(text) :
    (i <= k /\ k <= j) \/ (j <= k /\ k <= i) => Trim(LineAt(text, k)) # <<>>

\* The data lines of interest: all, or those whose block has an event line, the last
\* of which names task_status.
Events(text, i) == {e \in Starts(text) : IsField(text, e, "event:") /\ SameBlock(text, e, i)}
OfInterest(text) ==
  {i \in Starts(text) :
     /\ IsField(text, i, "data:")
     /\ byEvent => \E e \in Events(text, i) :
                     Value(text, e) = <<TaskStatus>> /\ \A f \in Events(text, i) : f <= e}

\* Two texts are the same but for characters that were cut.
SameButCut(u, v) ==
  /\ Len(u) = Len(v)
  /\ \A i \in DOMAIN u : u[i] = v[i] \/ (u[i] = Replacement /\ v[i] \in {Lead, Trail})

\* Each of these lines was found, once and in their order.
Lists(found, lines, text) ==
  \E at \in [DOMAIN found -> lines] :
    /\ \A j, k \in DOMAIN found : j < k => at[j] < at[k]
    /\ \A i \in lines : \E k \in DOMAIN found : at[k] = i
    /\ \A k \in DOMAIN found : SameButCut(found[k], Value(text, at[k]))

\* However the body was cut into chunks, what was found in it when it ended is
\* what it holds: the data of an event stream, but for characters that a cut went
\* through, and the whole of a JSON body (push_chunk, finish, json_buffer).
InspectionExact ==
  client = "complete" =>
    CASE body.type = "event-stream" ->
           Lists(inspector.found, OfInterest(body.units), body.units)
      [] body.type = "json" -> inspector.found = <<body.units>>
      [] OTHER -> inspector.found = <<>>

\* A client that leaves does not leave the task behind on a full channel.
LeavingStopsTask == (client = "left" /\ task = "send") ~> task = "over"
=============================================================================
