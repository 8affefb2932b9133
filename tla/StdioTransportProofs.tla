------------------------ MODULE StdioTransportProofs ------------------------
(***************************************************************************)
(* What holds of StdioTransport for any number of lines and any pipe.      *)
(***************************************************************************)
EXTENDS StdioTransport, TLAPS

-----------------------------------------------------------------------------
(* Type correctness                                                        *)

\* The initial state is well typed.
LEMMA InitTyped == Init => TypeOK
<1> SUFFICES ASSUME Init
             PROVE  TypeOK
  OBVIOUS
<1>1. PumpsTyped
  <2>1. at = [p \in Pumps |-> "read"] /\ taken = [p \in Pumps |-> 0] /\ refused = {} /\ lock = "none"
    BY DEF Init
  <2>2. input \in Seq(Kinds) /\ said \in Seq(Kinds \ {"call", "bad"}) /\ Len(input) = 0 /\ Len(said) = 0
    BY DEF Init
  <2>3. at["agent"] = "read" /\ at["child"] = "read" /\ taken["agent"] = 0 /\ taken["child"] = 0
    BY <2>1 DEF Pumps
  <2>4. closed \in BOOLEAN /\ running \in BOOLEAN
    BY Zenon DEF Init
  <2>5. at \in [Pumps -> {"read", "judge", "forward", "lock", "text", "end", "over"}]
        /\ taken \in [Pumps -> Nat] /\ refused \subseteq 1..taken["agent"]
    BY <2>1
  <2> QED
    BY <2>1, <2>2, <2>3, <2>4, <2>5 DEF PumpsTyped
<1>2. ChildPipeTyped
  BY BoundsAssumption DEF Init, ChildPipeTyped
<1>3. OutTyped
  BY BoundsAssumption DEF Init, OutTyped
<1> QED
  BY <1>1, <1>2, <1>3 DEF TypeOK

\* Every step keeps the inputs, the pumps and what they have in hand well typed.
LEMMA PumpsStayTyped ==
  ASSUME TypeOK, Next
  PROVE  PumpsTyped'
<1> USE DEF TypeOK
<1>1. CASE AgentWrites
  BY <1>1 DEF AgentWrites, PumpsTyped, Pumps
<1>2. CASE ChildWrites
  BY <1>2 DEF ChildWrites, PumpsTyped, Pumps
<1>3. CASE AgentCloses \/ AgentReads \/ ChildReads \/ ChildExits
  BY <1>3 DEF AgentCloses, AgentReads, ChildReads, ChildExits, PumpsTyped
<1>4. CASE TakeLine
  BY <1>4 DEF TakeLine, PumpsTyped, Pumps, Kinds
<1>5. CASE TakeChildLine
  BY <1>5 DEF TakeChildLine, PumpsTyped, Pumps, Kinds
<1>6. CASE Judge
  <2>1. taken["agent"] \in 1..taken["agent"]
    BY <1>6 DEF Judge, PumpsTyped, Pumps
  <2> QED
    BY <1>6, <2>1 DEF Judge, PumpsTyped, Pumps
<1>7. CASE Forward
  BY <1>7 DEF Forward, PumpsTyped, Pumps
<1>8. ASSUME NEW p \in Pumps, TakeEnd(p) \/ Lock(p) \/ WriteText(p) \/ WriteEnd(p)
      PROVE  PumpsTyped'
  BY <1>8 DEF TakeEnd, Lock, WriteText, WriteEnd, PumpsTyped, Pumps
<1> QED
  BY <1>1, <1>2, <1>3, <1>4, <1>5, <1>6, <1>7, <1>8 DEF Next

\* Every step keeps the child's stdin within the pipe.
LEMMA ChildPipeStaysTyped ==
  ASSUME TypeOK, Next
  PROVE  ChildPipeTyped'
<1> USE DEF TypeOK
<1>1. CASE ChildReads
  <2>1. /\ toChild \in Seq(Nat) /\ toChild # <<>> /\ heard \in Seq(Nat) /\ Len(toChild) <= PipeSize
        /\ heard' = Append(heard, Head(toChild)) /\ toChild' = Tail(toChild)
    BY <1>1 DEF ChildReads, ChildPipeTyped
  <2>2. Len(Tail(toChild)) = Len(toChild) - 1 /\ Head(toChild) \in Nat /\ Tail(toChild) \in Seq(Nat)
    BY <2>1
  <2>3. Len(toChild) \in Nat
    BY <2>1
  <2>4. Len(toChild') <= PipeSize
    BY <2>1, <2>2, <2>3, BoundsAssumption
  <2>5. heard' \in Seq(Nat)
    BY <2>1, <2>2
  <2> QED
    BY <2>1, <2>2, <2>4, <2>5 DEF ChildPipeTyped
<1>2. CASE Forward
  <2>1. CASE running /\ Len(toChild) < PipeSize /\ toChild' = Append(toChild, taken["agent"])
    <3>1. taken["agent"] \in Nat /\ toChild \in Seq(Nat) /\ heard' = heard /\ heard \in Seq(Nat)
      BY <1>2 DEF Forward, PumpsTyped, ChildPipeTyped, Pumps
    <3> QED
      BY <2>1, <3>1, BoundsAssumption DEF ChildPipeTyped
  <2>2. CASE UNCHANGED toChild
    BY <1>2, <2>2 DEF Forward, ChildPipeTyped
  <2> QED
    BY <1>2, <2>1, <2>2 DEF Forward
<1>3. CASE UNCHANGED <<toChild, heard>>
  BY <1>3 DEF ChildPipeTyped
<1> QED
  BY <1>1, <1>2, <1>3
     DEF Next, AgentWrites, AgentCloses, AgentReads, ChildWrites, ChildExits,
         TakeLine, Judge, TakeChildLine, TakeEnd, Lock, WriteText, WriteEnd

\* A piece that is written while there is room keeps stdout within its pipe.
LEMMA WritingStaysTyped ==
  ASSUME TypeOK, NEW p \in Pumps, NEW part \in {"text", "end"}, Len(out) - seen < PipeSize,
         out' = Append(out, Piece(p, part)), seen' = seen
  PROVE  OutTyped'
<1> DEFINE Pieces == [from : Pumps, line : Nat, part : {"text", "end"}]
<1>1. Piece(p, part) \in Pieces
  BY DEF Piece, TypeOK, PumpsTyped
<1>2. out \in Seq(Pieces) /\ seen \in 0..Len(out)
  BY DEF TypeOK, OutTyped
<1> HIDE DEF Pieces
<1>3. out' \in Seq(Pieces) /\ Len(out') = Len(out) + 1 /\ Len(out) \in Nat
  BY <1>1, <1>2
<1>4. seen' \in 0..Len(out') /\ Len(out') - seen' <= PipeSize
  BY <1>2, <1>3, BoundsAssumption
<1> QED
  BY <1>3, <1>4 DEF OutTyped, Pieces

\* Every step keeps stdout within its pipe.
LEMMA OutStaysTyped ==
  ASSUME TypeOK, Next
  PROVE  OutTyped'
<1>1. CASE AgentReads
  <2> DEFINE Pieces == [from : Pumps, line : Nat, part : {"text", "end"}]
  <2>1. out \in Seq(Pieces) /\ seen \in 0..Len(out) /\ Len(out) - seen <= PipeSize
    BY DEF TypeOK, OutTyped
  <2> HIDE DEF Pieces
  <2>2. out' = out /\ seen < Len(out) /\ seen' = seen + 1 /\ Len(out) \in Nat
    BY <1>1, <2>1 DEF AgentReads
  <2>3. seen' \in 0..Len(out') /\ Len(out') - seen' <= PipeSize
    BY <2>1, <2>2, BoundsAssumption
  <2> QED
    BY <2>1, <2>2, <2>3 DEF OutTyped, Pieces
<1>2. ASSUME NEW p \in Pumps, WriteText(p) \/ WriteEnd(p)
      PROVE  OutTyped'
  BY <1>2, WritingStaysTyped DEF WriteText, WriteEnd
<1>3. CASE UNCHANGED <<out, seen>>
  BY <1>3 DEF TypeOK, OutTyped
<1> QED
  BY <1>1, <1>2, <1>3
     DEF Next, AgentWrites, AgentCloses, ChildReads, ChildWrites, ChildExits,
         TakeLine, Judge, Forward, TakeChildLine, TakeEnd, Lock

\* The state of the transport is always well typed: no pipe holds more than it can,
\* whoever waits for whom.
THEOREM TypeCorrect == Spec => []TypeOK
<1>1. TypeOK /\ [Next]_vars => TypeOK'
  <2> SUFFICES ASSUME TypeOK, [Next]_vars
               PROVE  TypeOK'
    OBVIOUS
  <2>1. CASE UNCHANGED vars
    BY <2>1 DEF vars, TypeOK, PumpsTyped, ChildPipeTyped, OutTyped
  <2> QED
    BY <2>1, PumpsStayTyped, ChildPipeStaysTyped, OutStaysTyped DEF TypeOK
<1> QED
  BY <1>1, InitTyped, PTL DEF Spec

-----------------------------------------------------------------------------
(* Whole lines                                                             *)

\* A pump writes while it holds the lock, and only then; between the text and the
\* end of a line, the text is the last thing written.
WriterInv ==
  /\ \A p \in Pumps : at[p] \in {"text", "end"} <=> lock = p
  /\ \A p \in Pumps : at[p] = "end" => out # <<>> /\ out[Len(out)] = Piece(p, "text")
  /\ Len(out) % 2 = 1 <=> \E p \in Pumps : at[p] = "end"

LinesInv == TypeOK /\ WriterInv /\ LinesWhole

\* A step that writes nothing and moves no pump into or out of a line changes nothing
\* about the lines.
LEMMA QuietKeepsLines ==
  ASSUME TypeOK, TypeOK', WriterInv, LinesWhole, UNCHANGED <<out, lock>>,
         \A p \in Pumps : \/ at'[p] = at[p] /\ taken'[p] = taken[p]
                          \/ at[p] \notin {"text", "end"} /\ at'[p] \notin {"text", "end"}
  PROVE  WriterInv' /\ LinesWhole'
<1>1. LinesWhole'
  BY DEF LinesWhole
<1>2. (\A p \in Pumps : at[p] \in {"text", "end"} <=> lock = p)'
  BY DEF WriterInv
<1>3. (\A p \in Pumps : at[p] = "end" => out # <<>> /\ out[Len(out)] = Piece(p, "text"))'
  BY DEF WriterInv, Piece
<1>4. (Len(out) % 2 = 1 <=> \E p \in Pumps : at[p] = "end")'
  BY DEF WriterInv
<1> QED
  BY <1>1, <1>2, <1>3, <1>4 DEF WriterInv

\* A pump that takes the lock begins a line.
LEMMA LockKeepsLines ==
  ASSUME TypeOK, WriterInv, LinesWhole, NEW p \in Pumps, Lock(p)
  PROVE  WriterInv' /\ LinesWhole'
<1>1. LinesWhole'
  BY DEF Lock, LinesWhole
<1>2. at'[p] = "text" /\ \A q \in Pumps \ {p} : at'[q] = at[q]
  BY DEF Lock, TypeOK, PumpsTyped
<1>3. at[p] = "lock" /\ lock = "none" /\ lock' = p /\ UNCHANGED <<out, taken>>
  BY DEF Lock
<1>4. \A q \in Pumps : q # "none"
  BY DEF Pumps
<1>5. (\A q \in Pumps : at[q] \in {"text", "end"} <=> lock = q)'
  BY <1>2, <1>3, <1>4 DEF WriterInv
<1>6. (\A q \in Pumps : at[q] = "end" => out # <<>> /\ out[Len(out)] = Piece(q, "text"))'
  BY <1>2, <1>3 DEF WriterInv, Piece
<1>7. (Len(out) % 2 = 1 <=> \E q \in Pumps : at[q] = "end")'
  BY <1>2, <1>3 DEF WriterInv
<1> QED
  BY <1>1, <1>5, <1>6, <1>7 DEF WriterInv

\* A text comes after the end of the line before it.
LEMMA TextKeepsLines ==
  ASSUME TypeOK, WriterInv, LinesWhole, NEW p \in Pumps, WriteText(p)
  PROVE  WriterInv' /\ LinesWhole'
<1> DEFINE piece == Piece(p, "text")
<1>1. at[p] = "text" /\ lock = p /\ out' = Append(out, piece) /\ UNCHANGED <<lock, taken>>
  BY DEF WriteText, WriterInv
<1>2. at'[p] = "end" /\ \A q \in Pumps \ {p} : at'[q] = at[q]
  BY DEF WriteText, TypeOK, PumpsTyped
<1>3. \A q \in Pumps : at[q] # "end"
  BY <1>1 DEF WriterInv
<1>4. Len(out) % 2 = 0 /\ Len(out) \in Nat /\ out \in Seq([from : Pumps, line : Nat, part : {"text", "end"}])
  BY <1>3 DEF WriterInv, TypeOK, OutTyped
<1>5. Len(out') = Len(out) + 1 /\ out'[Len(out) + 1] = piece /\ \A i \in 1..Len(out) : out'[i] = out[i]
  BY <1>1, <1>4
<1>6. LinesWhole'
  <2> SUFFICES ASSUME NEW i \in DOMAIN out'
               PROVE  IF i % 2 = 1 THEN out'[i].part = "text"
                      ELSE out'[i] = [out'[i - 1] EXCEPT !.part = "end"]
    BY DEF LinesWhole
  <2>1. CASE i = Len(out) + 1
    BY <2>1, <1>4, <1>5 DEF Piece
  <2>2. CASE i # Len(out) + 1
    <3>1. i \in 1..Len(out)
      BY <2>2, <1>1, <1>4
    <3>2. i % 2 # 1 => i - 1 \in 1..Len(out)
      BY <3>1, <1>4
    <3> QED
      BY <3>1, <3>2, <1>4, <1>5 DEF LinesWhole
  <2> QED
    BY <2>1, <2>2
<1>7. (\A q \in Pumps : at[q] \in {"text", "end"} <=> lock = q)'
  BY <1>1, <1>2 DEF WriterInv
<1>8. (\A q \in Pumps : at[q] = "end" => out # <<>> /\ out[Len(out)] = Piece(q, "text"))'
  BY <1>1, <1>2, <1>3, <1>4, <1>5 DEF Piece
<1>9. (Len(out) % 2 = 1 <=> \E q \in Pumps : at[q] = "end")'
  BY <1>2, <1>4, <1>5
<1> QED
  BY <1>6, <1>7, <1>8, <1>9 DEF WriterInv

\* The end of a line comes after its text.
LEMMA EndKeepsLines ==
  ASSUME TypeOK, WriterInv, LinesWhole, NEW p \in Pumps, WriteEnd(p)
  PROVE  WriterInv' /\ LinesWhole'
<1> DEFINE piece == Piece(p, "end")
<1>1. at[p] = "end" /\ lock = p /\ lock' = "none" /\ out' = Append(out, piece) /\ taken' = taken
  BY DEF WriteEnd, WriterInv
<1>2. at'[p] \in {"over", "read"} /\ \A q \in Pumps \ {p} : at'[q] = at[q]
  BY DEF WriteEnd, TypeOK, PumpsTyped
<1>3. \A q \in Pumps \ {p} : at[q] \notin {"text", "end"}
  BY <1>1 DEF WriterInv
<1>4. /\ Len(out) % 2 = 1 /\ Len(out) \in Nat /\ out[Len(out)] = Piece(p, "text")
      /\ out \in Seq([from : Pumps, line : Nat, part : {"text", "end"}])
  BY <1>1 DEF WriterInv, TypeOK, OutTyped
<1>5. Len(out') = Len(out) + 1 /\ out'[Len(out) + 1] = piece /\ \A i \in 1..Len(out) : out'[i] = out[i]
  BY <1>1, <1>4
<1>6. LinesWhole'
  <2> SUFFICES ASSUME NEW i \in DOMAIN out'
               PROVE  IF i % 2 = 1 THEN out'[i].part = "text"
                      ELSE out'[i] = [out'[i - 1] EXCEPT !.part = "end"]
    BY DEF LinesWhole
  <2>1. CASE i = Len(out) + 1
    <3>1. i % 2 = 0 /\ i - 1 = Len(out) /\ Len(out) \in 1..Len(out)
      BY <2>1, <1>4
    <3>2. out'[i - 1] = Piece(p, "text")
      BY <3>1, <1>4, <1>5
    <3> QED
      BY <2>1, <3>1, <3>2, <1>5 DEF Piece
  <2>2. CASE i # Len(out) + 1
    <3>1. i \in 1..Len(out)
      BY <2>2, <1>1, <1>4
    <3>2. i % 2 # 1 => i - 1 \in 1..Len(out)
      BY <3>1, <1>4
    <3> QED
      BY <3>1, <3>2, <1>4, <1>5 DEF LinesWhole
  <2> QED
    BY <2>1, <2>2
<1>7. (\A q \in Pumps : at[q] \in {"text", "end"} <=> lock = q)'
  BY <1>1, <1>2, <1>3 DEF Pumps
<1>8. \A q \in Pumps : at'[q] # "end"
  BY <1>2, <1>3
<1>9. Len(out') % 2 = 0
  BY <1>4, <1>5
<1> QED
  BY <1>6, <1>7, <1>8, <1>9 DEF WriterInv

\* The agent only ever reads whole lines: a text is followed by its own end, however
\* the two pumps take turns.
THEOREM LinesAlwaysWhole == Spec => []LinesWhole
<1>1. Init => LinesInv
  BY InitTyped DEF Init, LinesInv, WriterInv, LinesWhole, Pumps
<1>2. LinesInv /\ [Next]_vars => LinesInv'
  <2> SUFFICES ASSUME LinesInv, [Next]_vars
               PROVE  WriterInv' /\ LinesWhole' /\ TypeOK'
    BY DEF LinesInv
  <2>1. TypeOK /\ WriterInv /\ LinesWhole
    BY DEF LinesInv
  <2>2. TypeOK'
    <3>1. CASE UNCHANGED vars
      BY <2>1, <3>1 DEF vars, TypeOK, PumpsTyped, ChildPipeTyped, OutTyped
    <3> QED
      BY <2>1, <3>1, PumpsStayTyped, ChildPipeStaysTyped, OutStaysTyped DEF TypeOK
  <2>3. CASE UNCHANGED vars
    BY <2>1, <2>2, <2>3, QuietKeepsLines DEF vars
  <2>4. CASE AgentWrites \/ AgentCloses \/ AgentReads \/ ChildReads \/ ChildWrites \/ ChildExits
    BY <2>1, <2>2, <2>4, QuietKeepsLines
       DEF AgentWrites, AgentCloses, AgentReads, ChildReads, ChildWrites, ChildExits
  <2>5. CASE TakeLine
    <3>1. at["agent"] = "read" /\ at'["agent"] \notin {"text", "end"} /\ at'["child"] = at["child"]
          /\ taken'["child"] = taken["child"] /\ UNCHANGED <<out, lock>>
      BY <2>1, <2>5 DEF TakeLine, TypeOK, PumpsTyped, Kinds, Pumps
    <3> QED
      BY <2>1, <2>2, <3>1, QuietKeepsLines DEF Pumps
  <2>6. CASE TakeChildLine
    <3>1. at["child"] = "read" /\ at'["child"] \notin {"text", "end"} /\ at'["agent"] = at["agent"]
          /\ taken'["agent"] = taken["agent"] /\ UNCHANGED <<out, lock>>
      BY <2>1, <2>6 DEF TakeChildLine, TypeOK, PumpsTyped, Kinds, Pumps
    <3> QED
      BY <2>1, <2>2, <3>1, QuietKeepsLines DEF Pumps
  <2>7. CASE Judge \/ Forward
    <3>1. at["agent"] \notin {"text", "end"} /\ at'["agent"] \notin {"text", "end"}
          /\ at'["child"] = at["child"] /\ UNCHANGED <<taken, out, lock>>
      BY <2>1, <2>7 DEF Judge, Forward, TypeOK, PumpsTyped, Pumps
    <3> QED
      BY <2>1, <2>2, <3>1, QuietKeepsLines DEF Pumps
  <2>8. ASSUME NEW p \in Pumps, TakeEnd(p)
        PROVE  WriterInv' /\ LinesWhole'
    <3>1. /\ at[p] = "read" /\ at'[p] = "over" /\ UNCHANGED <<taken, out, lock>>
          /\ \A q \in Pumps \ {p} : at'[q] = at[q]
      BY <2>1, <2>8 DEF TakeEnd, TypeOK, PumpsTyped
    <3> QED
      BY <2>1, <2>2, <3>1, QuietKeepsLines
  <2> QED
    BY <2>1, <2>2, <2>3, <2>4, <2>5, <2>6, <2>7, <2>8,
       LockKeepsLines, TextKeepsLines, EndKeepsLines DEF Next
<1>3. LinesInv => LinesWhole
  BY DEF LinesInv
<1> QED
  BY <1>1, <1>2, <1>3, PTL DEF Spec

-----------------------------------------------------------------------------
(* Kept lines                                                              *)

\* The lines that were passed to the child, and those whose answer or text was written.
Passed == {Forwarded[i] : i \in DOMAIN Forwarded}
Texts(p) == {out[i].line : i \in {j \in DOMAIN out : IsText(j, p)}}

Passes(n) == input[n] = "other" \/ (input[n] = "call" /\ n \notin refused)
Answers(n) == input[n] = "bad" \/ n \in refused

\* What the agent's pump does with the line in its hand is what is due to it, and it
\* has not done it yet.
AgentHandInv ==
  LET n == taken["agent"]
  IN /\ \A m \in refused : input[m] = "call"
     /\ at["agent"] = "judge" => input[n] = "call" /\ n \notin refused
     /\ at["agent"] = "forward" => Passes(n)
     /\ at["agent"] \in {"lock", "text", "end"} => Answers(n)
     /\ Passed \subseteq 1..n /\ Texts("agent") \subseteq 1..n
     /\ InHand("agent", n) => n \notin Passed /\ n \notin Texts("agent")

ChildHandInv ==
  LET n == taken["child"]
  IN /\ at["child"] \in {"lock", "text", "end"} => n > 0 /\ said[n] = "other"
     /\ Texts("child") \subseteq 1..n
     /\ InHand("child", n) => n \notin Texts("child")

\* Written and passed lines are the members of these sets.
LEMMA WrittenIsText == \A p, n : Written(p, n) <=> n \in Texts(p)
BY DEF Written, Texts

LEMMA PassedIsForwarded ==
  \A n : (\E i \in DOMAIN Forwarded : Forwarded[i] = n) <=> n \in Passed
BY DEF Passed

\* AgentLinesKept and ChildLinesKept, in terms of these sets.
AgentKept ==
  /\ \A i, j \in DOMAIN Forwarded : i < j => Forwarded[i] < Forwarded[j]
  /\ \A n \in 1..taken["agent"] :
       /\ n \in Passed => Passes(n)
       /\ n \in Texts("agent") => Answers(n)
       /\ running => InHand("agent", n) \/ (n \in Passed <=> Passes(n))
       /\ InHand("agent", n) \/ (n \in Texts("agent") <=> Answers(n))

ChildKept ==
  /\ \A i, j \in DOMAIN out :
       i < j /\ IsText(i, "child") /\ IsText(j, "child") => out[i].line < out[j].line
  /\ \A n \in 1..taken["child"] :
       /\ n \in Texts("child") => said[n] = "other"
       /\ InHand("child", n) \/ (n \in Texts("child") <=> said[n] = "other")

AgentInv == AgentHandInv /\ AgentKept
ChildInv == ChildHandInv /\ ChildKept

LEMMA KeptSuffices == AgentKept /\ ChildKept => LinesKept
BY WrittenIsText, PassedIsForwarded, Zenon
   DEF LinesKept, AgentLinesKept, ChildLinesKept, AgentKept, ChildKept, Passes, Answers

\* Writing a piece adds its line to the texts of its pump if it is a text.
LEMMA TextsGrow ==
  ASSUME TypeOK, NEW p \in Pumps, NEW part \in {"text", "end"}, out' = Append(out, Piece(p, part))
  PROVE  /\ \A q \in Pumps \ {p} : Texts(q)' = Texts(q)
         /\ part = "end" => Texts(p)' = Texts(p)
         /\ part = "text" => Texts(p)' = Texts(p) \cup {taken[p]}
<1> DEFINE Pieces == [from : Pumps, line : Nat, part : {"text", "end"}]
           piece == Piece(p, part)
<1>1. out \in Seq(Pieces) /\ piece \in Pieces
  BY DEF TypeOK, OutTyped, PumpsTyped, Piece
<1>2. piece.from = p /\ piece.line = taken[p] /\ piece.part = part
  BY DEF Piece
<1> HIDE DEF Pieces, piece
<1>0. PICK k : k = Len(out) + 1
  OBVIOUS
<1>3. /\ DOMAIN out' = DOMAIN out \cup {k} /\ k \notin DOMAIN out
      /\ out'[k] = piece /\ \A i \in DOMAIN out : out'[i] = out[i]
  BY <1>0, <1>1 DEF piece
<1>4. \A q \in Pumps : \A i \in DOMAIN out : IsText(i, q)' <=> IsText(i, q)
  BY <1>3, Zenon DEF IsText
<1>5. \A q \in Pumps : IsText(k, q)' <=> q = p /\ part = "text"
  BY <1>2, <1>3, Zenon DEF IsText
<1>6. out'[k].line = taken[p] /\ \A i \in DOMAIN out : out'[i].line = out[i].line
  BY <1>2, <1>3
<1>7. ASSUME NEW q \in Pumps, NEW n
      PROVE  n \in Texts(q)' <=> n \in Texts(q) \/ (q = p /\ part = "text" /\ n = taken[p])
  <2>1. n \in Texts(q)' <=> \E i \in DOMAIN out' : IsText(i, q)' /\ out'[i].line = n
    BY Zenon DEF Texts
  <2>2. n \in Texts(q) <=> \E i \in DOMAIN out : IsText(i, q) /\ out[i].line = n
    BY Zenon DEF Texts
  <2> HIDE DEF IsText
  <2>3. (\E i \in DOMAIN out' : IsText(i, q)' /\ out'[i].line = n)
          <=> \/ \E i \in DOMAIN out : IsText(i, q)' /\ out'[i].line = n
              \/ IsText(k, q)' /\ out'[k].line = n
    BY <1>3, Zenon
  <2> QED
    BY <2>1, <2>2, <2>3, <1>4, <1>5, <1>6, Zenon
<1> QED
  BY <1>7

\* A step of the world: the lines there are keep their kinds, and what the pumps have
\* done and hold stays.
LEMMA WorldKeepsLines ==
  ASSUME TypeOK, AgentInv, ChildInv, UNCHANGED <<out, at, taken, refused>>,
         Forwarded' = Forwarded, running' => running,
         \A n \in 1..taken["agent"] : input'[n] = input[n],
         \A n \in 1..taken["child"] : said'[n] = said[n]
  PROVE  AgentInv' /\ ChildInv'
<1>1. Passed' = Passed /\ Texts("agent")' = Texts("agent") /\ Texts("child")' = Texts("child")
  BY DEF Passed, Texts, IsText
<1>2. \A n \in 1..taken["agent"] : Passes(n)' = Passes(n) /\ Answers(n)' = Answers(n)
  BY DEF Passes, Answers
<1>3. taken["agent"] \in Nat /\ taken["child"] \in Nat /\ refused \subseteq 1..taken["agent"]
      /\ (at["agent"] \in {"judge", "forward", "lock", "text", "end"} => taken["agent"] > 0)
  BY DEF TypeOK, PumpsTyped, Pumps
<1>4. AgentHandInv'
  BY <1>1, <1>2, <1>3 DEF AgentInv, AgentHandInv, InHand
<1>5. AgentKept'
  BY <1>1, <1>2 DEF AgentInv, AgentKept, InHand
<1>6. ChildHandInv'
  BY <1>1, <1>3 DEF ChildInv, ChildHandInv, InHand
<1>7. ChildKept'
  BY <1>1 DEF ChildInv, ChildKept, InHand, IsText
<1> QED
  BY <1>4, <1>5, <1>6, <1>7 DEF AgentInv, ChildInv

\* The pumps keep each other's lines as they are.
LEMMA ChildUntouched ==
  ASSUME ChildInv, UNCHANGED <<said, out>>, at'["child"] = at["child"],
         taken'["child"] = taken["child"]
  PROVE  ChildInv'
<1>1. Texts("child")' = Texts("child")
  BY DEF Texts, IsText
<1> QED
  BY <1>1 DEF ChildInv, ChildHandInv, ChildKept, InHand, IsText

LEMMA AgentUntouched ==
  ASSUME AgentInv, UNCHANGED <<input, toChild, heard, refused, running>>,
         Texts("agent")' = Texts("agent"),
         at'["agent"] = at["agent"], taken'["agent"] = taken["agent"]
  PROVE  AgentInv'
<1>1. Passed' = Passed /\ Forwarded' = Forwarded
  BY DEF Passed, Forwarded
<1>2. \A n : Passes(n)' = Passes(n) /\ Answers(n)' = Answers(n)
  BY DEF Passes, Answers
<1> QED
  BY <1>1, <1>2 DEF AgentInv, AgentHandInv, AgentKept, InHand

\* The agent's pump takes a line that nothing was done about so far.
LEMMA TakeLineKeeps ==
  ASSUME TypeOK, AgentInv, ChildInv, TakeLine
  PROVE  AgentInv' /\ ChildInv'
<1> DEFINE n == taken["agent"] + 1
<1>1. /\ at["agent"] = "read" /\ n \in 1..Len(input) /\ n \in Nat /\ taken'["agent"] = n
      /\ taken["agent"] \in Nat
      /\ input[n] \in Kinds /\ refused \subseteq 1..(n - 1)
  BY DEF TakeLine, TypeOK, PumpsTyped, Pumps
<1>2. at'["agent"] = CASE input[n] = "call" -> "judge"
                       [] input[n] = "other" -> "forward"
                       [] input[n] = "blank" -> "read"
                       [] input[n] = "bad" -> "lock"
                       [] input[n] = "invalid" -> "over"
  BY DEF TakeLine, TypeOK, PumpsTyped, Pumps
<1>3. UNCHANGED <<input, said, running, toChild, heard, refused, out>>
      /\ at'["child"] = at["child"] /\ taken'["child"] = taken["child"]
  BY DEF TakeLine, TypeOK, PumpsTyped, Pumps
<1>4. Passed' = Passed /\ Forwarded' = Forwarded /\ Texts("agent")' = Texts("agent")
  BY <1>3 DEF Passed, Forwarded, Texts, IsText
<1>5. Passed \subseteq 1..(n - 1) /\ Texts("agent") \subseteq 1..(n - 1)
      /\ \A m \in refused : input[m] = "call"
  BY <1>1 DEF AgentInv, AgentHandInv
<1> HIDE DEF n
<1>6. \A m : Passes(m)' = Passes(m) /\ Answers(m)' = Answers(m)
  BY <1>3 DEF Passes, Answers
<1>7. n \notin Passed /\ n \notin Texts("agent") /\ n \notin refused
  BY <1>1, <1>5
<1>8. AgentHandInv'
  BY <1>1, <1>2, <1>3, <1>4, <1>5, <1>6, <1>7 DEF AgentHandInv, Kinds, InHand, Passes, Answers
<1>9. AgentKept'
  <2>1. ASSUME NEW m \in 1..n
        PROVE  /\ m \in Passed => Passes(m)
               /\ m \in Texts("agent") => Answers(m)
               /\ running => InHand("agent", m)' \/ (m \in Passed <=> Passes(m))
               /\ InHand("agent", m)' \/ (m \in Texts("agent") <=> Answers(m))
    <3>1. CASE m = n
      BY <3>1, <1>1, <1>2, <1>7 DEF InHand, Passes, Answers, Kinds
    <3>2. CASE m # n
      <4>1. m \in 1..taken["agent"] /\ ~InHand("agent", m)
        BY <3>2, <1>1 DEF n, InHand
      <4> QED
        BY <4>1 DEF AgentInv, AgentKept
    <3> QED
      BY <3>1, <3>2
  <2> QED
    BY <2>1, <1>1, <1>3, <1>4, <1>6 DEF AgentInv, AgentKept
<1> QED
  BY <1>3, <1>8, <1>9, ChildUntouched DEF AgentInv

\* The child's pump takes a line of which nothing was written so far.
LEMMA TakeChildLineKeeps ==
  ASSUME TypeOK, AgentInv, ChildInv, TakeChildLine
  PROVE  AgentInv' /\ ChildInv'
<1> DEFINE n == taken["child"] + 1
<1>1. /\ at["child"] = "read" /\ n \in 1..Len(said) /\ n \in Nat /\ taken'["child"] = n
      /\ taken["child"] \in Nat /\ said[n] \in Kinds \ {"call", "bad"}
  BY DEF TakeChildLine, TypeOK, PumpsTyped, Pumps
<1>2. at'["child"] = CASE said[n] = "other" -> "lock"
                       [] said[n] = "blank" -> "read"
                       [] said[n] = "invalid" -> "over"
  BY DEF TakeChildLine, TypeOK, PumpsTyped, Pumps
<1>3. UNCHANGED <<input, said, running, toChild, heard, refused, out>>
      /\ at'["agent"] = at["agent"] /\ taken'["agent"] = taken["agent"]
  BY DEF TakeChildLine, TypeOK, PumpsTyped, Pumps
<1>4. Texts("child")' = Texts("child") /\ Texts("agent")' = Texts("agent")
  BY <1>3 DEF Texts, IsText
<1>5. Texts("child") \subseteq 1..(n - 1)
  BY <1>1 DEF ChildInv, ChildHandInv
<1> HIDE DEF n
<1>6. n \notin Texts("child")
  BY <1>1, <1>5
<1>7. ChildHandInv'
  BY <1>1, <1>2, <1>3, <1>4, <1>5, <1>6 DEF ChildHandInv, Kinds, InHand
<1>8. ChildKept'
  <2>1. ASSUME NEW m \in 1..n
        PROVE  /\ m \in Texts("child") => said[m] = "other"
               /\ InHand("child", m)' \/ (m \in Texts("child") <=> said[m] = "other")
    <3>1. CASE m = n
      BY <3>1, <1>1, <1>2, <1>6 DEF InHand, Kinds
    <3>2. CASE m # n
      <4>1. m \in 1..taken["child"] /\ ~InHand("child", m)
        BY <3>2, <1>1 DEF n, InHand
      <4> QED
        BY <4>1 DEF ChildInv, ChildKept
    <3> QED
      BY <3>1, <3>2
  <2> QED
    BY <2>1, <1>1, <1>3, <1>4 DEF ChildInv, ChildKept, IsText
<1> QED
  BY <1>3, <1>4, <1>7, <1>8, AgentUntouched DEF ChildInv

\* A call that is refused was not passed, one that is allowed goes on to be.
LEMMA JudgeKeeps ==
  ASSUME TypeOK, AgentInv, ChildInv, Judge
  PROVE  AgentInv' /\ ChildInv'
<1>0. PICK n : n = taken["agent"]
  OBVIOUS
<1>1. /\ at["agent"] = "judge" /\ n \in Nat /\ n > 0
      /\ UNCHANGED <<input, said, running, taken, toChild, heard, out>>
      /\ at'["child"] = at["child"]
  BY <1>0 DEF Judge, TypeOK, PumpsTyped, Pumps
<1>2. \/ at'["agent"] = "forward" /\ refused' = refused
      \/ at'["agent"] = "lock" /\ refused' = refused \cup {n}
  BY <1>0 DEF Judge, TypeOK, PumpsTyped, Pumps
<1>3. Passed' = Passed /\ Forwarded' = Forwarded /\ Texts("agent")' = Texts("agent")
  BY <1>1 DEF Passed, Forwarded, Texts, IsText
<1>4. /\ input[n] = "call" /\ n \notin refused /\ InHand("agent", n)
      /\ n \notin Passed /\ n \notin Texts("agent")
  BY <1>0, <1>1 DEF AgentInv, AgentHandInv, InHand
<1>5. \A m : m # n => Passes(m)' = Passes(m) /\ Answers(m)' = Answers(m)
  BY <1>1, <1>2 DEF Passes, Answers
<1>6. at'["agent"] = "forward" => Passes(n)'
  BY <1>1, <1>2, <1>4 DEF Passes
<1>7. at'["agent"] = "lock" => Answers(n)'
  BY <1>1, <1>2, <1>4 DEF Answers
<1>8. AgentHandInv'
  BY <1>0, <1>1, <1>2, <1>3, <1>4, <1>6, <1>7 DEF AgentInv, AgentHandInv, InHand
<1>9. AgentKept'
  <2>1. \A m : InHand("agent", m) <=> m = n
    BY <1>0, <1>1 DEF InHand
  <2>2. \A m : InHand("agent", m)' <=> m = n
    BY <1>0, <1>1, <1>2 DEF InHand
  <2>3. ASSUME NEW m \in 1..n
        PROVE  /\ m \in Passed => Passes(m)'
               /\ m \in Texts("agent") => Answers(m)'
               /\ running => m = n \/ (m \in Passed <=> Passes(m)')
               /\ m = n \/ (m \in Texts("agent") <=> Answers(m)')
    BY <2>1, <1>0, <1>4, <1>5 DEF AgentInv, AgentKept
  <2> QED
    BY <2>2, <2>3, <1>0, <1>1, <1>3 DEF AgentInv, AgentKept
<1> QED
  BY <1>1, <1>8, <1>9, ChildUntouched DEF AgentInv

\* The line in the agent's hand is the last of those that are passed, or there is no
\* child any more that it could be passed to.
LEMMA ForwardKeeps ==
  ASSUME TypeOK, AgentInv, ChildInv, Forward
  PROVE  AgentInv' /\ ChildInv'
<1>0. PICK n : n = taken["agent"]
  OBVIOUS
<1>1. /\ at["agent"] = "forward" /\ at'["agent"] = "read" /\ n \in Nat /\ n > 0
      /\ UNCHANGED <<input, said, running, taken, refused, heard, out>>
      /\ at'["child"] = at["child"]
      /\ \/ running /\ toChild' = Append(toChild, n)
         \/ ~running /\ toChild' = toChild
  BY <1>0 DEF Forward, TypeOK, PumpsTyped, Pumps
<1>2. heard \in Seq(Nat) /\ toChild \in Seq(Nat)
  BY DEF TypeOK, ChildPipeTyped
<1>3. Texts("agent")' = Texts("agent")
      /\ \A m : Passes(m)' = Passes(m) /\ Answers(m)' = Answers(m)
  BY <1>1 DEF Texts, IsText, Passes, Answers
<1>4. /\ Passes(n) /\ Passed \subseteq 1..n /\ n \notin Passed /\ n \notin Texts("agent")
      /\ Texts("agent") \subseteq 1..n
      /\ \A m \in refused : input[m] = "call"
  BY <1>0, <1>1 DEF AgentInv, AgentHandInv, InHand
<1>5. ~Answers(n)
  BY <1>4 DEF Passes, Answers
<1>6. \A m : (InHand("agent", m) <=> m = n) /\ ~InHand("agent", m)'
  BY <1>0, <1>1 DEF InHand
<1>7. ASSUME running, toChild' = Append(toChild, n)
      PROVE  AgentInv'
  <2>1. Forwarded' = Append(Forwarded, n) /\ Forwarded \in Seq(Nat)
    BY <1>1, <1>2, <1>7 DEF Forwarded
  <2>0. PICK k : k = Len(Forwarded) + 1
    OBVIOUS
  <2>2. /\ k \in Nat \ {0} /\ DOMAIN Forwarded = 1..(k - 1) /\ DOMAIN Forwarded' = 1..k
        /\ Forwarded'[k] = n /\ \A i \in 1..(k - 1) : Forwarded'[i] = Forwarded[i]
    BY <2>0, <2>1, <1>1
  <2>3. Passed' = Passed \cup {n}
    <3>1. 1..k = 1..(k - 1) \cup {k}
      BY <2>2
    <3>2. \A m : (\E i \in 1..k : Forwarded'[i] = m) <=> (m = n \/ \E i \in 1..(k - 1) : Forwarded[i] = m)
      BY <3>1, <2>2
    <3>3. \A m : m \in Passed' <=> m \in Passed \/ m = n
      BY <3>2, <2>2, Zenon DEF Passed
    <3> QED
      BY <3>3
  <2>4. \A i \in 1..(k - 1) : Forwarded[i] \in Passed
    BY <2>2 DEF Passed
  <2>5. \A i \in 1..(k - 1) : Forwarded[i] < n
    <3>1. \A m \in Passed : m \in 1..n /\ m # n
      BY <1>4
    <3> QED
      BY <3>1, <2>4, <1>1
  <2>6. (\A i, j \in DOMAIN Forwarded : i < j => Forwarded[i] < Forwarded[j])'
    <3>1. \A i, j \in 1..(k - 1) : i < j => Forwarded[i] < Forwarded[j]
      BY <2>2 DEF AgentInv, AgentKept
    <3>2. \A i, j \in 1..k : i < j => i \in 1..(k - 1) /\ (j = k \/ j \in 1..(k - 1))
      BY <2>2
    <3> QED
      BY <3>1, <3>2, <2>2, <2>5
  <2>7. AgentHandInv'
    <3>1. Passed' \subseteq 1..n /\ Texts("agent")' \subseteq 1..n
      BY <2>3, <1>1, <1>3, <1>4
    <3> QED
      BY <3>1, <1>0, <1>1, <1>4, <1>6 DEF AgentHandInv
  <2>8. AgentKept'
    BY <2>3, <2>6, <1>0, <1>1, <1>3, <1>4, <1>5, <1>6 DEF AgentInv, AgentKept
  <2> QED
    BY <2>7, <2>8 DEF AgentInv
<1>8. ASSUME ~running, toChild' = toChild
      PROVE  AgentInv'
  <2>1. Passed' = Passed /\ Forwarded' = Forwarded
    BY <1>1, <1>8 DEF Passed, Forwarded
  <2>2. AgentHandInv'
    BY <2>1, <1>1, <1>0, <1>3, <1>4, <1>6 DEF AgentHandInv
  <2>3. AgentKept'
    BY <2>1, <1>0, <1>1, <1>3, <1>4, <1>5, <1>6, <1>8 DEF AgentInv, AgentKept
  <2> QED
    BY <2>2, <2>3 DEF AgentInv
<1> QED
  BY <1>1, <1>7, <1>8, ChildUntouched

\* A pump that ends, waits no longer for the lock or ends its line has done what it had
\* to do with the line before, or still has it in hand.
LEMMA MoveKeeps ==
  ASSUME TypeOK, AgentInv, ChildInv, NEW p \in Pumps, TakeEnd(p) \/ Lock(p) \/ WriteEnd(p)
  PROVE  AgentInv' /\ ChildInv'
<1>1. /\ UNCHANGED <<input, said, running, taken, toChild, heard, refused>>
      /\ \A q \in Pumps \ {p} : at'[q] = at[q]
      /\ \/ at[p] = "read" /\ at'[p] = "over" /\ out' = out
         \/ at[p] = "lock" /\ at'[p] = "text" /\ out' = out
         \/ at[p] = "end" /\ at'[p] \in {"read", "over"} /\ out' = Append(out, Piece(p, "end"))
  BY DEF TakeEnd, Lock, WriteEnd, TypeOK, PumpsTyped
<1>2. Texts("agent")' = Texts("agent") /\ Texts("child")' = Texts("child")
  <2>1. CASE out' = out
    BY <2>1 DEF Texts, IsText
  <2>2. CASE out' = Append(out, Piece(p, "end"))
    BY <2>2, TextsGrow DEF Pumps
  <2> QED
    BY <1>1, <2>1, <2>2
<1>3. \A i, j \in DOMAIN out' : i < j /\ IsText(i, "child")' /\ IsText(j, "child")'
                                  => out'[i].line < out'[j].line
  <2>1. CASE out' = out
    BY <2>1 DEF IsText, ChildInv, ChildKept
  <2>2. CASE out' = Append(out, Piece(p, "end"))
    <3>1. PICK k : k = Len(out) + 1
      OBVIOUS
    <3>2. /\ DOMAIN out' = DOMAIN out \cup {k} /\ \A i \in DOMAIN out : out'[i] = out[i]
          /\ out'[k].part = "end"
      BY <2>2, <3>1 DEF TypeOK, OutTyped, Piece
    <3>3. \A i \in DOMAIN out' : IsText(i, "child")' => i \in DOMAIN out /\ IsText(i, "child")
      BY <3>2 DEF IsText
    <3> QED
      BY <3>2, <3>3, Zenon DEF ChildInv, ChildKept
  <2> QED
    BY <1>1, <2>1, <2>2
<1>4. Passed' = Passed /\ Forwarded' = Forwarded
      /\ \A n : Passes(n)' = Passes(n) /\ Answers(n)' = Answers(n)
  BY <1>1 DEF Passed, Forwarded, Passes, Answers
<1>5. \A q \in Pumps : at[q] \in {"judge", "forward", "lock", "text"}
                         <=> at'[q] \in {"judge", "forward", "lock", "text"}
  BY <1>1
<1>6. AgentInv'
  <2>1. \A n : InHand("agent", n)' <=> InHand("agent", n)
    BY <1>1, <1>5 DEF InHand, Pumps
  <2>2. /\ at'["agent"] \in {"judge", "forward"} => at'["agent"] = at["agent"]
        /\ at'["agent"] \in {"lock", "text", "end"} => at["agent"] \in {"lock", "text", "end"}
    BY <1>1 DEF Pumps
  <2> QED
    BY <2>1, <2>2, <1>1, <1>2, <1>4 DEF AgentInv, AgentHandInv, AgentKept
<1>7. ChildInv'
  <2>1. \A n : InHand("child", n)' <=> InHand("child", n)
    BY <1>1, <1>5 DEF InHand, Pumps
  <2>2. at'["child"] \in {"lock", "text", "end"} => at["child"] \in {"lock", "text", "end"}
    BY <1>1 DEF Pumps
  <2> QED
    BY <2>1, <2>2, <1>1, <1>2, <1>3 DEF ChildInv, ChildHandInv, ChildKept
<1> QED
  BY <1>6, <1>7

\* The agent's pump writes the answer that is due to the line in its hand.
LEMMA AnswerKeeps ==
  ASSUME TypeOK, AgentInv, ChildInv, WriteText("agent")
  PROVE  AgentInv' /\ ChildInv'
<1>0. PICK n : n = taken["agent"]
  OBVIOUS
<1>1. /\ UNCHANGED <<input, said, running, taken, toChild, heard, refused>>
      /\ at["agent"] = "text" /\ at'["agent"] = "end" /\ at'["child"] = at["child"]
      /\ n \in Nat /\ n > 0 /\ out' = Append(out, Piece("agent", "text"))
  BY <1>0 DEF WriteText, TypeOK, PumpsTyped, Pumps
<1>2. Texts("agent")' = Texts("agent") \cup {n} /\ Texts("child")' = Texts("child")
  BY <1>0, <1>1, TextsGrow DEF Pumps
<1>3. Passed' = Passed /\ Forwarded' = Forwarded
      /\ \A m : Passes(m)' = Passes(m) /\ Answers(m)' = Answers(m)
  BY <1>1 DEF Passed, Forwarded, Passes, Answers
<1>4. \A m : (InHand("agent", m) <=> m = n) /\ ~InHand("agent", m)'
  BY <1>0, <1>1 DEF InHand
<1>5. /\ Answers(n) /\ n \notin Passed /\ Passed \subseteq 1..n /\ Texts("agent") \subseteq 1..n
      /\ \A m \in refused : input[m] = "call"
  BY <1>0, <1>1, <1>4 DEF AgentInv, AgentHandInv
<1>6. ~Passes(n)
  BY <1>5 DEF Answers, Passes
<1>7. AgentHandInv'
  <2>1. Passed' \subseteq 1..n /\ Texts("agent")' \subseteq 1..n
    BY <1>1, <1>2, <1>3, <1>5
  <2> QED
    BY <2>1, <1>0, <1>1, <1>3, <1>4, <1>5 DEF AgentHandInv
<1>8. AgentKept'
  BY <1>0, <1>1, <1>2, <1>3, <1>4, <1>5, <1>6 DEF AgentInv, AgentKept
<1>9. ChildInv'
  <2>1. PICK k : k = Len(out) + 1
    OBVIOUS
  <2>2. /\ DOMAIN out' = DOMAIN out \cup {k} /\ \A i \in DOMAIN out : out'[i] = out[i]
        /\ out'[k].from = "agent"
    BY <1>1, <2>1 DEF TypeOK, OutTyped, Piece
  <2>3. \A i \in DOMAIN out' : IsText(i, "child")' => i \in DOMAIN out /\ IsText(i, "child")
    BY <2>2 DEF IsText
  <2>4. \A i, j \in DOMAIN out' : i < j /\ IsText(i, "child")' /\ IsText(j, "child")'
                                    => out'[i].line < out'[j].line
    BY <2>2, <2>3, Zenon DEF ChildInv, ChildKept
  <2> QED
    BY <2>4, <1>1, <1>2 DEF ChildInv, ChildHandInv, ChildKept, InHand
<1> QED
  BY <1>7, <1>8, <1>9 DEF AgentInv

\* The child's pump writes the line in its hand, which comes after all it wrote before.
LEMMA ChildTextKeeps ==
  ASSUME TypeOK, AgentInv, ChildInv, WriteText("child")
  PROVE  AgentInv' /\ ChildInv'
<1>0. PICK n : n = taken["child"]
  OBVIOUS
<1>1. /\ UNCHANGED <<input, said, running, taken, toChild, heard, refused>>
      /\ at["child"] = "text" /\ at'["child"] = "end" /\ at'["agent"] = at["agent"]
      /\ n \in Nat /\ out' = Append(out, Piece("child", "text"))
  BY <1>0 DEF WriteText, TypeOK, PumpsTyped, Pumps
<1>2. Texts("child")' = Texts("child") \cup {n} /\ Texts("agent")' = Texts("agent")
  BY <1>0, <1>1, TextsGrow DEF Pumps
<1>3. \A m : (InHand("child", m) <=> m = n) /\ ~InHand("child", m)'
  BY <1>0, <1>1 DEF InHand
<1>4. n > 0 /\ said[n] = "other" /\ n \notin Texts("child") /\ Texts("child") \subseteq 1..n
  BY <1>0, <1>1, <1>3 DEF ChildInv, ChildHandInv
<1>5. ChildHandInv'
  <2>1. Texts("child")' \subseteq 1..n
    BY <1>1, <1>2, <1>4
  <2> QED
    BY <2>1, <1>0, <1>1, <1>3, <1>4 DEF ChildHandInv
<1>6. \A i, j \in DOMAIN out' : i < j /\ IsText(i, "child")' /\ IsText(j, "child")'
                                  => out'[i].line < out'[j].line
  <2>1. PICK k : k = Len(out) + 1
    OBVIOUS
  <2>2. /\ DOMAIN out' = DOMAIN out \cup {k} /\ \A i \in DOMAIN out : out'[i] = out[i]
        /\ \A i \in DOMAIN out : i \in Int /\ i < k
        /\ k \in Int /\ out'[k].line = n
    BY <1>0, <1>1, <2>1 DEF TypeOK, OutTyped, Piece
  <2>3. \A i \in DOMAIN out : IsText(i, "child")' <=> IsText(i, "child")
    BY <2>2 DEF IsText
  <2>4. \A i \in DOMAIN out : IsText(i, "child") => out[i].line < n
    <3>1. \A i \in DOMAIN out : IsText(i, "child") => out[i].line \in Texts("child")
      BY DEF Texts
    <3>2. \A m \in Texts("child") : m < n
      <4>1. \A m \in Texts("child") : m \in 1..n /\ m # n
        BY <1>4
      <4> QED
        BY <4>1, <1>1
    <3> QED
      BY <3>1, <3>2
  <2>5. ASSUME NEW i \in DOMAIN out', NEW j \in DOMAIN out', i < j,
               IsText(i, "child")', IsText(j, "child")'
        PROVE  out'[i].line < out'[j].line
    <3>1. i \in DOMAIN out /\ IsText(i, "child")
      BY <2>2, <2>3, <2>5
    <3>2. CASE j = k
      BY <3>1, <3>2, <2>2, <2>4
    <3>3. CASE j \in DOMAIN out
      BY <3>1, <3>3, <2>2, <2>3, <2>5 DEF ChildInv, ChildKept
    <3> QED
      BY <3>2, <3>3, <2>2
  <2> QED
    BY <2>5
<1>7. ChildKept'
  BY <1>0, <1>1, <1>2, <1>3, <1>4, <1>6 DEF ChildInv, ChildKept
<1> QED
  BY <1>1, <1>2, <1>5, <1>7, AgentUntouched DEF ChildInv

\* No line is lost, sent twice or overtaken in either direction, and each gets the answer
\* that is due to it, for any number of lines and pipes of any size.
THEOREM LinesAlwaysKept == Spec => []LinesKept
<1> DEFINE KeptInv == TypeOK /\ AgentInv /\ ChildInv
<1>1. Init => KeptInv
  <2> SUFFICES ASSUME Init
               PROVE  AgentInv /\ ChildInv
    BY InitTyped
  <2>1. /\ taken["agent"] = 0 /\ taken["child"] = 0 /\ at["agent"] = "read" /\ at["child"] = "read"
        /\ refused = {} /\ out = <<>> /\ Forwarded = <<>>
    BY DEF Init, Pumps, Forwarded
  <2>2. Passed = {} /\ Texts("agent") = {} /\ Texts("child") = {}
    BY <2>1 DEF Passed, Texts
  <2> QED
    BY <2>1, <2>2 DEF AgentInv, AgentHandInv, AgentKept, ChildInv, ChildHandInv, ChildKept, InHand
<1>2. KeptInv /\ [Next]_vars => KeptInv'
  <2> SUFFICES ASSUME KeptInv, [Next]_vars
               PROVE  AgentInv' /\ ChildInv' /\ TypeOK'
    OBVIOUS
  <2>1. TypeOK'
    <3>1. CASE UNCHANGED vars
      BY <3>1 DEF vars, TypeOK, PumpsTyped, ChildPipeTyped, OutTyped
    <3> QED
      BY <3>1, PumpsStayTyped, ChildPipeStaysTyped, OutStaysTyped DEF TypeOK
  <2>2. CASE UNCHANGED vars
    BY <2>1, <2>2, WorldKeepsLines DEF vars, Forwarded
  <2>3. CASE AgentWrites
    <3>1. \A n \in 1..taken["agent"] : input'[n] = input[n]
      BY <2>3 DEF AgentWrites, TypeOK, PumpsTyped, Pumps
    <3> QED
      BY <2>1, <2>3, <3>1, WorldKeepsLines DEF AgentWrites, Forwarded
  <2>4. CASE ChildWrites
    <3>1. \A n \in 1..taken["child"] : said'[n] = said[n]
      BY <2>4 DEF ChildWrites, TypeOK, PumpsTyped, Pumps
    <3> QED
      BY <2>1, <2>4, <3>1, WorldKeepsLines DEF ChildWrites, Forwarded
  <2>5. CASE AgentCloses \/ AgentReads \/ ChildExits
    BY <2>1, <2>5, WorldKeepsLines DEF AgentCloses, AgentReads, ChildExits, Forwarded
  <2>6. CASE ChildReads
    <3>1. Append(heard, Head(toChild)) \o Tail(toChild) = heard \o toChild
      BY <2>6 DEF ChildReads, TypeOK, ChildPipeTyped
    <3>2. Forwarded' = Forwarded
      BY <2>6, <3>1 DEF ChildReads, Forwarded
    <3> QED
      BY <2>1, <2>6, <3>2, WorldKeepsLines DEF ChildReads
  <2>7. CASE TakeLine \/ Judge \/ Forward \/ TakeChildLine
    BY <2>1, <2>7, TakeLineKeeps, JudgeKeeps, ForwardKeeps, TakeChildLineKeeps
  <2>8. ASSUME NEW p \in Pumps, TakeEnd(p) \/ Lock(p) \/ WriteText(p) \/ WriteEnd(p)
        PROVE  AgentInv' /\ ChildInv'
    BY <2>8, MoveKeeps, AnswerKeeps, ChildTextKeeps DEF Pumps
  <2> QED
    BY <2>1, <2>2, <2>3, <2>4, <2>5, <2>6, <2>7, <2>8 DEF Next
<1>3. KeptInv => LinesKept
  BY KeptSuffices DEF AgentInv, ChildInv
<1> QED
  BY <1>1, <1>2, <1>3, PTL DEF Spec
=============================================================================
