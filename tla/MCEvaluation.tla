---------------------------- MODULE MCEvaluation ----------------------------
(***************************************************************************)
(* Constants for the run on EvaluationProps.  A day has four minutes; the  *)
(* tool 7 reads as a number.                                               *)
(***************************************************************************)
EXTENDS EvaluationProps

Numeric == {7}
Tools == {7, 11, 12}

Agent(allowed, blocked) == [tier |-> 2, allowed |-> allowed, blocked |-> blocked]
Lists == {[a |-> Agent({}, {})], [a |-> Agent({7, 11}, {11})]}

AllCalls ==
  [agent : {"a"}, tool : Tools, now : {0, 2, NoTime},
   amount : {NoValue, Number(1), Number(2), Text(2)}]
    \cup [agent : {"b"}, tool : {7}, now : {0}, amount : {NoValue}]

Reads(left, op, right, items) ==
  [left |-> left, style |-> "DSL", op |-> op, right |-> right, items |-> items]
Clause(kind, bound, items) ==
  [kind |-> kind, bound |-> bound, items |-> items,
   reads |-> Reads("amount", "<=", Number(1), {})]

Conditions ==
  {{}, {Clause("tool ==", 11, {})}, {Clause("tool ==", 7, {})},
   {Clause("tool in", 0, {7, 12})}, {Clause("amount >", 1, {})},
   {Clause("tier >=", 2, {})}, {Clause("tier >=", 3, {})},
   {Clause("tool ==", 12, {}), Clause("amount >", 1, {})}, {Clause("other", 0, {})}}

Window(start, end) == [start |-> start, end |-> end]
Rule(condition, action, window, outside) ==
  [id |-> <<condition, action>>, clauses |-> condition, action |-> action,
   window |-> window, outside |-> outside, confirm |-> action = "Block"]

SomeRules ==
  {Rule(c, action, NoWindow, "Block") : c \in Conditions, action \in {"Allow", "Block"}}
    \cup {Rule({Clause("tool in", 0, {7, 12})}, "Allow", w, "Block") :
            w \in {Window(1, 2), Window(3, 0), Window(2, 2), Window(NoTime, 1)}}

Expressions ==
  {Reads("tool", "==", Text(11), {}), Reads("tool", "!=", Text(11), {}),
   Reads("amount", "!=", Number(1), {}), Reads("amount", "in", Text(0), {2}),
   [Reads("tier", "<", Number(3), {}) EXCEPT !.style = "OPA_COMPAT"]}
SomeAdvancedRules ==
  [id : {"advanced"}, clauses : {{e} : e \in Expressions}, action : {"Allow", "Block"},
   confirm : {FALSE}]
=============================================================================
