----------------------------- MODULE Evaluation -----------------------------
(***************************************************************************)
(* How the policy service decides on one call (policy/src/evaluator.rs),   *)
(* and how policy_migrate turns rules into advanced rules.                 *)
(*                                                                         *)
(* Conditions and expressions are the sets of clauses they are split into. *)
(* A value, of an argument or a literal, is its type and its written form, *)
(* an integer; tools are written forms too, and those in NumericNames read *)
(* as a number or a flag where a literal is expected.  Times are minutes   *)
(* of the day, NoTime one that is missing or does not parse.               *)
(***************************************************************************)
EXTENDS Integers, Sequences

CONSTANTS
  Day,           \* minutes of a day
  NumericNames,  \* the tool names that parse as a number, true or false
  NoTime, NoWindow, NoRule, NoEngine, NoValue

ASSUME DayAssumption == Day \in Nat \ {0}
ASSUME NoneAssumption == /\ NoTime \notin Int
                         /\ NoWindow \notin [start : 0..Day, end : 0..Day]
                         /\ NoValue \notin [type : {"Text", "Number", "Bool"}, is : Int]

Text(w) == [type |-> "Text", is |-> w]
Number(w) == [type |-> "Number", is |-> w]

\* is_blocked_tool; an empty allowlist allows every tool.
IsBlockedTool(agent, tool) ==
  \/ tool \in agent.blocked
  \/ agent.allowed # {} /\ tool \notin agent.allowed

-----------------------------------------------------------------------------
(* Time windows                                                            *)

\* Mutants: a window never goes past midnight; its last minute is outside.
IsWithinSameDay(now, w) == w.start <= now /\ now <= w.end
IsWithinExclusive(now, w) ==
  IF w.start <= w.end THEN w.start <= now /\ now < w.end
  ELSE w.start <= now \/ now < w.end

\* is_within_time_window, when all three times parse.
IsWithin(now, w) ==
  IF w.start <= w.end THEN w.start <= now /\ now <= w.end
  ELSE w.start <= now \/ now <= w.end

\* evaluate_time_window; a time that does not parse is within.
EvaluateTimeWindow(rule, now) ==
  IF \/ rule.window = NoWindow
     \/ NoTime \in {now, rule.window.start, rule.window.end}
     \/ IsWithin(now, rule.window)
  THEN rule.action ELSE rule.outside

-----------------------------------------------------------------------------
(* Conditions of rules                                                     *)

\* matches_clause.  A clause of another form, or with a bound that does not
\* parse, matches nothing.
MatchesClause(c, call, tier) ==
  \/ c.kind = "tool ==" /\ call.tool = c.bound
  \/ c.kind = "tool in" /\ call.tool \in c.items
  \/ /\ c.kind = "amount >"
     /\ call.amount # NoValue /\ call.amount.type = "Number" /\ call.amount.is > c.bound
  \/ c.kind = "tier >=" /\ tier >= c.bound

\* The rules whose clauses all match.
MatchingRules(rules, call, tier) ==
  {i \in DOMAIN rules : \A c \in rules[i].clauses : MatchesClause(c, call, tier)}

-----------------------------------------------------------------------------
(* Expressions of advanced rules                                           *)

\* resolve_expr_value.  A name in the style of OPA_COMPAT (input.action.tool) is
\* unknown to DSL (normalize_expression_for_engine); the other way round it is known.
ResolveExprValue(c, engine, call, tier) ==
  IF c.style = "OPA_COMPAT" /\ engine = "DSL" THEN NoValue
  ELSE IF c.left = "tool" THEN Text(call.tool)
  ELSE IF c.left = "tier" THEN Number(tier)
  ELSE call.amount

NumberHolds(n, op, m) ==
  \/ op = "==" /\ n = m
  \/ op = "!=" /\ n # m
  \/ op = ">" /\ n > m
  \/ op = ">=" /\ n >= m
  \/ op = "<" /\ n < m
  \/ op = "<=" /\ n <= m

\* compare_expression_values: what the right side reads as decides how the two
\* are compared, and a left side of another type never holds, not even for !=;
\* only a text is compared with any left side, by what that is written as.
Compare(v, op, right) ==
  IF right.type = "Number" THEN v.type = "Number" /\ NumberHolds(v.is, op, right.is)
  ELSE /\ right.type = "Bool" => v.type = "Bool"
       /\ \/ op = "==" /\ v.is = right.is
          \/ op = "!=" /\ v.is # right.is

\* matches_advanced_clause.
MatchesAdvancedClause(c, engine, call, tier) ==
  LET v == ResolveExprValue(c, engine, call, tier)
  IN /\ v # NoValue
     /\ \/ c.op = "in" /\ v.is \in c.items
        \/ c.op # "in" /\ Compare(v, c.op, c.right)

MatchingAdvanced(rules, engine, call, tier) ==
  {i \in DOMAIN rules :
     \A c \in rules[i].clauses : MatchesAdvancedClause(c, engine, call, tier)}

-----------------------------------------------------------------------------
(* evaluate_policy_with_runtime                                            *)

Result(decision, id, confirm) == [decision |-> decision, rule |-> id, confirm |-> confirm]
AgentNotFound == Result("Error", NoRule, FALSE)

\* Mutant: the last of the matching rules decides.
LastOf(I) == CHOOSE i \in I : \A j \in I : j <= i

\* The first of the matching rules decides.
FirstOf(I) == CHOOSE i \in I : \A j \in I : i <= j

Evaluate(policy, call, advancedMode) ==
  IF call.agent \notin DOMAIN policy.agents THEN AgentNotFound
  ELSE LET agent == policy.agents[call.agent]
           advanced == IF advancedMode /\ policy.engine # NoEngine
                       THEN MatchingAdvanced(policy.advanced, policy.engine, call, agent.tier)
                       ELSE {}
           matching == MatchingRules(policy.rules, call, agent.tier)
       IN IF IsBlockedTool(agent, call.tool) THEN Result("Block", NoRule, FALSE)
          ELSE IF advanced # {}
          THEN LET r == policy.advanced[FirstOf(advanced)]
               IN Result(r.action, r.id, r.confirm)
          ELSE IF matching # {}
          THEN LET r == policy.rules[FirstOf(matching)]
               IN Result(EvaluateTimeWindow(r, call.now), r.id, r.confirm)
          ELSE Result("Allow", NoRule, FALSE)

-----------------------------------------------------------------------------
(* policy_migrate                                                          *)

\* migrate_expression on one clause: what it says, with names in the engine's
\* style.  The quotes that maybe_quote_literal adds are stripped again before the
\* literal is read.  Mutant: a comparison loses its equality.
MigrateClauseStrict(c, engine) ==
  LET clause(left, op, right, items) ==
        [left |-> left, style |-> engine, op |-> op, right |-> right, items |-> items]
  IN IF c.kind = "tool =="
     THEN clause("tool", "==",
                 IF c.bound \in NumericNames THEN Number(c.bound) ELSE Text(c.bound), {})
     ELSE IF c.kind = "tool in" THEN clause("tool", "in", Text(0), c.items)
     ELSE IF c.kind = "amount >" THEN clause("amount", ">", Number(c.bound), {})
     ELSE IF c.kind = "tier >=" THEN clause("tier", ">", Number(c.bound), {})
     ELSE [c.reads EXCEPT !.style = engine]
MigrateClause(c, engine) ==
  LET clause(left, op, right, items) ==
        [left |-> left, style |-> engine, op |-> op, right |-> right, items |-> items]
  IN IF c.kind = "tool =="
     THEN clause("tool", "==",
                 IF c.bound \in NumericNames THEN Number(c.bound) ELSE Text(c.bound), {})
     ELSE IF c.kind = "tool in" THEN clause("tool", "in", Text(0), c.items)
     ELSE IF c.kind = "amount >" THEN clause("amount", ">", Number(c.bound), {})
     ELSE IF c.kind = "tier >=" THEN clause("tier", ">=", Number(c.bound), {})
     ELSE [c.reads EXCEPT !.style = engine]

MigrateRule(r, engine) ==
  [id |-> r.id, clauses |-> {MigrateClause(c, engine) : c \in r.clauses},
   action |-> r.action, confirm |-> r.confirm]

\* main of policy_migrate: the rules stay, the advanced rules are replaced.
MigrateRules(rules, engine) == [i \in DOMAIN rules |-> MigrateRule(rules[i], engine)]
Migrate(policy, engine) ==
  [agents |-> policy.agents, rules |-> policy.rules,
   advanced |-> MigrateRules(policy.rules, engine), engine |-> engine]
=============================================================================
