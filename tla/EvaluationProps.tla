--------------------------- MODULE EvaluationProps ---------------------------
(***************************************************************************)
(* A policy as its owner edits it - rules and advanced rules are added at  *)
(* the end, or policy_migrate rewrites it - and what its evaluation must   *)
(* guarantee for every call and in either mode.                            *)
(***************************************************************************)
EXTENDS Evaluation

CONSTANTS
  Agents,         \* the agent lists a policy may start with
  Rules,          \* the rules that may be added
  AdvancedRules,  \* the advanced rules that may be added
  Calls,          \* the calls that are evaluated
  MaxRules        \* bound on the rules and advanced rules that are added

ASSUME InputsAssumption == /\ \A list \in Agents : \A a \in DOMAIN list : list[a].tier \in Int
                           /\ \A call \in Calls : call.tool \in Int

\* What the policy's file holds; engine is NoEngine without an advanced mode.
VARIABLES agents, rules, advanced, engine
vars == <<agents, rules, advanced, engine>>

policy == [agents |-> agents, rules |-> rules, advanced |-> advanced, engine |-> engine]

Engines == {"DSL", "OPA_COMPAT"}

Init == /\ agents \in Agents
        /\ rules = <<>> /\ advanced = <<>> /\ engine = NoEngine

AppendRule(r) ==
  /\ Len(rules) + Len(advanced) < MaxRules
  /\ rules' = Append(rules, r)
  /\ UNCHANGED <<agents, advanced, engine>>

AppendAdvanced(r, e) ==
  /\ Len(rules) + Len(advanced) < MaxRules
  /\ advanced' = Append(advanced, r) /\ engine' = e
  /\ UNCHANGED <<agents, rules>>

RunMigrate(e) ==
  LET migrated == Migrate(policy, e)
  IN /\ rules' = migrated.rules /\ agents' = migrated.agents
     /\ advanced' = migrated.advanced /\ engine' = migrated.engine

Next ==
  \/ \E r \in Rules : AppendRule(r)
  \/ \E r \in AdvancedRules, e \in Engines : AppendAdvanced(r, e)
  \/ \E e \in Engines : RunMigrate(e)

Spec == Init /\ [][Next]_vars

-----------------------------------------------------------------------------
\* An added rule decides only what no earlier rule, and no advanced rule that
\* is in force, had decided (the loops of evaluate_policy_with_runtime).
LaterRulesDefer ==
  [][\A call \in Calls, mode \in BOOLEAN :
       Len(rules') > Len(rules)
         /\ Evaluate(policy, call, mode).rule # NoRule
       => Evaluate(policy', call, mode) = Evaluate(policy, call, mode)]_vars

\* The minutes from start to end, both included, going past midnight where the
\* end comes before the start.
InWindow(now, w) == (now - w.start) % Day <= (w.end - w.start) % Day

\* Around the clock, a rule with a window acts exactly in its minutes, and the
\* rest of the day its other action applies.
WindowsCyclic ==
  \A i \in DOMAIN rules : \A now \in 0..(Day - 1) :
    LET r == rules[i]
    IN r.window \in [start : 0..(Day - 1), end : 0..(Day - 1)]
         => EvaluateTimeWindow(r, now) = IF InWindow(now, r.window) THEN r.action
                                         ELSE r.outside

\* What an expression can say: a rule without a window, whose clauses are all of
\* a form the evaluator knows and name no tool that reads as a number.
Expressible(r) ==
  /\ r.window = NoWindow
  /\ \A c \in r.clauses :
       /\ c.kind \in {"tool ==", "tool in", "amount >", "tier >="}
       /\ c.kind = "tool ==" => c.bound \notin NumericNames

\* Migrating a policy of such rules changes no decision: neither where advanced
\* mode is on and the migrated rules decide, nor where it stays off.
MigrationPreserves ==
  (\A i \in DOMAIN rules : Expressible(rules[i])) =>
    \A e \in Engines, call \in Calls, mode \in BOOLEAN :
      Evaluate(Migrate(policy, e), call, mode) = Evaluate(policy, call, FALSE)
=============================================================================
