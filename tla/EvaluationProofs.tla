-------------------------- MODULE EvaluationProofs --------------------------
(***************************************************************************)
(* The properties of EvaluationProps hold for every policy, every set of   *)
(* calls and every length of the day.  WindowsCyclic and                   *)
(* MigrationPreserves follow from the operators alone, whatever rules a    *)
(* policy has; LaterRulesDefer needs what FirstOf returns.                 *)
(***************************************************************************)
EXTENDS EvaluationProps, FiniteSetTheorems, WellFoundedInduction, TLAPS

\* The shape of a policy, all that the proofs need of the reachable states.
PossibleAdvanced == AdvancedRules \cup {MigrateRule(r, e) : r \in Rules, e \in Engines}
PolicyOK ==
  /\ agents \in Agents /\ rules \in Seq(Rules)
  /\ advanced \in Seq(PossibleAdvanced) /\ engine \in Engines \cup {NoEngine}

-----------------------------------------------------------------------------
(* Lemmas on the operators                                                 *)

\* A non-empty set of positions has a least one.  The intervals 0..i are ordered
\* by inclusion, which is well-founded on finite sets.
LEMMA LeastExists ==
  ASSUME NEW I \in SUBSET Nat, I # {}
  PROVE  \E i \in I : \A j \in I : i <= j
<1> DEFINE T == {0..i : i \in I}
<1>1. T # {} /\ T \subseteq FiniteSubsetsOf(Nat)
  <2>1. \A i \in I : IsFiniteSet(0..i) /\ 0..i \subseteq Nat
    BY FS_Interval
  <2>2. QED BY <2>1 DEF FiniteSubsetsOf
<1>2. PICK x \in T : \A y \in T : ~(<<y, x>> \in StrictSubsetOrdering(Nat))
  BY <1>1, FS_StrictSubsetOrderingWellFounded, WFMin, Zenon
<1>3. PICK i \in I : x = 0..i
  OBVIOUS
<1>4. ASSUME NEW j \in I, ~(i <= j) PROVE FALSE
  <2>1. 0..j \subseteq 0..i /\ i \in 0..i /\ i \notin 0..j
    BY <1>4
  <2>2. <<0..j, x>> \in StrictSubsetOrdering(Nat)
    BY <2>1, <1>3 DEF StrictSubsetOrdering
  <2>3. QED BY <2>2, <1>2
<1>5. QED BY <1>4

\* FirstOf returns the least member.
LEMMA FirstOfLeast ==
  ASSUME NEW I \in SUBSET Nat, I # {}
  PROVE  FirstOf(I) \in I /\ \A j \in I : FirstOf(I) <= j
BY LeastExists DEF FirstOf

\* Adding a later position does not change the first one.
LEMMA FirstOfExtended ==
  ASSUME NEW I \in SUBSET Nat, I # {}, NEW n \in Nat, \A i \in I : i < n
  PROVE  FirstOf(I \cup {n}) = FirstOf(I)
<1>1. ASSUME NEW i \in I, \A j \in I : i <= j,
             NEW k \in I \cup {n}, \A j \in I \cup {n} : k <= j
      PROVE  k = i
  <2>1. i <= k /\ k <= i /\ i \in Nat /\ k \in Nat
    BY <1>1
  <2>2. QED BY <2>1
<1>2. I \cup {n} \in SUBSET Nat
  OBVIOUS
<1>3. QED BY <1>1, <1>2, FirstOfLeast, Zenon

\* A clause that expressions can say matches the same calls once migrated.
LEMMA MigratedClause ==
  ASSUME NEW c, NEW e \in Engines, NEW call, NEW tier \in Int,
         call.tool \in Int,
         c.kind \in {"tool ==", "tool in", "amount >", "tier >="},
         c.kind = "tool ==" => c.bound \notin NumericNames
  PROVE  MatchesAdvancedClause(MigrateClause(c, e), e, call, tier)
           <=> MatchesClause(c, call, tier)
<1> DEFINE a == MigrateClause(c, e)
           v == ResolveExprValue(a, e, call, tier)
<1>1. Text(call.tool) # NoValue /\ Number(tier) # NoValue
  <2>1. /\ Text(call.tool) \in [type : {"Text", "Number", "Bool"}, is : Int]
        /\ Number(tier) \in [type : {"Text", "Number", "Bool"}, is : Int]
    BY DEF Text, Number
  <2>2. QED BY <2>1, NoneAssumption, Zenon
<1>2. CASE c.kind = "tool =="
  <2>1. /\ a.style = e /\ a.left = "tool"
        /\ a.op = "==" /\ a.right = Text(c.bound)
    BY <1>2 DEF MigrateClause
  <2>2. v = Text(call.tool)
    BY <2>1 DEF ResolveExprValue
  <2>3. MatchesAdvancedClause(a, e, call, tier)
          <=> Compare(Text(call.tool), "==", Text(c.bound))
    BY <1>1, <2>1, <2>2 DEF MatchesAdvancedClause
  <2>4. Compare(Text(call.tool), "==", Text(c.bound)) <=> call.tool = c.bound
    BY DEF Compare, Text
  <2>5. QED BY <1>2, <2>3, <2>4 DEF MatchesClause
<1>3. CASE c.kind = "tool in"
  <2>1. a.style = e /\ a.left = "tool" /\ a.op = "in" /\ a.items = c.items
    BY <1>3 DEF MigrateClause
  <2>2. v = Text(call.tool)
    BY <2>1 DEF ResolveExprValue
  <2>3. MatchesAdvancedClause(a, e, call, tier) <=> Text(call.tool).is \in c.items
    BY <1>1, <2>1, <2>2 DEF MatchesAdvancedClause
  <2>4. Text(call.tool).is = call.tool
    BY DEF Text
  <2>5. QED BY <1>3, <2>3, <2>4 DEF MatchesClause
<1>4. CASE c.kind = "amount >"
  <2>1. /\ a.style = e /\ a.left = "amount"
        /\ a.op = ">" /\ a.right = Number(c.bound)
    BY <1>4 DEF MigrateClause
  <2>2. v = call.amount
    BY <2>1 DEF ResolveExprValue
  <2>3. MatchesAdvancedClause(a, e, call, tier)
          <=> call.amount # NoValue /\ Compare(call.amount, ">", Number(c.bound))
    BY <2>1, <2>2 DEF MatchesAdvancedClause
  <2>4. Compare(call.amount, ">", Number(c.bound))
          <=> call.amount.type = "Number" /\ call.amount.is > c.bound
    BY DEF Compare, NumberHolds, Number
  <2>5. QED BY <1>4, <2>3, <2>4 DEF MatchesClause
<1>5. CASE c.kind = "tier >="
  <2>1. /\ a.style = e /\ a.left = "tier"
        /\ a.op = ">=" /\ a.right = Number(c.bound)
    BY <1>5 DEF MigrateClause
  <2>2. v = Number(tier)
    BY <2>1 DEF ResolveExprValue
  <2>3. MatchesAdvancedClause(a, e, call, tier)
          <=> Compare(Number(tier), ">=", Number(c.bound))
    BY <1>1, <2>1, <2>2 DEF MatchesAdvancedClause
  <2>4. Compare(Number(tier), ">=", Number(c.bound)) <=> tier >= c.bound
    BY DEF Compare, NumberHolds, Number
  <2>5. QED BY <1>5, <2>3, <2>4 DEF MatchesClause
<1>6. QED BY <1>2, <1>3, <1>4, <1>5

\* Migrated one by one, rules that expressions can say match as they did.
LEMMA MigratedMatching ==
  ASSUME NEW list, NEW e \in Engines, NEW call, NEW tier \in Int,
         call.tool \in Int, \A i \in DOMAIN list : Expressible(list[i])
  PROVE  MatchingAdvanced([i \in DOMAIN list |-> MigrateRule(list[i], e)],
                          e, call, tier)
           = MatchingRules(list, call, tier)
<1> DEFINE migrated == [i \in DOMAIN list |-> MigrateRule(list[i], e)]
<1>1. ASSUME NEW i \in DOMAIN list
      PROVE  (\A a \in migrated[i].clauses : MatchesAdvancedClause(a, e, call, tier))
               <=> (\A c \in list[i].clauses : MatchesClause(c, call, tier))
  <2>1. migrated[i].clauses = {MigrateClause(c, e) : c \in list[i].clauses}
    BY DEF MigrateRule
  <2>2. \A c \in list[i].clauses :
          MatchesAdvancedClause(MigrateClause(c, e), e, call, tier)
            <=> MatchesClause(c, call, tier)
    BY MigratedClause DEF Expressible
  <2>3. QED BY <2>1, <2>2, Zenon
<1>2. DOMAIN migrated = DOMAIN list
  OBVIOUS
<1> HIDE DEF migrated
<1>3. MatchingAdvanced(migrated, e, call, tier) = MatchingRules(list, call, tier)
  BY <1>1, <1>2, Zenon DEF MatchingAdvanced, MatchingRules
<1>4. QED BY <1>3 DEF migrated

\* The matching rules are positions of the sequence; adding a rule adds at most
\* the last position.
LEMMA MatchingExtended ==
  ASSUME NEW list \in Seq(Rules), NEW r \in Rules, NEW call, NEW tier
  PROVE  /\ MatchingRules(list, call, tier) \subseteq 1..Len(list)
         /\ \/ MatchingRules(Append(list, r), call, tier) = MatchingRules(list, call, tier)
            \/ MatchingRules(Append(list, r), call, tier)
                 = MatchingRules(list, call, tier) \cup {Len(list) + 1}
<1> DEFINE longer == Append(list, r)
<1>1. DOMAIN list = 1..Len(list) /\ DOMAIN longer = 1..(Len(list) + 1)
  OBVIOUS
<1>2. \A i \in 1..Len(list) : longer[i] = list[i]
  OBVIOUS
<1> HIDE DEF longer
<1>3. QED BY <1>1, <1>2 DEF MatchingRules, longer

-----------------------------------------------------------------------------
(* The shape of a policy                                                   *)

\* Edits and policy_migrate keep a policy well formed.
THEOREM PolicyShape == Spec => []PolicyOK
<1>1. Init => PolicyOK
  BY DEF Init, PolicyOK
<1>2. PolicyOK /\ [Next]_vars => PolicyOK'
  <2> SUFFICES ASSUME PolicyOK, [Next]_vars PROVE PolicyOK'
    OBVIOUS
  <2>1. CASE \E r \in Rules : AppendRule(r)
    BY <2>1 DEF AppendRule, PolicyOK
  <2>2. CASE \E r \in AdvancedRules, e \in Engines : AppendAdvanced(r, e)
    <3>1. AdvancedRules \subseteq PossibleAdvanced
      BY DEF PossibleAdvanced
    <3>2. QED BY <2>2, <3>1 DEF AppendAdvanced, PolicyOK
  <2>3. CASE \E e \in Engines : RunMigrate(e)
    <3>1. PICK e \in Engines : RunMigrate(e)
      BY <2>3
    <3>2. /\ agents' = agents /\ rules' = rules /\ engine' = e
          /\ advanced' = MigrateRules(rules, e)
      BY <3>1 DEF RunMigrate, Migrate, policy
    <3>3. \A i \in DOMAIN rules : MigrateRule(rules[i], e) \in PossibleAdvanced
      <4>1. \A i \in DOMAIN rules : rules[i] \in Rules
        BY DEF PolicyOK
      <4>2. QED BY <4>1 DEF PossibleAdvanced
    <3>4. MigrateRules(rules, e) \in Seq(PossibleAdvanced)
      <4>1. DOMAIN rules = 1..Len(rules) /\ Len(rules) \in Nat
        BY DEF PolicyOK
      <4>2. MigrateRules(rules, e) \in [1..Len(rules) -> PossibleAdvanced]
        BY <3>3, <4>1 DEF MigrateRules
      <4>3. QED BY <4>1, <4>2
    <3>5. QED BY <3>2, <3>4 DEF PolicyOK
  <2>4. CASE UNCHANGED vars
    BY <2>4 DEF vars, PolicyOK
  <2>5. QED BY <2>1, <2>2, <2>3, <2>4 DEF Next
<1>3. QED BY <1>1, <1>2, PTL DEF Spec

-----------------------------------------------------------------------------
(* The properties                                                          *)

\* A number below Day is its own remainder, and a negative one goes once around.
LEMMA Around ==
  ASSUME NEW n \in (1 - Day)..(Day - 1)
  PROVE  n % Day = IF n < 0 THEN n + Day ELSE n
BY DayAssumption

\* A window that goes past midnight is one interval of the clock, like the others
\* (is_within_time_window).
THEOREM WindowsAreCyclic == Spec => []WindowsCyclic
<1>1. WindowsCyclic
  <2> SUFFICES ASSUME NEW i \in DOMAIN rules, NEW now \in 0..(Day - 1),
                      rules[i].window \in [start : 0..(Day - 1), end : 0..(Day - 1)]
               PROVE  EvaluateTimeWindow(rules[i], now)
                        = IF InWindow(now, rules[i].window) THEN rules[i].action
                          ELSE rules[i].outside
    BY DEF WindowsCyclic
  <2> DEFINE r == rules[i]
             w == r.window
  <2>1. w.start \in 0..(Day - 1) /\ w.end \in 0..(Day - 1)
    OBVIOUS
  <2>2. w # NoWindow
    <3>1. w \in [start : 0..Day, end : 0..Day]
      BY DayAssumption
    <3>2. QED BY <3>1, NoneAssumption
  <2>3. NoTime \notin {now, w.start, w.end}
    BY <2>1, NoneAssumption, DayAssumption
  <2>4. IsWithin(now, w) <=> InWindow(now, w)
    <3>1. /\ now - w.start \in (1 - Day)..(Day - 1)
          /\ w.end - w.start \in (1 - Day)..(Day - 1)
      BY <2>1, DayAssumption
    <3> DEFINE x == (now - w.start) % Day
               y == (w.end - w.start) % Day
    <3>2. /\ x = IF now < w.start THEN now - w.start + Day ELSE now - w.start
          /\ y = IF w.end < w.start THEN w.end - w.start + Day ELSE w.end - w.start
      <4>1. /\ x = IF now - w.start < 0 THEN now - w.start + Day ELSE now - w.start
            /\ y = IF w.end - w.start < 0 THEN w.end - w.start + Day ELSE w.end - w.start
        BY <3>1, Around
      <4>2. (now - w.start < 0 <=> now < w.start) /\ (w.end - w.start < 0 <=> w.end < w.start)
        BY <2>1, DayAssumption
      <4>3. QED BY <4>1, <4>2
    <3> HIDE DEF x, y
    <3>3. IsWithin(now, w) <=> x <= y
      BY <2>1, <3>2, DayAssumption DEF IsWithin
    <3>4. QED BY <3>3 DEF x, y, InWindow
  <2>5. QED BY <2>2, <2>3, <2>4, Zenon DEF EvaluateTimeWindow
<1>2. QED BY <1>1, PTL

\* Migrating rules that expressions can say changes no decision, whatever the
\* policy's rules are, for every call in either mode.
THEOREM MigrationAlwaysPreserves == Spec => []MigrationPreserves
<1>1. PolicyOK => MigrationPreserves
  <2> SUFFICES ASSUME PolicyOK, \A i \in DOMAIN rules : Expressible(rules[i]),
                      NEW e \in Engines, NEW call \in Calls, NEW mode \in BOOLEAN
               PROVE  Evaluate(Migrate(policy, e), call, mode) = Evaluate(policy, call, FALSE)
    BY DEF MigrationPreserves
  <2> DEFINE after == Migrate(policy, e)
  <2>1. /\ after.agents = agents /\ after.rules = rules /\ after.engine = e
        /\ after.advanced = MigrateRules(rules, e)
        /\ policy.agents = agents /\ policy.rules = rules
    BY DEF Migrate, policy
  <2>2. CASE call.agent \notin DOMAIN agents
    BY <2>1, <2>2, Zenon DEF Evaluate
  <2>3. CASE call.agent \in DOMAIN agents
    <3> DEFINE agent == agents[call.agent]
               matching == MatchingRules(rules, call, agent.tier)
               inForce == IF mode /\ e # NoEngine
                          THEN MatchingAdvanced(MigrateRules(rules, e), e, call, agent.tier)
                          ELSE {}
    <3>1. call.tool \in Int /\ agent.tier \in Int
      BY <2>3, InputsAssumption DEF PolicyOK
    <3>2. inForce = {} \/ inForce = matching
      BY <3>1, MigratedMatching, Zenon DEF MigrateRules
    <3>3. ASSUME matching # {}
          PROVE  LET r == rules[FirstOf(matching)]
                     a == MigrateRules(rules, e)[FirstOf(matching)]
                 IN Result(a.action, a.id, a.confirm)
                      = Result(EvaluateTimeWindow(r, call.now), r.id, r.confirm)
      <4>1. matching \in SUBSET Nat /\ matching \subseteq DOMAIN rules
        BY DEF MatchingRules, PolicyOK
      <4>2. FirstOf(matching) \in DOMAIN rules
        BY <3>3, <4>1, FirstOfLeast
      <4> DEFINE n == FirstOf(matching)
      <4>3. EvaluateTimeWindow(rules[n], call.now) = rules[n].action
        BY <4>2 DEF Expressible, EvaluateTimeWindow
      <4>4. MigrateRules(rules, e)[n] = MigrateRule(rules[n], e)
        BY <4>2 DEF MigrateRules
      <4>5. QED BY <4>3, <4>4 DEF MigrateRule
    <3> DEFINE blocked == IsBlockedTool(agent, call.tool)
               legacy == IF matching # {}
                         THEN LET r == rules[FirstOf(matching)]
                              IN Result(EvaluateTimeWindow(r, call.now), r.id, r.confirm)
                         ELSE Result("Allow", NoRule, FALSE)
               migrated == LET a == MigrateRules(rules, e)[FirstOf(inForce)]
                           IN Result(a.action, a.id, a.confirm)
    <3>4. Evaluate(policy, call, FALSE)
            = IF blocked THEN Result("Block", NoRule, FALSE) ELSE legacy
      BY <2>1, <2>3, Zenon DEF Evaluate
    <3>5. Evaluate(after, call, mode)
            = IF blocked THEN Result("Block", NoRule, FALSE)
              ELSE IF inForce # {} THEN migrated ELSE legacy
      BY <2>1, <2>3, Zenon DEF Evaluate
    <3>6. inForce # {} => migrated = legacy
      BY <3>2, <3>3, Zenon
    <3> HIDE DEF inForce, legacy, migrated, blocked
    <3>7. CASE blocked
      BY <3>4, <3>5, <3>7, Zenon
    <3>8. CASE ~blocked /\ inForce = {}
      BY <3>4, <3>5, <3>8, Zenon
    <3>9. CASE ~blocked /\ inForce # {}
      BY <3>4, <3>5, <3>6, <3>9, Zenon
    <3>10. QED BY <3>7, <3>8, <3>9
  <2>4. QED BY <2>2, <2>3
<1>2. QED BY <1>1, PolicyShape, PTL

\* A rule added at the end decides nothing that was decided before.
THEOREM LaterRulesAlwaysDefer == Spec => LaterRulesDefer
<1>1. ASSUME PolicyOK, NEW r \in Rules, AppendRule(r), NEW call \in Calls,
             NEW mode \in BOOLEAN, Evaluate(policy, call, mode).rule # NoRule
      PROVE  Evaluate(policy', call, mode) = Evaluate(policy, call, mode)
  <2>1. /\ policy'.agents = agents /\ policy'.rules = Append(rules, r)
        /\ policy'.advanced = advanced /\ policy'.engine = engine
        /\ policy.agents = agents /\ policy.rules = rules
        /\ policy.advanced = advanced /\ policy.engine = engine
    <3>1. AppendRule(r)
      BY <1>1
    <3>2. QED BY <3>1 DEF AppendRule, policy
  <2>2. CASE call.agent \notin DOMAIN agents
    BY <2>1, <2>2, Zenon DEF Evaluate
  <2>3. CASE call.agent \in DOMAIN agents
    <3> DEFINE agent == agents[call.agent]
               before == MatchingRules(rules, call, agent.tier)
               now == MatchingRules(Append(rules, r), call, agent.tier)
               inForce == IF mode /\ engine # NoEngine
                          THEN MatchingAdvanced(advanced, engine, call, agent.tier)
                          ELSE {}
               decision(list, matching) ==
                 IF IsBlockedTool(agent, call.tool) THEN Result("Block", NoRule, FALSE)
                 ELSE IF inForce # {}
                 THEN LET a == advanced[FirstOf(inForce)]
                      IN Result(a.action, a.id, a.confirm)
                 ELSE IF matching # {}
                 THEN LET d == list[FirstOf(matching)]
                      IN Result(EvaluateTimeWindow(d, call.now), d.id, d.confirm)
                 ELSE Result("Allow", NoRule, FALSE)
    <3>1. /\ Evaluate(policy, call, mode) = decision(rules, before)
          /\ Evaluate(policy', call, mode) = decision(Append(rules, r), now)
      BY <2>1, <2>3, Zenon DEF Evaluate
    <3>2. CASE IsBlockedTool(agent, call.tool) \/ inForce # {}
      <4>1. decision(rules, before) = decision(Append(rules, r), now)
        <5> HIDE DEF inForce, agent, before, now
        <5>1. QED BY <3>2
      <4> HIDE DEF decision
      <4>2. QED BY <3>1, <4>1, Zenon
    <3>3. CASE ~IsBlockedTool(agent, call.tool) /\ inForce = {} /\ before = {}
      <4>1. Evaluate(policy, call, mode) = Result("Allow", NoRule, FALSE)
        BY <3>1, <3>3, Zenon
      <4>2. QED BY <1>1, <4>1 DEF Result
    <3>4. CASE ~IsBlockedTool(agent, call.tool) /\ inForce = {} /\ before # {}
      <4>1. /\ before \subseteq 1..Len(rules) /\ Len(rules) \in Nat
            /\ now = before \/ now = before \cup {Len(rules) + 1}
        BY <1>1, MatchingExtended DEF PolicyOK
      <4>2. before \in SUBSET Nat
        BY <4>1
      <4>3. FirstOf(before) \in 1..Len(rules)
        BY <3>4, <4>1, <4>2, FirstOfLeast
      <4>4. now # {} /\ FirstOf(now) = FirstOf(before)
        <5>1. \A i \in before : i < Len(rules) + 1
          BY <4>1
        <5>2. FirstOf(before \cup {Len(rules) + 1}) = FirstOf(before)
          BY <3>4, <4>1, <4>2, <5>1, FirstOfExtended
        <5>3. QED BY <3>4, <4>1, <5>2
      <4>5. Append(rules, r)[FirstOf(before)] = rules[FirstOf(before)]
        BY <1>1, <4>3 DEF PolicyOK
      <4>6. QED BY <3>1, <3>4, <4>4, <4>5, Zenon
    <3>5. QED BY <3>2, <3>3, <3>4
  <2>4. QED BY <2>2, <2>3
<1>2. ASSUME PolicyOK, Next, Len(rules') > Len(rules)
      PROVE  \E r \in Rules : AppendRule(r)
  BY <1>2 DEF Next, AppendAdvanced, RunMigrate, Migrate, policy, PolicyOK
<1>3. PolicyOK /\ [Next]_vars
        => [\A call \in Calls, mode \in BOOLEAN :
              Len(rules') > Len(rules) /\ Evaluate(policy, call, mode).rule # NoRule
                => Evaluate(policy', call, mode) = Evaluate(policy, call, mode)]_vars
  BY <1>1, <1>2, Zenon
<1>4. QED BY <1>3, PolicyShape, PTL DEF Spec, LaterRulesDefer
=============================================================================
