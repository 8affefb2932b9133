SPECIFICATION Spec
CONSTANTS
  Day = 4
  NumericNames <- Numeric
  NoTime = NoTime
  NoWindow = NoWindow
  NoRule = NoRule
  NoEngine = NoEngine
  NoValue = NoValue
  Agents <- Lists
  Rules <- SomeRules
  AdvancedRules <- SomeAdvancedRules
  Calls <- AllCalls
  MaxRules = 3
INVARIANTS WindowsCyclic MigrationPreserves
PROPERTIES LaterRulesDefer
