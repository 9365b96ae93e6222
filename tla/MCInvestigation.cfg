SPECIFICATION Spec
CONSTANTS
  i1 = i1
  i2 = i2
  r1 = r1
  r2 = r2
  guess = guess
  Inv = {i1, i2}
  Starts = {i1}
  Catalog <- MCCatalog
  WeakRules = {r2}
  Guess = guess
  ToolOf <- MCToolOf
  Backends = {"metric_query", "trace_query"}
  Moves <- MCMoves
  Charges <- MCCharges
  MaxSteps = 4
  MaxToolCalls = 2
  MaxTokensIn = 2
  MaxCachedTokensIn = 3
  MaxTokensOut = 4
  MaxOutputTokens = 1
  MaxCost = 2
  MaxCorrections = 1
INVARIANTS
  BudgetsHeld
  JournalAgrees
  SwappedNeverConcludes
  ScopeEndsFirst
PROPERTIES
  OutcomeFinal
  EveryInvestigationEnds
CHECK_DEADLOCK FALSE
