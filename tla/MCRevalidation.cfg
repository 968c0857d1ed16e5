SPECIFICATION PipelineFairSpec
CONSTANTS
  o1 = o1
  o2 = o2
  s1 = s1
  s2 = s2
  d1 = d1
  d2 = d2
  Ops = {o1}
  Fixtures = {1}
  SimulationIds = {s1, s2}
  Evidence <- TwoResults
  DecisionIds = {d1, d2}
  Decisions = {1, 2}
  AdvanceTargets = {"VALIDATED", "POLICY_PRECHECKED", "CONSTRUCTED", "DECODED", "VERIFIED", "BUDGET_RESERVED"}
  MaxEvents = 1
  MaxRestarts = 1
  NoRow = NoRow
CHECK_DEADLOCK FALSE
PROPERTY RevalidatedIsRepeated
