SPECIFICATION PipelineSpec
CONSTANTS
  o1 = o1
  o2 = o2
  s1 = s1
  s2 = s2
  d1 = d1
  d2 = d2
  Ops = {o1, o2}
  Fixtures = {1, 2}
  SimulationIds = {s1, s2}
  Evidence <- OneResult
  DecisionIds = {d1, d2}
  Decisions = {1}
  AdvanceTargets <- PipelineTargets
  MaxEvents = 2
  MaxRestarts = 1
  NoRow = NoRow
SYMMETRY Symmetric
CHECK_DEADLOCK FALSE
INVARIANTS TrailFollowsThePipeline EvidenceIsItsOwn
