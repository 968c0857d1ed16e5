SPECIFICATION Spec
CONSTANTS
  opA = opA
  opB = opB
  bud = bud
  system = system
  agent = agent
  key1 = key1
  key2 = key2
  rec1 = rec1
  rec2 = rec2
  try1 = try1
  try2 = try2
  receiptA = receiptA
  receiptB = receiptB
  other = other
  None = None
  System = system
  Allocated <- MCAllocated
  BudgetsOf <- MCBudgetsOf
  ScopesOf <- MCScopesOf
  PolicyDecision <- MCPolicyDecision
  ReceiptOf <- MCReceiptOf
  Operations = {opB}
  Budgets = {bud}
  MaxAmount = 1
  Scopes = {system, agent}
  InitialStates = {"POLICY_FINALIZED"}
  Keys = {key1}
  MaxApprovals = 1
  Reconcilers = {rec1}
  AttemptIds = {try1}
  Receipts = {receiptA, receiptB}
  MaxFenceVersion = 2
  MaxLeaseVersion = 1
  MaxRevision = 1
  AdvanceTargets = {"BUDGET_RESERVED"}
  Executed = {opB}
CHECK_DEADLOCK FALSE
INVARIANTS
  SettlementStaysPossible
