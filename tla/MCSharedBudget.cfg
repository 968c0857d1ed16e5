SPECIFICATION Spec
CONSTANTS
  opA = opA
  opB = opB
  bud = bud
  system = system
  agent = agent
  key1 = key1
  key2 = key2
  rec1 = rec1
  rec2 = rec2
  try1 = try1
  try2 = try2
  receiptA = receiptA
  receiptB = receiptB
  other = other
  None = None
  System = system
  Allocated <- MCAllocated
  BudgetsOf <- MCBudgetsOf
  ScopesOf <- MCScopesOf
  PolicyDecision <- MCPolicyDecision
  ReceiptOf <- MCReceiptOf
  Operations = {opA, opB}
  Budgets = {bud}
  MaxAmount = 2
  Scopes = {system, agent}
  InitialStates = {"POLICY_FINALIZED"}
  Keys = {key1, key2}
  MaxApprovals = 1
  Reconcilers = {}
  AttemptIds = {}
  Receipts = {receiptA}
  MaxFenceVersion = 3
  MaxLeaseVersion = 1
  MaxRevision = 1
  AdvanceTargets = {"BUDGET_RESERVED"}
  Executed = {}
CHECK_DEADLOCK FALSE
INVARIANTS
  ReservedBacking
  OneKeyPerReservation
PROPERTIES
  AccountingSpec
