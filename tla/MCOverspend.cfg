SPECIFICATION SettlementSpec
CONSTANTS
  opA = opA
  opB = opB
  bud = bud
  system = system
  key1 = key1
  key2 = key2
  rec1 = rec1
  rec2 = rec2
  tryA = tryA
  tryB = tryB
  receiptA = receiptA
  receiptB = receiptB
  None = None
  System = system
  Allocated <- MCAllocated
  BudgetsOf <- MCBudgetsOf
  ScopesOf <- MCScopesOf
  PolicyDecision <- MCPolicyDecision
  ReceiptOf <- MCReceiptOf
  AttemptOf <- MCAttemptOf
  TransferAmount <- MCTransferAmount
  Operations = {opA, opB}
  Budgets = {bud}
  MaxAmount = 2
  Scopes = {system}
  InitialStates = {"POLICY_FINALIZED"}
  Keys = {key1, key2}
  MaxApprovals = 1
  Reconcilers = {rec1}
  AttemptIds = {tryA, tryB}
  Receipts = {receiptA, receiptB}
  MaxFenceVersion = 1
  MaxLeaseVersion = 1
  MaxRevision = 1
  AdvanceTargets = {"BUDGET_RESERVED"}
  Executed = {opA, opB}
  MaxFaults = 0
  Retrying = {rec1}
CHECK_DEADLOCK FALSE
INVARIANTS
  ChainSpendWithinAllocation
