SPECIFICATION MCSettlementSpec
CONSTANTS
  opA = opA
  opB = opB
  bud = bud
  system = system
  key1 = key1
  key2 = key2
  rec1 = rec1
  rec2 = rec2
  tryA = tryA
  tryB = tryB
  receiptA = receiptA
  receiptB = receiptB
  None = None
  System = system
  Allocated <- MCAllocated
  BudgetsOf <- MCBudgetsOf
  ScopesOf <- MCScopesOf
  PolicyDecision <- MCPolicyDecision
  ReceiptOf <- MCReceiptOf
  AttemptOf <- MCAttemptOf
  TransferAmount <- MCTransferAmount
  Operations = {opA}
  Budgets = {bud}
  MaxAmount = 2
  Scopes = {system}
  InitialStates = {"POLICY_FINALIZED"}
  Keys = {key1}
  MaxApprovals = 1
  Reconcilers = {rec1, rec2}
  AttemptIds = {tryA}
  Receipts = {receiptA}
  MaxFenceVersion = 2
  MaxLeaseVersion = 3
  MaxRevision = 1
  AdvanceTargets = {"BUDGET_RESERVED", "BROADCAST", "PENDING_CONFIRMATION", "CONFIRMED"}
  Executed = {opA}
  MaxFaults = 1
  Retrying = {rec1, rec2}
CHECK_DEADLOCK FALSE
INVARIANTS
  LedgerAgreesWithChain
  EffectMatchesBooking
  ReconciledIsComplete
PROPERTIES
  SettlementCompletes
