SPECIFICATION Spec
CONSTANTS
  opA = opA
  opB = opB
  bud = bud
  system = system
  agent = agent
  key1 = key1
  key2 = key2
  rec1 = rec1
  rec2 = rec2
  try1 = try1
  try2 = try2
  receiptA = receiptA
  receiptB = receiptB
  other = other
  None = None
  System = system
  Allocated <- MCAllocated
  BudgetsOf <- MCBudgetsOf
  ScopesOf <- MCScopesOf
  PolicyDecision <- MCPolicyDecision
  ReceiptOf <- MCReceiptOf
  Operations = {opA}
  Budgets = {bud}
  MaxAmount = 1
  Scopes = {system, agent}
  InitialStates = {"SIMULATED", "POLICY_FINALIZED"}
  Keys = {key1}
  MaxApprovals = 2
  Reconcilers = {rec1}
  AttemptIds = {try1}
  Receipts = {receiptA, receiptB}
  MaxFenceVersion = 3
  MaxLeaseVersion = 1
  MaxRevision = 2
  AdvanceTargets = {"VALIDATED","POLICY_PRECHECKED","CONSTRUCTED","DECODED","VERIFIED","SIMULATED","POLICY_FINALIZED","BUDGET_RESERVED","ENVELOPE_FINALIZED","AWAITING_APPROVAL","AUTHORIZED","SIGNING","SIGNED","BROADCAST","PENDING_CONFIRMATION","CONFIRMED","RECONCILED","REJECTED","DENIED","EXPIRED","SIMULATION_FAILED","SIGNING_FAILED","BROADCAST_FAILED","REVERTED","CANCELLED","DISPUTED","REVOKED","REVALIDATION_REQUIRED"}
  Executed = {opA}
CHECK_DEADLOCK FALSE
INVARIANTS
  WalletTypeOK
  ActiveApprovalIsCurrent
  FencedOperationsStop
  OwnerAuthorityEndToEnd
  ProbesAgree
  ControlBlockedOnlyByOrphan
PROPERTIES
  LifecycleTableRespected
