SPECIFICATION StagesSpec
CONSTANTS
  Unused = Unused
  Base = 10
  LimitAmounts <- MCLimitAmounts
  Usual <- MCUsual
  Radix = 2
  WordLength = 4
  AddressLength = 2
  Selector <- MCSelector
  Recipients <- MCRecipients
  Amounts = {1, 2, 15, 16}
  TokenAddresses = {"token", "usd"}
  MaxEdits = 2
  MaxContexts = 1
  MaxBlocks = 3
  Bases = {1, 2}
  Priorities = {0, 1}
  GasEstimates = {0, 1, 11}
  TokenBalances = {0, 1}
  Natives = {4, 39}
  Ceilings = {6, 40}
  Amount = 1
  MaxBlockAge = 1
  MaxNonce = 1
  blockA = blockA
  blockB = blockB
  Hashes = {blockA, blockB}
  NoBlock = NoBlock
  GasLimit = 2
  MaxReorgs = 2
  MaxLies = 1
CHECK_DEADLOCK FALSE
INVARIANTS
  AllowedTransferFits
  FittingTransferIsAllowed
  AllowedOnlyInForce
  VerifiedIsConstructed
  ConstructedIsVerified
  FreshEvidenceIsOfOneBlock
  FreshIsExecutable
  ResolvedIsVerified
  VerdictIsExecution
  VerdictIsCanonical
  HonestEvidenceVerifies
