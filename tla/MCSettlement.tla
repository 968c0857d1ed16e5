----------------------------- MODULE MCSettlement -----------------------------
(* Small instances of the settlement system for TLC: opA and opB share one     *)
(* budget of three units, their policy lets them go on their own.              *)
EXTENDS Settlement, TLC

CONSTANTS opA, opB, bud, system, key1, key2, rec1, rec2, tryA, tryB,
          receiptA, receiptB

MCAllocated      == [b \in Budgets |-> 3]
MCBudgetsOf      == [o \in Operations |-> Budgets]
MCScopesOf       == [o \in Operations |-> {system}]
MCPolicyDecision == [o \in Operations |-> "ALLOW_AUTONOMOUS"]
MCReceiptOf      == [o \in Operations |-> IF o = opA THEN receiptA ELSE receiptB]
MCAttemptOf      == [o \in Operations |-> IF o = opA THEN tryA ELSE tryB]
\* Every target that a caller may ask for: the larger instance.
MCAdvanceTargets == LIFECYCLE_STATES \ {"RECONCILED"}
MCTransferAmount == [o \in Operations |-> MaxAmount]

\* Bound: a reservation below the transfer is explored without faults.  Its amount
\* is looked at by the CONFIRMED resolution alone, which refuses it in every call,
\* a cut one or not.
FaultsOnFullAmount ==
  \A o \in Operations :
    faults > 0 /\ reservation[o].status # "NONE" => reservation[o].amount = TransferAmount[o]

MCSettlementSpec ==
  /\ SettlementInit
  /\ [][SettlementNext /\ FaultsOnFullAmount']_settlementSystemVars
  /\ Fairness
=============================================================================
