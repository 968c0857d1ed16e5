--------------------------- MODULE MCControlPlane ---------------------------
(* Small instances of the control plane for TLC.  The operations opA and opB    *)
(* share the budget `bud` and the SYSTEM fence; opA also has the fence of an    *)
(* agent.  The policy asks the owner for opA and lets opB go on its own.        *)
EXTENDS ControlPlane, TLC

CONSTANTS opA, opB, bud, system, agent, key1, key2, rec1, rec2, try1, try2,
          receiptA, receiptB, other

MCAllocated      == [b \in Budgets |-> 3]
MCBudgetsOf      == [o \in Operations |-> Budgets]
MCScopesOf       == [o \in Operations |->
                       IF o = opA THEN {system, agent} \intersect Scopes
                                  ELSE {system}]
MCPolicyDecision == [o \in Operations |->
                       IF o = opA THEN "REQUIRE_APPROVAL" ELSE "ALLOW_AUTONOMOUS"]
MCReceiptOf      == [o \in Operations |->
                       IF o = opB /\ receiptB \in Receipts
                       THEN receiptB ELSE receiptA]
=============================================================================
