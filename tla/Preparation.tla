------------------------------ MODULE Preparation ------------------------------
(* The part of packages/transaction-pipeline/src/preparation.ts that writes     *)
(* shared rows after the final policy decision: the first execution envelope,  *)
(* and the general lifecycle advance every orchestrator calls.                 *)
EXTENDS WalletState

CONSTANT AdvanceTargets   \* bound: the states a caller of the advance asks for

ASSUME AdvanceAssumption == AdvanceTargets \subseteq LIFECYCLE_STATES

\* transition: the adjacency table, then an UPDATE that expects the old state.
Transition(o, next) ==
  /\ next \in LIFECYCLE_TRANSITIONS[opState[o]]
  /\ opState' = [opState EXCEPT ![o] = next]

\* The row is selected only with a HELD reservation; the envelope trigger wants
\* no authorization of the operation to exist.
PersistExecutionEnvelope(o) ==
  /\ opState[o] = "BUDGET_RESERVED"
  /\ reservation[o].status = "HELD"
  /\ ActiveApprovals(o) = {}
  /\ authz[o].kind = "NONE"
  /\ revision[o] < MaxRevision
  /\ revision' = [revision EXCEPT ![o] = @ + 1]
  /\ Transition(o, "ENVELOPE_FINALIZED")
  /\ UNCHANGED <<moneyVars, lapsed, idempotency, settlementVars, fence,
                 authorityVars, executionVars>>
  /\ ApprovalOperationConsistent(o)'

AdvanceOperationLifecycle(o, next) ==
  /\ Transition(o, next)
  /\ UNCHANGED <<moneyVars, revision, lapsed, idempotency, settlementVars,
                 fence, authorityVars, executionVars>>
  /\ ApprovalOperationConsistent(o)'

PreparationStep(o) ==
  \/ PersistExecutionEnvelope(o)
  \/ \E next \in AdvanceTargets : AdvanceOperationLifecycle(o, next)

=============================================================================
