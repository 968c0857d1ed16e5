------------------------------- MODULE Approvals -------------------------------
(* packages/approvals/src/core.ts and index.ts: owner approval requests from    *)
(* creation to consumption, the replacement of an envelope under a pending or  *)
(* consumed approval, and autonomous authorization.  Every path locks the four *)
(* fences of the operation first (lockControlFences), so a fence change is     *)
(* either wholly before or wholly after one of these steps.                    *)
EXTENDS WalletState

-----------------------------------------------------------------------------
(* Steps every decision is made of. *)

\* What the services ask before they touch the held funds of a pending request.
AwaitsDecision(o) ==
  /\ opState[o] = "AWAITING_APPROVAL"
  /\ reservation[o].status = "HELD"

\* updateOperation, releaseHeldReservation and the UPDATE of the approval row.
CloseRequest(a, approvalStatus, nextState, reservationStatus) ==
  LET o == a[1] IN
  /\ AwaitsDecision(o)
  /\ ~SendCapable(o)
  /\ opState' = [opState EXCEPT ![o] = nextState]
  /\ PostRelease({o}, reservationStatus)
  /\ approval' = [approval EXCEPT ![a].status = approvalStatus]

InvalidateStaleApproval(a) ==
  /\ CloseRequest(a, "REVOKED", "REVALIDATION_REQUIRED", "RELEASED")
  /\ UNCHANGED <<revision, lapsed, idempotency, settlementVars, fence,
                 ownerAuth, authz, executionVars>>

\* fencesAreActiveAndCurrent and the newest envelope revision.
ApprovalIsCurrent(a) ==
  /\ FencesCurrent(a[1], approval[a].fences)
  /\ approval[a].revision = revision[a[1]]

-----------------------------------------------------------------------------
(* The approval request. *)

\* Sensitivity variant: the fences are copied but not asked for their state.
CreateApprovalRequestUnfenced(a) ==
  LET o == a[1] IN
  /\ approval[a].status = "NONE"
  /\ PolicyDecision[o] = "REQUIRE_APPROVAL"
  /\ revision[o] > 0
  /\ \A x \in ApprovalsOf(o) : approval[x].revision # revision[o]
  /\ opState[o] \in {"ENVELOPE_FINALIZED", "AWAITING_APPROVAL"}
  /\ reservation[o].status = "HELD"
  /\ opState' = [opState EXCEPT ![o] = "AWAITING_APPROVAL"]
  /\ approval' = [approval EXCEPT
       ![a] = [status |-> "PENDING", revision |-> revision[o],
               fences |-> SnapshotOf(o)]]
  /\ UNCHANGED <<moneyVars, revision, lapsed, idempotency, settlementVars,
                 fence, ownerAuth, authz, executionVars>>

\* UNIQUE (operation_id, envelope_id, envelope_revision); the binding trigger
\* wants the operation AWAITING_APPROVAL and the reservation HELD.
CreateApprovalRequest(a) ==
  LET o == a[1] IN
  /\ approval[a].status = "NONE"
  /\ PolicyDecision[o] = "REQUIRE_APPROVAL"
  /\ revision[o] > 0
  /\ \A x \in ApprovalsOf(o) : approval[x].revision # revision[o]
  /\ FencesActive(o)
  /\ opState[o] \in {"ENVELOPE_FINALIZED", "AWAITING_APPROVAL"}
  /\ reservation[o].status = "HELD"
  /\ opState' = [opState EXCEPT ![o] = "AWAITING_APPROVAL"]
  /\ approval' = [approval EXCEPT
       ![a] = [status |-> "PENDING", revision |-> revision[o],
               fences |-> SnapshotOf(o)]]
  /\ UNCHANGED <<moneyVars, revision, lapsed, idempotency, settlementVars,
                 fence, ownerAuth, authz, executionVars>>
  /\ ApprovalOperationConsistent(o)'

\* The approveApproval of index.ts verifies the owner's signature and commits the
\* authentication on its own, before the decision: the process may stop between
\* the two, or the request may be closed by somebody else in between.
AuthenticateOwner(a) ==
  /\ approval[a].status # "NONE"
  /\ ownerAuth[a] = "NONE"
  /\ ownerAuth' = [ownerAuth EXCEPT ![a] = "RECORDED"]
  /\ UNCHANGED <<moneyVars, operationVars, idempotency, settlementVars, fence,
                 approval, authz, executionVars>>

ApproveApproval(a) ==
  LET o == a[1] IN
  /\ approval[a].status = "PENDING"
  /\ IF ~ApprovalIsCurrent(a)
     THEN InvalidateStaleApproval(a)
     ELSE /\ AwaitsDecision(o)
          /\ ~lapsed[o]
          /\ ownerAuth[a] = "RECORDED"
          /\ approval' = [approval EXCEPT ![a].status = "APPROVED"]
          /\ UNCHANGED <<moneyVars, operationVars, idempotency, settlementVars,
                         fence, ownerAuth, authz, executionVars>>
  /\ ApprovalOperationConsistent(o)'

\* approve and consume close a request whose lifetime is over; they judge it by
\* the caller's `now`.
ExpireApproval(a) ==
  /\ approval[a].status \in {"PENDING", "APPROVED"}
  /\ FencesCurrent(a[1], approval[a].fences)
  /\ CloseRequest(a, "EXPIRED", "EXPIRED", "EXPIRED")
  /\ UNCHANGED <<revision, lapsed, idempotency, settlementVars, fence,
                 ownerAuth, authz, executionVars>>
  /\ ApprovalOperationConsistent(a[1])'

RejectApproval(a) ==
  /\ approval[a].status = "PENDING"
  /\ approval[a].revision = revision[a[1]]
  /\ CloseRequest(a, "REJECTED", "REJECTED", "RELEASED")
  /\ UNCHANGED <<revision, lapsed, idempotency, settlementVars, fence,
                 ownerAuth, authz, executionVars>>
  /\ ApprovalOperationConsistent(a[1])'

RevokeApproval(a) ==
  /\ approval[a].status \in {"PENDING", "APPROVED"}
  /\ CloseRequest(a, "REVOKED", "REVOKED", "RELEASED")
  /\ UNCHANGED <<revision, lapsed, idempotency, settlementVars, fence,
                 ownerAuth, authz, executionVars>>
  /\ ApprovalOperationConsistent(a[1])'

ConsumeApproval(a) ==
  LET o == a[1] IN
  /\ approval[a].status = "APPROVED"
  /\ IF ~ApprovalIsCurrent(a)
     THEN InvalidateStaleApproval(a)
     ELSE /\ AwaitsDecision(o)
          /\ ~lapsed[o]
          /\ authz[o].kind = "NONE"
          /\ ownerAuth[a] = "RECORDED"
          /\ opState' = [opState EXCEPT ![o] = "AUTHORIZED"]
          /\ PostStatus(o, "AUTHORIZED")
          /\ authz' = [authz EXCEPT
               ![o] = [kind |-> "OWNER_APPROVAL",
                       revision |-> approval[a].revision,
                       fences |-> approval[a].fences, invalidated |-> FALSE]]
          /\ approval' = [approval EXCEPT ![a].status = "CONSUMED"]
          /\ ownerAuth' = [ownerAuth EXCEPT ![a] = "CONSUMED"]
          /\ UNCHANGED <<revision, lapsed, idempotency, settlementVars, fence,
                         executionVars>>
          /\ CanonicalAuthorization(o, "AUTHORIZED")'
  /\ ApprovalOperationConsistent(o)'

-----------------------------------------------------------------------------
(* Envelope replacement. *)

\* A new revision under a pending request revokes the request.
SupersedeRequest(o) ==
  /\ AwaitsDecision(o)
  /\ authz[o].kind = "NONE"
  /\ \E a \in ActiveApprovals(o) :
       /\ ActiveApprovals(o) = {a}
       /\ approval[a].revision = revision[o]
       /\ approval' = [approval EXCEPT ![a].status = "REVOKED"]

\* Under a consumed request it only releases the funds: the authorization row
\* stays, superseded.
SupersedeAuthorization(o) ==
  /\ opState[o] = "AUTHORIZED"
  /\ reservation[o].status = "AUTHORIZED"
  /\ ActiveApprovals(o) = {}
  /\ authz[o].kind = "OWNER_APPROVAL"
  /\ authz[o].revision = revision[o]
  /\ UNCHANGED approval

ReplaceExecutionEnvelope(o) ==
  /\ 0 < revision[o] /\ revision[o] < MaxRevision
  /\ SupersedeRequest(o) \/ SupersedeAuthorization(o)
  /\ ~SendCapable(o)
  /\ opState' = [opState EXCEPT ![o] = "REVALIDATION_REQUIRED"]
  /\ PostRelease({o}, "RELEASED")
  /\ revision' = [revision EXCEPT ![o] = @ + 1]
  /\ UNCHANGED <<lapsed, idempotency, settlementVars, fence, ownerAuth, authz,
                 executionVars>>
  /\ ApprovalOperationConsistent(o)'

-----------------------------------------------------------------------------
(* Autonomous authorization. *)

\* assertAutonomousBinding, on rows read under the fence locks.  Expiry is judged
\* by the service's own clock and by no trigger, so `lapsed`, which is the
\* database's, does not decide it.
AutonomousBinding(o) ==
  /\ PolicyDecision[o] = "ALLOW_AUTONOMOUS"
  /\ opState[o] = "ENVELOPE_FINALIZED"
  /\ reservation[o].status = "HELD"
  /\ FencesActive(o)

\* Sensitivity variant: the policy decision is not read.
AuthorizeAutonomousAnyPolicy(o) ==
  /\ revision[o] > 0
  /\ authz[o].kind = "NONE"
  /\ opState[o] = "ENVELOPE_FINALIZED"
  /\ reservation[o].status = "HELD"
  /\ FencesActive(o)
  /\ ActiveApprovals(o) = {}
  /\ opState' = [opState EXCEPT ![o] = "AUTHORIZED"]
  /\ PostStatus(o, "AUTHORIZED")
  /\ authz' = [authz EXCEPT
       ![o] = [kind |-> "AUTONOMOUS_POLICY", revision |-> revision[o],
               fences |-> SnapshotOf(o), invalidated |-> FALSE]]
  /\ UNCHANGED <<revision, lapsed, idempotency, settlementVars, fence, approval,
                 ownerAuth, executionVars>>

AuthorizeAutonomous(o) ==
  /\ revision[o] > 0
  /\ authz[o].kind = "NONE"
  /\ AutonomousBinding(o)
  /\ ActiveApprovals(o) = {}
  /\ opState' = [opState EXCEPT ![o] = "AUTHORIZED"]
  /\ PostStatus(o, "AUTHORIZED")
  /\ authz' = [authz EXCEPT
       ![o] = [kind |-> "AUTONOMOUS_POLICY", revision |-> revision[o],
               fences |-> SnapshotOf(o), invalidated |-> FALSE]]
  /\ UNCHANGED <<revision, lapsed, idempotency, settlementVars, fence, approval,
                 ownerAuth, executionVars>>
  /\ CanonicalAuthorization(o, "AUTHORIZED")'
  /\ ApprovalOperationConsistent(o)'

\* CURRENT_TIMESTAMP passes the expiry of the envelope and of what hangs on it.
LifetimeLapses(o) ==
  /\ revision[o] > 0
  /\ ~lapsed[o]
  /\ lapsed' = [lapsed EXCEPT ![o] = TRUE]
  /\ UNCHANGED <<moneyVars, opState, revision, idempotency, settlementVars,
                 fence, authorityVars, executionVars>>

-----------------------------------------------------------------------------
ApprovalStep(o) ==
  \/ \E a \in ApprovalsOf(o) :
       \/ CreateApprovalRequest(a)
       \/ AuthenticateOwner(a)
       \/ ApproveApproval(a)
       \/ ExpireApproval(a)
       \/ RejectApproval(a)
       \/ RevokeApproval(a)
       \/ ConsumeApproval(a)
  \/ ReplaceExecutionEnvelope(o)
  \/ AuthorizeAutonomous(o)
  \/ LifetimeLapses(o)

=============================================================================
