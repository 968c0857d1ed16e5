----------------------------- MODULE BudgetLedger -----------------------------
(* packages/budget-ledger/src/ledger.ts: reservations, broadcast evidence,     *)
(* settlement, and the recovery leases under which an uncertain outcome is     *)
(* resolved.  A call that replays a finished request returns what is stored    *)
(* and changes nothing, so it is a stuttering step; a refused call is no step. *)
(* Times the caller passes in (`now`) are unconstrained inputs.                *)
EXTENDS WalletState

-----------------------------------------------------------------------------
(* Reservations. *)

\* lockReservationControlFences, and the operation, its intent, agent, wallet and
\* policy all naming the budget's own (assertBindingConsistency).
ReservableFrom(o, b) ==
  /\ FencesActive(o)
  /\ b \in BudgetsOf[o]

\* Sensitivity variant: the key is stored without being looked up.
ReserveBudgetAnyKey(o, b, k, amount) ==
  /\ ReservableFrom(o, b)
  /\ reservation[o].status = "NONE"
  /\ account[b].available >= amount
  /\ PostReserve(o, b, amount)
  /\ idempotency' = [idempotency EXCEPT ![k] = o]
  /\ UNCHANGED <<operationVars, settlementVars, fence, authorityVars,
                 executionVars>>
  /\ ApprovalOperationConsistent(o)'

ReserveBudget(o, b, k, amount) ==
  /\ ReservableFrom(o, b)
  /\ idempotency[k] = None
  /\ reservation[o].status = "NONE"
  /\ account[b].available >= amount
  /\ PostReserve(o, b, amount)
  /\ idempotency' = [idempotency EXCEPT ![k] = o]
  /\ UNCHANGED <<operationVars, settlementVars, fence, authorityVars,
                 executionVars>>
  /\ ApprovalOperationConsistent(o)'

\* Sensitivity variant: a disputed reservation is given back as well.
ReturnFundsDisputed(o, status) ==
  /\ reservation[o].status \in {"HELD", "AUTHORIZED", "DISPUTED"}
  /\ ~SendCapable(o)
  /\ PostRelease({o}, status)

\* HELD or AUTHORIZED to RELEASED or EXPIRED, as the triggers let it commit.
ReturnFunds(o, status) ==
  /\ reservation[o].status \in {"HELD", "AUTHORIZED"}
  /\ ~SendCapable(o)
  /\ PostRelease({o}, status)

ReleaseReservation(o) ==
  /\ ReturnFunds(o, "RELEASED")
  /\ UNCHANGED <<operationVars, idempotency, settlementVars, fence,
                 authorityVars, executionVars>>
  /\ ApprovalOperationConsistent(o)'

ExpireReservation(o) ==
  /\ ReturnFunds(o, "EXPIRED")
  /\ UNCHANGED <<operationVars, idempotency, settlementVars, fence,
                 authorityVars, executionVars>>
  /\ ApprovalOperationConsistent(o)'

DisputeReservation(o) ==
  /\ reservation[o].status \in {"HELD", "AUTHORIZED", "BROADCAST"}
  /\ PostStatus(o, "DISPUTED")
  /\ UNCHANGED <<operationVars, idempotency, settlementVars, fence,
                 authorityVars, executionVars>>

-----------------------------------------------------------------------------
(* Broadcast evidence and settlement. *)

\* assertCanonicalAuthorizationEvidence: reads no fence.
CanonicalEvidence(o, states) ==
  /\ authz[o].kind # "NONE"
  /\ ~authz[o].invalidated
  /\ authz[o].revision = revision[o]
  /\ opState[o] \in states

\* authorizeReservation: a probe, it returns the reservation or throws.
AuthorizeReservationAccepts(o) ==
  /\ reservation[o].status = "AUTHORIZED"
  /\ CanonicalEvidence(o, {"AUTHORIZED"})

MarkReservationBroadcast(o, r) ==
  /\ reservation[o].status = "AUTHORIZED"
  /\ CanonicalEvidence(o, {"AUTHORIZED", "SIGNING", "SIGNED"})
  /\ evidence[o].status = "NONE"
  /\ MatchesExactAttempt(o, r)
  /\ PostStatus(o, "BROADCAST")
  /\ evidence' = [evidence EXCEPT ![o] = [status |-> "PENDING", receipt |-> r]]
  /\ UNCHANGED <<operationVars, idempotency, lease, recovery, fence,
                 authorityVars, executionVars>>
  /\ CanonicalAuthorization(o, "BROADCAST")'

VerifyBroadcastEvidence(o) ==
  /\ reservation[o].status = "BROADCAST"
  /\ evidence[o].status = "PENDING"
  /\ evidence' = [evidence EXCEPT ![o].status = "VERIFIED"]
  /\ UNCHANGED <<moneyVars, operationVars, idempotency, lease, recovery, fence,
                 authorityVars, executionVars>>

\* Sensitivity variant: PENDING evidence is enough.
FinalizeReservationUnverified(o, spend, proof) ==
  /\ reservation[o].status = "BROADCAST"
  /\ proof = evidence[o].receipt
  /\ spend <= reservation[o].amount
  /\ PostFinalize(o, spend)
  /\ UNCHANGED <<operationVars, idempotency, settlementVars, fence,
                 authorityVars, executionVars>>
  /\ CanonicalAuthorization(o, "FINALIZED")'

FinalizeReservation(o, spend, proof) ==
  /\ reservation[o].status = "BROADCAST"
  /\ evidence[o].status = "VERIFIED"
  /\ proof = evidence[o].receipt
  /\ spend <= reservation[o].amount
  /\ PostFinalize(o, spend)
  /\ UNCHANGED <<operationVars, idempotency, settlementVars, fence,
                 authorityVars, executionVars>>
  /\ CanonicalAuthorization(o, "FINALIZED")'

-----------------------------------------------------------------------------
(* Recovery. *)

ClaimRecoveryLease(w, o) ==
  /\ reservation[o].status # "NONE"
  /\ ~(lease[o].state = "ACTIVE" /\ lease[o].live)
  /\ lease[o].version < MaxLeaseVersion
  /\ lease' = [lease EXCEPT ![o] = [version |-> @.version + 1, state |-> "ACTIVE",
                                    holder |-> w, live |-> TRUE]]
  /\ UNCHANGED <<moneyVars, operationVars, idempotency, evidence, recovery,
                 fence, authorityVars, executionVars>>

\* clock_timestamp() passes lease_expires_at.
LeaseLapses(o) ==
  /\ lease[o].live
  /\ lease' = [lease EXCEPT ![o].live = FALSE]
  /\ UNCHANGED <<moneyVars, operationVars, idempotency, evidence, recovery,
                 fence, authorityVars, executionVars>>

\* What resolveRecovery checks of the lease.  The expiry check reads the worker's
\* own clock (Date.now()), which may be behind the database's: a lapsed lease
\* that nobody has claimed since may pass it.
HoldsLease(w, o, v) ==
  /\ lease[o].state = "ACTIVE"
  /\ lease[o].holder = w
  /\ lease[o].version = v

\* Sensitivity variant: the lease stays ACTIVE after the resolution.
CloseRecoveryKeepsLease(w, o, t, v, outcome) ==
  /\ recovery' = [recovery EXCEPT
       ![t] = [op |-> o, version |-> v, worker |-> w, outcome |-> outcome]]
  /\ UNCHANGED <<lease, operationVars, idempotency, fence, authorityVars,
                 executionVars>>

\* The INSERT into recovery_attempts and the lease turned RESOLVED, which close
\* every resolution.
CloseRecovery(w, o, t, v, outcome) ==
  /\ recovery' = [recovery EXCEPT
       ![t] = [op |-> o, version |-> v, worker |-> w, outcome |-> outcome]]
  /\ lease' = [lease EXCEPT ![o].state = "RESOLVED"]
  /\ UNCHANGED <<operationVars, idempotency, fence, authorityVars,
                 executionVars>>

MayResolve(w, o, t, v) ==
  /\ reservation[o].status # "NONE"
  /\ recovery[t] = NoAttempt
  /\ HoldsLease(w, o, v)

ResolveConfirmed(w, o, t, v, spend, proof) ==
  /\ MayResolve(w, o, t, v)
  /\ evidence[o].status # "NONE"
  /\ reservation[o].status = "BROADCAST"
  /\ proof = evidence[o].receipt
  /\ spend <= reservation[o].amount
  /\ evidence' = [evidence EXCEPT ![o].status = "VERIFIED"]
  /\ PostFinalize(o, spend)
  /\ CloseRecovery(w, o, t, v, "CONFIRMED")
  /\ CanonicalAuthorization(o, "FINALIZED")'

ResolveFailed(w, o, t, v) ==
  /\ MayResolve(w, o, t, v)
  /\ ReturnFunds(o, "RELEASED")
  /\ CloseRecovery(w, o, t, v, "FAILED")
  /\ UNCHANGED evidence
  /\ ApprovalOperationConsistent(o)'

ResolveVerifiedRevert(w, o, t, v, proof) ==
  /\ MayResolve(w, o, t, v)
  /\ reservation[o].status = "BROADCAST"
  /\ evidence[o].status = "VERIFIED"
  /\ proof = evidence[o].receipt
  /\ PostRelease({o}, "RELEASED")
  /\ CloseRecovery(w, o, t, v, "FAILED")
  /\ UNCHANGED evidence
  /\ ApprovalOperationConsistent(o)'

\* AMBIGUOUS and CONFLICT take a reservation in any status, FAILED one whose
\* transfer is or was out.  A row with spend cannot become DISPUTED
\* (budget_reservations_terminal_spend).
ResolveDisputed(w, o, t, v, outcome) ==
  /\ MayResolve(w, o, t, v)
  /\ outcome = "FAILED" => reservation[o].status \in {"BROADCAST", "DISPUTED"}
  /\ reservation[o].spend = 0
  /\ PostStatus(o, "DISPUTED")
  /\ CloseRecovery(w, o, t, v, outcome)
  /\ UNCHANGED evidence

-----------------------------------------------------------------------------
LedgerStep(o) ==
  \/ \E b \in Budgets, k \in Keys, amount \in 1..MaxAmount :
       ReserveBudget(o, b, k, amount)
  \/ ReleaseReservation(o)
  \/ ExpireReservation(o)
  \/ DisputeReservation(o)
  \/ \E r \in Receipts : MarkReservationBroadcast(o, r)
  \/ VerifyBroadcastEvidence(o)
  \/ \E spend \in 0..MaxAmount, proof \in Receipts :
       FinalizeReservation(o, spend, proof)

RecoveryStep(o) ==
  \/ LeaseLapses(o)
  \/ \E w \in Reconcilers : ClaimRecoveryLease(w, o)
  \/ \E w \in Reconcilers, t \in AttemptIds, v \in 1..MaxLeaseVersion :
       \/ \E spend \in 0..MaxAmount, proof \in Receipts :
            ResolveConfirmed(w, o, t, v, spend, proof)
       \/ ResolveFailed(w, o, t, v)
       \/ \E proof \in Receipts : ResolveVerifiedRevert(w, o, t, v, proof)
       \/ \E outcome \in {"AMBIGUOUS", "CONFLICT", "FAILED"} :
            ResolveDisputed(w, o, t, v, outcome)

=============================================================================
