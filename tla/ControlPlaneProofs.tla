--------------------------- MODULE ControlPlaneProofs ---------------------------
(* The composed system moves money only as AccountingSpec allows, for every    *)
(* set of operations, budgets, fences, reconcilers and every bound: whatever   *)
(* the order in which the ledger, the approval service, the control service,   *)
(* recovery and execution reach the two money tables.  Then the types of its   *)
(* rows, and the safety of funds behind bytes that may have been sent.         *)
EXTENDS ControlPlane, BudgetAccountingProofs

-----------------------------------------------------------------------------
(* The postings the services share, as steps of AccountingNext. *)

\* A release of rows that are all live is an accounting step.
LEMMA ReleaseIsPosting ==
  ASSUME NEW S \in SUBSET Operations, S \subseteq WithStatus(LiveStatuses),
         NEW status \in {"RELEASED", "EXPIRED"}, PostRelease(S, status)
  PROVE  AccountingNext
BY DEF AccountingNext, AcctRelease

\* ReturnFunds, the release of a HELD or AUTHORIZED reservation, is one.
LEMMA ReturnFundsIsPosting ==
  ASSUME NEW o \in Operations, NEW status \in {"RELEASED", "EXPIRED"},
         ReturnFunds(o, status)
  PROVE  AccountingNext
<1>1. {o} \subseteq WithStatus(LiveStatuses)
  BY DEF ReturnFunds, WithStatus, LiveStatuses
<1> QED
  BY <1>1, ReleaseIsPosting DEF ReturnFunds

\* Closing an approval request releases a HELD reservation.
LEMMA CloseRequestIsPosting ==
  ASSUME NEW a \in Approvals, NEW approvalStatus, NEW nextState,
         NEW status \in {"RELEASED", "EXPIRED"},
         CloseRequest(a, approvalStatus, nextState, status)
  PROVE  AccountingNext
<1>1. a[1] \in Operations
  BY DEF Approvals
<1>2. {a[1]} \subseteq WithStatus(LiveStatuses)
  BY <1>1 DEF CloseRequest, AwaitsDecision, WithStatus, LiveStatuses
<1>3. PostRelease({a[1]}, status)
  BY DEF CloseRequest
<1> QED
  BY <1>1, <1>2, <1>3, ReleaseIsPosting

\* A settlement of a BROADCAST reservation within its amount is one.
LEMMA FinalizeIsPosting ==
  ASSUME NEW o \in Operations, NEW spend \in 0..MaxAmount,
         reservation[o].status = "BROADCAST", spend <= reservation[o].amount,
         PostFinalize(o, spend)
  PROVE  AccountingNext
BY DEF AccountingNext, AcctSettle

\* A reservation that has recorded no spend may become DISPUTED; one that already
\* is stays as it was.
LEMMA DisputeIsPosting ==
  ASSUME AccountingInv, NEW o \in Operations, reservation[o].status # "NONE",
         reservation[o].status # "FINALIZED" \/ reservation[o].spend = 0,
         PostStatus(o, "DISPUTED")
  PROVE  [AccountingNext]_moneyVars
<1>1. AccountingTypeOK /\ FinalizedIsSpend
  BY DEF AccountingInv
<1>2. reservation[o].spend = 0
  BY <1>1, MaxAmountAssumption DEF AccountingTypeOK, FinalizedIsSpend
<1>3. CASE reservation[o].status = "DISPUTED"
  BY <1>1, <1>3 DEF PostStatus, AccountingTypeOK, moneyVars
<1>4. CASE reservation[o].status # "DISPUTED"
  <2>1. reservation[o].status \in ReservationStatuses \ {"DISPUTED"}
    BY <1>1, <1>4 DEF AccountingTypeOK
  <2> QED BY <1>2, <2>1 DEF AccountingNext, AcctDispute
<1> QED BY <1>3, <1>4

-----------------------------------------------------------------------------
(* One lemma per service. *)

\* The ledger's own operations.
LEMMA LedgerPosts ==
  ASSUME AccountingInv, NEW o \in Operations, LedgerStep(o)
  PROVE  [AccountingNext]_moneyVars
<1>1. ASSUME NEW b \in Budgets, NEW k \in Keys, NEW amount \in 1..MaxAmount,
             ReserveBudget(o, b, k, amount)
      PROVE  AccountingNext
  <2>1. AcctReserve(o, b, amount)
    BY <1>1, MaxAmountAssumption DEF ReserveBudget, AcctReserve
  <2> QED BY <2>1 DEF AccountingNext
<1>2. CASE ReleaseReservation(o)
  BY <1>2, ReturnFundsIsPosting DEF ReleaseReservation
<1>3. CASE ExpireReservation(o)
  BY <1>3, ReturnFundsIsPosting DEF ExpireReservation
<1>4. CASE DisputeReservation(o)
  <2>1. /\ reservation[o].status \in LiveStatuses
        /\ PostStatus(o, "DISPUTED")
    BY <1>4 DEF DisputeReservation, LiveStatuses
  <2> QED BY <2>1, DisputeIsPosting DEF LiveStatuses
<1>5. ASSUME NEW r \in Receipts, MarkReservationBroadcast(o, r)
      PROVE  AccountingNext
  BY <1>5 DEF MarkReservationBroadcast, AccountingNext, AcctAdvance
<1>6. CASE VerifyBroadcastEvidence(o)
  BY <1>6 DEF VerifyBroadcastEvidence
<1>7. ASSUME NEW spend \in 0..MaxAmount, NEW proof \in Receipts,
             FinalizeReservation(o, spend, proof)
      PROVE  AccountingNext
  BY <1>7, FinalizeIsPosting DEF FinalizeReservation
<1> QED
  BY <1>1, <1>2, <1>3, <1>4, <1>5, <1>6, <1>7 DEF LedgerStep

\* The recovery worker's operations.
LEMMA RecoveryPosts ==
  ASSUME AccountingInv, NEW o \in Operations, RecoveryStep(o)
  PROVE  [AccountingNext]_moneyVars
<1>1. CASE LeaseLapses(o)
  BY <1>1 DEF LeaseLapses
<1>2. ASSUME NEW w \in Reconcilers, ClaimRecoveryLease(w, o)
      PROVE  UNCHANGED moneyVars
  BY <1>2 DEF ClaimRecoveryLease
<1>3. ASSUME NEW w \in Reconcilers, NEW t \in AttemptIds,
             NEW v \in 1..MaxLeaseVersion
      PROVE  /\ \A spend \in 0..MaxAmount, proof \in Receipts :
                  ResolveConfirmed(w, o, t, v, spend, proof) => AccountingNext
             /\ ResolveFailed(w, o, t, v) => AccountingNext
             /\ \A proof \in Receipts :
                  ResolveVerifiedRevert(w, o, t, v, proof) => AccountingNext
             /\ \A outcome \in {"AMBIGUOUS", "CONFLICT", "FAILED"} :
                  ResolveDisputed(w, o, t, v, outcome)
                    => [AccountingNext]_moneyVars
  <2>1. ASSUME NEW spend \in 0..MaxAmount, NEW proof \in Receipts,
               ResolveConfirmed(w, o, t, v, spend, proof)
        PROVE  AccountingNext
    <3>1. /\ reservation[o].status = "BROADCAST"
          /\ spend <= reservation[o].amount
          /\ PostFinalize(o, spend)
      BY <2>1 DEF ResolveConfirmed
    <3> QED BY <3>1, FinalizeIsPosting
  <2>2. ASSUME ResolveFailed(w, o, t, v) PROVE AccountingNext
    BY <2>2, ReturnFundsIsPosting DEF ResolveFailed
  <2>3. ASSUME NEW proof \in Receipts, ResolveVerifiedRevert(w, o, t, v, proof)
        PROVE  AccountingNext
    <3>1. {o} \subseteq WithStatus(LiveStatuses) /\ PostRelease({o}, "RELEASED")
      BY <2>3 DEF ResolveVerifiedRevert, WithStatus, LiveStatuses
    <3> QED BY <3>1, ReleaseIsPosting
  <2>4. ASSUME NEW outcome \in {"AMBIGUOUS", "CONFLICT", "FAILED"},
               ResolveDisputed(w, o, t, v, outcome)
        PROVE  [AccountingNext]_moneyVars
    <3>1. /\ reservation[o].status # "NONE"
          /\ reservation[o].spend = 0
          /\ PostStatus(o, "DISPUTED")
      BY <2>4 DEF ResolveDisputed, MayResolve
    <3> QED BY <3>1, DisputeIsPosting
  <2> QED BY <2>1, <2>2, <2>3, <2>4
<1> QED
  BY <1>1, <1>2, <1>3 DEF RecoveryStep

\* A request found stale is closed like any other.
LEMMA StaleIsPosting ==
  ASSUME NEW a \in Approvals, InvalidateStaleApproval(a)
  PROVE  AccountingNext
BY CloseRequestIsPosting DEF InvalidateStaleApproval

\* The approval service's operations.
LEMMA ApprovalPosts ==
  ASSUME NEW o \in Operations, ApprovalStep(o)
  PROVE  [AccountingNext]_moneyVars
<1>1. ASSUME NEW a \in ApprovalsOf(o),
             \/ CreateApprovalRequest(a)
             \/ AuthenticateOwner(a)
             \/ ApproveApproval(a)
             \/ ExpireApproval(a)
             \/ RejectApproval(a)
             \/ RevokeApproval(a)
             \/ ConsumeApproval(a)
      PROVE  [AccountingNext]_moneyVars
  <2>0. a \in Approvals /\ a[1] \in Operations
    BY DEF ApprovalsOf, Approvals
  <2>1. CASE CreateApprovalRequest(a)
    BY <2>1 DEF CreateApprovalRequest
  <2>2. CASE AuthenticateOwner(a)
    BY <2>2 DEF AuthenticateOwner
  <2>3. CASE ApproveApproval(a)
    BY <2>0, <2>3, StaleIsPosting DEF ApproveApproval
  <2>4. CASE ExpireApproval(a)
    BY <2>0, <2>4, CloseRequestIsPosting DEF ExpireApproval
  <2>5. CASE RejectApproval(a)
    BY <2>0, <2>5, CloseRequestIsPosting DEF RejectApproval
  <2>6. CASE RevokeApproval(a)
    BY <2>0, <2>6, CloseRequestIsPosting DEF RevokeApproval
  <2>7. CASE ConsumeApproval(a)
    <3>1. CASE InvalidateStaleApproval(a)
      BY <2>0, <3>1, StaleIsPosting
    <3>2. CASE AwaitsDecision(a[1]) /\ PostStatus(a[1], "AUTHORIZED")
      <4>1. AcctAdvance(a[1], "HELD", "AUTHORIZED")
        BY <3>2 DEF AwaitsDecision, AcctAdvance
      <4> QED BY <2>0, <4>1 DEF AccountingNext
    <3> QED BY <2>7, <3>1, <3>2 DEF ConsumeApproval
  <2> QED BY <1>1, <2>1, <2>2, <2>3, <2>4, <2>5, <2>6, <2>7
<1>2. CASE ReplaceExecutionEnvelope(o)
  <2>1. /\ reservation[o].status \in LiveStatuses
        /\ PostRelease({o}, "RELEASED")
    BY <1>2 DEF ReplaceExecutionEnvelope,
           SupersedeRequest, SupersedeAuthorization, AwaitsDecision, LiveStatuses
  <2>2. {o} \subseteq WithStatus(LiveStatuses)
    BY <2>1 DEF WithStatus
  <2> QED BY <2>1, <2>2, ReleaseIsPosting
<1>3. CASE AuthorizeAutonomous(o)
  <2>1. AcctAdvance(o, "HELD", "AUTHORIZED")
    BY <1>3 DEF AuthorizeAutonomous, AutonomousBinding, AcctAdvance
  <2> QED BY <2>1 DEF AccountingNext
<1>4. CASE LifetimeLapses(o)
  BY <1>4 DEF LifetimeLapses
<1> QED
  BY <1>1, <1>2, <1>3, <1>4 DEF ApprovalStep

\* A fence change releases rows of several operations at once, all of them live:
\* this is where InvalidationCommits is needed.
LEMMA FencePosts ==
  ASSUME NEW s \in Scopes, ChangeControlFence(s)
  PROVE  AccountingNext
<1>1. Affected(s) \subseteq WithStatus(LiveStatuses)
  <2>1. HeldBeforeApproval(s) \subseteq WithStatus(LiveStatuses)
    BY DEF HeldBeforeApproval, InScope, WithStatus, LiveStatuses
  <2>2. AuthorizedOperations(s) \subseteq WithStatus(LiveStatuses)
    BY DEF AuthorizedOperations, InScope, WithStatus, LiveStatuses
  <2>3. ASSUME NEW a \in PendingApprovals(s)
        PROVE  a[1] \in WithStatus(LiveStatuses)
    <3>1. a[1] \in Operations
      BY DEF PendingApprovals, ActiveApprovals, ApprovalsOf, Approvals
    <3>2. reservation[a[1]].status \in {"HELD", "AUTHORIZED"}
      BY DEF ChangeControlFence, InvalidationCommits
    <3> QED BY <3>1, <3>2 DEF WithStatus, LiveStatuses
  <2> QED BY <2>1, <2>2, <2>3 DEF Affected
<1>2. Affected(s) \in SUBSET Operations
  BY <1>1 DEF WithStatus
<1>3. PostRelease(Affected(s), "RELEASED")
  BY DEF ChangeControlFence
<1> QED BY <1>1, <1>2, <1>3, ReleaseIsPosting

\* Preparation and execution never touch the money tables.
LEMMA NoPosting ==
  ASSUME NEW o \in Operations, PreparationStep(o) \/ ExecutionStep(o)
  PROVE  UNCHANGED moneyVars
BY DEF PreparationStep, PersistExecutionEnvelope, AdvanceOperationLifecycle,
       ExecutionStep, BeginSigning, PersistSignedEvidence, RematerializeEvidence,
       StartBroadcastAttempt, NodeAccepts, FinishBroadcastAttempt, ExecutorStops

\* Every step of the composed system is an accounting step or leaves the money
\* tables alone.
LEMMA NextPosts ==
  ASSUME AccountingInv, [Next]_vars
  PROVE  [AccountingNext]_moneyVars
<1>1. CASE Next
  BY <1>1, LedgerPosts, RecoveryPosts, ApprovalPosts, FencePosts, NoPosting
     DEF Next
<1>2. CASE UNCHANGED vars
  BY <1>2 DEF vars
<1> QED BY <1>1, <1>2

-----------------------------------------------------------------------------
\* The composed system implements the accounting specification: no interleaving
\* of reserveBudget, the release paths of ledger, approvals and control, the
\* authorizations, settlement and recovery posts money otherwise.
THEOREM ImplementsAccounting == Spec => AccountingSpec
<1>1. Init => AccountingInit
  BY DEF Init, WalletInit
<1>2. AccountingInv /\ [Next]_vars => [AccountingNext]_moneyVars
  BY NextPosts
<1>3. AccountingInv /\ [Next]_vars => AccountingInv'
  BY <1>2, NextInv
<1> QED
  BY <1>1, <1>2, <1>3, InitInv, PTL DEF Spec, AccountingSpec

\* Hence, whatever the services do and however they interleave, every budget
\* stays balanced and non-negative.
THEOREM ControlPlaneBalanced == Spec => []AccountBalanced
BY ImplementsAccounting, AccountsStayBalanced

-----------------------------------------------------------------------------
(* Types. *)

\* The initial rows have their types.
LEMMA InitTypes == Init => WalletTypeOK
<1> SUFFICES ASSUME Init PROVE WalletTypeOK
  OBVIOUS
<1> USE BindingAssumption, BoundsAssumption DEF Init, WalletInit
<1>1. AccountingTypeOK
  BY InitInv DEF AccountingInv
<1>2. OperationTypeOK
  BY DEF OperationTypeOK
<1>3. SettlementTypeOK
  BY DEF SettlementTypeOK, NoLease, NoAttempt, EvidenceRows, LeaseRows,
         AttemptRows
<1>4. NoSnapshot \in Snapshots
  BY DEF NoSnapshot, Snapshots
<1>5. AuthorityTypeOK
  BY <1>4 DEF AuthorityTypeOK, NoApproval, NoAuthorization, FenceRows,
              ApprovalRows, AuthorizationRows
<1>6. ExecutionTypeOK
  BY DEF ExecutionTypeOK
<1> QED BY <1>1, <1>2, <1>3, <1>5, <1>6 DEF WalletTypeOK

\* The parts a step leaves alone keep their types.
LEMMA UnchangedTypes ==
  ASSUME WalletTypeOK
  PROVE  /\ UNCHANGED <<operationVars, idempotency>> => OperationTypeOK'
         /\ UNCHANGED settlementVars => SettlementTypeOK'
         /\ UNCHANGED <<fence, authorityVars>> => AuthorityTypeOK'
         /\ UNCHANGED executionVars => ExecutionTypeOK'
BY DEF WalletTypeOK, OperationTypeOK, SettlementTypeOK, AuthorityTypeOK,
       ExecutionTypeOK, operationVars, settlementVars, authorityVars,
       executionVars

TypesNext == OperationTypeOK' /\ SettlementTypeOK' /\ AuthorityTypeOK'
               /\ ExecutionTypeOK'

\* Ledger operations change idempotency records and evidence only.
LEMMA LedgerTypes ==
  ASSUME WalletTypeOK, NEW o \in Operations, LedgerStep(o)
  PROVE  TypesNext
<1>1. ASSUME NEW b \in Budgets, NEW k \in Keys, NEW amount \in 1..MaxAmount,
             ReserveBudget(o, b, k, amount)
      PROVE  TypesNext
  <2>1. OperationTypeOK'
    BY <1>1 DEF ReserveBudget, WalletTypeOK, OperationTypeOK, operationVars
  <2> QED BY <1>1, <2>1, UnchangedTypes DEF ReserveBudget, TypesNext
<1>2. CASE ReleaseReservation(o) \/ ExpireReservation(o) \/ DisputeReservation(o)
  BY <1>2, UnchangedTypes
     DEF ReleaseReservation, ExpireReservation, DisputeReservation, TypesNext
<1>3. ASSUME NEW r \in Receipts, MarkReservationBroadcast(o, r)
      PROVE  TypesNext
  <2>1. SettlementTypeOK'
    BY <1>3 DEF MarkReservationBroadcast, WalletTypeOK, SettlementTypeOK,
                EvidenceRows
  <2> QED BY <1>3, <2>1, UnchangedTypes DEF MarkReservationBroadcast, TypesNext
<1>4. CASE VerifyBroadcastEvidence(o)
  <2>1. SettlementTypeOK'
    BY <1>4 DEF VerifyBroadcastEvidence, WalletTypeOK, SettlementTypeOK,
                EvidenceRows
  <2> QED BY <1>4, <2>1, UnchangedTypes DEF VerifyBroadcastEvidence, TypesNext
<1>5. ASSUME NEW spend \in 0..MaxAmount, NEW proof \in Receipts,
             FinalizeReservation(o, spend, proof)
      PROVE  TypesNext
  BY <1>5, UnchangedTypes DEF FinalizeReservation, TypesNext
<1> QED BY <1>1, <1>2, <1>3, <1>4, <1>5 DEF LedgerStep

\* Recovery changes leases, attempts and, on CONFIRMED, evidence.
LEMMA RecoveryTypes ==
  ASSUME WalletTypeOK, NEW o \in Operations, RecoveryStep(o)
  PROVE  TypesNext
<1> USE BoundsAssumption
<1>1. CASE LeaseLapses(o)
  <2>1. SettlementTypeOK'
    <3>1. lease[o] \in LeaseRows
      BY DEF WalletTypeOK, SettlementTypeOK
    <3>2. [lease[o] EXCEPT !.live = FALSE] \in LeaseRows
      BY <3>1, Zenon DEF LeaseRows
    <3> QED
      BY <1>1, <3>2 DEF LeaseLapses, WalletTypeOK, SettlementTypeOK
  <2> QED BY <1>1, <2>1, UnchangedTypes DEF LeaseLapses, TypesNext
<1>2. ASSUME NEW w \in Reconcilers, ClaimRecoveryLease(w, o)
      PROVE  TypesNext
  <2>1. SettlementTypeOK'
    BY <1>2 DEF ClaimRecoveryLease, WalletTypeOK, SettlementTypeOK, LeaseRows
  <2> QED BY <1>2, <2>1, UnchangedTypes DEF ClaimRecoveryLease, TypesNext
<1>3. ASSUME NEW w \in Reconcilers, NEW t \in AttemptIds,
             NEW v \in 1..MaxLeaseVersion,
             NEW outcome \in {"CONFIRMED", "FAILED", "AMBIGUOUS", "CONFLICT"},
             CloseRecovery(w, o, t, v, outcome),
             \/ UNCHANGED evidence
             \/ evidence' = [evidence EXCEPT ![o].status = "VERIFIED"]
      PROVE  TypesNext
  <2>1. SettlementTypeOK'
    <3>1. evidence' \in [Operations -> EvidenceRows]
      BY <1>3 DEF WalletTypeOK, SettlementTypeOK, EvidenceRows
    <3>2. [lease[o] EXCEPT !.state = "RESOLVED"] \in LeaseRows
      BY DEF WalletTypeOK, SettlementTypeOK, LeaseRows
    <3>3. lease' \in [Operations -> LeaseRows]
      BY <1>3, <3>2 DEF WalletTypeOK, SettlementTypeOK, CloseRecovery
    <3>4. [op |-> o, version |-> v, worker |-> w, outcome |-> outcome]
            \in AttemptRows
      BY DEF AttemptRows
    <3>5. recovery' \in [AttemptIds -> AttemptRows]
      BY <1>3, <3>4 DEF WalletTypeOK, SettlementTypeOK, CloseRecovery
    <3> QED BY <3>1, <3>3, <3>5 DEF SettlementTypeOK
  <2> QED BY <1>3, <2>1, UnchangedTypes DEF CloseRecovery, TypesNext
<1>4. ASSUME NEW w \in Reconcilers, NEW t \in AttemptIds,
             NEW v \in 1..MaxLeaseVersion
      PROVE  /\ \A spend \in 0..MaxAmount, proof \in Receipts :
                  ResolveConfirmed(w, o, t, v, spend, proof) => TypesNext
             /\ ResolveFailed(w, o, t, v) => TypesNext
             /\ \A proof \in Receipts :
                  ResolveVerifiedRevert(w, o, t, v, proof) => TypesNext
             /\ \A outcome \in {"AMBIGUOUS", "CONFLICT", "FAILED"} :
                  ResolveDisputed(w, o, t, v, outcome) => TypesNext
  BY <1>3 DEF ResolveConfirmed, ResolveFailed, ResolveVerifiedRevert,
              ResolveDisputed
<1> QED BY <1>1, <1>2, <1>4 DEF RecoveryStep

\* A status written on an approval row leaves the row typed.
LEMMA ApprovalRowTyped ==
  ASSUME WalletTypeOK, NEW a \in Approvals,
         NEW status \in {"APPROVED", "REJECTED", "EXPIRED", "REVOKED", "CONSUMED"}
  PROVE  [approval EXCEPT ![a].status = status] \in [Approvals -> ApprovalRows]
BY DEF WalletTypeOK, AuthorityTypeOK, ApprovalRows

\* The snapshot a request or an authorization copies is a snapshot.
LEMMA SnapshotTyped ==
  ASSUME WalletTypeOK, NEW o \in Operations
  PROVE  SnapshotOf(o) \in Snapshots
<1>1. \A s \in Scopes : fence[s].version \in 0..MaxFenceVersion
  BY BoundsAssumption DEF WalletTypeOK, AuthorityTypeOK, FenceRows
<1> QED BY <1>1, BoundsAssumption DEF SnapshotOf, Snapshots

\* Closing a request keeps operation and approval rows typed.
LEMMA CloseRequestTypes ==
  ASSUME WalletTypeOK, NEW a \in Approvals, NEW reservationStatus,
         NEW status \in {"REJECTED", "EXPIRED", "REVOKED"},
         NEW state \in LIFECYCLE_STATES,
         CloseRequest(a, status, state, reservationStatus),
         UNCHANGED <<revision, lapsed, idempotency, settlementVars, fence,
                     ownerAuth, authz, executionVars>>
  PROVE  TypesNext
<1>1. OperationTypeOK'
  BY DEF CloseRequest, WalletTypeOK, OperationTypeOK
<1>2. approval' \in [Approvals -> ApprovalRows]
  BY ApprovalRowTyped DEF CloseRequest
<1>3. AuthorityTypeOK'
  BY <1>2 DEF WalletTypeOK, AuthorityTypeOK
<1> QED BY <1>1, <1>3, UnchangedTypes DEF TypesNext

\* The approval service's operations keep every row typed.
LEMMA ApprovalTypes ==
  ASSUME WalletTypeOK, NEW o \in Operations, ApprovalStep(o)
  PROVE  TypesNext
<1> USE DEF TypesNext
<1>1. {"REVALIDATION_REQUIRED", "EXPIRED", "REJECTED", "REVOKED", "AUTHORIZED",
       "AWAITING_APPROVAL"} \subseteq LIFECYCLE_STATES
  BY DEF LIFECYCLE_STATES
<1>2. ASSUME NEW a \in ApprovalsOf(o),
             \/ CreateApprovalRequest(a)
             \/ AuthenticateOwner(a)
             \/ ApproveApproval(a)
             \/ ExpireApproval(a)
             \/ RejectApproval(a)
             \/ RevokeApproval(a)
             \/ ConsumeApproval(a)
      PROVE  TypesNext
  <2>0. a \in Approvals /\ a[1] \in Operations
    BY DEF ApprovalsOf, Approvals
  <2>1. CASE InvalidateStaleApproval(a)
    BY <1>1, <2>0, <2>1, CloseRequestTypes DEF InvalidateStaleApproval
  <2>2. CASE CreateApprovalRequest(a)
    <3>1. OperationTypeOK'
      BY <1>1, <2>2 DEF CreateApprovalRequest, WalletTypeOK, OperationTypeOK
    <3>2. [status |-> "PENDING", revision |-> revision[a[1]],
           fences |-> SnapshotOf(a[1])] \in ApprovalRows
      BY <2>0, SnapshotTyped DEF WalletTypeOK, OperationTypeOK, ApprovalRows
    <3>3. AuthorityTypeOK'
      BY <2>0, <2>2, <3>2
         DEF CreateApprovalRequest, WalletTypeOK, AuthorityTypeOK
    <3> QED BY <2>2, <3>1, <3>3, UnchangedTypes DEF CreateApprovalRequest
  <2>3. CASE AuthenticateOwner(a)
    <3>1. AuthorityTypeOK'
      BY <2>0, <2>3 DEF AuthenticateOwner, WalletTypeOK, AuthorityTypeOK
    <3> QED BY <2>3, <3>1, UnchangedTypes DEF AuthenticateOwner
  <2>4. CASE ApproveApproval(a) /\ ~InvalidateStaleApproval(a)
    <3>1. /\ approval' = [approval EXCEPT ![a].status = "APPROVED"]
          /\ UNCHANGED <<operationVars, idempotency, settlementVars, fence,
                         ownerAuth, authz, executionVars>>
      BY <2>4 DEF ApproveApproval
    <3>2. AuthorityTypeOK'
      BY <2>0, <3>1, ApprovalRowTyped DEF WalletTypeOK, AuthorityTypeOK
    <3> QED BY <3>1, <3>2, UnchangedTypes
  <2>5. CASE ExpireApproval(a)
    BY <1>1, <2>0, <2>5, CloseRequestTypes DEF ExpireApproval
  <2>6. CASE RejectApproval(a)
    BY <1>1, <2>0, <2>6, CloseRequestTypes DEF RejectApproval
  <2>7. CASE RevokeApproval(a)
    BY <1>1, <2>0, <2>7, CloseRequestTypes DEF RevokeApproval
  <2>8. CASE ConsumeApproval(a) /\ ~InvalidateStaleApproval(a)
    <3>1. /\ opState' = [opState EXCEPT ![a[1]] = "AUTHORIZED"]
          /\ authz' = [authz EXCEPT
               ![a[1]] = [kind |-> "OWNER_APPROVAL",
                          revision |-> approval[a].revision,
                          fences |-> approval[a].fences, invalidated |-> FALSE]]
          /\ approval' = [approval EXCEPT ![a].status = "CONSUMED"]
          /\ ownerAuth' = [ownerAuth EXCEPT ![a] = "CONSUMED"]
          /\ UNCHANGED <<revision, lapsed, idempotency, settlementVars, fence,
                         executionVars>>
      BY <2>8 DEF ConsumeApproval
    <3>2. OperationTypeOK'
      BY <1>1, <2>0, <3>1 DEF WalletTypeOK, OperationTypeOK
    <3>3. [kind |-> "OWNER_APPROVAL", revision |-> approval[a].revision,
           fences |-> approval[a].fences, invalidated |-> FALSE]
            \in AuthorizationRows
      BY <2>0 DEF WalletTypeOK, AuthorityTypeOK, ApprovalRows, AuthorizationRows
    <3>4. AuthorityTypeOK'
      BY <2>0, <3>1, <3>3, ApprovalRowTyped DEF WalletTypeOK, AuthorityTypeOK
    <3> QED BY <3>1, <3>2, <3>4, UnchangedTypes
  <2> QED BY <1>2, <2>1, <2>2, <2>3, <2>4, <2>5, <2>6, <2>7, <2>8
<1>3. CASE ReplaceExecutionEnvelope(o)
  <2>1. OperationTypeOK'
    BY <1>1, <1>3, BoundsAssumption
       DEF ReplaceExecutionEnvelope,
           SupersedeRequest, SupersedeAuthorization, WalletTypeOK, OperationTypeOK
  <2>2. approval' \in [Approvals -> ApprovalRows]
    <3>1. \A a \in ActiveApprovals(o) : a \in Approvals
      BY DEF ActiveApprovals, ApprovalsOf
    <3>2. \/ approval' = approval
          \/ \E a \in ActiveApprovals(o) :
               approval' = [approval EXCEPT ![a].status = "REVOKED"]
      BY <1>3 DEF ReplaceExecutionEnvelope,
           SupersedeRequest, SupersedeAuthorization
    <3>3. CASE approval' = approval
      BY <3>3 DEF WalletTypeOK, AuthorityTypeOK
    <3>4. ASSUME NEW a \in ActiveApprovals(o),
                 approval' = [approval EXCEPT ![a].status = "REVOKED"]
          PROVE  approval' \in [Approvals -> ApprovalRows]
      BY <3>1, <3>4, ApprovalRowTyped
    <3> QED BY <3>2, <3>3, <3>4
  <2>3. AuthorityTypeOK'
    BY <1>3, <2>2 DEF ReplaceExecutionEnvelope,
           SupersedeRequest, SupersedeAuthorization, WalletTypeOK, AuthorityTypeOK
  <2> QED BY <1>3, <2>1, <2>3, UnchangedTypes DEF ReplaceExecutionEnvelope,
           SupersedeRequest, SupersedeAuthorization
<1>4. CASE AuthorizeAutonomous(o)
  <2>1. OperationTypeOK'
    BY <1>1, <1>4 DEF AuthorizeAutonomous, WalletTypeOK, OperationTypeOK
  <2>2. [kind |-> "AUTONOMOUS_POLICY", revision |-> revision[o],
         fences |-> SnapshotOf(o), invalidated |-> FALSE] \in AuthorizationRows
    BY SnapshotTyped DEF WalletTypeOK, OperationTypeOK, AuthorizationRows
  <2>3. AuthorityTypeOK'
    BY <1>4, <2>2 DEF AuthorizeAutonomous, WalletTypeOK, AuthorityTypeOK
  <2> QED BY <1>4, <2>1, <2>3, UnchangedTypes DEF AuthorizeAutonomous
<1>5. CASE LifetimeLapses(o)
  <2>1. OperationTypeOK'
    BY <1>5 DEF LifetimeLapses, WalletTypeOK, OperationTypeOK
  <2> QED BY <1>5, <2>1, UnchangedTypes DEF LifetimeLapses
<1> QED BY <1>2, <1>3, <1>4, <1>5 DEF ApprovalStep

\* A fence change keeps every row typed.
LEMMA FenceTypes ==
  ASSUME WalletTypeOK, NEW s \in Scopes, ChangeControlFence(s)
  PROVE  TypesNext
<1> USE DEF ChangeControlFence, WalletTypeOK
<1>1. OperationTypeOK'
  BY DEF OperationTypeOK, StateAfterFence, LIFECYCLE_STATES
<1>2. fence' \in [Scopes -> FenceRows]
  <2>1. NextFenceState(s) \in {"ACTIVE", "PAUSED", "REVOKED"}
    BY DEF NextFenceState
  <2>2. fence[s].version + 1 \in 1..MaxFenceVersion
    BY BoundsAssumption DEF AuthorityTypeOK, FenceRows
  <2>3. [state |-> NextFenceState(s), version |-> fence[s].version + 1]
          \in FenceRows
    BY <2>1, <2>2 DEF FenceRows
  <2> QED BY <2>3 DEF AuthorityTypeOK
<1>3. approval' \in [Approvals -> ApprovalRows]
  <2>1. \A a \in Approvals :
          [approval[a] EXCEPT !.status = "REVOKED"] \in ApprovalRows
    BY DEF AuthorityTypeOK, ApprovalRows
  <2> QED BY <2>1 DEF AuthorityTypeOK
<1>4. authz' \in [Operations -> AuthorizationRows]
  <2>1. ASSUME NEW r \in AuthorizationRows
        PROVE  [r EXCEPT !.invalidated = TRUE] \in AuthorizationRows
    BY Zenon DEF AuthorizationRows
  <2>2. \A o \in Operations :
          [authz[o] EXCEPT !.invalidated = TRUE] \in AuthorizationRows
    BY <2>1 DEF AuthorityTypeOK
  <2> QED BY <2>2 DEF AuthorityTypeOK
<1>5. AuthorityTypeOK'
  BY <1>2, <1>3, <1>4 DEF AuthorityTypeOK
<1> QED BY <1>1, <1>5, UnchangedTypes DEF TypesNext

\* Preparation moves the lifecycle along the adjacency table only.
LEMMA PreparationTypes ==
  ASSUME WalletTypeOK, NEW o \in Operations, PreparationStep(o)
  PROVE  TypesNext
<1>1. ASSUME NEW next, Transition(o, next),
             UNCHANGED <<lapsed, idempotency>>,
             revision' \in [Operations -> 0..MaxRevision]
      PROVE  OperationTypeOK'
  <2>1. LIFECYCLE_TRANSITIONS[opState[o]] \subseteq LIFECYCLE_STATES
    BY DEF LIFECYCLE_TRANSITIONS, LIFECYCLE_STATES, Refusals, WalletTypeOK,
           OperationTypeOK
  <2>2. next \in LIFECYCLE_STATES
    BY <1>1, <2>1 DEF Transition
  <2> QED
    BY <1>1, <2>2 DEF Transition, WalletTypeOK, OperationTypeOK
<1>2. CASE PersistExecutionEnvelope(o)
  <2>1. revision' \in [Operations -> 0..MaxRevision]
    BY <1>2, BoundsAssumption
       DEF PersistExecutionEnvelope, WalletTypeOK, OperationTypeOK
  <2>2. OperationTypeOK'
    BY <1>1, <1>2, <2>1 DEF PersistExecutionEnvelope
  <2> QED BY <1>2, <2>2, UnchangedTypes DEF PersistExecutionEnvelope, TypesNext
<1>3. ASSUME NEW next \in AdvanceTargets, AdvanceOperationLifecycle(o, next)
      PROVE  TypesNext
  <2>1. OperationTypeOK'
    BY <1>1, <1>3 DEF AdvanceOperationLifecycle, WalletTypeOK, OperationTypeOK
  <2> QED BY <1>3, <2>1, UnchangedTypes DEF AdvanceOperationLifecycle, TypesNext
<1> QED BY <1>2, <1>3 DEF PreparationStep

\* Execution writes the operation's state and the execution rows.
LEMMA ExecutionTypes ==
  ASSUME WalletTypeOK, NEW o \in Operations, ExecutionStep(o)
  PROVE  TypesNext
<1> USE DEF TypesNext
<1>1. {"SIGNING", "SIGNED"} \subseteq LIFECYCLE_STATES
  BY DEF LIFECYCLE_STATES
<1>2. CASE BeginSigning(o)
  <2>1. OperationTypeOK'
    BY <1>1, <1>2 DEF BeginSigning, WalletTypeOK, OperationTypeOK
  <2>2. ExecutionTypeOK'
    BY <1>2 DEF BeginSigning, WalletTypeOK, ExecutionTypeOK
  <2> QED BY <1>2, <2>1, <2>2, UnchangedTypes DEF BeginSigning
<1>3. CASE PersistSignedEvidence(o)
  <2>1. OperationTypeOK'
    BY <1>1, <1>3 DEF PersistSignedEvidence, WalletTypeOK, OperationTypeOK
  <2>2. ExecutionTypeOK'
    BY <1>3 DEF PersistSignedEvidence, WalletTypeOK, ExecutionTypeOK
  <2> QED BY <1>3, <2>1, <2>2, UnchangedTypes DEF PersistSignedEvidence
<1>4. CASE RematerializeEvidence(o)
  <2>1. ExecutionTypeOK'
    BY <1>4 DEF RematerializeEvidence, WalletTypeOK, ExecutionTypeOK
  <2> QED BY <1>4, <2>1, UnchangedTypes DEF RematerializeEvidence
<1>5. CASE StartBroadcastAttempt(o)
  <2>1. ExecutionTypeOK'
    BY <1>5 DEF StartBroadcastAttempt, WalletTypeOK, ExecutionTypeOK
  <2> QED BY <1>5, <2>1, UnchangedTypes DEF StartBroadcastAttempt
<1>6. CASE NodeAccepts(o)
  <2>1. ExecutionTypeOK'
    BY <1>6 DEF NodeAccepts, WalletTypeOK, ExecutionTypeOK
  <2> QED BY <1>6, <2>1, UnchangedTypes DEF NodeAccepts
<1>7. ASSUME NEW status \in {"ACCEPTED", "REJECTED", "UNKNOWN", "CONFLICT"},
             FinishBroadcastAttempt(o, status)
      PROVE  TypesNext
  <2>1. ExecutionTypeOK'
    BY <1>7 DEF FinishBroadcastAttempt, WalletTypeOK, ExecutionTypeOK
  <2> QED BY <1>7, <2>1, UnchangedTypes DEF FinishBroadcastAttempt
<1>8. CASE ExecutorStops(o)
  <2>1. ExecutionTypeOK'
    BY <1>8 DEF ExecutorStops, WalletTypeOK, ExecutionTypeOK
  <2> QED BY <1>8, <2>1, UnchangedTypes DEF ExecutorStops
<1> QED BY <1>2, <1>3, <1>4, <1>5, <1>6, <1>7, <1>8 DEF ExecutionStep

\* The types and the accounting invariant together are inductive: the types of
\* the money tables come from the refinement.
WalletInv == WalletTypeOK /\ AccountingInv

\* Every step keeps it.
LEMMA NextTypes ==
  ASSUME WalletInv, [Next]_vars
  PROVE  WalletInv'
<1>0. WalletTypeOK /\ AccountingInv
  BY DEF WalletInv
<1>1. AccountingInv'
  BY <1>0, NextPosts, NextInv
<1>2. TypesNext
  <2>1. CASE Next
    BY <1>0, <2>1, LedgerTypes, RecoveryTypes, ApprovalTypes, PreparationTypes,
       ExecutionTypes, FenceTypes DEF Next
  <2>2. CASE UNCHANGED vars
    BY <1>0, <2>2, UnchangedTypes DEF vars, TypesNext
  <2> QED BY <2>1, <2>2
<1> QED BY <1>1, <1>2 DEF WalletInv, WalletTypeOK, AccountingInv, TypesNext

\* Every row of the composed system keeps its type.
THEOREM ControlPlaneTypeCorrect == Spec => []WalletTypeOK
<1>1. Init => WalletInv
  BY InitTypes, InitInv DEF Init, WalletInit, WalletInv
<1>2. WalletInv => WalletTypeOK
  BY DEF WalletInv
<1> QED BY <1>1, <1>2, NextTypes, PTL DEF Spec

-----------------------------------------------------------------------------
(* Funds behind bytes that may have been sent. *)

\* The funds of an operation are out of reach of every release path.
Pinned(o) ==
  \/ reservation[o].status \in {"AUTHORIZED", "BROADCAST", "FINALIZED", "DISPUTED"}
  \/ evidence[o].status = "VERIFIED"

\* SentFundsAreNeverReturned is not inductive: the release guards read the
\* broadcast attempt, not the node.  The attempt is the missing link: what the
\* node has taken has an attempt that is not REJECTED, and such an attempt pins.
SendInv ==
  \A o \in Operations :
    /\ sent[o] => SendCapable(o)
    /\ SendCapable(o) => Pinned(o)

\* A step that writes neither attempts nor the node's side has to keep the pins.
LEMMA PinsSuffice ==
  ASSUME SendInv, UNCHANGED executionVars,
         \A o \in Operations : SendCapable(o) /\ Pinned(o) => Pinned(o)'
  PROVE  SendInv'
BY DEF SendInv, SendCapable, executionVars

\* A release takes no pin from an operation outside the set it releases.
LEMMA ReleaseKeepsPins ==
  ASSUME SendInv, UNCHANGED <<executionVars, evidence>>,
         NEW S \in SUBSET Operations, NEW status, PostRelease(S, status),
         \A o \in S : ~SendCapable(o) \/ evidence[o].status = "VERIFIED"
  PROVE  SendInv'
<1>1. \A o \in Operations \ S : reservation'[o] = reservation[o]
  BY DEF PostRelease
<1>2. \A o \in Operations : SendCapable(o) /\ Pinned(o) => Pinned(o)'
  BY <1>1 DEF Pinned
<1> QED BY <1>2, PinsSuffice

\* Nor does a status that is itself a pin.
LEMMA StatusKeepsPins ==
  ASSUME WalletTypeOK, SendInv, UNCHANGED executionVars,
         \A p \in Operations : evidence[p].status = "VERIFIED"
                                => evidence'[p].status = "VERIFIED",
         NEW o \in Operations,
         NEW status \in {"AUTHORIZED", "BROADCAST", "DISPUTED"},
         PostStatus(o, status)
  PROVE  SendInv'
<1>1. \A p \in Operations :
        reservation'[p].status = IF p = o THEN status ELSE reservation[p].status
  BY DEF PostStatus, WalletTypeOK, AccountingTypeOK
<1>2. \A p \in Operations : SendCapable(p) /\ Pinned(p) => Pinned(p)'
  BY <1>1 DEF Pinned
<1> QED BY <1>2, PinsSuffice

\* Nor does a settlement.
LEMMA FinalizeKeepsPins ==
  ASSUME WalletTypeOK, SendInv, UNCHANGED executionVars,
         \A p \in Operations : evidence[p].status = "VERIFIED"
                                => evidence'[p].status = "VERIFIED",
         NEW o \in Operations, NEW spend, PostFinalize(o, spend)
  PROVE  SendInv'
<1>1. \A p \in Operations :
        reservation'[p].status = IF p = o THEN "FINALIZED"
                                          ELSE reservation[p].status
  BY DEF PostFinalize, WalletTypeOK, AccountingTypeOK
<1>2. \A p \in Operations : SendCapable(p) /\ Pinned(p) => Pinned(p)'
  BY <1>1 DEF Pinned
<1> QED BY <1>2, PinsSuffice

\* Verified evidence stays verified when the evidence of one operation is
\* verified, or recorded where none was.
LEMMA EvidenceGrows ==
  ASSUME WalletTypeOK, NEW o \in Operations,
         \/ UNCHANGED evidence
         \/ evidence' = [evidence EXCEPT ![o].status = "VERIFIED"]
         \/ /\ evidence[o].status = "NONE"
            /\ \E row : evidence' = [evidence EXCEPT ![o] = row]
  PROVE  \A p \in Operations : evidence[p].status = "VERIFIED"
                                => evidence'[p].status = "VERIFIED"
BY DEF WalletTypeOK, SettlementTypeOK, EvidenceRows

\* The ledger's own operations keep the pins.
LEMMA LedgerSends ==
  ASSUME WalletTypeOK, SendInv, NEW o \in Operations, LedgerStep(o)
  PROVE  SendInv'
<1>1. ASSUME NEW b \in Budgets, NEW k \in Keys, NEW amount \in 1..MaxAmount,
             ReserveBudget(o, b, k, amount)
      PROVE  SendInv'
  <2>1. /\ reservation[o].status = "NONE"
        /\ \A p \in Operations \ {o} : reservation'[p] = reservation[p]
        /\ UNCHANGED <<executionVars, evidence>>
    BY <1>1 DEF ReserveBudget, PostReserve, settlementVars, WalletTypeOK,
                AccountingTypeOK
  <2>2. \A p \in Operations : SendCapable(p) /\ Pinned(p) => Pinned(p)'
    BY <2>1 DEF Pinned
  <2> QED BY <2>1, <2>2, PinsSuffice
<1>2. CASE ReleaseReservation(o) \/ ExpireReservation(o)
  <2>1. PICK status : ReturnFunds(o, status)
    BY <1>2 DEF ReleaseReservation, ExpireReservation
  <2>2. UNCHANGED <<executionVars, evidence>>
    BY <1>2 DEF ReleaseReservation, ExpireReservation, settlementVars
  <2> QED BY <2>1, <2>2, ReleaseKeepsPins DEF ReturnFunds
<1>3. CASE DisputeReservation(o)
  BY <1>3, StatusKeepsPins DEF DisputeReservation, settlementVars
<1>4. ASSUME NEW r \in Receipts, MarkReservationBroadcast(o, r)
      PROVE  SendInv'
  BY <1>4, EvidenceGrows, StatusKeepsPins DEF MarkReservationBroadcast
<1>5. CASE VerifyBroadcastEvidence(o)
  <2>1. \A p \in Operations : SendCapable(p) /\ Pinned(p) => Pinned(p)'
    BY <1>5, EvidenceGrows DEF VerifyBroadcastEvidence, Pinned, moneyVars
  <2> QED BY <1>5, <2>1, PinsSuffice DEF VerifyBroadcastEvidence
<1>6. ASSUME NEW spend \in 0..MaxAmount, NEW proof \in Receipts,
             FinalizeReservation(o, spend, proof)
      PROVE  SendInv'
  BY <1>6, FinalizeKeepsPins DEF FinalizeReservation, settlementVars
<1> QED BY <1>1, <1>2, <1>3, <1>4, <1>5, <1>6 DEF LedgerStep

\* Recovery releases only what has no send-capable attempt, or what a verified
\* receipt shows to have reverted.
LEMMA RecoverySends ==
  ASSUME WalletTypeOK, SendInv, NEW o \in Operations, RecoveryStep(o)
  PROVE  SendInv'
<1>1. ASSUME UNCHANGED <<moneyVars, evidence, executionVars>>
      PROVE  SendInv'
  BY <1>1, PinsSuffice DEF Pinned, moneyVars
<1>2. CASE LeaseLapses(o) \/ \E w \in Reconcilers : ClaimRecoveryLease(w, o)
  BY <1>1, <1>2 DEF LeaseLapses, ClaimRecoveryLease
<1>3. ASSUME NEW w \in Reconcilers, NEW t \in AttemptIds,
             NEW v \in 1..MaxLeaseVersion
      PROVE  /\ \A spend \in 0..MaxAmount, proof \in Receipts :
                  ResolveConfirmed(w, o, t, v, spend, proof) => SendInv'
             /\ ResolveFailed(w, o, t, v) => SendInv'
             /\ \A proof \in Receipts :
                  ResolveVerifiedRevert(w, o, t, v, proof) => SendInv'
             /\ \A outcome \in {"AMBIGUOUS", "CONFLICT", "FAILED"} :
                  ResolveDisputed(w, o, t, v, outcome) => SendInv'
  <2>1. ASSUME NEW spend \in 0..MaxAmount, NEW proof \in Receipts,
               ResolveConfirmed(w, o, t, v, spend, proof)
        PROVE  SendInv'
    BY <2>1, EvidenceGrows, FinalizeKeepsPins DEF ResolveConfirmed, CloseRecovery
  <2>2. ASSUME ResolveFailed(w, o, t, v) PROVE SendInv'
    BY <2>2, ReleaseKeepsPins DEF ResolveFailed, CloseRecovery, ReturnFunds
  <2>3. ASSUME NEW proof \in Receipts, ResolveVerifiedRevert(w, o, t, v, proof)
        PROVE  SendInv'
    BY <2>3, ReleaseKeepsPins DEF ResolveVerifiedRevert, CloseRecovery
  <2>4. ASSUME NEW outcome \in {"AMBIGUOUS", "CONFLICT", "FAILED"},
               ResolveDisputed(w, o, t, v, outcome)
        PROVE  SendInv'
    BY <2>4, StatusKeepsPins DEF ResolveDisputed, CloseRecovery
  <2> QED BY <2>1, <2>2, <2>3, <2>4
<1> QED BY <1>2, <1>3 DEF RecoveryStep

\* Approvals and envelope replacement release only without a send-capable
\* attempt.
LEMMA ApprovalSends ==
  ASSUME WalletTypeOK, SendInv, NEW o \in Operations, ApprovalStep(o)
  PROVE  SendInv'
<1>1. ASSUME UNCHANGED <<moneyVars, evidence, executionVars>>
      PROVE  SendInv'
  BY <1>1, PinsSuffice DEF Pinned, moneyVars
<1>2. ASSUME NEW a \in Approvals, NEW approvalStatus, NEW state, NEW status,
             CloseRequest(a, approvalStatus, state, status),
             UNCHANGED <<settlementVars, executionVars>>
      PROVE  SendInv'
  <2>1. {a[1]} \in SUBSET Operations
    BY DEF Approvals
  <2> QED
    BY <1>2, <2>1, ReleaseKeepsPins DEF CloseRequest, settlementVars
<1>3. ASSUME NEW a \in ApprovalsOf(o),
             \/ CreateApprovalRequest(a)
             \/ AuthenticateOwner(a)
             \/ ApproveApproval(a)
             \/ ExpireApproval(a)
             \/ RejectApproval(a)
             \/ RevokeApproval(a)
             \/ ConsumeApproval(a)
      PROVE  SendInv'
  <2>0. a \in Approvals /\ a[1] \in Operations
    BY DEF ApprovalsOf, Approvals
  <2>1. CASE InvalidateStaleApproval(a) \/ ExpireApproval(a)
               \/ RejectApproval(a) \/ RevokeApproval(a)
    BY <1>2, <2>0, <2>1 DEF InvalidateStaleApproval, ExpireApproval,
                            RejectApproval, RevokeApproval
  <2>2. CASE CreateApprovalRequest(a) \/ AuthenticateOwner(a)
    BY <1>1, <2>2 DEF CreateApprovalRequest, AuthenticateOwner, settlementVars
  <2>3. CASE ApproveApproval(a) /\ ~InvalidateStaleApproval(a)
    <3>1. UNCHANGED <<moneyVars, settlementVars, executionVars>>
      BY <2>3 DEF ApproveApproval
    <3> QED BY <1>1, <3>1 DEF settlementVars
  <2>4. CASE ConsumeApproval(a) /\ ~InvalidateStaleApproval(a)
    <3>1. /\ PostStatus(a[1], "AUTHORIZED")
          /\ UNCHANGED <<settlementVars, executionVars>>
      BY <2>4 DEF ConsumeApproval
    <3> QED BY <2>0, <3>1, StatusKeepsPins DEF settlementVars
  <2> QED BY <1>3, <2>1, <2>2, <2>3, <2>4
<1>4. CASE ReplaceExecutionEnvelope(o)
  <2>1. /\ PostRelease({o}, "RELEASED")
        /\ ~SendCapable(o)
        /\ UNCHANGED <<settlementVars, executionVars>>
    BY <1>4 DEF ReplaceExecutionEnvelope,
           SupersedeRequest, SupersedeAuthorization
  <2> QED BY <2>1, ReleaseKeepsPins DEF settlementVars
<1>5. CASE AuthorizeAutonomous(o)
  BY <1>5, StatusKeepsPins DEF AuthorizeAutonomous, settlementVars
<1>6. CASE LifetimeLapses(o)
  BY <1>1, <1>6 DEF LifetimeLapses, settlementVars
<1> QED BY <1>3, <1>4, <1>5, <1>6 DEF ApprovalStep

\* A fence change aborts rather than release an operation with a send-capable
\* attempt.
LEMMA FenceSends ==
  ASSUME SendInv, NEW s \in Scopes, ChangeControlFence(s)
  PROVE  SendInv'
<1>1. Affected(s) \in SUBSET Operations
  BY DEF Affected, HeldBeforeApproval, AuthorizedOperations, InScope,
         PendingApprovals, ActiveApprovals, ApprovalsOf, Approvals
<1>2. /\ PostRelease(Affected(s), "RELEASED")
      /\ \A o \in Affected(s) : ~SendCapable(o)
      /\ UNCHANGED <<settlementVars, executionVars>>
  BY DEF ChangeControlFence, InvalidationCommits
<1> QED BY <1>1, <1>2, ReleaseKeepsPins DEF settlementVars

\* Execution starts an attempt only on an AUTHORIZED reservation, and a proof of
\* rejection is the only end of an attempt that unpins.
LEMMA ExecutionSends ==
  ASSUME WalletTypeOK, SendInv, NEW o \in Operations, ExecutionStep(o)
  PROVE  SendInv'
<1>1. UNCHANGED <<reservation, evidence>>
  BY DEF ExecutionStep, BeginSigning, PersistSignedEvidence,
         RematerializeEvidence, StartBroadcastAttempt, NodeAccepts,
         FinishBroadcastAttempt, ExecutorStops, moneyVars, settlementVars
<1>2. \A p \in Operations : Pinned(p)' = Pinned(p)
  BY <1>1 DEF Pinned
<1>3. CASE UNCHANGED <<sendAttempt, sent>>
  BY <1>2, <1>3 DEF SendInv, SendCapable
<1>4. CASE StartBroadcastAttempt(o)
  <2>1. Pinned(o)
    BY <1>4 DEF StartBroadcastAttempt, Pinned
  <2>2. /\ sendAttempt' = [sendAttempt EXCEPT ![o] = "STARTED"]
        /\ sent' = sent
    BY <1>4 DEF StartBroadcastAttempt
  <2> QED
    BY <1>2, <2>1, <2>2 DEF SendInv, SendCapable, WalletTypeOK, ExecutionTypeOK
<1>5. CASE NodeAccepts(o)
  <2>1. /\ sendAttempt[o] \in {"STARTED", "UNKNOWN", "CONFLICT"}
        /\ sendAttempt' = sendAttempt
        /\ sent' = [sent EXCEPT ![o] = TRUE]
    BY <1>5 DEF NodeAccepts
  <2> QED
    BY <1>2, <2>1 DEF SendInv, SendCapable, WalletTypeOK, ExecutionTypeOK
<1>6. ASSUME NEW status \in {"ACCEPTED", "REJECTED", "UNKNOWN", "CONFLICT"},
             FinishBroadcastAttempt(o, status)
      PROVE  SendInv'
  <2>1. /\ sendAttempt[o] = "STARTED"
        /\ status = "REJECTED" => ~sent[o]
        /\ sendAttempt' = [sendAttempt EXCEPT ![o] = status]
        /\ sent' = sent
    BY <1>6 DEF FinishBroadcastAttempt
  <2> QED
    BY <1>2, <2>1 DEF SendInv, SendCapable, WalletTypeOK, ExecutionTypeOK
<1> QED
  BY <1>3, <1>4, <1>5, <1>6 DEF ExecutionStep, BeginSigning,
     PersistSignedEvidence, RematerializeEvidence, ExecutorStops

\* Every step keeps the pins.
LEMMA NextSends ==
  ASSUME WalletTypeOK, SendInv, [Next]_vars
  PROVE  SendInv'
<1>1. ASSUME NEW o \in Operations, PreparationStep(o)
      PROVE  SendInv'
  BY <1>1, PinsSuffice
     DEF PreparationStep, PersistExecutionEnvelope, AdvanceOperationLifecycle,
         Pinned, moneyVars, settlementVars
<1>2. CASE Next
  BY <1>1, <1>2, LedgerSends, RecoverySends, ApprovalSends, ExecutionSends,
     FenceSends DEF Next
<1>3. CASE UNCHANGED vars
  BY <1>3, PinsSuffice DEF vars, Pinned, moneyVars, settlementVars
<1> QED BY <1>2, <1>3

\* Whatever the ledger, the approval and control services and recovery do while
\* an operation's bytes are on their way, its funds are not returned to the
\* budget unless a verified receipt says that the transfer reverted.
THEOREM SentFundsAreSafe == Spec => []SentFundsAreNeverReturned
<1>1. Init => WalletInv /\ SendInv
  <2>1. Init => WalletInv
    BY InitTypes, InitInv DEF Init, WalletInit, WalletInv
  <2>2. Init => SendInv
    BY DEF Init, WalletInit, SendInv, SendCapable
  <2> QED BY <2>1, <2>2
<1>2. WalletInv /\ SendInv /\ [Next]_vars => (WalletInv /\ SendInv)'
  <2>1. WalletInv /\ [Next]_vars => WalletInv'
    BY NextTypes
  <2>2. WalletInv /\ SendInv /\ [Next]_vars => SendInv'
    BY NextSends DEF WalletInv
  <2> QED BY <2>1, <2>2
<1>3. SendInv => SentFundsAreNeverReturned
  BY DEF SendInv, Pinned, SentFundsAreNeverReturned
<1> QED BY <1>1, <1>2, <1>3, PTL DEF Spec

=============================================================================
