------------------------- MODULE ControlPlaneAuthority -------------------------
(* Who may decide, sign and stop, for every value of the constants: owner       *)
(* approvals, authorizations, fences and the lifecycle table under every        *)
(* interleaving of the services.                                               *)
EXTENDS ControlPlaneProofs

-----------------------------------------------------------------------------
(* The inductive invariant, one operation at a time. *)

\* Where an operation can be once its bytes are signed or about to be: closed
\* under the lifecycle table.
AfterSigning ==
  {"SIGNING", "SIGNED", "BROADCAST", "PENDING_CONFIRMATION", "CONFIRMED",
   "RECONCILED", "SIGNING_FAILED", "BROADCAST_FAILED", "REVERTED", "DISPUTED",
   "REVOKED"}

\* Where it can be while its reservation is AUTHORIZED: the triggers keep it
\* from the states that want the funds released.
AfterAuthorization ==
  {"AUTHORIZED", "CANCELLED"} \union (AfterSigning \ {"REVOKED"})

\* At most one request is open, it is current, and an operation that waits for
\* its owner has one.
RequestInv(o) ==
  /\ \A a \in ActiveApprovals(o) : ApprovalIsCurrent(a)
  /\ \A a, b \in ActiveApprovals(o) : a = b
  /\ opState[o] = "AWAITING_APPROVAL" => ActiveApprovals(o) # {}

Standing(o) ==
  /\ authz[o].kind # "NONE"
  /\ ~authz[o].invalidated
  /\ authz[o].revision = revision[o]

\* Funds past HELD stand on an authorization of the newest envelope; as long as
\* nobody has begun to sign, its fences have not moved either.
AuthorizedInv(o) ==
  /\ reservation[o].status \in {"AUTHORIZED", "BROADCAST", "FINALIZED"} => Standing(o)
  /\ reservation[o].status = "AUTHORIZED" => opState[o] \in AfterAuthorization
  /\ (opState[o] = "AUTHORIZED" /\ reservation[o].status = "AUTHORIZED")
       => FencesCurrent(o, authz[o].fences)

\* An owner's authorization is the one consumed, authenticated request.
ConsumedFor(o, a) ==
  /\ ConsumedApprovals(o) = {a}
  /\ ownerAuth[a] = "CONSUMED"
  /\ approval[a].revision = authz[o].revision
  /\ approval[a].fences = authz[o].fences

OwnerInv(o) ==
  /\ authz[o].kind = "NONE" => ConsumedApprovals(o) = {}
  /\ authz[o].kind = "OWNER_APPROVAL" => \E a \in ApprovalsOf(o) : ConsumedFor(o, a)
  /\ PolicyDecision[o] = "REQUIRE_APPROVAL" => authz[o].kind # "AUTONOMOUS_POLICY"

\* Signing and sending come after authorization and never go back before it.
ExecutorInv(o) ==
  /\ reservation[o].status \in {"NONE", "HELD"} =>
       executor[o] = "IDLE" /\ ~signed[o] /\ sendAttempt[o] = "NONE"
  /\ (executor[o] # "IDLE" \/ signed[o] \/ sendAttempt[o] # "NONE") =>
       opState[o] \in AfterSigning /\ authz[o].kind # "NONE"
  /\ sent[o] => sendAttempt[o] # "NONE"

SettledInv(o) ==
  reservation[o].status = "FINALIZED" => evidence[o].status = "VERIFIED"

AuthorityInv(o) ==
  /\ RequestInv(o)
  /\ AuthorizedInv(o)
  /\ OwnerInv(o)
  /\ ExecutorInv(o)
  /\ SettledInv(o)

-----------------------------------------------------------------------------
(* A step writes the rows of one operation, a fence change those in scope. *)

Untouched(p) ==
  /\ opState'[p] = opState[p] /\ revision'[p] = revision[p]
  /\ reservation'[p] = reservation[p] /\ evidence'[p] = evidence[p]
  /\ authz'[p] = authz[p]
  /\ signed'[p] = signed[p] /\ sendAttempt'[p] = sendAttempt[p]
  /\ executor'[p] = executor[p] /\ sent'[p] = sent[p]
  /\ \A a \in ApprovalsOf(p) : approval'[a] = approval[a] /\ ownerAuth'[a] = ownerAuth[a]
  /\ \A s \in ScopesOf[p] : fence'[s] = fence[s]

\* The snapshot of an operation depends on its own fences only.
LEMMA SnapshotKept ==
  ASSUME NEW p \in Operations, \A s \in ScopesOf[p] : fence'[s] = fence[s]
  PROVE  SnapshotOf(p)' = SnapshotOf(p) /\ FencesActive(p)' = FencesActive(p)
BY DEF SnapshotOf, FencesActive

\* Requests that are not written stay active, or consumed, or neither.
LEMMA RequestsKept ==
  ASSUME NEW p \in Operations,
         \A a \in ApprovalsOf(p) : approval'[a] = approval[a]
  PROVE  /\ ActiveApprovals(p)' = ActiveApprovals(p)
         /\ ConsumedApprovals(p)' = ConsumedApprovals(p)
BY DEF ActiveApprovals, ConsumedApprovals, ApprovalsOf

\* An operation that a step does not touch keeps its part of the invariant.
LEMMA UntouchedKeeps ==
  ASSUME NEW p \in Operations, AuthorityInv(p), Untouched(p)
  PROVE  AuthorityInv(p)'
<1>1. /\ SnapshotOf(p)' = SnapshotOf(p) /\ FencesActive(p)' = FencesActive(p)
      /\ ActiveApprovals(p)' = ActiveApprovals(p)
      /\ ConsumedApprovals(p)' = ConsumedApprovals(p)
  BY SnapshotKept, RequestsKept DEF Untouched
<1>2. \A a \in ApprovalsOf(p) : a[1] = p
  BY DEF ApprovalsOf
<1>3. ActiveApprovals(p) \subseteq ApprovalsOf(p)
  BY DEF ActiveApprovals
<1>4. RequestInv(p)'
  BY <1>1, <1>2, <1>3 DEF AuthorityInv, RequestInv, ApprovalIsCurrent, FencesCurrent, Untouched
<1>5. AuthorizedInv(p)'
  BY <1>1 DEF AuthorityInv, AuthorizedInv, Standing, FencesCurrent, Untouched
<1>6. OwnerInv(p)'
  BY <1>1 DEF AuthorityInv, OwnerInv, ConsumedFor, Untouched
<1>7. ExecutorInv(p)' /\ SettledInv(p)'
  BY DEF AuthorityInv, ExecutorInv, SettledInv, Untouched
<1> QED BY <1>4, <1>5, <1>6, <1>7 DEF AuthorityInv

-----------------------------------------------------------------------------
(* The ledger and its recovery: what they do to the rows of one operation. *)

Moved(o, status) ==
  /\ reservation'[o].status = status
  /\ \A p \in Operations \ {o} : reservation'[p] = reservation[p]

\* Every posting for one operation writes that operation's reservation only.
LEMMA PostingMoves ==
  ASSUME WalletTypeOK, NEW o \in Operations, NEW status
  PROVE  /\ PostStatus(o, status) => Moved(o, status)
         /\ PostRelease({o}, status) => Moved(o, status)
         /\ \A spend : PostFinalize(o, spend) => Moved(o, "FINALIZED")
         /\ \A b, amount : PostReserve(o, b, amount) => Moved(o, "HELD")
<1> USE DEF WalletTypeOK, AccountingTypeOK, Moved
<1>1. PostStatus(o, status) => Moved(o, status)
  BY DEF PostStatus
<1>2. PostRelease({o}, status) => Moved(o, status)
  BY DEF PostRelease
<1>3. ASSUME NEW spend, PostFinalize(o, spend) PROVE Moved(o, "FINALIZED")
  BY <1>3 DEF PostFinalize
<1>4. ASSUME NEW b, NEW amount, PostReserve(o, b, amount) PROVE Moved(o, "HELD")
  BY <1>4 DEF PostReserve
<1> QED BY <1>1, <1>2, <1>3, <1>4

\* The status column as the ledger moves it, seen from outside the ledger: a row
\* comes into being together with its key.
StatusStep(o) ==
  LET from == reservation[o].status  to == reservation'[o].status IN
  \/ /\ from = "NONE" /\ to = "HELD"
     /\ \E k \in Keys : /\ idempotency[k] = None
                       /\ idempotency' = [idempotency EXCEPT ![k] = o]
  \/ /\ UNCHANGED idempotency
     /\ \/ to = from
        \/ from = "AUTHORIZED" /\ to = "BROADCAST"
        \/ from = "BROADCAST" /\ to = "FINALIZED" /\ evidence'[o].status = "VERIFIED"
        \/ from # "NONE" /\ to \in {"RELEASED", "EXPIRED", "DISPUTED"}

LedgerEffect(o) ==
  /\ UNCHANGED <<opState, revision, fence, authorityVars, executionVars>>
  /\ \A p \in Operations \ {o} :
       reservation'[p] = reservation[p] /\ evidence'[p] = evidence[p]
  /\ evidence[o].status = "VERIFIED" => evidence'[o].status = "VERIFIED"
  /\ StatusStep(o)

\* Every call of the ledger has that effect.
LEMMA LedgerHasEffect ==
  ASSUME WalletTypeOK, NEW o \in Operations, LedgerStep(o)
  PROVE  LedgerEffect(o)
<1> USE DEF operationVars, settlementVars, LedgerEffect, StatusStep
<1>1. ASSUME NEW b \in Budgets, NEW k \in Keys, NEW amount \in 1..MaxAmount,
             ReserveBudget(o, b, k, amount)
      PROVE  LedgerEffect(o)
  BY <1>1, PostingMoves DEF ReserveBudget, Moved
<1>2. CASE ReleaseReservation(o) \/ ExpireReservation(o)
  <2>1. PICK status \in {"RELEASED", "EXPIRED"} : ReturnFunds(o, status)
    BY <1>2 DEF ReleaseReservation, ExpireReservation
  <2>2. Moved(o, status) /\ reservation[o].status # "NONE"
    BY <2>1, PostingMoves DEF ReturnFunds
  <2> QED BY <1>2, <2>1, <2>2 DEF ReleaseReservation, ExpireReservation, Moved
<1>3. CASE DisputeReservation(o)
  <2>1. Moved(o, "DISPUTED")
    BY <1>3, PostingMoves DEF DisputeReservation
  <2> QED BY <1>3, <2>1 DEF DisputeReservation, Moved
<1>4. ASSUME NEW r \in Receipts, MarkReservationBroadcast(o, r)
      PROVE  LedgerEffect(o)
  <2>1. Moved(o, "BROADCAST")
    BY <1>4, PostingMoves DEF MarkReservationBroadcast
  <2>2. \A p \in Operations \ {o} : evidence'[p] = evidence[p]
    BY <1>4 DEF MarkReservationBroadcast, WalletTypeOK, SettlementTypeOK
  <2> QED BY <1>4, <2>1, <2>2 DEF MarkReservationBroadcast, Moved
<1>5. CASE VerifyBroadcastEvidence(o)
  <2>1. \A p \in Operations \ {o} : evidence'[p] = evidence[p]
    BY <1>5 DEF VerifyBroadcastEvidence, WalletTypeOK, SettlementTypeOK
  <2> QED BY <1>5, <2>1 DEF VerifyBroadcastEvidence, moneyVars
<1>6. ASSUME NEW spend \in 0..MaxAmount, NEW proof \in Receipts,
             FinalizeReservation(o, spend, proof)
      PROVE  LedgerEffect(o)
  <2>1. Moved(o, "FINALIZED")
    BY <1>6, PostingMoves DEF FinalizeReservation
  <2> QED BY <1>6, <2>1 DEF FinalizeReservation, Moved
<1> QED BY <1>1, <1>2, <1>3, <1>4, <1>5, <1>6 DEF LedgerStep

\* So has every step of a recovery.
LEMMA RecoveryHasEffect ==
  ASSUME WalletTypeOK, NEW o \in Operations, RecoveryStep(o)
  PROVE  LedgerEffect(o)
<1> USE DEF operationVars, LedgerEffect, StatusStep
<1>1. CASE LeaseLapses(o) \/ \E w \in Reconcilers : ClaimRecoveryLease(w, o)
  BY <1>1 DEF LeaseLapses, ClaimRecoveryLease, moneyVars
<1>2. ASSUME NEW w \in Reconcilers, NEW t \in AttemptIds,
             NEW v \in 1..MaxLeaseVersion, NEW spend \in 0..MaxAmount,
             NEW proof \in Receipts, ResolveConfirmed(w, o, t, v, spend, proof)
      PROVE  LedgerEffect(o)
  <2>1. Moved(o, "FINALIZED")
    BY <1>2, PostingMoves DEF ResolveConfirmed
  <2>2. /\ evidence'[o].status = "VERIFIED"
        /\ \A p \in Operations \ {o} : evidence'[p] = evidence[p]
    BY <1>2 DEF ResolveConfirmed, WalletTypeOK, SettlementTypeOK, EvidenceRows
  <2> QED BY <1>2, <2>1, <2>2 DEF ResolveConfirmed, CloseRecovery, Moved
<1>3. ASSUME NEW w \in Reconcilers, NEW t \in AttemptIds,
             NEW v \in 1..MaxLeaseVersion, NEW proof \in Receipts,
             ResolveVerifiedRevert(w, o, t, v, proof)
      PROVE  LedgerEffect(o)
  <2>1. Moved(o, "RELEASED") /\ reservation[o].status # "NONE"
    BY <1>3, PostingMoves DEF ResolveVerifiedRevert, MayResolve
  <2> QED BY <1>3, <2>1 DEF ResolveVerifiedRevert, CloseRecovery, Moved
<1>4. ASSUME NEW w \in Reconcilers, NEW t \in AttemptIds,
             NEW v \in 1..MaxLeaseVersion,
             NEW outcome \in {"AMBIGUOUS", "CONFLICT", "FAILED"},
             ResolveDisputed(w, o, t, v, outcome)
      PROVE  LedgerEffect(o)
  <2>1. Moved(o, "DISPUTED")
    BY <1>4, PostingMoves DEF ResolveDisputed
  <2> QED BY <1>4, <2>1 DEF ResolveDisputed, CloseRecovery, MayResolve, Moved
<1>5. ASSUME NEW w \in Reconcilers, NEW t \in AttemptIds,
             NEW v \in 1..MaxLeaseVersion, ResolveFailed(w, o, t, v)
      PROVE  LedgerEffect(o)
  <2>1. Moved(o, "RELEASED") /\ reservation[o].status # "NONE"
    BY <1>5, PostingMoves DEF ResolveFailed, ReturnFunds, MayResolve
  <2> QED BY <1>5, <2>1 DEF ResolveFailed, CloseRecovery, Moved
<1> QED BY <1>1, <1>2, <1>3, <1>4, <1>5 DEF RecoveryStep

\* The ledger never grants authority: it moves funds on, or takes them back.
LEMMA EffectKeeps ==
  ASSUME NEW o \in Operations, AuthorityInv(o), LedgerEffect(o)
  PROVE  AuthorityInv(o)'
<1> USE DEF LedgerEffect, authorityVars, executionVars
<1>1. /\ SnapshotOf(o)' = SnapshotOf(o) /\ FencesActive(o)' = FencesActive(o)
      /\ ActiveApprovals(o)' = ActiveApprovals(o)
      /\ ConsumedApprovals(o)' = ConsumedApprovals(o)
  BY SnapshotKept, RequestsKept
<1>2. ActiveApprovals(o) \subseteq ApprovalsOf(o) /\ \A a \in ApprovalsOf(o) : a[1] = o
  BY DEF ActiveApprovals, ApprovalsOf
<1>3. RequestInv(o)'
  BY <1>1, <1>2 DEF AuthorityInv, RequestInv, ApprovalIsCurrent, FencesCurrent
<1>4. AuthorizedInv(o)'
  BY <1>1 DEF AuthorityInv, AuthorizedInv, Standing, FencesCurrent, StatusStep
<1>5. OwnerInv(o)'
  BY <1>1 DEF AuthorityInv, OwnerInv, ConsumedFor
<1>6. ExecutorInv(o)'
  BY DEF AuthorityInv, ExecutorInv, StatusStep
<1>7. SettledInv(o)'
  BY DEF AuthorityInv, SettledInv, StatusStep
<1> QED BY <1>3, <1>4, <1>5, <1>6, <1>7 DEF AuthorityInv

\* A step of the ledger or of a recovery spares every other operation.
LEMMA LedgerSpares ==
  ASSUME NEW o \in Operations, NEW p \in Operations \ {o}, LedgerEffect(o)
  PROVE  Untouched(p)
BY DEF LedgerEffect, Untouched, authorityVars, executionVars

\* So do the steps of the other services.
LEMMA ServiceSpares ==
  ASSUME WalletTypeOK, NEW o \in Operations, NEW p \in Operations \ {o},
         ApprovalStep(o) \/ PreparationStep(o) \/ ExecutionStep(o)
  PROVE  Untouched(p)
<1> USE DEF WalletTypeOK, AccountingTypeOK, OperationTypeOK, SettlementTypeOK,
            AuthorityTypeOK, ExecutionTypeOK, Untouched,
            operationVars, settlementVars, authorityVars, executionVars
<1>1. CASE ApprovalStep(o)
  <2>1. ASSUME NEW a \in ApprovalsOf(o)
        PROVE  a[1] = o /\ a \in Approvals /\ a \notin ApprovalsOf(p)
    BY DEF ApprovalsOf
  <2>2. ASSUME NEW a \in ApprovalsOf(o),
               \/ CreateApprovalRequest(a)
               \/ AuthenticateOwner(a)
               \/ ApproveApproval(a)
               \/ ExpireApproval(a)
               \/ RejectApproval(a)
               \/ RevokeApproval(a)
               \/ ConsumeApproval(a)
        PROVE  Untouched(p)
    BY <2>1, <2>2 DEF CreateApprovalRequest, AuthenticateOwner, ApproveApproval,
       ExpireApproval, RejectApproval, RevokeApproval, ConsumeApproval,
       InvalidateStaleApproval, CloseRequest, PostStatus, PostRelease, moneyVars,
       ApprovalsOf
  <2>3. CASE ReplaceExecutionEnvelope(o)
    BY <2>1, <2>3 DEF ReplaceExecutionEnvelope, SupersedeRequest,
       SupersedeAuthorization, ActiveApprovals, ApprovalsOf, PostRelease
  <2>4. CASE AuthorizeAutonomous(o) \/ LifetimeLapses(o)
    BY <2>4 DEF AuthorizeAutonomous, LifetimeLapses, PostStatus, moneyVars
  <2> QED BY <1>1, <2>2, <2>3, <2>4 DEF ApprovalStep
<1>2. CASE PreparationStep(o)
  BY <1>2 DEF PreparationStep, PersistExecutionEnvelope, Transition,
     AdvanceOperationLifecycle, moneyVars
<1>3. CASE ExecutionStep(o)
  BY <1>3 DEF ExecutionStep, BeginSigning, PersistSignedEvidence,
     RematerializeEvidence, StartBroadcastAttempt, NodeAccepts,
     FinishBroadcastAttempt, ExecutorStops, moneyVars
<1> QED BY <1>1, <1>2, <1>3

-----------------------------------------------------------------------------
(* The other services, one action at a time. *)

\* A step that leaves money, evidence, requests, authorizations and fences alone
\* has only the executor's part of the invariant to keep, unless it takes the
\* operation to its owner or makes it AUTHORIZED.
LEMMA StateOnlyKeeps ==
  ASSUME NEW o \in Operations, AuthorityInv(o), ExecutorInv(o)',
         UNCHANGED <<moneyVars, revision, evidence, fence, authorityVars>>,
         opState'[o] # opState[o] =>
           /\ opState'[o] = "AWAITING_APPROVAL" => ActiveApprovals(o) # {}
           /\ reservation[o].status = "AUTHORIZED" =>
                opState'[o] \in AfterAuthorization \ {"AUTHORIZED"}
  PROVE  AuthorityInv(o)'
<1> USE DEF moneyVars, authorityVars
<1>1. /\ SnapshotOf(o)' = SnapshotOf(o) /\ FencesActive(o)' = FencesActive(o)
      /\ ActiveApprovals(o)' = ActiveApprovals(o)
      /\ ConsumedApprovals(o)' = ConsumedApprovals(o)
  BY SnapshotKept, RequestsKept
<1>2. ActiveApprovals(o) \subseteq ApprovalsOf(o) /\ \A a \in ApprovalsOf(o) : a[1] = o
  BY DEF ActiveApprovals, ApprovalsOf
<1>3. RequestInv(o)'
  BY <1>1, <1>2 DEF AuthorityInv, RequestInv, ApprovalIsCurrent, FencesCurrent
<1>4. AuthorizedInv(o)'
  BY <1>1 DEF AuthorityInv, AuthorizedInv, Standing, FencesCurrent
<1>5. OwnerInv(o)' /\ SettledInv(o)'
  BY <1>1 DEF AuthorityInv, OwnerInv, ConsumedFor, SettledInv
<1> QED BY <1>3, <1>4, <1>5 DEF AuthorityInv

\* The execution child signs under a standing authorization and sends what it
\* signed.
LEMMA ExecutionKeeps ==
  ASSUME WalletTypeOK, NEW o \in Operations, AuthorityInv(o), ExecutionStep(o)
  PROVE  AuthorityInv(o)'
<1> USE DEF WalletTypeOK, OperationTypeOK, ExecutionTypeOK, AuthorityInv, ExecutorInv,
            operationVars, settlementVars, authorityVars, executionVars, moneyVars
<1>1. CASE BeginSigning(o) \/ PersistSignedEvidence(o)
  <2>1. ExecutorInv(o)' /\ opState'[o] \in {"SIGNING", "SIGNED"}
    BY <1>1 DEF BeginSigning, PersistSignedEvidence, SigningAuthority, AfterSigning
  <2> QED
    BY <1>1, <2>1, StateOnlyKeeps
    DEF BeginSigning, PersistSignedEvidence, AfterAuthorization, AfterSigning
<1>2. CASE RematerializeEvidence(o)
  <2>1. ExecutorInv(o)'
    BY <1>2 DEF RematerializeEvidence, StandingAuthority
  <2> QED BY <1>2, <2>1, StateOnlyKeeps DEF RematerializeEvidence
<1>3. CASE StartBroadcastAttempt(o)
  <2>1. ExecutorInv(o)'
    BY <1>3 DEF StartBroadcastAttempt
  <2> QED BY <1>3, <2>1, StateOnlyKeeps DEF StartBroadcastAttempt
<1>4. CASE NodeAccepts(o) \/ ExecutorStops(o)
  <2>1. ExecutorInv(o)'
    BY <1>4 DEF NodeAccepts, ExecutorStops
  <2> QED BY <1>4, <2>1, StateOnlyKeeps DEF NodeAccepts, ExecutorStops
<1>5. ASSUME NEW status \in {"ACCEPTED", "REJECTED", "UNKNOWN", "CONFLICT"},
             FinishBroadcastAttempt(o, status)
      PROVE  AuthorityInv(o)'
  <2>1. ExecutorInv(o)'
    BY <1>5 DEF FinishBroadcastAttempt
  <2> QED BY <1>5, <2>1, StateOnlyKeeps DEF FinishBroadcastAttempt
<1> QED BY <1>1, <1>2, <1>3, <1>4, <1>5 DEF ExecutionStep

\* Signing is never undone: the table leads from AfterSigning only to itself.
LEMMA AfterSigningClosed ==
  ASSUME NEW s \in AfterSigning
  PROVE  s \in LIFECYCLE_STATES /\ LIFECYCLE_TRANSITIONS[s] \subseteq AfterSigning
BY DEF AfterSigning, LIFECYCLE_TRANSITIONS, LIFECYCLE_STATES

\* While the funds are AUTHORIZED, the table and the trigger together leave an
\* advance only the way to the signature and on.
LEMMA AuthorizedAdvance ==
  ASSUME NEW s \in AfterAuthorization, NEW next \in LIFECYCLE_TRANSITIONS[s],
         next \notin {"REVALIDATION_REQUIRED", "REVOKED", "EXPIRED"}
  PROVE  next \in AfterAuthorization \ {"AUTHORIZED"}
<1>1. CASE s \in AfterSigning
  BY <1>1, AfterSigningClosed DEF AfterAuthorization, AfterSigning
<1>2. CASE s = "AUTHORIZED"
  BY <1>2 DEF AfterAuthorization, AfterSigning, LIFECYCLE_TRANSITIONS, LIFECYCLE_STATES
<1>3. CASE s = "CANCELLED"
  BY <1>3 DEF LIFECYCLE_TRANSITIONS, LIFECYCLE_STATES
<1> QED BY <1>1, <1>2, <1>3 DEF AfterAuthorization

\* Requests of one operation are finitely many, so a trigger that counts one
\* has seen one.
LEMMA OneRequest ==
  ASSUME NEW o \in Operations, NEW S \in SUBSET ApprovalsOf(o), Cardinality(S) = 1
  PROVE  \E a \in ApprovalsOf(o) : S = {a}
<1>1. IsFiniteSet(1..MaxApprovals)
  BY FS_Interval, BoundsAssumption
<1>2. IsFiniteSet(Approvals)
  BY <1>1, FS_Product, OperationsAssumption DEF Approvals
<1>3. IsFiniteSet(S)
  BY <1>2, FS_Subset DEF ApprovalsOf
<1> QED BY <1>3, FS_Singleton

\* The first envelope meets neither request nor authorization; an advance leads
\* to the owner only where a request is open.
LEMMA PreparationKeeps ==
  ASSUME WalletTypeOK, NEW o \in Operations, AuthorityInv(o), PreparationStep(o)
  PROVE  AuthorityInv(o)'
<1> USE DEF WalletTypeOK, OperationTypeOK, AuthorityInv,
            operationVars, settlementVars, authorityVars, executionVars, moneyVars
<1>1. CASE PersistExecutionEnvelope(o)
  <2> USE <1>1 DEF PersistExecutionEnvelope, Transition
  <2>1. ActiveApprovals(o)' = {} /\ ConsumedApprovals(o)' = ConsumedApprovals(o)
    BY RequestsKept
  <2>2. opState'[o] = "ENVELOPE_FINALIZED" /\ reservation'[o].status = "HELD"
    OBVIOUS
  <2>3. RequestInv(o)'
    BY <2>1, <2>2 DEF RequestInv
  <2>4. AuthorizedInv(o)' /\ SettledInv(o)'
    BY <2>2 DEF AuthorizedInv, SettledInv
  <2>5. OwnerInv(o)'
    BY <2>1 DEF OwnerInv, ConsumedFor
  <2>6. ExecutorInv(o)'
    BY DEF ExecutorInv
  <2> QED BY <2>3, <2>4, <2>5, <2>6
<1>2. ASSUME NEW next \in AdvanceTargets, AdvanceOperationLifecycle(o, next)
      PROVE  AuthorityInv(o)'
  <2> USE <1>2 DEF AdvanceOperationLifecycle, Transition
  <2>1. opState'[o] = next /\ next \in LIFECYCLE_TRANSITIONS[opState[o]]
    OBVIOUS
  <2>2. ActiveApprovals(o)' = ActiveApprovals(o)
    BY RequestsKept
  <2>3. ASSUME next = "AWAITING_APPROVAL" PROVE ActiveApprovals(o) # {}
    <3>1. Cardinality(ActiveApprovals(o)') = 1
      BY <2>1, <2>3 DEF ApprovalOperationConsistent
    <3> QED BY <2>2, <3>1, OneRequest
  <2>4. ASSUME reservation[o].status = "AUTHORIZED"
        PROVE  next \in AfterAuthorization \ {"AUTHORIZED"}
    <3>1. next \notin {"REVALIDATION_REQUIRED", "REVOKED", "EXPIRED"}
      BY <2>1, <2>4 DEF ApprovalOperationConsistent
    <3>2. opState[o] \in AfterAuthorization
      BY <2>4 DEF AuthorizedInv
    <3> QED BY <2>1, <3>1, <3>2, AuthorizedAdvance
  <2>5. ExecutorInv(o)'
    BY <2>1, AfterSigningClosed DEF ExecutorInv
  <2> QED BY <2>1, <2>3, <2>4, <2>5, StateOnlyKeeps
<1> QED BY <1>1, <1>2 DEF PreparationStep

\* What the invariant says of an operation that still waits for its owner.
LEMMA WaitingFacts ==
  ASSUME NEW o \in Operations, AuthorityInv(o), reservation[o].status = "HELD"
  PROVE  executor[o] = "IDLE" /\ ~signed[o] /\ sendAttempt[o] = "NONE" /\ ~sent[o]
BY DEF AuthorityInv, ExecutorInv

\* A request that is closed unconsumed leaves the operation without one, and its
\* funds returned.
LEMMA CloseKeeps ==
  ASSUME WalletTypeOK, NEW o \in Operations, AuthorityInv(o),
         NEW a \in ActiveApprovals(o),
         NEW approvalStatus \in {"REJECTED", "EXPIRED", "REVOKED"},
         NEW state \in {"REVALIDATION_REQUIRED", "EXPIRED", "REJECTED", "REVOKED"},
         NEW status \in {"RELEASED", "EXPIRED"},
         CloseRequest(a, approvalStatus, state, status),
         UNCHANGED <<revision, evidence, fence, ownerAuth, authz, executionVars>>
  PROVE  AuthorityInv(o)'
<1>1. a \in ApprovalsOf(o) /\ a[1] = o
  BY DEF ActiveApprovals, ApprovalsOf
<1>2. /\ reservation[o].status = "HELD" /\ reservation'[o].status = status
      /\ opState'[o] = state
      /\ approval' = [approval EXCEPT ![a].status = approvalStatus]
  BY <1>1, PostingMoves
  DEF CloseRequest, AwaitsDecision, Moved, WalletTypeOK, OperationTypeOK
<1>3. /\ approval'[a].status = approvalStatus
      /\ \A b \in ApprovalsOf(o) \ {a} : approval'[b] = approval[b]
  BY <1>1, <1>2 DEF WalletTypeOK, AuthorityTypeOK, ApprovalsOf, ApprovalRows
<1>4. ActiveApprovals(o) = {a}
  BY DEF AuthorityInv, RequestInv
<1>5. ActiveApprovals(o)' = {}
  BY <1>1, <1>3, <1>4 DEF ActiveApprovals, ApprovalsOf
<1>6. ConsumedApprovals(o)' = ConsumedApprovals(o)
  BY <1>1, <1>3 DEF ActiveApprovals, ConsumedApprovals, ApprovalsOf
<1>7. RequestInv(o)' /\ AuthorizedInv(o)' /\ SettledInv(o)'
  BY <1>2, <1>5 DEF RequestInv, AuthorizedInv, SettledInv
<1>8. OwnerInv(o)'
  <2>1. \A b \in ApprovalsOf(o) : ConsumedFor(o, b) => ConsumedFor(o, b)'
    BY <1>3, <1>6 DEF ConsumedFor, ConsumedApprovals, ActiveApprovals, ApprovalsOf
  <2> QED BY <1>6, <2>1 DEF AuthorityInv, OwnerInv, ApprovalsOf
<1>9. ExecutorInv(o)'
  BY <1>2, WaitingFacts DEF ExecutorInv, executionVars
<1> QED BY <1>7, <1>8, <1>9 DEF AuthorityInv

\* A new request is the only open one, and bound to what stands now.
LEMMA CreateKeeps ==
  ASSUME WalletTypeOK, NEW o \in Operations, AuthorityInv(o),
         NEW a \in ApprovalsOf(o), CreateApprovalRequest(a)
  PROVE  AuthorityInv(o)'
<1>1. a[1] = o /\ a \in Approvals
  BY DEF ApprovalsOf
<1> USE DEF CreateApprovalRequest, moneyVars, settlementVars, executionVars
<1>2. /\ approval[a].status = "NONE"
      /\ approval'[a] = [status |-> "PENDING", revision |-> revision[o],
                         fences |-> SnapshotOf(o)]
      /\ \A b \in ApprovalsOf(o) \ {a} : approval'[b] = approval[b]
  BY <1>1 DEF WalletTypeOK, AuthorityTypeOK, ApprovalsOf
<1>3. /\ opState'[o] = "AWAITING_APPROVAL" /\ reservation'[o].status = "HELD"
      /\ reservation[o].status = "HELD"
  BY <1>1 DEF WalletTypeOK, OperationTypeOK
<1>4. Cardinality(ActiveApprovals(o)') = 1 /\ authz'[o].kind = "NONE"
  BY <1>1, <1>3 DEF ApprovalOperationConsistent
<1>5. ActiveApprovals(o)' = {a}
  <2>1. a \in ActiveApprovals(o)'
    BY <1>2 DEF ActiveApprovals, ApprovalsOf
  <2>2. ActiveApprovals(o)' \in SUBSET ApprovalsOf(o)
    BY DEF ActiveApprovals, ApprovalsOf
  <2> QED BY <1>4, <2>1, <2>2, OneRequest
<1>6. ApprovalIsCurrent(a)'
  <2>1. FencesActive(o)' /\ SnapshotOf(o)' = SnapshotOf(o)
    BY <1>1, SnapshotKept
  <2> QED BY <1>1, <1>2, <2>1 DEF ApprovalIsCurrent, FencesCurrent
<1>7. RequestInv(o)'
  BY <1>5, <1>6 DEF RequestInv
<1>8. ConsumedApprovals(o)' = ConsumedApprovals(o)
  BY <1>2 DEF ConsumedApprovals, ApprovalsOf
<1>9. OwnerInv(o)'
  BY <1>4, <1>8 DEF AuthorityInv, OwnerInv
<1>10. AuthorizedInv(o)' /\ SettledInv(o)'
  BY <1>3 DEF AuthorizedInv, SettledInv
<1>11. ExecutorInv(o)'
  BY <1>3, WaitingFacts DEF ExecutorInv
<1> QED BY <1>7, <1>9, <1>10, <1>11 DEF AuthorityInv

\* The signature of the owner is recorded for a request that was not consumed.
LEMMA AuthenticateKeeps ==
  ASSUME WalletTypeOK, NEW o \in Operations, AuthorityInv(o),
         NEW a \in ApprovalsOf(o), AuthenticateOwner(a)
  PROVE  AuthorityInv(o)'
<1> USE DEF AuthenticateOwner, moneyVars, operationVars, settlementVars, executionVars
<1>1. /\ SnapshotOf(o)' = SnapshotOf(o) /\ FencesActive(o)' = FencesActive(o)
      /\ ActiveApprovals(o)' = ActiveApprovals(o)
      /\ ConsumedApprovals(o)' = ConsumedApprovals(o)
  BY SnapshotKept, RequestsKept
<1>2. ActiveApprovals(o) \subseteq ApprovalsOf(o) /\ \A b \in ApprovalsOf(o) : b[1] = o
  BY DEF ActiveApprovals, ApprovalsOf
<1>3. RequestInv(o)'
  BY <1>1, <1>2 DEF AuthorityInv, RequestInv, ApprovalIsCurrent, FencesCurrent
<1>4. AuthorizedInv(o)' /\ ExecutorInv(o)' /\ SettledInv(o)'
  BY <1>1 DEF AuthorityInv, AuthorizedInv, Standing, FencesCurrent, ExecutorInv, SettledInv
<1>5. OwnerInv(o)'
  <2>1. \A b \in ApprovalsOf(o) : ConsumedFor(o, b) => ConsumedFor(o, b)'
    BY <1>1 DEF ConsumedFor, WalletTypeOK, AuthorityTypeOK, ApprovalsOf
  <2> QED BY <1>1, <2>1 DEF AuthorityInv, OwnerInv, ApprovalsOf
<1> QED BY <1>3, <1>4, <1>5 DEF AuthorityInv

\* An open request is never stale when it is decided: the branch that would
\* invalidate it is dead code as long as every fence change sweeps.
LEMMA ApproveKeeps ==
  ASSUME WalletTypeOK, NEW o \in Operations, AuthorityInv(o),
         NEW a \in ApprovalsOf(o), ApproveApproval(a)
  PROVE  AuthorityInv(o)'
<1>1. a[1] = o /\ a \in ActiveApprovals(o)
  BY DEF ApprovalsOf, ActiveApprovals, ApproveApproval
<1>2. ApprovalIsCurrent(a)
  BY <1>1 DEF AuthorityInv, RequestInv
<1> USE <1>2 DEF ApproveApproval, moneyVars, operationVars, settlementVars, executionVars
<1>3. /\ approval'[a].status = "APPROVED"
      /\ approval'[a].revision = approval[a].revision
      /\ approval'[a].fences = approval[a].fences
      /\ \A b \in ApprovalsOf(o) \ {a} : approval'[b] = approval[b]
      /\ approval[a].status = "PENDING"
  BY DEF WalletTypeOK, AuthorityTypeOK, ApprovalsOf, ApprovalRows
<1>4. ActiveApprovals(o)' = ActiveApprovals(o) /\ ConsumedApprovals(o)' = ConsumedApprovals(o)
  BY <1>3 DEF ActiveApprovals, ConsumedApprovals, ApprovalsOf
<1>5. SnapshotOf(o)' = SnapshotOf(o) /\ FencesActive(o)' = FencesActive(o)
  BY SnapshotKept
<1>6. RequestInv(o)'
  <2>1. ActiveApprovals(o) = {a}
    BY <1>1 DEF AuthorityInv, RequestInv
  <2>2. ApprovalIsCurrent(a)'
    BY <1>1, <1>3, <1>5 DEF ApprovalIsCurrent, FencesCurrent
  <2> QED BY <1>4, <2>1, <2>2 DEF RequestInv
<1>7. AuthorizedInv(o)' /\ ExecutorInv(o)' /\ SettledInv(o)'
  BY <1>5 DEF AuthorityInv, AuthorizedInv, Standing, FencesCurrent, ExecutorInv, SettledInv
<1>8. OwnerInv(o)'
  <2>1. \A b \in ApprovalsOf(o) : ConsumedFor(o, b) => ConsumedFor(o, b)'
    BY <1>3, <1>4 DEF ConsumedFor, ConsumedApprovals, ApprovalsOf
  <2> QED BY <1>4, <2>1 DEF AuthorityInv, OwnerInv, ApprovalsOf
<1> QED BY <1>6, <1>7, <1>8 DEF AuthorityInv

\* A consumption turns the one open request into the one authorization.
LEMMA ConsumeKeeps ==
  ASSUME WalletTypeOK, NEW o \in Operations, AuthorityInv(o),
         NEW a \in ApprovalsOf(o), ConsumeApproval(a)
  PROVE  AuthorityInv(o)'
<1>1. a[1] = o /\ a \in ActiveApprovals(o) /\ a \in Approvals
  BY DEF ApprovalsOf, ActiveApprovals, ConsumeApproval
<1>2. ApprovalIsCurrent(a)
  BY <1>1 DEF AuthorityInv, RequestInv
<1> USE <1>2 DEF ConsumeApproval, settlementVars, executionVars
<1>3. /\ approval'[a].status = "CONSUMED"
      /\ approval'[a].revision = approval[a].revision
      /\ approval'[a].fences = approval[a].fences
      /\ \A b \in ApprovalsOf(o) \ {a} : approval'[b] = approval[b]
      /\ ownerAuth'[a] = "CONSUMED"
  BY DEF WalletTypeOK, AuthorityTypeOK, ApprovalsOf, ApprovalRows
<1>4. /\ opState'[o] = "AUTHORIZED"
      /\ reservation[o].status = "HELD" /\ reservation'[o].status = "AUTHORIZED"
      /\ authz[o].kind = "NONE"
      /\ authz'[o] = [kind |-> "OWNER_APPROVAL", revision |-> approval[a].revision,
                      fences |-> approval[a].fences, invalidated |-> FALSE]
      /\ CanonicalAuthorization(o, "AUTHORIZED")'
  <2>1. Moved(o, "AUTHORIZED")
    BY <1>1, PostingMoves
  <2> QED
    BY <1>1, <2>1
    DEF AwaitsDecision, Moved, WalletTypeOK, OperationTypeOK, AuthorityTypeOK
<1>5. ActiveApprovals(o) = {a} /\ ConsumedApprovals(o) = {}
  BY <1>1, <1>4 DEF AuthorityInv, RequestInv, OwnerInv
<1>6. ActiveApprovals(o)' = {}
  BY <1>3, <1>5 DEF ActiveApprovals, ApprovalsOf
<1>7. ConsumedApprovals(o)' = {a}
  BY <1>3, <1>5 DEF ConsumedApprovals, ApprovalsOf
<1>8. RequestInv(o)'
  BY <1>4, <1>6 DEF RequestInv
<1>9. AuthorizedInv(o)'
  BY <1>4 DEF AuthorizedInv, Standing, CanonicalAuthorization, AfterAuthorization
<1>10. OwnerInv(o)'
  BY <1>3, <1>4, <1>7 DEF OwnerInv, ConsumedFor, ApprovalsOf
<1>11. ExecutorInv(o)' /\ SettledInv(o)'
  BY <1>4, WaitingFacts DEF ExecutorInv, SettledInv
<1> QED BY <1>8, <1>9, <1>10, <1>11 DEF AuthorityInv

\* A replaced envelope leaves no open request and no authorized funds behind.
LEMMA ReplaceKeeps ==
  ASSUME WalletTypeOK, NEW o \in Operations, AuthorityInv(o),
         ReplaceExecutionEnvelope(o)
  PROVE  AuthorityInv(o)'
<1> USE DEF ReplaceExecutionEnvelope, settlementVars, executionVars
<1>1. opState'[o] = "REVALIDATION_REQUIRED" /\ reservation'[o].status = "RELEASED"
  <2>1. Moved(o, "RELEASED")
    BY PostingMoves
  <2> QED BY <2>1 DEF Moved, WalletTypeOK, OperationTypeOK
<1>2. /\ ActiveApprovals(o)' = {}
      /\ ConsumedApprovals(o)' = ConsumedApprovals(o)
      /\ \A b \in ConsumedApprovals(o) : approval'[b] = approval[b]
  <2>1. CASE SupersedeRequest(o)
    <3>1. PICK a \in ActiveApprovals(o) :
            /\ ActiveApprovals(o) = {a}
            /\ approval' = [approval EXCEPT ![a].status = "REVOKED"]
      BY <2>1 DEF SupersedeRequest
    <3>2. a \in ApprovalsOf(o) /\ approval[a].status # "CONSUMED"
      BY DEF ActiveApprovals
    <3>3. /\ approval'[a].status = "REVOKED"
          /\ \A b \in ApprovalsOf(o) \ {a} : approval'[b] = approval[b]
      BY <3>1, <3>2 DEF WalletTypeOK, AuthorityTypeOK, ApprovalsOf, ApprovalRows
    <3>4. ActiveApprovals(o)' = {}
      BY <3>1, <3>2, <3>3 DEF ActiveApprovals, ApprovalsOf
    <3> QED BY <3>2, <3>3, <3>4 DEF ConsumedApprovals, ApprovalsOf
  <2>2. CASE SupersedeAuthorization(o)
    BY <2>2, RequestsKept DEF SupersedeAuthorization
  <2> QED BY <2>1, <2>2
<1>3. RequestInv(o)' /\ AuthorizedInv(o)' /\ SettledInv(o)'
  BY <1>1, <1>2 DEF RequestInv, AuthorizedInv, SettledInv
<1>4. OwnerInv(o)'
  <2>1. \A b \in ApprovalsOf(o) : ConsumedFor(o, b) => ConsumedFor(o, b)'
    BY <1>2 DEF ConsumedFor
  <2> QED BY <1>2, <2>1 DEF AuthorityInv, OwnerInv, ApprovalsOf
<1>5. ExecutorInv(o)'
  <2>1. executor[o] = "IDLE" /\ ~signed[o] /\ sendAttempt[o] = "NONE" /\ ~sent[o]
    <3>1. CASE SupersedeRequest(o)
      BY <3>1, WaitingFacts DEF SupersedeRequest, AwaitsDecision
    <3>2. CASE SupersedeAuthorization(o)
      BY <3>2 DEF SupersedeAuthorization, AuthorityInv, ExecutorInv, AfterSigning
    <3> QED BY <3>1, <3>2
  <2> QED BY <1>1, <2>1 DEF ExecutorInv
<1> QED BY <1>3, <1>4, <1>5 DEF AuthorityInv

\* The policy engine authorizes only where no owner was asked.
LEMMA AutonomousKeeps ==
  ASSUME WalletTypeOK, NEW o \in Operations, AuthorityInv(o), AuthorizeAutonomous(o)
  PROVE  AuthorityInv(o)'
<1> USE DEF AuthorizeAutonomous, AutonomousBinding, settlementVars, executionVars
<1>1. /\ opState'[o] = "AUTHORIZED"
      /\ reservation[o].status = "HELD" /\ reservation'[o].status = "AUTHORIZED"
      /\ authz'[o].kind = "AUTONOMOUS_POLICY"
      /\ PolicyDecision[o] # "REQUIRE_APPROVAL"
  BY PostingMoves DEF Moved, WalletTypeOK, OperationTypeOK, AuthorityTypeOK
<1>2. ActiveApprovals(o)' = {}
  BY RequestsKept
<1>3. RequestInv(o)'
  BY <1>1, <1>2 DEF RequestInv
<1>4. AuthorizedInv(o)'
  BY <1>1 DEF AuthorizedInv, Standing, CanonicalAuthorization, AfterAuthorization
<1>5. OwnerInv(o)'
  BY <1>1 DEF OwnerInv
<1>6. ExecutorInv(o)' /\ SettledInv(o)'
  BY <1>1, WaitingFacts DEF ExecutorInv, SettledInv
<1> QED BY <1>3, <1>4, <1>5, <1>6 DEF AuthorityInv

\* Every step of the approvals service keeps the invariant of its operation.
LEMMA ApprovalKeeps ==
  ASSUME WalletTypeOK, NEW o \in Operations, AuthorityInv(o), ApprovalStep(o)
  PROVE  AuthorityInv(o)'
<1>1. ASSUME NEW a \in ApprovalsOf(o),
             ExpireApproval(a) \/ RejectApproval(a) \/ RevokeApproval(a)
      PROVE  AuthorityInv(o)'
  <2>1. a \in ActiveApprovals(o)
    BY <1>1 DEF ExpireApproval, RejectApproval, RevokeApproval, ActiveApprovals
  <2> QED
    BY <1>1, <2>1, CloseKeeps
    DEF ExpireApproval, RejectApproval, RevokeApproval, settlementVars
<1>2. CASE LifetimeLapses(o)
  <2> USE <1>2 DEF LifetimeLapses, settlementVars, executionVars
  <2>1. ExecutorInv(o)'
    BY DEF AuthorityInv, ExecutorInv, moneyVars, authorityVars
  <2> QED BY <2>1, StateOnlyKeeps
<1> QED
  BY <1>1, <1>2, CreateKeeps, AuthenticateKeeps, ApproveKeeps, ConsumeKeeps,
     ReplaceKeeps, AutonomousKeeps DEF ApprovalStep

-----------------------------------------------------------------------------
(* A fence change sweeps every operation in scope in its own transaction. *)

\* Whatever is swept has not begun to sign.
LEMMA AffectedIsIdle ==
  ASSUME NEW s \in Scopes, NEW p \in Affected(s), AuthorityInv(p),
         \A a \in PendingApprovals(s) : opState[a[1]] = "AWAITING_APPROVAL"
  PROVE  executor[p] = "IDLE" /\ ~signed[p] /\ sendAttempt[p] = "NONE" /\ ~sent[p]
<1>1. CASE p \in HeldBeforeApproval(s)
  BY <1>1, WaitingFacts DEF HeldBeforeApproval, InScope
<1>2. CASE p \in {a[1] : a \in PendingApprovals(s)}
  BY <1>2 DEF AuthorityInv, ExecutorInv, AfterSigning
<1>3. CASE p \in AuthorizedOperations(s)
  BY <1>3 DEF AuthorizedOperations, AuthorityInv, ExecutorInv, AfterSigning
<1> QED BY <1>1, <1>2, <1>3 DEF Affected

\* Every operation with an open request in scope is swept, none out of scope.
LEMMA AffectedScope ==
  ASSUME NEW s \in Scopes, NEW p \in Operations
  PROVE  /\ s \in ScopesOf[p] => ActiveApprovals(p) \subseteq PendingApprovals(s)
         /\ s \in ScopesOf[p] /\ ActiveApprovals(p) # {} => p \in Affected(s)
         /\ s \notin ScopesOf[p] => p \notin Affected(s)
         /\ s \notin ScopesOf[p] => ApprovalsOf(p) \cap PendingApprovals(s) = {}
<1>1. \A q \in Operations : \A a \in ActiveApprovals(q) : a[1] = q
  BY DEF ActiveApprovals, ApprovalsOf
<1>2. s \in ScopesOf[p] => ActiveApprovals(p) \subseteq PendingApprovals(s)
  BY DEF PendingApprovals, InScope
<1>3. s \in ScopesOf[p] /\ ActiveApprovals(p) # {} => p \in Affected(s)
  BY <1>1, <1>2 DEF Affected
<1>4. s \notin ScopesOf[p] => p \notin Affected(s)
  BY <1>1 DEF Affected, HeldBeforeApproval, AuthorizedOperations, PendingApprovals, InScope
<1>5. s \notin ScopesOf[p] => ApprovalsOf(p) \cap PendingApprovals(s) = {}
  BY <1>1 DEF PendingApprovals, InScope, ApprovalsOf
<1> QED BY <1>2, <1>3, <1>4, <1>5

\* A pause, a resume or a revocation keeps the invariant of every operation.
LEMMA FenceKeeps ==
  ASSUME WalletTypeOK, NEW s \in Scopes, NEW p \in Operations, AuthorityInv(p),
         ChangeControlFence(s)
  PROVE  AuthorityInv(p)'
<1> USE DEF ChangeControlFence, settlementVars, executionVars
<1>1. CASE s \notin ScopesOf[p]
  <2>1. p \notin Affected(s) /\ p \notin AuthorizedOperations(s)
    BY <1>1, AffectedScope DEF Affected
  <2>2. \A a \in ApprovalsOf(p) : approval'[a] = approval[a]
    BY <1>1, AffectedScope DEF ApprovalsOf
  <2>3. \A t \in ScopesOf[p] : fence'[t] = fence[t]
    BY <1>1 DEF WalletTypeOK, AuthorityTypeOK
  <2>4. Untouched(p)
    BY <2>1, <2>2, <2>3 DEF Untouched, PostRelease
  <2> QED BY <2>4, UntouchedKeeps
<1>2. CASE s \in ScopesOf[p]
  <2>1. /\ ActiveApprovals(p)' = {}
        /\ ConsumedApprovals(p)' = ConsumedApprovals(p)
        /\ \A b \in ConsumedApprovals(p) : approval'[b] = approval[b]
    <3>1. \A a \in ActiveApprovals(p) : approval'[a].status = "REVOKED"
      BY <1>2, AffectedScope
      DEF ActiveApprovals, ApprovalsOf, WalletTypeOK, AuthorityTypeOK, ApprovalRows
    <3>2. \A a \in ApprovalsOf(p) \ ActiveApprovals(p) : approval'[a] = approval[a]
      BY DEF PendingApprovals, ActiveApprovals, ApprovalsOf
    <3>3. ActiveApprovals(p)' = {}
      BY <3>1, <3>2 DEF ActiveApprovals, ApprovalsOf
    <3> QED BY <3>1, <3>2, <3>3 DEF ActiveApprovals, ConsumedApprovals, ApprovalsOf
  <2>2. /\ p \in Affected(s) => opState'[p] = StateAfterFence(s)
                                /\ reservation'[p].status = "RELEASED"
        /\ p \notin Affected(s) => opState'[p] = opState[p]
                                   /\ reservation'[p] = reservation[p]
    BY DEF PostRelease, WalletTypeOK, AccountingTypeOK
  <2>3. /\ authz'[p].kind = authz[p].kind /\ authz'[p].revision = authz[p].revision
        /\ authz'[p].fences = authz[p].fences
        /\ p \notin AuthorizedOperations(s) => authz'[p] = authz[p]
    BY DEF WalletTypeOK, AuthorityTypeOK, AuthorizationRows
  <2>4. RequestInv(p)'
    <3>1. opState'[p] # "AWAITING_APPROVAL"
      BY <1>2, <2>2, AffectedScope DEF AuthorityInv, RequestInv, StateAfterFence
    <3> QED BY <2>1, <3>1 DEF RequestInv
  <2>5. AuthorizedInv(p)'
    <3>1. CASE p \in Affected(s)
      BY <2>2, <3>1 DEF AuthorizedInv
    <3>2. CASE p \notin Affected(s)
      <4>1. p \notin AuthorizedOperations(s) /\ authz'[p] = authz[p]
        BY <2>3, <3>2 DEF Affected
      <4>2. ~(opState[p] = "AUTHORIZED" /\ reservation[p].status = "AUTHORIZED")
        BY <1>2, <4>1 DEF AuthorizedOperations, InScope, AuthorityInv, AuthorizedInv, Standing
      <4> QED BY <2>2, <3>2, <4>1, <4>2 DEF AuthorityInv, AuthorizedInv, Standing
    <3> QED BY <3>1, <3>2
  <2>6. OwnerInv(p)'
    <3>1. \A b \in ApprovalsOf(p) : ConsumedFor(p, b) => ConsumedFor(p, b)'
      BY <2>1, <2>3 DEF ConsumedFor
    <3> QED BY <2>1, <2>3, <3>1 DEF AuthorityInv, OwnerInv, ApprovalsOf
  <2>7. ExecutorInv(p)'
    <3>1. CASE p \in Affected(s)
      BY <2>2, <3>1, AffectedIsIdle DEF InvalidationCommits, ExecutorInv
    <3>2. CASE p \notin Affected(s)
      BY <2>2, <2>3, <3>2 DEF AuthorityInv, ExecutorInv
    <3> QED BY <3>1, <3>2
  <2>8. SettledInv(p)'
    BY <2>2 DEF AuthorityInv, SettledInv
  <2> QED BY <2>4, <2>5, <2>6, <2>7, <2>8 DEF AuthorityInv
<1> QED BY <1>1, <1>2

-----------------------------------------------------------------------------
(* The invariant of the whole system, and what follows from it. *)

AllAuthority == \A o \in Operations : AuthorityInv(o)

\* It holds before anybody has reserved, asked, signed or fenced anything.
LEMMA InitAuthority == Init => AllAuthority
<1> SUFFICES ASSUME Init, NEW o \in Operations PROVE AuthorityInv(o)
  BY DEF AllAuthority
<1> USE DEF Init, WalletInit, AccountingInit
<1>1. opState[o] # "AWAITING_APPROVAL"
  BY InitialAssumption
<1>2. ActiveApprovals(o) = {} /\ ConsumedApprovals(o) = {}
  BY DEF ActiveApprovals, ConsumedApprovals, ApprovalsOf, NoApproval
<1>3. reservation[o].status = "NONE" /\ authz[o].kind = "NONE"
  BY DEF NoReservation, NoAuthorization
<1> QED
  BY <1>1, <1>2, <1>3
  DEF AuthorityInv, RequestInv, AuthorizedInv, OwnerInv, ExecutorInv, SettledInv

\* Every step keeps it, of every operation.
LEMMA NextAuthority ==
  ASSUME WalletTypeOK, AllAuthority, [Next]_vars
  PROVE  AllAuthority'
<1> SUFFICES ASSUME NEW p \in Operations PROVE AuthorityInv(p)'
  BY DEF AllAuthority
<1>1. AuthorityInv(p)
  BY DEF AllAuthority
<1>2. ASSUME NEW o \in Operations, LedgerStep(o) \/ RecoveryStep(o)
      PROVE  AuthorityInv(p)'
  <2>1. LedgerEffect(o)
    BY <1>2, LedgerHasEffect, RecoveryHasEffect
  <2> QED BY <1>1, <2>1, EffectKeeps, LedgerSpares, UntouchedKeeps
<1>3. ASSUME NEW o \in Operations,
             ApprovalStep(o) \/ PreparationStep(o) \/ ExecutionStep(o)
      PROVE  AuthorityInv(p)'
  <2>1. CASE p = o
    BY <1>1, <1>3, <2>1, ApprovalKeeps, PreparationKeeps, ExecutionKeeps
  <2>2. CASE p # o
    BY <1>1, <1>3, <2>2, ServiceSpares, UntouchedKeeps
  <2> QED BY <2>1, <2>2
<1>4. ASSUME NEW s \in Scopes, ChangeControlFence(s) PROVE AuthorityInv(p)'
  BY <1>1, <1>4, FenceKeeps
<1>5. CASE UNCHANGED vars
  <2>1. Untouched(p)
    BY <1>5 DEF vars, moneyVars, operationVars, settlementVars, authorityVars,
                executionVars, Untouched
  <2> QED BY <1>1, <2>1, UntouchedKeeps
<1> QED BY <1>2, <1>3, <1>4, <1>5 DEF Next

\* The invariant holds in every behaviour of the composed services.
THEOREM AuthorityHolds == Spec => [](WalletInv /\ AllAuthority)
<1>1. Init => WalletInv /\ AllAuthority
  BY InitTypes, InitInv, InitAuthority DEF Init, WalletInit, WalletInv
<1>2. WalletInv /\ AllAuthority /\ [Next]_vars => (WalletInv /\ AllAuthority)'
  BY NextTypes, NextAuthority DEF WalletInv
<1> QED BY <1>1, <1>2, PTL DEF Spec

\* No pause, revocation or envelope replacement leaves a request behind that a
\* later resume would let somebody approve or consume.
THEOREM RequestsAreCurrent == Spec => []ActiveApprovalIsCurrent
<1>1. AllAuthority => ActiveApprovalIsCurrent
  BY DEF AllAuthority, AuthorityInv, RequestInv, ActiveApprovalIsCurrent
<1> QED BY <1>1, AuthorityHolds, PTL

\* Under a paused or revoked fence nothing waits for its owner or stands ready to
\* sign, however the fence change raced the requests and authorizations.
THEOREM FencesStop == Spec => []FencedOperationsStop
<1>1. AllAuthority => FencedOperationsStop
  <2> SUFFICES ASSUME AllAuthority, NEW o \in Operations, ~FencesActive(o)
               PROVE  /\ opState[o] # "AWAITING_APPROVAL"
                      /\ ~(opState[o] = "AUTHORIZED"
                             /\ reservation[o].status = "AUTHORIZED")
    BY DEF FencedOperationsStop
  <2>1. RequestInv(o) /\ AuthorizedInv(o)
    BY DEF AllAuthority, AuthorityInv
  <2>2. ActiveApprovals(o) = {}
    BY <2>1 DEF RequestInv, ApprovalIsCurrent, FencesCurrent, ActiveApprovals, ApprovalsOf
  <2> QED BY <2>1, <2>2 DEF RequestInv, AuthorizedInv, FencesCurrent
<1> QED BY <1>1, AuthorityHolds, PTL

\* Where the policy asks for the owner, funds move and bytes are signed or sent
\* only on one consumed, authenticated approval of exactly that envelope.
THEOREM OwnerDecides == Spec => []OwnerAuthorityEndToEnd
<1>1. WalletInv /\ AllAuthority => OwnerAuthorityEndToEnd
  <2> SUFFICES ASSUME WalletInv, AllAuthority, NEW o \in Operations,
                      PolicyDecision[o] = "REQUIRE_APPROVAL",
                      \/ reservation[o].status \in {"AUTHORIZED", "BROADCAST", "FINALIZED"}
                      \/ signed[o]
                      \/ sent[o]
               PROVE  \E a \in ConsumedApprovals(o) :
                        /\ ConsumedApprovals(o) = {a}
                        /\ ownerAuth[a] = "CONSUMED"
                        /\ approval[a].revision = authz[o].revision
                        /\ approval[a].fences = authz[o].fences
    BY DEF OwnerAuthorityEndToEnd
  <2>1. AuthorizedInv(o) /\ OwnerInv(o) /\ ExecutorInv(o)
    BY DEF AllAuthority, AuthorityInv
  <2>2. authz[o].kind # "NONE"
    BY <2>1 DEF AuthorizedInv, Standing, ExecutorInv
  <2>3. authz[o].kind \in {"NONE", "OWNER_APPROVAL", "AUTONOMOUS_POLICY"}
    BY DEF WalletInv, WalletTypeOK, AuthorityTypeOK, AuthorizationRows
  <2>4. PICK a \in ApprovalsOf(o) : ConsumedFor(o, a)
    BY <2>1, <2>2, <2>3 DEF OwnerInv
  <2> QED BY <2>4 DEF ConsumedFor
<1> QED BY <1>1, AuthorityHolds, PTL

\* The ledger's and the control service's probes of an authorization read
\* different rows and always agree before expiry.
THEOREM ProbesAlwaysAgree == Spec => []ProbesAgree
<1>1. AllAuthority => ProbesAgree
  BY DEF AllAuthority, AuthorityInv, AuthorizedInv, Standing, ProbesAgree,
     AuthorizeReservationAccepts, RevalidateAuthorizationAccepts, CanonicalEvidence
<1> QED BY <1>1, AuthorityHolds, PTL

\* Nothing is booked as spent without verified evidence and an authorization of
\* the newest envelope that nobody had taken back.
THEOREM SpendIsAlwaysProven == Spec => []SpendIsProven
<1>1. AllAuthority => SpendIsProven
  BY DEF AllAuthority, AuthorityInv, AuthorizedInv, Standing, SettledInv, SpendIsProven
<1> QED BY <1>1, AuthorityHolds, PTL

-----------------------------------------------------------------------------
(* The lifecycle table, against every writer of operations.current_state. *)

InTable(o) ==
  opState'[o] # opState[o] => opState'[o] \in LIFECYCLE_TRANSITIONS[opState[o]]

\* The moves that the approvals, control and signer code write without asking
\* the table are all in it.
LEMMA DirectMoves ==
  /\ "AWAITING_APPROVAL" \in LIFECYCLE_TRANSITIONS["ENVELOPE_FINALIZED"]
  /\ "AUTHORIZED" \in LIFECYCLE_TRANSITIONS["ENVELOPE_FINALIZED"]
  /\ {"REVALIDATION_REQUIRED", "EXPIRED", "REJECTED", "REVOKED", "AUTHORIZED"}
       \subseteq LIFECYCLE_TRANSITIONS["AWAITING_APPROVAL"]
  /\ "SIGNING" \in LIFECYCLE_TRANSITIONS["AUTHORIZED"]
  /\ "SIGNED" \in LIFECYCLE_TRANSITIONS["SIGNING"]
  /\ \A s \in {"POLICY_FINALIZED", "BUDGET_RESERVED", "ENVELOPE_FINALIZED",
               "AWAITING_APPROVAL", "AUTHORIZED"} :
       {"REVALIDATION_REQUIRED", "REVOKED"} \subseteq LIFECYCLE_TRANSITIONS[s]
BY DEF LIFECYCLE_TRANSITIONS, LIFECYCLE_STATES, Refusals

\* The approvals service.
LEMMA ApprovalInTable ==
  ASSUME WalletTypeOK, NEW o \in Operations, ApprovalStep(o)
  PROVE  InTable(o)
<1> USE DEF WalletTypeOK, OperationTypeOK, InTable
<1>1. ASSUME NEW a \in ApprovalsOf(o), NEW approvalStatus,
             NEW state \in {"REVALIDATION_REQUIRED", "EXPIRED", "REJECTED", "REVOKED"},
             NEW status, CloseRequest(a, approvalStatus, state, status)
      PROVE  InTable(o)
  BY <1>1, DirectMoves DEF CloseRequest, AwaitsDecision, ApprovalsOf
<1>2. ASSUME NEW a \in ApprovalsOf(o),
             ExpireApproval(a) \/ RejectApproval(a) \/ RevokeApproval(a)
      PROVE  InTable(o)
  BY <1>1, <1>2 DEF ExpireApproval, RejectApproval, RevokeApproval
<1>3. ASSUME NEW a \in ApprovalsOf(o),
             CreateApprovalRequest(a) \/ AuthenticateOwner(a)
      PROVE  InTable(o)
  BY <1>3, DirectMoves
  DEF CreateApprovalRequest, AuthenticateOwner, operationVars, ApprovalsOf
<1>4. ASSUME NEW a \in ApprovalsOf(o), InvalidateStaleApproval(a)
      PROVE  InTable(o)
  BY <1>1, <1>4 DEF InvalidateStaleApproval
<1>5. ASSUME NEW a \in ApprovalsOf(o), ApproveApproval(a) \/ ConsumeApproval(a)
      PROVE  InTable(o)
  BY <1>4, <1>5, DirectMoves
  DEF ApproveApproval, ConsumeApproval, AwaitsDecision, operationVars, ApprovalsOf
<1>6. CASE ReplaceExecutionEnvelope(o)
  BY <1>6, DirectMoves DEF ReplaceExecutionEnvelope, SupersedeRequest,
     SupersedeAuthorization, AwaitsDecision
<1>7. CASE AuthorizeAutonomous(o) \/ LifetimeLapses(o)
  BY <1>7, DirectMoves DEF AuthorizeAutonomous, AutonomousBinding, LifetimeLapses
<1> QED BY <1>2, <1>3, <1>5, <1>6, <1>7 DEF ApprovalStep

\* The signer's second write names two states it may start from; the invariant
\* says that a child that is signing never finds the first of them.
LEMMA ExecutionInTable ==
  ASSUME WalletTypeOK, NEW o \in Operations, AuthorityInv(o), ExecutionStep(o)
  PROVE  InTable(o)
<1> USE DEF WalletTypeOK, OperationTypeOK, InTable, operationVars
<1>1. CASE BeginSigning(o)
  BY <1>1, DirectMoves DEF BeginSigning, SigningAuthority
<1>2. CASE PersistSignedEvidence(o)
  <2>1. opState[o] = "SIGNING"
    BY <1>2 DEF PersistSignedEvidence, SigningAuthority, AuthorityInv, ExecutorInv,
       AfterSigning
  <2> QED BY <1>2, <2>1, DirectMoves DEF PersistSignedEvidence
<1>3. CASE ~BeginSigning(o) /\ ~PersistSignedEvidence(o)
  BY <1>3 DEF ExecutionStep, RematerializeEvidence, StartBroadcastAttempt,
     NodeAccepts, FinishBroadcastAttempt, ExecutorStops
<1> QED BY <1>1, <1>2, <1>3

\* The sweep of a fence change.
LEMMA FenceInTable ==
  ASSUME NEW s \in Scopes, NEW p \in Operations, ChangeControlFence(s)
  PROVE  InTable(p)
<1>1. CASE p \in Affected(s)
  <2>1. opState[p] \in {"POLICY_FINALIZED", "BUDGET_RESERVED", "ENVELOPE_FINALIZED",
                        "AWAITING_APPROVAL", "AUTHORIZED"}
    BY <1>1 DEF Affected, HeldBeforeApproval, AuthorizedOperations,
       ChangeControlFence, InvalidationCommits
  <2>2. opState'[p] \in {"REVALIDATION_REQUIRED", "REVOKED"}
    BY <1>1 DEF ChangeControlFence, StateAfterFence
  <2> QED BY <2>1, <2>2, DirectMoves DEF InTable
<1>2. CASE p \notin Affected(s)
  BY <1>2 DEF ChangeControlFence, InTable
<1> QED BY <1>1, <1>2

\* Every writer of the state column stays inside the adjacency table, also the
\* ones that never look at it.
THEOREM LifecycleIsRespected == Spec => LifecycleTableRespected
<1>1. WalletInv /\ AllAuthority /\ [Next]_vars => [LifecycleStep]_vars
  <2> SUFFICES ASSUME WalletInv, AllAuthority, Next, NEW p \in Operations
               PROVE  InTable(p)
    BY DEF LifecycleStep, InTable
  <2>1. WalletTypeOK
    BY DEF WalletInv
  <2>2. ASSUME NEW o \in Operations, LedgerStep(o) \/ RecoveryStep(o)
        PROVE  InTable(p)
    BY <2>1, <2>2, LedgerHasEffect, RecoveryHasEffect DEF LedgerEffect, InTable
  <2>3. ASSUME NEW o \in Operations,
               ApprovalStep(o) \/ PreparationStep(o) \/ ExecutionStep(o)
        PROVE  InTable(p)
    <3>1. CASE p # o
      BY <2>1, <2>3, <3>1, ServiceSpares DEF Untouched, InTable
    <3>2. CASE p = o /\ PreparationStep(o)
      BY <2>1, <3>2 DEF PreparationStep, PersistExecutionEnvelope, Transition,
         AdvanceOperationLifecycle, InTable, WalletTypeOK, OperationTypeOK
    <3>3. CASE p = o /\ (ApprovalStep(o) \/ ExecutionStep(o))
      BY <2>1, <3>3, ApprovalInTable, ExecutionInTable DEF AllAuthority
    <3> QED BY <2>3, <3>1, <3>2, <3>3
  <2> QED BY <2>2, <2>3, FenceInTable DEF Next
<1> QED BY <1>1, AuthorityHolds, PTL DEF Spec, LifecycleTableRespected

-----------------------------------------------------------------------------
(* What can abort a pause or a revocation. *)

\* A part of the live reservations of a budget is worth no more than all of them.
LEMMA PartIsCovered ==
  ASSUME AccountingInv, NEW b \in Budgets,
         NEW S \in SUBSET Operations, S \subseteq WithStatus(LiveStatuses)
  PROVE  account[b].reserved >= Value(InBudget(S, b))
<1> DEFINE Live == InBudget(WithStatus(LiveStatuses), b)
           Rest == Live \ InBudget(S, b)
<1>1. /\ InBudget(S, b) \in SUBSET Operations /\ Rest \in SUBSET Operations
      /\ InBudget(S, b) \cap Rest = {} /\ InBudget(S, b) \union Rest = Live
  BY DEF InBudget, WithStatus
<1>2. AccountingTypeOK /\ Value(Live) <= account[b].reserved
  BY DEF AccountingInv, ReservedBacking
<1>3. Amounts \in Weights
  BY <1>2, ColumnsAreWeights
<1>4. Value(Live) = Value(InBudget(S, b)) + Value(Rest)
  BY <1>1, <1>3, TotalSplit DEF Value
<1>5. Value(InBudget(S, b)) \in Nat /\ Value(Rest) \in Nat
  BY <1>1, <1>3, TotalNat DEF Value
<1>6. account[b].reserved \in Int
  BY <1>2 DEF AccountingTypeOK
<1> HIDE DEF Live, Rest
<1> QED BY <1>2, <1>4, <1>5, <1>6

\* If every open request in scope still waits for its owner, no row count and no
\* release guard of the sweep can fail.
LEMMA SweepCommits ==
  ASSUME WalletInv, AllAuthority, NEW s \in Scopes,
         \A a \in PendingApprovals(s) : AwaitsDecision(a[1])
  PROVE  InvalidationCommits(s)
<1>1. ASSUME NEW a \in PendingApprovals(s)
      PROVE  /\ a[1] \in Operations
             /\ opState[a[1]] = "AWAITING_APPROVAL"
             /\ reservation[a[1]].status = "HELD"
             /\ ActiveApprovals(a[1]) = {a}
  <2>1. PICK o \in Operations : a \in ActiveApprovals(o)
    BY <1>1 DEF PendingApprovals, InScope
  <2>2. a[1] = o
    BY <2>1 DEF ActiveApprovals, ApprovalsOf
  <2>3. RequestInv(o)
    BY DEF AllAuthority, AuthorityInv
  <2> QED BY <1>1, <2>1, <2>2, <2>3 DEF AwaitsDecision, RequestInv
<1>2. Affected(s) \in SUBSET Operations
  BY <1>1 DEF Affected, HeldBeforeApproval, AuthorizedOperations, InScope
<1>3. ASSUME NEW o \in Affected(s) PROVE ~SendCapable(o)
  <2>1. AuthorityInv(o)
    BY <1>2, <1>3 DEF AllAuthority
  <2>2. sendAttempt[o] = "NONE"
    BY <1>1, <1>3, <2>1, AffectedIsIdle
  <2> QED BY <2>2 DEF SendCapable
<1>4. Affected(s) \subseteq WithStatus(LiveStatuses)
  BY <1>1 DEF Affected, HeldBeforeApproval, AuthorizedOperations, InScope, WithStatus,
     LiveStatuses
<1>5. \A b \in Budgets : account[b].reserved >= Value(InBudget(Affected(s), b))
  BY <1>2, <1>4, PartIsCovered DEF WalletInv
<1> QED BY <1>1, <1>3, <1>5 DEF InvalidationCommits

\* Only an orphaned request can abort a pause or a revocation: no signing, no
\* recovery, no expiry and no reserved column that has run low.
THEOREM OnlyOrphansBlockControl == Spec => []ControlBlockedOnlyByOrphan
<1>1. WalletInv /\ AllAuthority => ControlBlockedOnlyByOrphan
  BY SweepCommits DEF ControlBlockedOnlyByOrphan
<1> QED BY <1>1, AuthorityHolds, PTL

-----------------------------------------------------------------------------
(* Once: one key per reservation, one resolution per lease. *)

KeysOf(o) == {k \in Keys : idempotency[k] = o}

KeyInv(o) ==
  /\ reservation[o].status = "NONE" => KeysOf(o) = {}
  /\ reservation[o].status # "NONE" => \E k \in Keys : KeysOf(o) = {k}

\* Only the ledger binds keys, and only the ledger makes a row of nothing.
LEMMA ServicesBindNoKey ==
  ASSUME WalletTypeOK, NEW o \in Operations,
         ApprovalStep(o) \/ PreparationStep(o) \/ ExecutionStep(o)
  PROVE  /\ UNCHANGED <<idempotency, lease, recovery>>
         /\ reservation'[o].status = "NONE" <=> reservation[o].status = "NONE"
<1> DEFINE Kept == /\ UNCHANGED <<idempotency, lease, recovery>>
                   /\ reservation'[o].status = "NONE" <=> reservation[o].status = "NONE"
<1> USE DEF operationVars, settlementVars
<1>1. ASSUME UNCHANGED <<idempotency, lease, recovery>>,
             NEW status, status # "NONE", reservation[o].status # "NONE",
             PostStatus(o, status) \/ PostRelease({o}, status)
      PROVE  Kept
  BY <1>1, PostingMoves DEF Moved
<1>2. ASSUME NEW a \in ApprovalsOf(o), NEW approvalStatus, NEW state,
             NEW status \in {"RELEASED", "EXPIRED"},
             CloseRequest(a, approvalStatus, state, status),
             UNCHANGED <<idempotency, lease, recovery>>
      PROVE  Kept
  BY <1>1, <1>2 DEF CloseRequest, AwaitsDecision, ApprovalsOf
<1>3. ASSUME NEW a \in ApprovalsOf(o), InvalidateStaleApproval(a)
      PROVE  Kept
  BY <1>2, <1>3 DEF InvalidateStaleApproval
<1>4. ASSUME NEW a \in ApprovalsOf(o),
             ExpireApproval(a) \/ RejectApproval(a) \/ RevokeApproval(a)
      PROVE  Kept
  BY <1>2, <1>4 DEF ExpireApproval, RejectApproval, RevokeApproval
<1>5. ASSUME NEW a \in ApprovalsOf(o),
             CreateApprovalRequest(a) \/ AuthenticateOwner(a)
      PROVE  Kept
  BY <1>5 DEF CreateApprovalRequest, AuthenticateOwner, moneyVars
<1>6. ASSUME NEW a \in ApprovalsOf(o), ApproveApproval(a)
      PROVE  Kept
  BY <1>3, <1>6 DEF ApproveApproval, moneyVars
<1>7. ASSUME NEW a \in ApprovalsOf(o), ConsumeApproval(a)
      PROVE  Kept
  BY <1>1, <1>3, <1>7 DEF ConsumeApproval, AwaitsDecision, ApprovalsOf
<1>8. CASE ReplaceExecutionEnvelope(o)
  BY <1>1, <1>8 DEF ReplaceExecutionEnvelope, SupersedeRequest,
     SupersedeAuthorization, AwaitsDecision
<1>9. CASE AuthorizeAutonomous(o)
  BY <1>1, <1>9 DEF AuthorizeAutonomous, AutonomousBinding
<1>10. CASE LifetimeLapses(o) \/ PreparationStep(o)
  BY <1>10 DEF LifetimeLapses, PreparationStep, PersistExecutionEnvelope,
     AdvanceOperationLifecycle, moneyVars
<1>11. CASE ExecutionStep(o)
  BY <1>11 DEF ExecutionStep, BeginSigning, PersistSignedEvidence,
     RematerializeEvidence, StartBroadcastAttempt, NodeAccepts,
     FinishBroadcastAttempt, ExecutorStops, moneyVars
<1> QED
  BY <1>4, <1>5, <1>6, <1>7, <1>8, <1>9, <1>10, <1>11 DEF ApprovalStep

\* The sweep of a fence change writes rows that exist.
LEMMA FenceBindsNoKey ==
  ASSUME WalletTypeOK, NEW s \in Scopes, ChangeControlFence(s)
  PROVE  /\ UNCHANGED <<idempotency, lease, recovery>>
         /\ \A p \in Operations :
              reservation'[p].status = "NONE" <=> reservation[p].status = "NONE"
<1>1. \A p \in Affected(s) : reservation[p].status # "NONE"
  BY DEF ChangeControlFence, InvalidationCommits, Affected, HeldBeforeApproval,
     AuthorizedOperations
<1>2. \A p \in Operations :
        reservation'[p].status = "NONE" <=> reservation[p].status = "NONE"
  BY <1>1 DEF ChangeControlFence, PostRelease, WalletTypeOK, AccountingTypeOK
<1> QED BY <1>2 DEF ChangeControlFence, settlementVars

\* A step of the ledger binds at most one key, a fresh one, to a row it creates.
LEMMA LedgerKeys ==
  ASSUME WalletTypeOK, NEW o \in Operations, NEW p \in Operations, KeyInv(p),
         LedgerEffect(o)
  PROVE  KeyInv(p)'
<1>1. CASE UNCHANGED idempotency /\ (reservation'[p].status = "NONE"
                                       <=> reservation[p].status = "NONE")
  BY <1>1 DEF KeyInv, KeysOf
<1>2. ASSUME NEW k \in Keys, idempotency[k] = None,
             idempotency' = [idempotency EXCEPT ![k] = o],
             reservation[o].status = "NONE", reservation'[o].status = "HELD"
      PROVE  KeyInv(p)'
  <2>1. /\ idempotency'[k] = o /\ \A j \in Keys \ {k} : idempotency'[j] = idempotency[j]
    BY <1>2 DEF WalletTypeOK, OperationTypeOK
  <2>2. o # None /\ p # None
    BY NoneAssumption
  <2>3. CASE p = o
    <3>1. KeysOf(o)' = {k}
      BY <1>2, <2>1, <2>3 DEF KeyInv, KeysOf
    <3> QED BY <1>2, <2>3, <3>1 DEF KeyInv
  <2>4. CASE p # o
    <3>1. KeysOf(p)' = KeysOf(p)
      BY <1>2, <2>1, <2>2, <2>4 DEF KeysOf
    <3>2. reservation'[p] = reservation[p]
      BY <2>4 DEF LedgerEffect
    <3> QED BY <3>1, <3>2 DEF KeyInv
  <2> QED BY <2>3, <2>4
<1> QED BY <1>1, <1>2 DEF LedgerEffect, StatusStep

AllKeys == \A o \in Operations : KeyInv(o)

\* Every step keeps the keys.
LEMMA NextKeys ==
  ASSUME WalletTypeOK, AllKeys, [Next]_vars
  PROVE  AllKeys'
<1> SUFFICES ASSUME NEW p \in Operations PROVE KeyInv(p)'
  BY DEF AllKeys
<1>1. KeyInv(p)
  BY DEF AllKeys
<1>2. ASSUME UNCHANGED idempotency,
             reservation'[p].status = "NONE" <=> reservation[p].status = "NONE"
      PROVE  KeyInv(p)'
  BY <1>1, <1>2 DEF KeyInv, KeysOf
<1>3. ASSUME NEW o \in Operations, LedgerStep(o) \/ RecoveryStep(o)
      PROVE  KeyInv(p)'
  BY <1>1, <1>3, LedgerHasEffect, RecoveryHasEffect, LedgerKeys
<1>4. ASSUME NEW o \in Operations,
             ApprovalStep(o) \/ PreparationStep(o) \/ ExecutionStep(o)
      PROVE  KeyInv(p)'
  <2>1. UNCHANGED idempotency
    BY <1>4, ServicesBindNoKey
  <2>2. reservation'[p].status = "NONE" <=> reservation[p].status = "NONE"
    BY <1>4, ServicesBindNoKey, ServiceSpares DEF Untouched
  <2> QED BY <1>2, <2>1, <2>2
<1>5. ASSUME NEW s \in Scopes, ChangeControlFence(s) PROVE KeyInv(p)'
  BY <1>2, <1>5, FenceBindsNoKey
<1>6. CASE UNCHANGED vars
  BY <1>2, <1>6 DEF vars, moneyVars
<1> QED BY <1>3, <1>4, <1>5, <1>6 DEF Next

\* Whoever retries a reservation, with whatever key, an operation holds funds
\* under exactly one key.
THEOREM OneKeyHolds == Spec => []OneKeyPerReservation
<1>1. Init => AllKeys
  BY NoneAssumption DEF Init, WalletInit, AccountingInit, NoReservation, AllKeys, KeyInv, KeysOf
<1>2. AllKeys => OneKeyPerReservation
  <2> SUFFICES ASSUME AllKeys, NEW o \in Operations
               PROVE  Cardinality(KeysOf(o))
                        = (IF reservation[o].status = "NONE" THEN 0 ELSE 1)
    BY DEF OneKeyPerReservation, KeysOf
  <2>1. KeyInv(o)
    BY DEF AllKeys
  <2> QED BY <2>1, FS_EmptySet, FS_Singleton DEF KeyInv
<1>3. AllKeys /\ WalletTypeOK /\ [Next]_vars => AllKeys'
  BY NextKeys
<1> QED BY <1>1, <1>2, <1>3, ControlPlaneTypeCorrect, PTL DEF Spec

\* A resolution on record is of a lease version that is over: an earlier one, or
\* the newest, turned RESOLVED.  OneResolutionPerLease needs it to be inductive.
LeaseInv ==
  \A t \in AttemptIds :
    LET o == recovery[t].op IN
    recovery[t] # NoAttempt =>
      /\ o \in Operations
      /\ recovery[t].version <= lease[o].version
      /\ recovery[t].version = lease[o].version => lease[o].state # "ACTIVE"

ResolvedOnce == LeaseInv /\ OneResolutionPerLease

\* Whatever leaves leases and resolutions alone keeps it.
LEMMA LeasesKept ==
  ASSUME ResolvedOnce, UNCHANGED <<lease, recovery>>
  PROVE  ResolvedOnce'
BY DEF ResolvedOnce, LeaseInv, OneResolutionPerLease

\* A resolution closes the lease it was made under, and is the first to do so.
LEMMA CloseIsFirst ==
  ASSUME WalletTypeOK, ResolvedOnce, NEW o \in Operations, NEW w, NEW t \in AttemptIds,
         NEW v, NEW outcome, MayResolve(w, o, t, v), CloseRecovery(w, o, t, v, outcome)
  PROVE  ResolvedOnce'
<1> USE DEF MayResolve, HoldsLease, CloseRecovery
<1>1. /\ recovery'[t].op = o /\ recovery'[t].version = v
      /\ \A u \in AttemptIds \ {t} : recovery'[u] = recovery[u]
      /\ recovery[t] = NoAttempt /\ lease[o].state = "ACTIVE" /\ lease[o].version = v
  BY DEF WalletTypeOK, SettlementTypeOK
<1>2. /\ \A p \in Operations : lease'[p].version = lease[p].version
      /\ \A p \in Operations \ {o} : lease'[p] = lease[p]
      /\ lease'[o].state = "RESOLVED"
      /\ \A p \in Operations : lease[p].version \in Nat
  BY BoundsAssumption DEF WalletTypeOK, SettlementTypeOK, LeaseRows
<1>3. LeaseInv'
  <2> SUFFICES ASSUME NEW u \in AttemptIds, recovery'[u] # NoAttempt
               PROVE  /\ recovery'[u].op \in Operations
                      /\ recovery'[u].version <= lease'[recovery'[u].op].version
                      /\ recovery'[u].version = lease'[recovery'[u].op].version
                           => lease'[recovery'[u].op].state # "ACTIVE"
    BY DEF LeaseInv, NoAttempt
  <2>1. CASE u = t
    BY <1>1, <1>2, <2>1
  <2>2. CASE u # t
    BY <1>1, <1>2, <2>2 DEF ResolvedOnce, LeaseInv
  <2> QED BY <2>1, <2>2
<1>4. OneResolutionPerLease'
  <2>1. \A u \in AttemptIds \ {t} :
          recovery[u] # NoAttempt /\ recovery[u].op = o => recovery[u].version # v
    BY <1>1 DEF ResolvedOnce, LeaseInv
  <2> SUFFICES ASSUME NEW x \in AttemptIds, NEW y \in AttemptIds, x # y,
                      recovery'[x] # NoAttempt, recovery'[y] # NoAttempt
               PROVE  <<recovery'[x].op, recovery'[x].version>>
                        # <<recovery'[y].op, recovery'[y].version>>
    BY DEF OneResolutionPerLease, NoAttempt
  <2> QED BY <1>1, <2>1 DEF ResolvedOnce, OneResolutionPerLease
<1> QED BY <1>3, <1>4 DEF ResolvedOnce

\* Claims take the next version; resolutions close the one they hold.
LEMMA RecoveryResolvesOnce ==
  ASSUME WalletTypeOK, ResolvedOnce, NEW o \in Operations, RecoveryStep(o)
  PROVE  ResolvedOnce'
<1>1. ASSUME UNCHANGED recovery,
             lease'[o].version \in Nat, lease'[o].version >= lease[o].version,
             lease'[o].version = lease[o].version => lease'[o].state = lease[o].state,
             \A p \in Operations \ {o} : lease'[p] = lease[p]
      PROVE  ResolvedOnce'
  <2>1. \A p \in Operations : lease[p].version \in Nat
    BY BoundsAssumption DEF WalletTypeOK, SettlementTypeOK, LeaseRows
  <2>2. \A t \in AttemptIds : recovery[t].version \in Nat
    BY BoundsAssumption DEF WalletTypeOK, SettlementTypeOK, AttemptRows
  <2>3. LeaseInv'
    <3> SUFFICES ASSUME NEW u \in AttemptIds, recovery[u] # NoAttempt
                 PROVE  /\ recovery[u].op \in Operations
                        /\ recovery[u].version <= lease'[recovery[u].op].version
                        /\ recovery[u].version = lease'[recovery[u].op].version
                             => lease'[recovery[u].op].state # "ACTIVE"
      BY <1>1 DEF LeaseInv, NoAttempt
    <3>1. /\ recovery[u].op \in Operations
          /\ recovery[u].version <= lease[recovery[u].op].version
          /\ recovery[u].version = lease[recovery[u].op].version
               => lease[recovery[u].op].state # "ACTIVE"
      BY DEF ResolvedOnce, LeaseInv
    <3> QED BY <1>1, <2>1, <2>2, <3>1
  <2> QED BY <1>1, <2>3 DEF ResolvedOnce, OneResolutionPerLease
<1>2. CASE LeaseLapses(o) \/ \E w \in Reconcilers : ClaimRecoveryLease(w, o)
  <2>1. lease[o].version \in Nat
    BY BoundsAssumption DEF WalletTypeOK, SettlementTypeOK, LeaseRows
  <2> QED
    BY <1>1, <1>2, <2>1 DEF LeaseLapses, ClaimRecoveryLease, WalletTypeOK,
       SettlementTypeOK, LeaseRows
<1> QED
  BY <1>2, CloseIsFirst DEF RecoveryStep, ResolveConfirmed, ResolveFailed,
     ResolveVerifiedRevert, ResolveDisputed

\* Recovery is decided once per lease, whichever workers race for it and however
\* their clocks disagree with the database's.
THEOREM OneResolutionHolds == Spec => []OneResolutionPerLease
<1>1. Init => ResolvedOnce
  BY DEF Init, WalletInit, ResolvedOnce, LeaseInv, OneResolutionPerLease
<1>2. WalletTypeOK /\ ResolvedOnce /\ [Next]_vars => ResolvedOnce'
  <2> SUFFICES ASSUME WalletTypeOK, ResolvedOnce, [Next]_vars PROVE ResolvedOnce'
    OBVIOUS
  <2>1. ASSUME NEW o \in Operations, LedgerStep(o) PROVE ResolvedOnce'
    <3>1. UNCHANGED <<lease, recovery>>
      BY <2>1 DEF LedgerStep, ReserveBudget, ReleaseReservation, ExpireReservation,
         DisputeReservation, MarkReservationBroadcast, VerifyBroadcastEvidence,
         FinalizeReservation, settlementVars
    <3> QED BY <3>1, LeasesKept
  <2>2. ASSUME NEW o \in Operations,
               ApprovalStep(o) \/ PreparationStep(o) \/ ExecutionStep(o)
        PROVE  ResolvedOnce'
    BY <2>2, ServicesBindNoKey, LeasesKept
  <2>3. ASSUME NEW s \in Scopes, ChangeControlFence(s) PROVE ResolvedOnce'
    BY <2>3, FenceBindsNoKey, LeasesKept
  <2>4. CASE UNCHANGED vars
    BY <2>4, LeasesKept DEF vars, settlementVars
  <2> QED BY <2>1, <2>2, <2>3, <2>4, RecoveryResolvesOnce DEF Next
<1>3. ResolvedOnce => OneResolutionPerLease
  BY DEF ResolvedOnce
<1> QED BY <1>1, <1>2, <1>3, ControlPlaneTypeCorrect, PTL DEF Spec

=============================================================================
