------------------------------ MODULE WalletState ------------------------------
(* The rows of the control plane's database that its services share, and the   *)
(* predicates the database itself enforces on them with triggers.  One step of *)
(* a service is one serializable transaction (budget-ledger/transaction.ts):   *)
(* the trigger predicates are conjoined to its action over the NEW state, so a *)
(* step that would break one is an aborted transaction, which changes nothing. *)
EXTENDS Lifecycle, BudgetAccounting

CONSTANTS
  BudgetsOf,        \* [Operations -> SUBSET Budgets]: same agent/wallet/policy
  Scopes,           \* control fences: SYSTEM, owners, agents, policies
  System,           \* the SYSTEM:system fence
  ScopesOf,         \* [Operations -> SUBSET Scopes]: the fences of an operation
  PolicyDecision,   \* [Operations -> decision of the policy engine]
  InitialStates,    \* where the pipeline may have brought an operation so far
  Keys,             \* idempotency keys
  MaxApprovals,     \* bound: approval requests per operation
  Reconcilers,      \* credentials with the RECONCILER role
  AttemptIds,       \* recovery attempt ids
  Receipts,         \* receipt references
  ReceiptOf,        \* [Operations -> Receipts]: 'receipt:' || attempt_id
  MaxFenceVersion,  \* bound: control_fences.fence_version
  MaxLeaseVersion,  \* bound: operation_recovery_leases.lease_version
  MaxRevision       \* bound: execution_envelopes.revision

ASSUME BindingAssumption ==
  /\ BudgetsOf \in [Operations -> SUBSET Budgets]
  /\ ScopesOf \in [Operations -> SUBSET Scopes]
  /\ System \in Scopes
  /\ \A o \in Operations : System \in ScopesOf[o]
  /\ PolicyDecision \in
       [Operations -> {"REQUIRE_APPROVAL", "ALLOW_AUTONOMOUS"}]
  /\ InitialStates \subseteq LIFECYCLE_STATES /\ InitialStates # {}
  /\ ReceiptOf \in [Operations -> Receipts]
  /\ None \notin Receipts \union Reconcilers

\* AWAITING_APPROVAL is written together with the request it waits for.
ASSUME InitialAssumption == "AWAITING_APPROVAL" \notin InitialStates

ASSUME BoundsAssumption ==
  /\ MaxApprovals \in Nat \ {0}
  /\ MaxFenceVersion \in Nat \ {0}
  /\ MaxLeaseVersion \in Nat \ {0}
  /\ MaxRevision \in Nat \ {0}

VARIABLES
  opState,      \* operations.current_state
  revision,     \* newest execution_envelopes.revision, 0 before the first
  lapsed,       \* database clock past the approval, envelope and hold lifetime
  idempotency,  \* idempotency_records: the operation a key is bound to
  evidence,     \* reservation_broadcast_evidence
  lease,        \* operation_recovery_leases
  recovery,     \* recovery_attempts
  fence,        \* control_fences
  approval,     \* approval_requests
  ownerAuth,    \* owner_approval_authentications
  authz,        \* authorization_evidence and authorization_invalidations
  signed,       \* signed_transactions: a row exists
  sendAttempt,  \* broadcast_attempts.status
  executor,     \* where the execution child that holds the operation's lock is
  sent          \* the node has taken the signed bytes (external)

operationVars  == <<opState, revision, lapsed>>
settlementVars == <<evidence, lease, recovery>>
authorityVars  == <<approval, ownerAuth, authz>>
executionVars  == <<signed, sendAttempt, executor, sent>>

vars == <<moneyVars, operationVars, idempotency, settlementVars, fence,
          authorityVars, executionVars>>

-----------------------------------------------------------------------------
Approvals == Operations \X (1..MaxApprovals)

ApprovalsOf(o) == {a \in Approvals : a[1] = o}

Snapshots == [Scopes -> 0..MaxFenceVersion]

NoSnapshot == [s \in Scopes |-> 0]

NoApproval == [status |-> "NONE", revision |-> 0, fences |-> NoSnapshot]

NoAuthorization ==
  [kind |-> "NONE", revision |-> 0, fences |-> NoSnapshot, invalidated |-> FALSE]

NoLease == [version |-> 0, state |-> "NONE", holder |-> None, live |-> FALSE]

NoAttempt == [op |-> None, version |-> 0, worker |-> None, outcome |-> "NONE"]

EvidenceRows == [status  : {"NONE", "PENDING", "VERIFIED"},
                 receipt : Receipts \union {None}]

LeaseRows == [version : 0..MaxLeaseVersion,
              state   : {"NONE", "ACTIVE", "RESOLVED"},
              holder  : Reconcilers \union {None},
              live    : BOOLEAN]   \* lease_expires_at > clock_timestamp()

AttemptRows == [op      : Operations \union {None},
                version : 0..MaxLeaseVersion,
                worker  : Reconcilers \union {None},
                outcome : {"NONE", "CONFIRMED", "FAILED", "AMBIGUOUS",
                           "CONFLICT"}]

FenceRows == [state   : {"ACTIVE", "PAUSED", "REVOKED"},
              version : 1..MaxFenceVersion]

ApprovalRows == [status   : {"NONE", "PENDING", "APPROVED", "REJECTED",
                             "EXPIRED", "REVOKED", "CONSUMED"},
                 revision : 0..MaxRevision,
                 fences   : Snapshots]

AuthorizationRows == [kind        : {"NONE", "OWNER_APPROVAL",
                                     "AUTONOMOUS_POLICY"},
                      revision    : 0..MaxRevision,
                      fences      : Snapshots,
                      invalidated : BOOLEAN]

OperationTypeOK ==
  /\ opState \in [Operations -> LIFECYCLE_STATES]
  /\ revision \in [Operations -> 0..MaxRevision]
  /\ lapsed \in [Operations -> BOOLEAN]
  /\ idempotency \in [Keys -> Operations \union {None}]

SettlementTypeOK ==
  /\ evidence \in [Operations -> EvidenceRows]
  /\ lease \in [Operations -> LeaseRows]
  /\ recovery \in [AttemptIds -> AttemptRows]

AuthorityTypeOK ==
  /\ fence \in [Scopes -> FenceRows]
  /\ approval \in [Approvals -> ApprovalRows]
  /\ ownerAuth \in [Approvals -> {"NONE", "RECORDED", "CONSUMED"}]
  /\ authz \in [Operations -> AuthorizationRows]

ExecutionTypeOK ==
  /\ signed \in [Operations -> BOOLEAN]
  /\ sendAttempt \in [Operations -> {"NONE", "STARTED", "ACCEPTED", "REJECTED",
                                     "UNKNOWN", "CONFLICT"}]
  /\ executor \in [Operations -> {"IDLE", "SIGNING", "MATERIAL", "SENDING"}]
  /\ sent \in [Operations -> BOOLEAN]

\* Every column of every row stays within its declared values, and every counter
\* within the bound the model names for it.
WalletTypeOK ==
  /\ AccountingTypeOK
  /\ OperationTypeOK
  /\ SettlementTypeOK
  /\ AuthorityTypeOK
  /\ ExecutionTypeOK

\* The pipeline has validated and simulated the transfer; nobody has reserved.
WalletInit ==
  /\ AccountingInit
  /\ opState     \in [Operations -> InitialStates]
  /\ revision    = [o \in Operations |-> 0]
  /\ lapsed      = [o \in Operations |-> FALSE]
  /\ idempotency = [k \in Keys |-> None]
  /\ evidence    = [o \in Operations |-> [status |-> "NONE", receipt |-> None]]
  /\ lease       = [o \in Operations |-> NoLease]
  /\ recovery    = [t \in AttemptIds |-> NoAttempt]
  /\ fence       = [s \in Scopes |-> [state |-> "ACTIVE", version |-> 1]]
  /\ approval    = [a \in Approvals |-> NoApproval]
  /\ ownerAuth   = [a \in Approvals |-> "NONE"]
  /\ authz       = [o \in Operations |-> NoAuthorization]
  /\ signed      = [o \in Operations |-> FALSE]
  /\ sendAttempt = [o \in Operations |-> "NONE"]
  /\ executor    = [o \in Operations |-> "IDLE"]
  /\ sent        = [o \in Operations |-> FALSE]

-----------------------------------------------------------------------------
(* Fences and their snapshots. *)

FencesActive(o) == \A s \in ScopesOf[o] : fence[s].state = "ACTIVE"

\* What an approval request or an authorization copies when it is written.
SnapshotOf(o) ==
  [s \in Scopes |-> IF s \in ScopesOf[o] THEN fence[s].version ELSE 0]

FencesCurrent(o, snapshot) == FencesActive(o) /\ snapshot = SnapshotOf(o)

ActiveApprovals(o) ==
  {a \in ApprovalsOf(o) : approval[a].status \in {"PENDING", "APPROVED"}}

ConsumedApprovals(o) ==
  {a \in ApprovalsOf(o) : approval[a].status = "CONSUMED"}

-----------------------------------------------------------------------------
(* What the triggers require of the rows of one operation. *)

\* The state-independent half: every piece of evidence is either the consumption
\* of one approval or autonomous.
EvidenceCountMatches(o) ==
  Cardinality(ConsumedApprovals(o))
    = (IF authz[o].kind = "OWNER_APPROVAL" THEN 1 ELSE 0)

ApprovalOperationConsistent(o) ==
  LET state  == opState[o]
      status == reservation[o].status
      active == Cardinality(ActiveApprovals(o))
      kind   == authz[o].kind
  IN
  /\ EvidenceCountMatches(o)
  /\ state = "AWAITING_APPROVAL" =>
       active = 1 /\ kind = "NONE" /\ status = "HELD"
  /\ state = "AUTHORIZED" =>
       active = 0 /\ kind # "NONE" /\ status = "AUTHORIZED"
  /\ state = "ENVELOPE_FINALIZED" =>
       active = 0 /\ kind = "NONE" /\ status = "HELD"
  /\ state \in {"REVALIDATION_REQUIRED", "REVOKED"} =>
       active = 0 /\ status = "RELEASED"
  /\ state = "REJECTED" =>
       active = 0 /\ kind = "NONE" /\ status = "RELEASED"
  /\ state = "EXPIRED" =>
       active = 0 /\ kind = "NONE" /\ status = "EXPIRED"

\* Evaluated whenever a reservation row is written as `status`.
CanonicalAuthorization(o, status) ==
  /\ authz[o].kind # "NONE"
  /\ ~authz[o].invalidated
  /\ authz[o].revision = revision[o]
  /\ FencesCurrent(o, authz[o].fences)
  /\ opState[o] \in
       IF status = "AUTHORIZED"
       THEN {"AUTHORIZED"}
       ELSE {"AUTHORIZED", "SIGNING", "SIGNED", "BROADCAST",
             "PENDING_CONFIRMATION", "CONFIRMED", "RECONCILED"}

\* Sensitivity variant: an answer that never came counts as not sent.
SendCapableIfAnswered(o) == sendAttempt[o] \in {"STARTED", "ACCEPTED", "CONFLICT"}

\* A broadcast attempt that may have reached the chain pins the reservation.
SendCapable(o) ==
  sendAttempt[o] \in {"STARTED", "ACCEPTED", "UNKNOWN", "CONFLICT"}

\* Evidence recorded after an attempt exists must be that attempt's own.
MatchesExactAttempt(o, receipt) ==
  sendAttempt[o] # "NONE" => receipt = ReceiptOf[o]

=============================================================================
