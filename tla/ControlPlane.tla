------------------------------ MODULE ControlPlane ------------------------------
(* The services together on one database.  Nothing orders their steps but the  *)
(* rows they read: any caller may call any service at any time.                *)
EXTENDS BudgetLedger, Approvals, ControlFences, Preparation, Execution

Init == WalletInit

Next ==
  \/ \E o \in Operations :
       \/ LedgerStep(o)
       \/ RecoveryStep(o)
       \/ ApprovalStep(o)
       \/ PreparationStep(o)
       \/ ExecutionStep(o)
  \/ \E s \in Scopes : ChangeControlFence(s)

Spec == Init /\ [][Next]_vars

-----------------------------------------------------------------------------
(* Money.  That the composed system implements AccountingSpec of module        *)
(* BudgetAccounting is checked as a property of its own; the theorems about    *)
(* AccountingSpec then hold of the composed system.                            *)

\* FINALIZED means proven: broadcast evidence that a reconciler verified, under
\* the authorization of the newest envelope, which no pause, revocation or
\* replacement had taken back (finalizeReservation, resolveRecovery CONFIRMED).
SpendIsProven ==
  \A o \in Operations :
    reservation[o].status = "FINALIZED" =>
      /\ evidence[o].status = "VERIFIED"
      /\ authz[o].kind # "NONE"
      /\ ~authz[o].invalidated
      /\ authz[o].revision = revision[o]

\* Once the node may hold the signed bytes, the funds behind them stay out of
\* `available` unless a verified receipt showed that the transfer reverted: no
\* release, expiry, replacement, fence change or FAILED recovery that was
\* already under way returns them.
SentFundsAreNeverReturned ==
  \A o \in Operations :
    sent[o] => \/ reservation[o].status \in {"AUTHORIZED", "BROADCAST",
                                             "FINALIZED", "DISPUTED"}
               \/ evidence[o].status = "VERIFIED"

\* One operation holds funds under exactly one idempotency key, whoever retries
\* reserveBudget, with the same key or another, in whatever order.
OneKeyPerReservation ==
  \A o \in Operations :
    Cardinality({k \in Keys : idempotency[k] = o})
      = (IF reservation[o].status = "NONE" THEN 0 ELSE 1)

\* Recovery is decided once per lease: a worker whose lease was taken over, or
\* that was already answered, cannot close the same lease version again with a
\* second attempt id.
OneResolutionPerLease ==
  \A t, u \in AttemptIds :
    (t # u /\ recovery[t] # NoAttempt /\ recovery[u] # NoAttempt)
      => <<recovery[t].op, recovery[t].version>>
           # <<recovery[u].op, recovery[u].version>>

-----------------------------------------------------------------------------
(* Authority. *)

\* Every writer of operations.current_state stays inside the adjacency table,
\* also the approvals, control and signer code that updates the column directly.
LifecycleStep ==
  \A o \in Operations :
    opState'[o] # opState[o] => opState'[o] \in LIFECYCLE_TRANSITIONS[opState[o]]

LifecycleTableRespected == [][LifecycleStep]_vars

\* A request somebody can still approve or consume is bound to the newest
\* envelope and to fences that have not moved since it was made: a pause or a
\* revocation leaves no request behind it that a later resume would revive.
ActiveApprovalIsCurrent ==
  \A o \in Operations : \A a \in ActiveApprovals(o) : ApprovalIsCurrent(a)

\* Under a paused or revoked fence no operation waits for an owner or stands
\* ready to sign: a request or an authorization that raced the fence change was
\* taken back by it, or was refused after it.
FencedOperationsStop ==
  \A o \in Operations :
    ~FencesActive(o) =>
      /\ opState[o] # "AWAITING_APPROVAL"
      /\ ~(opState[o] = "AUTHORIZED" /\ reservation[o].status = "AUTHORIZED")

\* The funds of an operation whose policy asks for the owner are authorized,
\* broadcast or spent, and its bytes signed or sent, only on an approval that an
\* authenticated owner gave and that was consumed, once, for exactly the
\* envelope revision that is authorized.
OwnerAuthorityEndToEnd ==
  \A o \in Operations :
    (/\ PolicyDecision[o] = "REQUIRE_APPROVAL"
     /\ \/ reservation[o].status \in {"AUTHORIZED", "BROADCAST", "FINALIZED"}
        \/ signed[o]
        \/ sent[o])
      => \E a \in ConsumedApprovals(o) :
           /\ ConsumedApprovals(o) = {a}
           /\ ownerAuth[a] = "CONSUMED"
           /\ approval[a].revision = authz[o].revision
           /\ approval[a].fences = authz[o].fences

\* The ledger's probe reads no fence and the control service's probe reads no
\* envelope revision, yet before expiry they always give the same answer.
ProbesAgree ==
  \A o \in Operations :
    ~lapsed[o] =>
      (AuthorizeReservationAccepts(o) <=> RevalidateAuthorizationAccepts(o))

\* The only thing that can abort a pause or a revocation is an orphaned request:
\* still PENDING or APPROVED, while its reservation was disputed or a caller of
\* the lifecycle advance took its operation out of AWAITING_APPROVAL.  No other
\* interleaving of reservations, approvals, expiries, signing and recovery makes
\* a row count or a release guard of invalidateAffectedAuthorizations fail.
ControlBlockedOnlyByOrphan ==
  \A s \in Scopes :
    (fence[s].state = "ACTIVE" /\ ~InvalidationCommits(s))
      => \E a \in PendingApprovals(s) : ~AwaitsDecision(a[1])

-----------------------------------------------------------------------------
(* What the repository's documents say and the code does not do.  TLC refutes   *)
(* each of them on the configurations that the README names.                   *)

\* docs/decisions/ADR-0005: broadcast operations continue reconciliation after a
\* pause or a revocation, so the settlement of one is never locked out.
SettlementStaysPossible ==
  \A o \in Operations :
    reservation[o].status = "BROADCAST" => CanonicalAuthorization(o, "FINALIZED")

\* docs/decisions/ADR-0014: a DISPUTED reservation keeps its funds held.
DisputedFundsAreHeld ==
  \A b \in Budgets :
    account[b].reserved
      = Value(InBudget(WithStatus(LiveStatuses \union {"DISPUTED"}), b))

\* docs/PRODUCT_SPEC.md: pause and revocation are available at any time.
ControlIsAvailable ==
  \A s \in Scopes : fence[s].state = "ACTIVE" => InvalidationCommits(s)

\* docs/decisions/ADR-0005: signed bytes are never broadcast after a pause or a
\* revocation.
SendStep ==
  \A o \in Operations :
    sendAttempt'[o] # sendAttempt[o] /\ sendAttempt'[o] = "STARTED"
      => FencesCurrent(o, authz[o].fences)

NoSendAfterFenceChange == [][SendStep]_vars

\* docs/PRODUCT_SPEC.md: a revocation releases a reservation held before
\* authorization.
RevokedHoldsNothing ==
  \A o \in Operations :
    (\E s \in ScopesOf[o] : fence[s].state = "REVOKED")
      => reservation[o].status # "HELD"

\* docs/plans/PHASE-1.md: recovery lease validity is PostgreSQL time.
ResolutionStep ==
  \A o \in Operations :
    lease[o].state = "ACTIVE" /\ lease'[o].state = "RESOLVED" => lease[o].live

ResolvedOnlyWhileLive == [][ResolutionStep]_vars

=============================================================================
