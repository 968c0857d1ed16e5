----------------------------- MODULE ControlFences -----------------------------
(* packages/approvals/src/control.ts: pausing and resuming the system, and the *)
(* revocation of an owner, an agent or a policy.  One transaction moves the     *)
(* fence and takes back, for every operation in scope, the held funds, the     *)
(* pending approval or the authorization.  If one of them cannot be taken back *)
(* the whole change aborts, and the fence does not move.                        *)
EXTENDS WalletState

InScope(s) == {o \in Operations : s \in ScopesOf[o]}

\* Sensitivity variant: a row whose funds went back counts as held.
HeldBeforeApprovalReleased(s) ==
  {o \in InScope(s) :
     /\ opState[o] \in {"POLICY_FINALIZED", "BUDGET_RESERVED",
                        "ENVELOPE_FINALIZED", "AWAITING_APPROVAL"}
     /\ reservation[o].status \in {"HELD", "RELEASED"}
     /\ ActiveApprovals(o) = {}}

\* Sensitivity variant: earlier states are taken back as well.
HeldBeforeApprovalEarlier(s) ==
  {o \in InScope(s) :
     /\ opState[o] \in {"SIMULATED", "POLICY_FINALIZED", "BUDGET_RESERVED",
                        "ENVELOPE_FINALIZED", "AWAITING_APPROVAL"}
     /\ reservation[o].status = "HELD"
     /\ ActiveApprovals(o) = {}}

\* The three queries of invalidateAffectedAuthorizations.
HeldBeforeApproval(s) ==
  {o \in InScope(s) :
     /\ opState[o] \in {"POLICY_FINALIZED", "BUDGET_RESERVED",
                        "ENVELOPE_FINALIZED", "AWAITING_APPROVAL"}
     /\ reservation[o].status = "HELD"
     /\ ActiveApprovals(o) = {}}

\* Sensitivity variant: only undecided requests are revoked.
PendingApprovalsUndecided(s) ==
  {a \in UNION {ActiveApprovals(o) : o \in InScope(s)} :
     approval[a].status = "PENDING"}

PendingApprovals(s) == UNION {ActiveApprovals(o) : o \in InScope(s)}

\* Sensitivity variant: a pause leaves authorizations to the signer.
AuthorizedOperationsUnlessPause(s) ==
  {o \in InScope(s) :
     /\ s # System
     /\ authz[o].kind # "NONE"
     /\ ~authz[o].invalidated
     /\ opState[o] = "AUTHORIZED"
     /\ reservation[o].status = "AUTHORIZED"}

AuthorizedOperations(s) ==
  {o \in InScope(s) :
     /\ authz[o].kind # "NONE"
     /\ ~authz[o].invalidated
     /\ opState[o] = "AUTHORIZED"
     /\ reservation[o].status = "AUTHORIZED"}

Affected(s) ==
  HeldBeforeApproval(s) \union {a[1] : a \in PendingApprovals(s)}
    \union AuthorizedOperations(s)

\* Every row-count check and release guard on the way succeeds.
InvalidationCommits(s) ==
  /\ \A a \in PendingApprovals(s) :
       /\ opState[a[1]] = "AWAITING_APPROVAL"
       /\ reservation[a[1]].status \in {"HELD", "AUTHORIZED"}
       /\ ActiveApprovals(a[1]) = {a}
  /\ \A o \in Affected(s) : ~SendCapable(o)
  /\ \A b \in Budgets :
       account[b].reserved >= Value(InBudget(Affected(s), b))

\* Sensitivity variant: the command is stored instead of the state.
NextFenceStateAsCommand(s) == IF s = System THEN "PAUSE" ELSE "REVOKE"

NextFenceState(s) ==
  CASE s # System                                  -> "REVOKED"
    [] s = System /\ fence[System].state = "ACTIVE" -> "PAUSED"
    [] OTHER                                        -> "ACTIVE"

StateAfterFence(s) ==
  IF s = System THEN "REVALIDATION_REQUIRED" ELSE "REVOKED"

\* PAUSE and RESUME of the system, REVOKE of any other scope.  A resume may not
\* invalidate: authorization_invalidations accepts no `system.resumed` event.
ChangeControlFence(s) ==
  /\ s = System \/ fence[s].state = "ACTIVE"
  /\ fence[s].version < MaxFenceVersion
  /\ InvalidationCommits(s)
  /\ fence[s].state = "PAUSED" => AuthorizedOperations(s) = {}
  /\ fence' = [fence EXCEPT ![s] = [state |-> NextFenceState(s),
                                    version |-> @.version + 1]]
  /\ opState' = [o \in Operations |->
       IF o \in Affected(s) THEN StateAfterFence(s) ELSE opState[o]]
  /\ PostRelease(Affected(s), "RELEASED")
  /\ approval' = [a \in Approvals |->
       IF a \in PendingApprovals(s) THEN [approval[a] EXCEPT !.status = "REVOKED"]
                                    ELSE approval[a]]
  /\ authz' = [o \in Operations |->
       IF o \in AuthorizedOperations(s)
       THEN [authz[o] EXCEPT !.invalidated = TRUE] ELSE authz[o]]
  /\ UNCHANGED <<revision, lapsed, idempotency, settlementVars, ownerAuth,
                 executionVars>>
  /\ \A o \in Affected(s) : ApprovalOperationConsistent(o)'

\* revalidateAuthorization: the probe of an execution adapter before it signs.
RevalidateAuthorizationAccepts(o) ==
  /\ authz[o].kind # "NONE"
  /\ opState[o] = "AUTHORIZED"
  /\ reservation[o].status = "AUTHORIZED"
  /\ ~lapsed[o]
  /\ ~authz[o].invalidated
  /\ FencesCurrent(o, authz[o].fences)

=============================================================================
