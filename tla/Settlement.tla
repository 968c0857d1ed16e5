------------------------------- MODULE Settlement -------------------------------
(* The control plane, the execution child and the reconcilers together, from   *)
(* the reservation to the reconciled operation.  In this composition the       *)
(* recovery part of the ledger is called by reconcilers only.                  *)
EXTENDS ControlPlane, Reconciliation

CONSTANT Retrying   \* the reconcilers whose caller repeats an unfinished call

ASSUME RetryingAssumption == Retrying \subseteq Reconcilers

\* RECONCILED is written by reconciliation.ts alone: nobody else asks the general
\* lifecycle advance for it, and no operation starts there.
ASSUME ReconciledAssumption == "RECONCILED" \notin AdvanceTargets \union InitialStates

settlementSystemVars == <<vars, reconciliationVars>>

Outcomes == {"SUCCESS", "REVERT"}

SettlementInit == Init /\ ReconciliationInit

\* Callers of the ledger other than reconcilers.
HolderStep(o) ==
  \/ \E b \in Budgets, k \in Keys, amount \in 1..MaxAmount :
       ReserveBudget(o, b, k, amount)
  \/ ReleaseReservation(o)
  \/ ExpireReservation(o)
  \/ DisputeReservation(o)

WalletStep ==
  \/ \E o \in Operations :
       \/ HolderStep(o)
       \/ ApprovalStep(o)
       \/ PreparationStep(o)
       \/ ExecutionStep(o)
       \/ LeaseLapses(o)
  \/ \E s \in Scopes : ChangeControlFence(s)

ReconcilerStep(w) ==
  \/ \E o \in Operations, saw \in Outcomes \union {"MISMATCH"} :
       StartCall(w, o, saw)
  \/ CallStep(w)
  \/ CallThrows(w)
  \/ CallStops(w)

SettlementNext ==
  \/ WalletStep /\ UNCHANGED reconciliationVars
  \/ \E o \in Operations :
       \/ \E outcome \in Outcomes : Mine(o, outcome)
       \/ LockSessionEnds(o)
  \/ \E w \in Reconcilers : ReconcilerStep(w)

SettlementSpec == SettlementInit /\ [][SettlementNext]_settlementSystemVars

\* A running process takes its next step or fails at it: one of CallStep and
\* CallThrows is enabled while a call is open, and both change it, so that this is
\* weak fairness of their disjunction.
CallProceeds(w) ==
  []<>(call[w] = NoCall) \/ []<><<call[w] # NoCall>>_(call[w])

\* A running process goes on; time passes; and a caller that retries gets the lock
\* sooner or later (PostgreSQL grants an advisory lock to its waiters in the order
\* they came).
Fairness ==
  /\ \A o \in Operations : WF_lease(LeaseLapses(o))
  /\ \A w \in Reconcilers : CallProceeds(w)
  /\ \A w \in Retrying, o \in Operations :
       SF_call(\E saw \in Outcomes : StartCall(w, o, saw))

FairSettlementSpec == SettlementSpec /\ Fairness

-----------------------------------------------------------------------------
(* Safety. *)

\* The books follow the chain: spend is booked only for a transfer that the
\* chain carried out, and the funds behind sent bytes come back to the budget
\* only when the chain reverted them, whatever crashed, raced or retried.
LedgerAgreesWithChain ==
  \A o \in Operations :
    /\ reservation[o].status = "FINALIZED" => chain[o] = "SUCCESS"
    /\ sent[o] /\ reservation[o].status \in {"RELEASED", "EXPIRED"} => chain[o] = "REVERT"

\* An economic effect is recorded once per transfer, for the amount the ledger
\* booked, and only after that booking (execution_economic_effects).
EffectMatchesBooking ==
  \A o \in Operations :
    effect[o] # 0 =>
      /\ reservation[o].status = "FINALIZED"
      /\ reservation[o].spend = effect[o]
      /\ chainEvidence[o] = "SUCCESS"

\* RECONCILED is the end: no call can reach it with a part still missing, in
\* whatever order the steps of crashed, retried and concurrent calls came.
ReconciledIsComplete ==
  \A o \in Operations :
    opState[o] = "RECONCILED" =>
      \/ /\ chain[o] = "SUCCESS"
         /\ reservation[o].status = "FINALIZED"
         /\ effect[o] = TransferAmount[o]
      \/ /\ chain[o] = "REVERT"
         /\ reservation[o].status = "RELEASED"
         /\ effect[o] = 0

-----------------------------------------------------------------------------
(* Liveness. *)

\* Where a transfer that may have executed comes to rest.
AtRest(o) == opState[o] = "RECONCILED" \/ reservation[o].status = "DISPUTED"

\* A fence moved after the authorization: the trigger of migration 0023 lets the
\* reservation become neither BROADCAST nor FINALIZED (run settlement_lockout).
FenceLockout(o) ==
  /\ ~FencesCurrent(o, authz[o].fences)
  /\ \/ reservation[o].status = "AUTHORIZED"
     \/ reservation[o].status = "BROADCAST" /\ chain[o] = "SUCCESS"

\* A caller of preparation.ts advanced the sent operation itself: to a state that
\* the reconciler's path does not begin at, or to BROADCAST before the reservation
\* was settled, which the evidence calls refuse.
AdvanceLockout(o) ==
  \/ opState[o] \notin {"SIGNED", "BROADCAST", "RECONCILED"}
  \/ opState[o] = "BROADCAST" /\ reservation[o].status \in {"AUTHORIZED", "BROADCAST"}

\* The transfer moved more than was reserved, and no CONFIRMED resolution may
\* book more than that (run overspend).
AmountLockout(o) ==
  /\ chain[o] = "SUCCESS"
  /\ TransferAmount[o] > reservation[o].amount
  /\ reservation[o].status \in {"AUTHORIZED", "BROADCAST"}

LockedOut(o) == FenceLockout(o) \/ AdvanceLockout(o) \/ AmountLockout(o)

\* A mined transfer whose attempt the database knows of: what a call can settle.
Settleable(o) == chain[o] # "NONE" /\ sendAttempt[o] \in {"ACCEPTED", "UNKNOWN"}

\* A mined transfer whose attempt is known to the database is settled in the end,
\* whichever steps were cut off by a stopped process, an expired lease or a lost
\* lock session, as long as callers retry.  Only the three lockouts stop it, and
\* what they stop they stop for ever.
SettlementCompletes ==
  \A o \in Operations :
    []<>Settleable(o) => <>[]AtRest(o) \/ <>[]LockedOut(o)

-----------------------------------------------------------------------------
(* What the documents say and the code does not do. *)

\* docs/decisions/ADR-0011: ambiguous outcomes terminate in DISPUTED for
\* operator review.
ConflictEndsDisputed ==
  \A o \in Operations :
    recovery[AttemptOf[o]].outcome = "CONFLICT"
      ~> opState[o] \in {"DISPUTED", "RECONCILED"}

\* docs/decisions/ADR-0014: duplicate attempts return the original result, so a
\* second worker can carry a resolved recovery to its economic effect.
DuplicateResumes ==
  \A o \in Operations :
    recovery[AttemptOf[o]].outcome = "CONFIRMED" ~> effect[o] # 0

\* docs/PRODUCT_SPEC.md: spend never exceeds allocation, on the chain too.
ChainSpendWithinAllocation ==
  \A b \in Budgets :
    LET moved == {o \in Operations : chain[o] = "SUCCESS"
                                       /\ reservation[o].budget = b}
    IN  Cardinality(UnitsOf(moved, TransferAmount)) <= Allocated[b]

=============================================================================
