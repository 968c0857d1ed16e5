---------------------------- MODULE SettlementProofs ----------------------------
(* The settlement system for every value of the constants: it inherits the      *)
(* invariants of the control plane, and its books, effects and final states     *)
(* follow the chain, whichever calls stop, race, lose their lock or retry.      *)
EXTENDS Settlement, ControlPlaneAuthority

-----------------------------------------------------------------------------
(* The inductive invariant: what is booked, and what a call in progress knows. *)

Outcome(o) == recovery[AttemptOf[o]].outcome

\* A recovery on record, and the effect of a transfer that took place.
Settled(o) ==
  \/ Outcome(o) = "CONFIRMED" /\ effect[o] = TransferAmount[o]
  \/ Outcome(o) = "FAILED"

\* The books of an operation against the chain, the recovery attempt, the durable
\* evidence and the effect.  A release is tied to the chain for every attempt that
\* can still reach the node: the bytes may arrive after the release.
BooksInv(o) ==
  /\ reservation[o].status = "FINALIZED" =>
       chain[o] = "SUCCESS" /\ reservation[o].spend = TransferAmount[o]
  /\ (SendCapable(o) /\ reservation[o].status \in {"RELEASED", "EXPIRED"}) =>
       chain[o] = "REVERT"
  /\ Outcome(o) = "CONFIRMED" => reservation[o].status = "FINALIZED"
  /\ Outcome(o) = "FAILED" =>
       reservation[o].status = "RELEASED" /\ chain[o] = "REVERT"
  /\ chainEvidence[o] # "NONE" => chainEvidence[o] = chain[o]
  /\ effect[o] # 0 =>
       /\ effect[o] = TransferAmount[o]
       /\ reservation[o].status = "FINALIZED"
       /\ chainEvidence[o] = "SUCCESS"
  /\ opState[o] = "RECONCILED" => Settled(o)

\* What a call saw stays true of the chain, and where it stands tells what is on
\* record already, also when it lost its lock and others went on.
CallInv(w) ==
  LET o == call[w].op  saw == call[w].saw  pc == call[w].pc IN
  pc # "IDLE" =>
    /\ o \in Operations
    /\ saw # "NONE"
    /\ saw \in Outcomes => chain[o] = saw
    /\ pc \in {"CHECK", "MARK", "VERIFY", "PERSIST", "REPLAY"} => saw \in Outcomes
    /\ pc = "REPLAY" => Outcome(o) = OutcomeOf(saw)
    /\ pc = "EFFECT" => Outcome(o) = "CONFIRMED"
    /\ (pc = "ADVANCE" /\ saw # "MISMATCH") => Settled(o)

AllBooks == \A o \in Operations : BooksInv(o)
AllCalls == \A w \in Reconcilers : CallInv(w)

SettlementInv ==
  /\ WalletInv /\ AllAuthority /\ SendInv
  /\ ReconciliationTypeOK
  /\ AllBooks
  /\ AllCalls

-----------------------------------------------------------------------------
(* The invariants of the control plane hold of the settlement system as well.   *)

\* The last step of a call writes only the operation's state, and only to
\* RECONCILED or DISPUTED: no authority, no funds and no attempt change.
LEMMA SettlesKeeps ==
  ASSUME WalletInv, AllAuthority, SendInv,
         NEW o \in Operations, NEW target \in {"DISPUTED", "RECONCILED"},
         Settles(o, target)
  PROVE  WalletInv' /\ AllAuthority' /\ SendInv'
<1> USE DEF Settles
<1>0. opState[o] \in LIFECYCLE_STATES
  BY DEF WalletInv, WalletTypeOK, OperationTypeOK
<1>1. /\ opState'[o] = target
      /\ \A p \in Operations \ {o} : opState'[p] = opState[p]
  BY DEF WalletInv, WalletTypeOK, OperationTypeOK
<1>2. WalletInv'
  <2>1. target \in LIFECYCLE_STATES
    BY DEF LIFECYCLE_STATES
  <2>2. OperationTypeOK'
    BY <2>1 DEF WalletInv, WalletTypeOK, OperationTypeOK
  <2>3. SettlementTypeOK' /\ AuthorityTypeOK' /\ ExecutionTypeOK'
    BY UnchangedTypes DEF WalletInv
  <2>4. AccountingInv'
    BY NextInv DEF WalletInv, moneyVars
  <2> QED BY <2>2, <2>3, <2>4 DEF WalletInv, WalletTypeOK, AccountingInv
<1>3. AuthorityInv(o)'
  <2>1. AuthorityInv(o)
    BY DEF AllAuthority
  <2>2. ExecutorInv(o)'
    BY <1>1, <2>1 DEF AuthorityInv, ExecutorInv, AfterSigning, moneyVars, authorityVars,
                      executionVars
  <2>3. opState'[o] \in AfterAuthorization \ {"AUTHORIZED"}
    BY <1>1 DEF AfterAuthorization, AfterSigning
  <2>4. opState'[o] # "AWAITING_APPROVAL"
    BY <1>1
  <2> QED BY <2>1, <2>2, <2>3, <2>4, StateOnlyKeeps DEF settlementVars
<1>4. ASSUME NEW p \in Operations \ {o} PROVE AuthorityInv(p)'
  <2>1. AuthorityInv(p)
    BY DEF AllAuthority
  <2>2. Untouched(p)
    BY <1>1 DEF Untouched, moneyVars, settlementVars, authorityVars, executionVars
  <2> QED BY <2>1, <2>2, UntouchedKeeps
<1>5. SendInv'
  BY PinsSuffice DEF Pinned, moneyVars, settlementVars
<1> QED BY <1>2, <1>3, <1>4, <1>5 DEF AllAuthority

\* Apart from that step the settlement system does to the wallet's rows only what
\* the services do.
LEMMA StepsAreServices ==
  ASSUME SettlementNext
  PROVE  \/ [Next]_vars
         \/ \E o \in Operations, target \in {"DISPUTED", "RECONCILED"} :
              Settles(o, target)
<1>1. CASE WalletStep
  BY <1>1 DEF WalletStep, HolderStep, Next, LedgerStep, RecoveryStep
<1>2. ASSUME NEW o \in Operations,
             (\E outcome \in Outcomes : Mine(o, outcome)) \/ LockSessionEnds(o)
      PROVE  [Next]_vars
  BY <1>2 DEF Mine, LockSessionEnds
<1>3. ASSUME NEW w \in Reconcilers, ReconcilerStep(w)
      PROVE  \/ [Next]_vars
             \/ \E o \in Operations, target \in {"DISPUTED", "RECONCILED"} :
                  Settles(o, target)
  <2>1. CASE CallThrows(w) \/ CallStops(w)
               \/ \E o \in Operations, saw \in Outcomes \union {"MISMATCH"} :
                    StartCall(w, o, saw)
    BY <2>1 DEF CallThrows, CallStops, StartCall
  <2>2. ASSUME NEW o \in Operations,
               CheckPrior(w, o) \/ PersistVerifiedEvidence(w, o)
                 \/ ReplayStep(w, o) \/ InsertEconomicEffect(w, o)
        PROVE  UNCHANGED vars
    BY <2>2 DEF CheckPrior, PersistVerifiedEvidence, ReplayStep, InsertEconomicEffect
  <2>3. ASSUME NEW o \in Operations,
               MarkStep(w, o) \/ VerifyStep(w, o)
        PROVE  LedgerStep(o) \/ UNCHANGED vars
    <3>1. ReceiptOf[o] \in Receipts
      BY BindingAssumption
    <3> QED BY <2>3, <3>1 DEF MarkStep, VerifyStep, LedgerStep
  <2>4. ASSUME NEW o \in Operations, ClaimStep(w, o) \/ ResolveStep(w, o)
        PROVE  RecoveryStep(o)
    <3>1. /\ ReceiptOf[o] \in Receipts /\ AttemptOf[o] \in AttemptIds
          /\ TransferAmount[o] \in 0..MaxAmount
      BY BindingAssumption, ReconciliationAssumption
    <3>2. CASE ClaimStep(w, o)
      BY <3>2 DEF ClaimStep, RecoveryStep
    <3>3. CASE ResolveStep(w, o)
      <4>1. PICK v \in 1..MaxLeaseVersion :
              \/ ResolveConfirmed(w, o, AttemptOf[o], v, TransferAmount[o], ReceiptOf[o])
              \/ ResolveVerifiedRevert(w, o, AttemptOf[o], v, ReceiptOf[o])
              \/ ResolveDisputed(w, o, AttemptOf[o], v, "CONFLICT")
        BY <3>3 DEF ResolveStep
      <4> QED BY <3>1, <4>1 DEF RecoveryStep
    <3> QED BY <2>4, <3>2, <3>3
  <2>5. ASSUME NEW o \in Operations, AdvanceStep(w, o)
        PROVE  \/ UNCHANGED vars
               \/ \E target \in {"DISPUTED", "RECONCILED"} : Settles(o, target)
    BY <2>5 DEF AdvanceStep
  <2> QED
    BY <1>3, <2>1, <2>2, <2>3, <2>4, <2>5 DEF ReconcilerStep, CallStep, Next
<1> QED BY <1>1, <1>2, <1>3 DEF SettlementNext

\* So the control plane's invariants survive every step of the settlement system.
LEMMA WalletSideKeeps ==
  ASSUME WalletInv, AllAuthority, SendInv, SettlementNext
  PROVE  WalletInv' /\ AllAuthority' /\ SendInv'
<1>1. CASE [Next]_vars
  BY <1>1, NextTypes, NextAuthority, NextSends DEF WalletInv
<1> QED BY <1>1, StepsAreServices, SettlesKeeps

-----------------------------------------------------------------------------
(* What the other services can do to the books. *)

\* Terminal funds stay as they are, and nobody but a reconciler gives back funds
\* behind an attempt that can reach the node.
FundsStep(p) ==
  LET from == reservation[p].status  to == reservation'[p].status IN
  \/ reservation'[p] = reservation[p]
  \/ /\ from \in {"NONE", "HELD", "AUTHORIZED", "BROADCAST"}
     /\ to \in {"HELD", "AUTHORIZED", "BROADCAST", "DISPUTED"}
  \/ /\ from \in {"HELD", "AUTHORIZED"} /\ to \in {"RELEASED", "EXPIRED"}
     /\ ~SendCapable(p) /\ UNCHANGED sendAttempt

SparesBooks(p) ==
  /\ FundsStep(p)
  /\ SendCapable(p)' /\ ~SendCapable(p) => reservation'[p].status = "AUTHORIZED"
  /\ opState'[p] = "RECONCILED" => opState[p] = "RECONCILED"

\* Holders of reservations, and the steps of a call before the resolution, move
\* funds that are not settled yet.
LEMMA HolderSpares ==
  ASSUME WalletTypeOK, NEW o \in Operations, NEW p \in Operations,
         \/ HolderStep(o)
         \/ \E r \in Receipts : MarkReservationBroadcast(o, r)
         \/ VerifyBroadcastEvidence(o)
  PROVE  SparesBooks(p) /\ UNCHANGED recovery
<1> USE DEF SparesBooks, FundsStep, SendCapable, operationVars, settlementVars, executionVars
<1>1. ASSUME NEW status, PostStatus(o, status) \/ PostRelease({o}, status)
               \/ \E b \in Budgets, amount \in 1..MaxAmount :
                    PostReserve(o, b, amount) /\ status = "HELD"
      PROVE  reservation'[o].status = status /\ (p # o => reservation'[p] = reservation[p])
  BY <1>1, PostingMoves DEF Moved
<1>2. ASSUME NEW b \in Budgets, NEW k \in Keys, NEW amount \in 1..MaxAmount,
             ReserveBudget(o, b, k, amount)
      PROVE  SparesBooks(p) /\ UNCHANGED recovery
  BY <1>1, <1>2 DEF ReserveBudget
<1>3. CASE ReleaseReservation(o) \/ ExpireReservation(o)
  BY <1>1, <1>3 DEF ReleaseReservation, ExpireReservation, ReturnFunds
<1>4. CASE DisputeReservation(o)
  BY <1>1, <1>4 DEF DisputeReservation
<1>5. ASSUME NEW r \in Receipts, MarkReservationBroadcast(o, r)
      PROVE  SparesBooks(p) /\ UNCHANGED recovery
  BY <1>1, <1>5 DEF MarkReservationBroadcast
<1>6. CASE VerifyBroadcastEvidence(o)
  BY <1>6 DEF VerifyBroadcastEvidence, moneyVars
<1> QED BY <1>2, <1>3, <1>4, <1>5, <1>6 DEF HolderStep

\* Leases hold no funds.
LEMMA LeaseSpares ==
  ASSUME NEW o \in Operations, NEW p \in Operations, NEW w,
         LeaseLapses(o) \/ ClaimRecoveryLease(w, o)
  PROVE  SparesBooks(p) /\ UNCHANGED recovery
BY DEF LeaseLapses, ClaimRecoveryLease, SparesBooks, FundsStep, SendCapable,
       moneyVars, operationVars, executionVars

\* Requests hold HELD funds, and are closed only without an attempt.
LEMMA ApprovalSpares ==
  ASSUME WalletTypeOK, NEW o \in Operations, ApprovalStep(o)
  PROVE  SparesBooks(o) /\ UNCHANGED recovery
<1> USE DEF SparesBooks, FundsStep, SendCapable, operationVars, settlementVars, executionVars
<1>0. opState \in [Operations -> LIFECYCLE_STATES]
  BY DEF WalletTypeOK, OperationTypeOK
<1>1. ASSUME NEW status, PostStatus(o, status) \/ PostRelease({o}, status)
      PROVE  reservation'[o].status = status
  BY <1>1, PostingMoves DEF Moved
<1>2. ASSUME NEW a \in ApprovalsOf(o), NEW approvalStatus, NEW state \in LIFECYCLE_STATES,
             NEW status \in {"RELEASED", "EXPIRED"}, state # "RECONCILED",
             CloseRequest(a, approvalStatus, state, status),
             UNCHANGED <<settlementVars, executionVars>>
      PROVE  SparesBooks(o) /\ UNCHANGED recovery
  BY <1>0, <1>1, <1>2 DEF CloseRequest, AwaitsDecision, ApprovalsOf
<1>3. {"EXPIRED", "REJECTED", "REVOKED", "REVALIDATION_REQUIRED"} \subseteq LIFECYCLE_STATES
  BY DEF LIFECYCLE_STATES
<1>4. ASSUME NEW a \in ApprovalsOf(o), InvalidateStaleApproval(a) \/ ExpireApproval(a)
               \/ RejectApproval(a) \/ RevokeApproval(a)
      PROVE  SparesBooks(o) /\ UNCHANGED recovery
  BY <1>2, <1>3, <1>4 DEF InvalidateStaleApproval, ExpireApproval, RejectApproval,
     RevokeApproval
<1>5. ASSUME NEW a \in ApprovalsOf(o),
             CreateApprovalRequest(a) \/ AuthenticateOwner(a)
      PROVE  SparesBooks(o) /\ UNCHANGED recovery
  BY <1>0, <1>5 DEF CreateApprovalRequest, AuthenticateOwner, moneyVars, ApprovalsOf
<1>6. ASSUME NEW a \in ApprovalsOf(o), ApproveApproval(a)
      PROVE  SparesBooks(o) /\ UNCHANGED recovery
  BY <1>4, <1>6 DEF ApproveApproval, moneyVars
<1>7. ASSUME NEW a \in ApprovalsOf(o), ConsumeApproval(a)
      PROVE  SparesBooks(o) /\ UNCHANGED recovery
  BY <1>0, <1>1, <1>4, <1>7 DEF ConsumeApproval, AwaitsDecision, ApprovalsOf
<1>8. CASE ReplaceExecutionEnvelope(o)
  BY <1>0, <1>1, <1>8 DEF ReplaceExecutionEnvelope, SupersedeRequest,
     SupersedeAuthorization, AwaitsDecision
<1>9. CASE AuthorizeAutonomous(o)
  BY <1>0, <1>1, <1>9 DEF AuthorizeAutonomous, AutonomousBinding
<1>10. CASE LifetimeLapses(o)
  BY <1>10 DEF LifetimeLapses, moneyVars
<1> QED BY <1>4, <1>5, <1>6, <1>7, <1>8, <1>9, <1>10 DEF ApprovalStep

\* Preparation and execution move no funds, and an attempt starts on AUTHORIZED
\* ones.
LEMMA ExecutionSpares ==
  ASSUME WalletTypeOK, NEW o \in Operations, PreparationStep(o) \/ ExecutionStep(o)
  PROVE  SparesBooks(o) /\ UNCHANGED recovery
<1> USE DEF SparesBooks, FundsStep, operationVars, settlementVars, executionVars, moneyVars
<1>0. /\ opState \in [Operations -> LIFECYCLE_STATES]
      /\ sendAttempt \in [Operations -> {"NONE", "STARTED", "ACCEPTED", "REJECTED",
                                         "UNKNOWN", "CONFLICT"}]
  BY DEF WalletTypeOK, OperationTypeOK, ExecutionTypeOK
<1>1. CASE PreparationStep(o)
  BY <1>0, <1>1, ReconciledAssumption DEF PreparationStep, PersistExecutionEnvelope,
     Transition, AdvanceOperationLifecycle, SendCapable
<1>2. CASE BeginSigning(o) \/ PersistSignedEvidence(o)
  BY <1>0, <1>2 DEF BeginSigning, PersistSignedEvidence, SendCapable
<1>3. CASE RematerializeEvidence(o) \/ NodeAccepts(o) \/ ExecutorStops(o)
  BY <1>3 DEF RematerializeEvidence, NodeAccepts, ExecutorStops, SendCapable
<1>4. CASE StartBroadcastAttempt(o)
  BY <1>4 DEF StartBroadcastAttempt
<1>5. ASSUME NEW status \in {"ACCEPTED", "REJECTED", "UNKNOWN", "CONFLICT"},
             FinishBroadcastAttempt(o, status)
      PROVE  SparesBooks(o) /\ UNCHANGED recovery
  BY <1>0, <1>5 DEF FinishBroadcastAttempt, SendCapable
<1> QED BY <1>1, <1>2, <1>3, <1>4, <1>5 DEF ExecutionStep

\* A fence change releases what no attempt holds.
LEMMA FenceSpares ==
  ASSUME WalletTypeOK, NEW s \in Scopes, ChangeControlFence(s), NEW p \in Operations
  PROVE  SparesBooks(p) /\ UNCHANGED recovery
<1>1. ASSUME p \in Affected(s)
      PROVE  reservation[p].status \in {"HELD", "AUTHORIZED"} /\ ~SendCapable(p)
  BY <1>1 DEF ChangeControlFence, InvalidationCommits, Affected, HeldBeforeApproval,
     AuthorizedOperations
<1>2. /\ p \notin Affected(s) => reservation'[p] = reservation[p]
      /\ p \in Affected(s) => reservation'[p].status = "RELEASED"
  BY DEF ChangeControlFence, PostRelease, WalletTypeOK, AccountingTypeOK
<1>3. UNCHANGED <<sendAttempt, recovery>>
  BY DEF ChangeControlFence, executionVars, settlementVars
<1>4. opState'[p] = "RECONCILED" => opState[p] = "RECONCILED"
  BY DEF ChangeControlFence, StateAfterFence
<1> QED BY <1>1, <1>2, <1>3, <1>4 DEF SparesBooks, FundsStep, SendCapable

\* Every step of the wallet outside reconciliation spares the books.
LEMMA WalletSpares ==
  ASSUME WalletTypeOK, WalletStep, NEW p \in Operations
  PROVE  SparesBooks(p) /\ UNCHANGED recovery
<1>1. ASSUME NEW o \in Operations,
             ApprovalStep(o) \/ PreparationStep(o) \/ ExecutionStep(o)
      PROVE  SparesBooks(p) /\ UNCHANGED recovery
  <2>1. SparesBooks(o) /\ UNCHANGED recovery
    BY <1>1, ApprovalSpares, ExecutionSpares
  <2>2. p # o => SparesBooks(p)
    BY <1>1, ServiceSpares DEF Untouched, SparesBooks, FundsStep, SendCapable
  <2> QED BY <2>1, <2>2
<1> QED BY <1>1, HolderSpares, LeaseSpares, FenceSpares DEF WalletStep

-----------------------------------------------------------------------------
(* Books and calls under the steps of the settlement system. *)

\* What is on record stays on record: chain results, resolutions and effects are
\* written once.
RecordStays ==
  \A o \in Operations :
    /\ chain[o] # "NONE" => chain'[o] = chain[o]
    /\ Outcome(o) # "NONE" => Outcome(o)' = Outcome(o)
    /\ effect[o] # 0 => effect'[o] = effect[o]

\* The amounts are positive, so an effect of that amount is one.
LEMMA AmountIsPositive ==
  ASSUME NEW o \in Operations
  PROVE  TransferAmount[o] \in 1..MaxAmount /\ TransferAmount[o] # 0
BY ReconciliationAssumption

\* A settled operation stays settled.
LEMMA SettledStays ==
  ASSUME RecordStays, NEW o \in Operations, Settled(o)
  PROVE  Settled(o)'
BY AmountIsPositive DEF RecordStays, Settled

\* What a call knows stays true whatever others do.
LEMMA CallStays ==
  ASSUME RecordStays, NEW w \in Reconcilers, CallInv(w), call'[w] = call[w]
  PROVE  CallInv(w)'
<1> SUFFICES ASSUME call[w].pc # "IDLE" PROVE CallInv(w)'
  BY DEF CallInv
<1>1. call[w].op \in Operations
  BY DEF CallInv
<1>2. /\ chain[call[w].op] # "NONE" => chain'[call[w].op] = chain[call[w].op]
      /\ Outcome(call[w].op) # "NONE" => Outcome(call[w].op)' = Outcome(call[w].op)
      /\ Settled(call[w].op) => Settled(call[w].op)'
  BY <1>1, SettledStays DEF RecordStays
<1> QED BY <1>1, <1>2 DEF CallInv, OutcomeOf, Outcomes

\* Steps that spare the books of an operation and write no record keep them.
LEMMA SparedBooks ==
  ASSUME NEW p \in Operations, BooksInv(p), SparesBooks(p), UNCHANGED recovery,
         chain'[p] = chain[p], effect'[p] = effect[p],
         chainEvidence'[p] = chainEvidence[p]
  PROVE  BooksInv(p)'
BY DEF BooksInv, SparesBooks, FundsStep, Outcome, Settled

\* The node's result is new to the books: nothing was settled before it.
LEMMA MineKeeps ==
  ASSUME SettlementInv, NEW o \in Operations, NEW outcome \in Outcomes, Mine(o, outcome)
  PROVE  ReconciliationTypeOK' /\ AllBooks' /\ AllCalls'
<1> USE DEF Mine
<1>1. /\ chain'[o] = outcome /\ chain[o] = "NONE"
      /\ \A p \in Operations \ {o} : chain'[p] = chain[p]
      /\ UNCHANGED <<reservation, recovery, sendAttempt, opState>>
  BY DEF SettlementInv, ReconciliationTypeOK, vars, moneyVars, operationVars,
         settlementVars, executionVars
<1>2. ReconciliationTypeOK'
  BY DEF SettlementInv, ReconciliationTypeOK, Outcomes
<1>3. RecordStays
  BY <1>1 DEF RecordStays, Outcome
<1>4. AllCalls'
  BY <1>3, CallStays DEF SettlementInv, AllCalls
<1>5. ASSUME NEW p \in Operations PROVE BooksInv(p)'
  <2>1. BooksInv(p)
    BY DEF SettlementInv, AllBooks
  <2> QED BY <1>1, <2>1 DEF BooksInv, Outcome, Settled, SendCapable
<1> QED BY <1>2, <1>4, <1>5 DEF AllBooks

\* The end of a call, or of its lock session, leaves no trace in the books.
LEMMA EndKeeps ==
  ASSUME SettlementInv, UNCHANGED <<vars, chain, chainEvidence, effect>>,
         faults' \in 0..MaxFaults, lockHolder' \in [Operations -> Reconcilers \union {None}],
         call' \in [Reconcilers -> CallRows],
         \A w \in Reconcilers : call'[w] \in {call[w], NoCall}
  PROVE  ReconciliationTypeOK' /\ AllBooks' /\ AllCalls'
<1>1. ReconciliationTypeOK'
  BY DEF SettlementInv, ReconciliationTypeOK
<1>2. UNCHANGED <<reservation, recovery, sendAttempt, opState>>
  BY DEF vars, moneyVars, operationVars, settlementVars, executionVars
<1>3. RecordStays
  BY <1>2 DEF RecordStays, Outcome
<1>4. ASSUME NEW w \in Reconcilers PROVE CallInv(w)'
  <2>1. CASE call'[w] = NoCall
    BY <2>1 DEF CallInv, NoCall
  <2>2. CASE call'[w] = call[w]
    BY <1>3, <2>2, CallStays DEF SettlementInv, AllCalls
  <2> QED BY <2>1, <2>2
<1>5. ASSUME NEW p \in Operations PROVE BooksInv(p)'
  <2>1. BooksInv(p)
    BY DEF SettlementInv, AllBooks
  <2> QED BY <1>2, <2>1 DEF BooksInv, Outcome, Settled, SendCapable
<1> QED BY <1>1, <1>4, <1>5 DEF AllBooks, AllCalls

\* What CallEnds writes has its type.
LEMMA CallEndsTyped ==
  ASSUME ReconciliationTypeOK, NEW w \in Reconcilers, CallEnds(w)
  PROVE  /\ lockHolder' \in [Operations -> Reconcilers \union {None}]
         /\ call' \in [Reconcilers -> CallRows]
         /\ \A v \in Reconcilers : call'[v] \in {call[v], NoCall}
<1>1. NoCall \in CallRows
  BY BoundsAssumption DEF NoCall, CallRows
<1> QED BY <1>1 DEF ReconciliationTypeOK, CallEnds

\* A call starts from a verdict about the chain as it is.
LEMMA StartCallKeeps ==
  ASSUME SettlementInv, NEW w \in Reconcilers, NEW o \in Operations,
         NEW saw \in Outcomes \union {"MISMATCH"}, StartCall(w, o, saw)
  PROVE  ReconciliationTypeOK' /\ AllBooks' /\ AllCalls'
<1> DEFINE row == [op |-> o, pc |-> IF saw = "MISMATCH" THEN "CLAIM" ELSE "CHECK",
                   saw |-> saw, version |-> lease[o].version + 1]
<1>1. /\ UNCHANGED <<vars, chain, chainEvidence, effect, faults>>
      /\ lockHolder' = [lockHolder EXCEPT ![o] = w]
      /\ call' = [call EXCEPT ![w] = row]
      /\ saw # "MISMATCH" => saw = chain[o]
  BY DEF StartCall
<1>2. lease[o].version \in 0..MaxLeaseVersion
  BY DEF SettlementInv, WalletInv, WalletTypeOK, SettlementTypeOK, LeaseRows
<1>3. row \in CallRows
  BY <1>2, BoundsAssumption DEF CallRows, Outcomes
<1>4. ReconciliationTypeOK'
  BY <1>1, <1>3 DEF SettlementInv, ReconciliationTypeOK
<1>5. UNCHANGED <<reservation, recovery, sendAttempt, opState>>
  BY <1>1 DEF vars, moneyVars, operationVars, settlementVars, executionVars
<1>6. RecordStays
  BY <1>1, <1>5 DEF RecordStays, Outcome
<1>7. ASSUME NEW v \in Reconcilers PROVE CallInv(v)'
  <2>1. CASE v # w
    <3>1. call'[v] = call[v]
      BY <1>1, <2>1 DEF SettlementInv, ReconciliationTypeOK
    <3> QED BY <1>6, <3>1, CallStays DEF SettlementInv, AllCalls
  <2>2. CASE v = w
    <3>1. call'[w] = row
      BY <1>1 DEF SettlementInv, ReconciliationTypeOK
    <3> QED BY <1>1, <2>2, <3>1 DEF CallInv, Outcomes
  <2> QED BY <2>1, <2>2
<1>8. ASSUME NEW p \in Operations PROVE BooksInv(p)'
  <2>1. BooksInv(p)
    BY DEF SettlementInv, AllBooks
  <2> QED BY <1>1, <1>5, <2>1 DEF BooksInv, Outcome, Settled, SendCapable
<1> QED BY <1>4, <1>7, <1>8 DEF AllBooks, AllCalls

-----------------------------------------------------------------------------
(* The steps of a call. *)

CallPlaces ==
  {"CHECK", "MARK", "VERIFY", "PERSIST", "CLAIM", "RESOLVE", "REFUSED", "REPLAY",
   "EFFECT", "ADVANCE"}

\* A call that moves on keeps what it knows, if its new place promises no more
\* than is on record by then.
LEMMA CallMoves ==
  ASSUME SettlementInv, RecordStays, NEW w \in Reconcilers, NEW o \in Operations,
         NEW from \in CallPlaces, At(w, o, from), NEW pc \in CallPlaces, Goes(w, pc),
         pc \in {"CHECK", "MARK", "VERIFY", "PERSIST", "REPLAY"} => call[w].saw \in Outcomes,
         pc = "REPLAY" => Outcome(o)' = OutcomeOf(call[w].saw),
         pc = "EFFECT" => Outcome(o)' = "CONFIRMED",
         (pc = "ADVANCE" /\ call[w].saw # "MISMATCH") => Settled(o)'
  PROVE  AllCalls' /\ call' \in [Reconcilers -> CallRows]
<1>1. call \in [Reconcilers -> CallRows]
  BY DEF SettlementInv, ReconciliationTypeOK
<1>2. /\ call'[w].op = o /\ call'[w].pc = pc /\ call'[w].saw = call[w].saw
      /\ \A v \in Reconcilers \ {w} : call'[v] = call[v]
  BY <1>1 DEF Goes, At, CallRows
<1>3. call' \in [Reconcilers -> CallRows]
  BY <1>1 DEF Goes, CallRows, CallPlaces
<1>4. CallInv(w)'
  <2>1. call[w].saw # "NONE" /\ (call[w].saw \in Outcomes => chain[o] = call[w].saw)
    BY DEF SettlementInv, AllCalls, CallInv, At, CallPlaces
  <2>2. call[w].saw \in Outcomes => chain'[o] = call[w].saw
    BY <2>1 DEF RecordStays, Outcomes
  <2> QED BY <1>2, <2>1, <2>2 DEF CallInv
<1>5. ASSUME NEW v \in Reconcilers \ {w} PROVE CallInv(v)'
  BY <1>2, CallStays DEF SettlementInv, AllCalls
<1> QED BY <1>3, <1>4, <1>5 DEF AllCalls

\* Steps that only look, and go on.
LEMMA LookKeeps ==
  ASSUME SettlementInv, NEW w \in Reconcilers, NEW o \in Operations,
         CheckPrior(w, o) \/ ReplayStep(w, o)
  PROVE  ReconciliationTypeOK' /\ AllBooks' /\ AllCalls'
<1>1. UNCHANGED <<vars, chain, lockHolder, chainEvidence, effect, faults>>
  BY DEF CheckPrior, ReplayStep
<1>2. UNCHANGED <<reservation, recovery, sendAttempt, opState>>
  BY <1>1 DEF vars, moneyVars, operationVars, settlementVars, executionVars
<1>3. RecordStays
  BY <1>1, <1>2 DEF RecordStays, Outcome
<1>4. CallInv(w)
  BY DEF SettlementInv, AllCalls
<1>5. AllCalls' /\ call' \in [Reconcilers -> CallRows]
  <2>1. CASE CheckPrior(w, o)
    <3>1. call[w].saw \in Outcomes /\ At(w, o, "CHECK")
      BY <1>4, <2>1 DEF CheckPrior, At, CallInv
    <3>2. Goes(w, "MARK") \/ (Goes(w, "REPLAY") /\ Outcome(o)' = OutcomeOf(call[w].saw))
      BY <1>2, <2>1 DEF CheckPrior, Outcome
    <3> QED BY <1>3, <3>1, <3>2, CallMoves DEF CallPlaces
  <2>2. CASE ReplayStep(w, o)
    <3>1. /\ At(w, o, "REPLAY") /\ AfterResolution(w)
          /\ Outcome(o)' = OutcomeOf(call[w].saw) /\ Outcome(o) = Outcome(o)'
          /\ call[w].saw \in Outcomes
      BY <1>2, <1>4, <2>2 DEF ReplayStep, At, CallInv, Outcome
    <3>2. CASE call[w].saw = "SUCCESS"
      <4>1. Goes(w, "EFFECT") /\ Outcome(o)' = "CONFIRMED"
        BY <3>1, <3>2 DEF AfterResolution, OutcomeOf
      <4> QED BY <1>3, <3>1, <4>1, CallMoves DEF CallPlaces
    <3>3. CASE call[w].saw = "REVERT"
      <4>1. Goes(w, "ADVANCE") /\ Settled(o)'
        BY <3>1, <3>3 DEF AfterResolution, OutcomeOf, Settled
      <4> QED BY <1>3, <3>1, <4>1, CallMoves DEF CallPlaces
    <3> QED BY <3>1, <3>2, <3>3 DEF Outcomes
  <2> QED BY <2>1, <2>2
<1>6. ReconciliationTypeOK'
  BY <1>1, <1>5 DEF SettlementInv, ReconciliationTypeOK
<1>7. ASSUME NEW p \in Operations PROVE BooksInv(p)'
  <2>1. BooksInv(p)
    BY DEF SettlementInv, AllBooks
  <2> QED BY <1>1, <1>2, <2>1 DEF BooksInv, Outcome, Settled, SendCapable
<1> QED BY <1>5, <1>6, <1>7 DEF AllBooks

\* Marking, verifying and claiming spare the books.
LEMMA LedgerCallKeeps ==
  ASSUME SettlementInv, NEW w \in Reconcilers, NEW o \in Operations,
         MarkStep(w, o) \/ VerifyStep(w, o) \/ ClaimStep(w, o)
  PROVE  ReconciliationTypeOK' /\ AllBooks' /\ AllCalls'
<1>0. WalletTypeOK /\ CallInv(w)
  BY DEF SettlementInv, WalletInv, AllCalls
<1>1. UNCHANGED <<chain, lockHolder, chainEvidence, effect, faults>>
  BY DEF MarkStep, VerifyStep, ClaimStep
<1>2. ASSUME NEW p \in Operations PROVE SparesBooks(p) /\ UNCHANGED recovery
  <2>1. CASE UNCHANGED vars
    BY <2>1 DEF vars, moneyVars, operationVars, settlementVars, executionVars,
       SparesBooks, FundsStep, SendCapable
  <2>2. ReceiptOf[o] \in Receipts
    BY BindingAssumption
  <2> QED
    BY <1>0, <2>1, <2>2, HolderSpares, LeaseSpares DEF MarkStep, VerifyStep, ClaimStep
<1>3. RecordStays
  BY <1>1, <1>2 DEF RecordStays, Outcome
<1>4. AllCalls' /\ call' \in [Reconcilers -> CallRows]
  <2>1. CASE MarkStep(w, o)
    <3>1. At(w, o, "MARK") /\ Goes(w, "VERIFY") /\ call[w].saw \in Outcomes
      BY <1>0, <2>1 DEF MarkStep, At, CallInv
    <3> QED BY <1>3, <3>1, CallMoves DEF CallPlaces
  <2>2. CASE VerifyStep(w, o)
    <3>1. At(w, o, "VERIFY") /\ Goes(w, "PERSIST") /\ call[w].saw \in Outcomes
      BY <1>0, <2>2 DEF VerifyStep, At, CallInv
    <3> QED BY <1>3, <3>1, CallMoves DEF CallPlaces
  <2>3. CASE ClaimStep(w, o)
    <3>1. At(w, o, "CLAIM") /\ (Goes(w, "RESOLVE") \/ Goes(w, "REFUSED"))
      BY <2>3 DEF ClaimStep
    <3> QED BY <1>3, <3>1, CallMoves DEF CallPlaces
  <2> QED BY <2>1, <2>2, <2>3
<1>5. ReconciliationTypeOK'
  BY <1>1, <1>4 DEF SettlementInv, ReconciliationTypeOK
<1>6. ASSUME NEW p \in Operations PROVE BooksInv(p)'
  BY <1>1, <1>2, SparedBooks DEF SettlementInv, AllBooks
<1> QED BY <1>4, <1>5, <1>6 DEF AllBooks

\* The durable evidence is the chain's result, and is written once.
LEMMA PersistKeeps ==
  ASSUME SettlementInv, NEW w \in Reconcilers, NEW o \in Operations,
         PersistVerifiedEvidence(w, o)
  PROVE  ReconciliationTypeOK' /\ AllBooks' /\ AllCalls'
<1>1. /\ UNCHANGED <<vars, chain, lockHolder, effect, faults>>
      /\ At(w, o, "PERSIST") /\ Goes(w, "CLAIM")
      /\ chainEvidence' = [chainEvidence EXCEPT
           ![o] = IF @ = "NONE" THEN call[w].saw ELSE @]
  BY DEF PersistVerifiedEvidence
<1>2. UNCHANGED <<reservation, recovery, sendAttempt, opState>>
  BY <1>1 DEF vars, moneyVars, operationVars, settlementVars, executionVars
<1>3. call[w].saw \in Outcomes /\ chain[o] = call[w].saw
  BY <1>1 DEF SettlementInv, AllCalls, CallInv, At
<1>4. /\ chainEvidence'[o] = IF chainEvidence[o] = "NONE" THEN chain[o]
                                                        ELSE chainEvidence[o]
      /\ \A p \in Operations \ {o} : chainEvidence'[p] = chainEvidence[p]
      /\ chainEvidence' \in [Operations -> {"NONE", "SUCCESS", "REVERT"}]
  BY <1>1, <1>3 DEF SettlementInv, ReconciliationTypeOK, Outcomes
<1>5. RecordStays
  BY <1>1, <1>2 DEF RecordStays, Outcome
<1>6. AllCalls' /\ call' \in [Reconcilers -> CallRows]
  BY <1>1, <1>5, CallMoves DEF CallPlaces
<1>7. ReconciliationTypeOK'
  BY <1>1, <1>4, <1>6 DEF SettlementInv, ReconciliationTypeOK
<1>8. ASSUME NEW p \in Operations PROVE BooksInv(p)'
  <2>1. BooksInv(p)
    BY DEF SettlementInv, AllBooks
  <2> QED BY <1>1, <1>2, <1>4, <2>1 DEF BooksInv, Outcome, Settled, SendCapable
<1> QED BY <1>6, <1>7, <1>8 DEF AllBooks

\* A resolution is the first for its operation, and no other operation has it.
LEMMA FirstResolution ==
  ASSUME WalletTypeOK, NEW w \in Reconcilers, NEW o \in Operations, NEW v, NEW outcome,
         MayResolve(w, o, AttemptOf[o], v),
         CloseRecovery(w, o, AttemptOf[o], v, outcome)
  PROVE  /\ Outcome(o) = "NONE" /\ Outcome(o)' = outcome
         /\ \A p \in Operations \ {o} : Outcome(p)' = Outcome(p)
         /\ UNCHANGED <<opState, sendAttempt>>
<1>1. AttemptOf[o] \in AttemptIds /\ \A p \in Operations \ {o} : AttemptOf[p] # AttemptOf[o]
  BY ReconciliationAssumption
<1>2. recovery[AttemptOf[o]].outcome = "NONE"
  BY DEF MayResolve, NoAttempt
<1>3. \A p \in Operations : AttemptOf[p] \in AttemptIds
  BY ReconciliationAssumption
<1> QED
  BY <1>1, <1>2, <1>3 DEF CloseRecovery, Outcome, WalletTypeOK, SettlementTypeOK,
     operationVars, executionVars

\* A resolution books what the chain did, as the call saw it; a dispute touches no
\* settled operation.
LEMMA ResolveKeeps ==
  ASSUME SettlementInv, NEW w \in Reconcilers, NEW o \in Operations, ResolveStep(w, o)
  PROVE  ReconciliationTypeOK' /\ AllBooks' /\ AllCalls'
<1>0. WalletTypeOK /\ CallInv(w) /\ BooksInv(o)
  BY DEF SettlementInv, WalletInv, AllCalls, AllBooks
<1>1. /\ UNCHANGED <<chain, lockHolder, chainEvidence, effect, faults>>
      /\ At(w, o, "RESOLVE") /\ AfterResolution(w)
  BY DEF ResolveStep
<1>2. PICK v \in 1..MaxLeaseVersion :
        \/ /\ call[w].saw = "SUCCESS"
           /\ ResolveConfirmed(w, o, AttemptOf[o], v, TransferAmount[o], ReceiptOf[o])
        \/ /\ call[w].saw = "REVERT"
           /\ ResolveVerifiedRevert(w, o, AttemptOf[o], v, ReceiptOf[o])
        \/ /\ call[w].saw = "MISMATCH"
           /\ ResolveDisputed(w, o, AttemptOf[o], v, "CONFLICT")
  BY DEF ResolveStep
<1>3. call[w].saw \in Outcomes => chain[o] = call[w].saw
  BY <1>0, <1>1 DEF CallInv, At
<1>4. opState[o] = "RECONCILED" => Outcome(o) # "NONE"
  BY <1>0 DEF BooksInv, Settled
<1> DEFINE Kept == /\ RecordStays
                   /\ \A p \in Operations : BooksInv(p)'
<1>5. ASSUME NEW outcome, MayResolve(w, o, AttemptOf[o], v),
             CloseRecovery(w, o, AttemptOf[o], v, outcome),
             \A p \in Operations \ {o} : reservation'[p] = reservation[p],
             BooksInv(o)'
      PROVE  Kept
  <2>1. RecordStays
    BY <1>0, <1>1, <1>5, FirstResolution DEF RecordStays
  <2>2. ASSUME NEW p \in Operations \ {o} PROVE BooksInv(p)'
    <3>1. BooksInv(p) /\ Outcome(p)' = Outcome(p) /\ UNCHANGED <<opState, sendAttempt>>
      BY <1>0, <1>5, FirstResolution DEF SettlementInv, AllBooks
    <3> QED BY <1>1, <1>5, <3>1 DEF BooksInv, Settled, SendCapable
  <2> QED BY <1>5, <2>1, <2>2
<1>6. CASE /\ call[w].saw = "SUCCESS"
           /\ ResolveConfirmed(w, o, AttemptOf[o], v, TransferAmount[o], ReceiptOf[o])
  <2>1. /\ MayResolve(w, o, AttemptOf[o], v)
        /\ CloseRecovery(w, o, AttemptOf[o], v, "CONFIRMED")
        /\ PostFinalize(o, TransferAmount[o]) /\ reservation[o].status = "BROADCAST"
    BY <1>6 DEF ResolveConfirmed
  <2>2. /\ reservation'[o].status = "FINALIZED"
        /\ reservation'[o].spend = TransferAmount[o]
        /\ \A p \in Operations \ {o} : reservation'[p] = reservation[p]
    BY <1>0, <2>1 DEF PostFinalize, WalletTypeOK, AccountingTypeOK
  <2>3. /\ Outcome(o) = "NONE" /\ Outcome(o)' = "CONFIRMED"
        /\ UNCHANGED <<opState, sendAttempt>>
    BY <1>0, <2>1, FirstResolution
  <2>4. BooksInv(o)'
    BY <1>0, <1>1, <1>3, <1>4, <1>6, <2>1, <2>2, <2>3 DEF BooksInv, Outcomes
  <2>5. Kept
    BY <1>5, <2>1, <2>2, <2>4
  <2>6. AllCalls' /\ call' \in [Reconcilers -> CallRows]
    <3>1. Goes(w, "EFFECT")
      BY <1>1, <1>6 DEF AfterResolution
    <3> QED BY <1>1, <2>3, <2>5, <3>1, CallMoves DEF CallPlaces
  <2> QED BY <1>1, <2>5, <2>6 DEF SettlementInv, ReconciliationTypeOK, AllBooks
<1>7. CASE /\ call[w].saw = "REVERT"
           /\ ResolveVerifiedRevert(w, o, AttemptOf[o], v, ReceiptOf[o])
  <2>1. /\ MayResolve(w, o, AttemptOf[o], v)
        /\ CloseRecovery(w, o, AttemptOf[o], v, "FAILED")
        /\ PostRelease({o}, "RELEASED") /\ reservation[o].status = "BROADCAST"
    BY <1>7 DEF ResolveVerifiedRevert
  <2>2. /\ reservation'[o].status = "RELEASED"
        /\ \A p \in Operations \ {o} : reservation'[p] = reservation[p]
    BY <1>0, <2>1, PostingMoves DEF Moved
  <2>3. /\ Outcome(o) = "NONE" /\ Outcome(o)' = "FAILED"
        /\ UNCHANGED <<opState, sendAttempt>>
    BY <1>0, <2>1, FirstResolution
  <2>4. BooksInv(o)'
    BY <1>0, <1>1, <1>3, <1>4, <1>7, <2>1, <2>2, <2>3 DEF BooksInv, Outcomes
  <2>5. Kept
    BY <1>5, <2>1, <2>2, <2>4
  <2>6. AllCalls' /\ call' \in [Reconcilers -> CallRows]
    <3>1. Goes(w, "ADVANCE") /\ Settled(o)'
      BY <1>1, <1>7, <2>3 DEF AfterResolution, Settled
    <3> QED BY <1>1, <2>5, <3>1, CallMoves DEF CallPlaces
  <2> QED BY <1>1, <2>5, <2>6 DEF SettlementInv, ReconciliationTypeOK, AllBooks
<1>8. CASE /\ call[w].saw = "MISMATCH"
           /\ ResolveDisputed(w, o, AttemptOf[o], v, "CONFLICT")
  <2>1. /\ MayResolve(w, o, AttemptOf[o], v)
        /\ CloseRecovery(w, o, AttemptOf[o], v, "CONFLICT")
        /\ PostStatus(o, "DISPUTED") /\ reservation[o].spend = 0
    BY <1>8 DEF ResolveDisputed
  <2>2. /\ reservation'[o].status = "DISPUTED"
        /\ \A p \in Operations \ {o} : reservation'[p] = reservation[p]
    BY <1>0, <2>1, PostingMoves DEF Moved
  <2>3. /\ Outcome(o) = "NONE" /\ Outcome(o)' = "CONFLICT"
        /\ UNCHANGED <<opState, sendAttempt>>
    BY <1>0, <2>1, FirstResolution
  <2>4. reservation[o].status # "FINALIZED"
    BY <1>0, <2>1, AmountIsPositive DEF BooksInv
  <2>5. BooksInv(o)'
    BY <1>0, <1>1, <1>4, <2>2, <2>3, <2>4 DEF BooksInv
  <2>6. Kept
    BY <1>5, <2>1, <2>2, <2>5
  <2>7. AllCalls' /\ call' \in [Reconcilers -> CallRows]
    <3>1. Goes(w, "ADVANCE")
      BY <1>1, <1>8 DEF AfterResolution
    <3> QED BY <1>1, <1>8, <2>6, <3>1, CallMoves DEF CallPlaces
  <2> QED BY <1>1, <2>6, <2>7 DEF SettlementInv, ReconciliationTypeOK, AllBooks
<1> QED BY <1>2, <1>6, <1>7, <1>8

\* The effect is written after the booking it repeats.
LEMMA EffectInsertKeeps ==
  ASSUME SettlementInv, NEW w \in Reconcilers, NEW o \in Operations,
         InsertEconomicEffect(w, o)
  PROVE  ReconciliationTypeOK' /\ AllBooks' /\ AllCalls'
<1>1. /\ UNCHANGED <<vars, chain, lockHolder, chainEvidence, faults>>
      /\ At(w, o, "EFFECT") /\ Goes(w, "ADVANCE")
      /\ chainEvidence[o] = "SUCCESS" /\ effect[o] \in {0, TransferAmount[o]}
      /\ effect' = [effect EXCEPT ![o] = TransferAmount[o]]
  BY DEF InsertEconomicEffect
<1>2. UNCHANGED <<reservation, recovery, sendAttempt, opState>>
  BY <1>1 DEF vars, moneyVars, operationVars, settlementVars, executionVars
<1>3. /\ effect'[o] = TransferAmount[o]
      /\ \A p \in Operations \ {o} : effect'[p] = effect[p]
      /\ effect' \in [Operations -> 0..MaxAmount]
  BY <1>1, AmountIsPositive DEF SettlementInv, ReconciliationTypeOK
<1>4. Outcome(o) = "CONFIRMED" /\ Outcome(o)' = "CONFIRMED"
  BY <1>1, <1>2 DEF SettlementInv, AllCalls, CallInv, At, Outcome
<1>5. RecordStays
  BY <1>1, <1>2, <1>3 DEF RecordStays, Outcome
<1>6. AllCalls' /\ call' \in [Reconcilers -> CallRows]
  <2>1. Settled(o)'
    BY <1>3, <1>4 DEF Settled
  <2> QED BY <1>1, <1>5, <2>1, CallMoves DEF CallPlaces
<1>7. ReconciliationTypeOK'
  BY <1>1, <1>3, <1>6 DEF SettlementInv, ReconciliationTypeOK
<1>8. ASSUME NEW p \in Operations PROVE BooksInv(p)'
  <2>1. BooksInv(p)
    BY DEF SettlementInv, AllBooks
  <2> QED BY <1>1, <1>2, <1>3, <1>4, <2>1 DEF BooksInv, Outcome, Settled, SendCapable
<1> QED BY <1>6, <1>7, <1>8 DEF AllBooks

\* RECONCILED is written by a call whose operation is settled.
LEMMA AdvanceKeeps ==
  ASSUME SettlementInv, NEW w \in Reconcilers, NEW o \in Operations, AdvanceStep(w, o)
  PROVE  ReconciliationTypeOK' /\ AllBooks' /\ AllCalls'
<1>1. /\ UNCHANGED <<chain, chainEvidence, effect, faults>>
      /\ At(w, o, "ADVANCE") /\ CallEnds(w)
  BY DEF AdvanceStep
<1>2. /\ UNCHANGED <<reservation, recovery, sendAttempt>>
      /\ \/ UNCHANGED opState
         \/ \E target \in {"DISPUTED", "RECONCILED"} :
              /\ target = "DISPUTED" <=> call[w].saw = "MISMATCH"
              /\ opState' = [opState EXCEPT ![o] = target]
  BY DEF AdvanceStep, Settles, vars, moneyVars, operationVars, settlementVars, executionVars
<1>3. call[w].saw # "MISMATCH" => Settled(o)
  BY <1>1 DEF SettlementInv, AllCalls, CallInv, At
<1>4. ASSUME NEW p \in Operations, opState'[p] = "RECONCILED", opState[p] # "RECONCILED"
      PROVE  Settled(p)
  BY <1>2, <1>3, <1>4 DEF SettlementInv, WalletInv, WalletTypeOK, OperationTypeOK
<1>5. RecordStays
  BY <1>1, <1>2 DEF RecordStays, Outcome
<1>6. /\ lockHolder' \in [Operations -> Reconcilers \union {None}]
      /\ call' \in [Reconcilers -> CallRows]
      /\ \A v \in Reconcilers : call'[v] \in {call[v], NoCall}
  BY <1>1, CallEndsTyped DEF SettlementInv
<1>7. ReconciliationTypeOK'
  BY <1>1, <1>6 DEF SettlementInv, ReconciliationTypeOK
<1>8. ASSUME NEW v \in Reconcilers PROVE CallInv(v)'
  <2>1. CASE call'[v] = NoCall
    BY <2>1 DEF CallInv, NoCall
  <2>2. CASE call'[v] = call[v]
    BY <1>5, <2>2, CallStays DEF SettlementInv, AllCalls
  <2> QED BY <1>6, <2>1, <2>2
<1>9. ASSUME NEW p \in Operations PROVE BooksInv(p)'
  <2>1. BooksInv(p)
    BY DEF SettlementInv, AllBooks
  <2> QED BY <1>1, <1>2, <1>4, <2>1 DEF BooksInv, Outcome, Settled, SendCapable
<1> QED BY <1>7, <1>8, <1>9 DEF AllBooks, AllCalls

-----------------------------------------------------------------------------
(* The theorems. *)

\* Nothing is reserved, mined, resolved or called at first.
LEMMA SettlementInitInv == SettlementInit => SettlementInv
<1> SUFFICES ASSUME SettlementInit PROVE SettlementInv
  OBVIOUS
<1> USE DEF SettlementInit, ReconciliationInit
<1>1. WalletInv /\ AllAuthority
  BY InitTypes, InitInv, InitAuthority DEF Init, WalletInit, WalletInv
<1>2. SendInv
  BY DEF Init, WalletInit, SendInv, SendCapable
<1>3. ReconciliationTypeOK
  <2>1. NoCall \in CallRows
    BY BoundsAssumption DEF NoCall, CallRows
  <2>2. 0 \in 0..MaxAmount /\ 0 \in 0..MaxFaults
    BY ReconciliationAssumption, MaxAmountAssumption
  <2> QED BY <2>1, <2>2 DEF ReconciliationTypeOK
<1>4. AllCalls
  BY DEF AllCalls, CallInv, NoCall
<1>5. ASSUME NEW o \in Operations PROVE BooksInv(o)
  <2>1. Outcome(o) = "NONE"
    BY ReconciliationAssumption DEF Init, WalletInit, NoAttempt, Outcome
  <2>2. reservation[o].status = "NONE" /\ opState[o] # "RECONCILED"
    BY ReconciledAssumption DEF Init, WalletInit, AccountingInit, NoReservation
  <2> QED BY <2>1, <2>2 DEF BooksInv
<1> QED BY <1>1, <1>2, <1>3, <1>4, <1>5 DEF SettlementInv, AllBooks

\* Every step keeps the invariant.
LEMMA SettlementNextInv ==
  ASSUME SettlementInv, [SettlementNext]_settlementSystemVars
  PROVE  SettlementInv'
<1> DEFINE Kept == ReconciliationTypeOK' /\ AllBooks' /\ AllCalls'
<1>1. CASE WalletStep /\ UNCHANGED reconciliationVars
  <2>1. WalletTypeOK
    BY DEF SettlementInv, WalletInv
  <2>2. \A p \in Operations : SparesBooks(p) /\ UNCHANGED recovery
    BY <1>1, <2>1, WalletSpares
  <2>3. RecordStays
    BY <1>1, <2>2 DEF RecordStays, Outcome, reconciliationVars
  <2>4. AllCalls'
    BY <1>1, <2>3, CallStays DEF SettlementInv, AllCalls, reconciliationVars
  <2>5. AllBooks'
    BY <1>1, <2>2, SparedBooks DEF SettlementInv, AllBooks, reconciliationVars
  <2>6. ReconciliationTypeOK'
    BY <1>1 DEF SettlementInv, ReconciliationTypeOK, reconciliationVars
  <2> QED BY <2>4, <2>5, <2>6, <1>1, WalletSideKeeps DEF SettlementInv, SettlementNext
<1>2. ASSUME NEW o \in Operations,
             (\E outcome \in Outcomes : Mine(o, outcome)) \/ LockSessionEnds(o)
      PROVE  Kept
  <2>1. CASE LockSessionEnds(o)
    <3>1. /\ faults' \in 0..MaxFaults /\ UNCHANGED call
          /\ lockHolder' \in [Operations -> Reconcilers \union {None}]
      BY <2>1, ReconciliationAssumption DEF LockSessionEnds, SettlementInv,
         ReconciliationTypeOK
    <3>2. call' \in [Reconcilers -> CallRows]
      BY <3>1 DEF SettlementInv, ReconciliationTypeOK
    <3> QED BY <2>1, <3>1, <3>2, EndKeeps DEF LockSessionEnds
  <2> QED BY <1>2, <2>1, MineKeeps
<1>3. ASSUME NEW w \in Reconcilers, ReconcilerStep(w)
      PROVE  Kept
  <2>1. CASE CallThrows(w) \/ CallStops(w)
    <3>1. /\ lockHolder' \in [Operations -> Reconcilers \union {None}]
          /\ call' \in [Reconcilers -> CallRows]
          /\ \A v \in Reconcilers : call'[v] \in {call[v], NoCall}
      BY <2>1, CallEndsTyped DEF CallThrows, CallStops, SettlementInv
    <3>2. faults' \in 0..MaxFaults /\ UNCHANGED <<vars, chain, chainEvidence, effect>>
      BY <2>1, ReconciliationAssumption DEF CallThrows, CallStops, SettlementInv,
         ReconciliationTypeOK
    <3> QED BY <3>1, <3>2, EndKeeps
  <2>2. CASE CallStep(w)
    BY <2>2, LookKeeps, LedgerCallKeeps, PersistKeeps, ResolveKeeps,
       EffectInsertKeeps, AdvanceKeeps DEF CallStep
  <2> QED BY <1>3, <2>1, <2>2, StartCallKeeps DEF ReconcilerStep
<1>4. CASE UNCHANGED settlementSystemVars
  <2>1. UNCHANGED <<vars, chain, call, lockHolder, chainEvidence, effect, faults>>
    BY <1>4 DEF settlementSystemVars, reconciliationVars
  <2>2. Kept
    BY <2>1, EndKeeps DEF SettlementInv, ReconciliationTypeOK
  <2>3. WalletInv' /\ AllAuthority' /\ SendInv'
    BY <2>1, NextTypes, NextAuthority, NextSends DEF SettlementInv, WalletInv
  <2> QED BY <2>2, <2>3 DEF SettlementInv
<1>5. CASE SettlementNext
  <2>1. WalletInv' /\ AllAuthority' /\ SendInv'
    BY <1>5, WalletSideKeeps DEF SettlementInv
  <2> QED BY <1>1, <1>2, <1>3, <1>5, <2>1 DEF SettlementNext, SettlementInv
<1> QED BY <1>4, <1>5

\* The invariant holds in every behaviour of services, execution and reconcilers:
\* with it all that ControlPlaneAuthority concludes from AllAuthority.
THEOREM SettlementHolds == SettlementSpec => []SettlementInv
BY SettlementInitInv, SettlementNextInv, PTL DEF SettlementSpec

\* Spend is booked only for a transfer that the chain carried out, and funds behind
\* sent bytes come back only when the chain reverted them, whatever crashed, raced
\* or retried.
THEOREM BooksFollowChain == SettlementSpec => []LedgerAgreesWithChain
<1>1. SettlementInv => LedgerAgreesWithChain
  BY DEF SettlementInv, SendInv, AllBooks, BooksInv, LedgerAgreesWithChain
<1> QED BY <1>1, SettlementHolds, PTL

\* An economic effect repeats a booking that exists, at its amount, on durable
\* evidence of success.
THEOREM EffectsRepeatBookings == SettlementSpec => []EffectMatchesBooking
<1>1. SettlementInv => EffectMatchesBooking
  BY DEF SettlementInv, AllBooks, BooksInv, EffectMatchesBooking
<1> QED BY <1>1, SettlementHolds, PTL

\* No order of stopped, retried and concurrent calls reaches RECONCILED with a part
\* missing: the booking, or the effect of a transfer that took place.
THEOREM ReconciledMeansDone == SettlementSpec => []ReconciledIsComplete
<1>1. SettlementInv => ReconciledIsComplete
  <2> SUFFICES ASSUME SettlementInv, NEW o \in Operations, opState[o] = "RECONCILED"
               PROVE  \/ /\ chain[o] = "SUCCESS"
                         /\ reservation[o].status = "FINALIZED"
                         /\ effect[o] = TransferAmount[o]
                      \/ /\ chain[o] = "REVERT"
                         /\ reservation[o].status = "RELEASED"
                         /\ effect[o] = 0
    BY DEF ReconciledIsComplete
  <2>1. BooksInv(o)
    BY DEF SettlementInv, AllBooks
  <2> QED BY <2>1 DEF BooksInv, Settled
<1> QED BY <1>1, SettlementHolds, PTL

=============================================================================
