----------------------------- MODULE Reconciliation -----------------------------
(* adapters/local-anvil/src/reconciliation.ts: one call reads the chain's      *)
(* answer about one broadcast attempt and drives the ledger, the durable chain *)
(* evidence, the economic effect and the operation to their end.  Each step of *)
(* a call is one database transaction; between two of them the process may     *)
(* stop, or its lock session may end and a second call start.  The recovery    *)
(* attempt has the id of the broadcast attempt, so there is one per operation. *)
EXTENDS BudgetLedger, Preparation

CONSTANTS
  AttemptOf,       \* [Operations -> AttemptIds]: broadcast_attempts.attempt_id
  TransferAmount,  \* [Operations -> Nat]: decodedArguments.amountAtomic
  MaxFaults        \* bound: stopped processes and lost lock sessions

ASSUME ReconciliationAssumption ==
  /\ AttemptOf \in [Operations -> AttemptIds]
  /\ \A o, p \in Operations : AttemptOf[o] = AttemptOf[p] => o = p
  /\ TransferAmount \in [Operations -> 1..MaxAmount]
  /\ MaxFaults \in Nat

VARIABLES
  chain,          \* what the node did with the sent bytes (external)
  call,           \* the reconciler's call in progress
  lockHolder,     \* pg_advisory_lock of the operation
  chainEvidence,  \* chain_transaction/receipt/transfer_log evidence rows
  effect,         \* execution_economic_effects.amount_atomic, 0 without a row
  faults          \* faults so far

reconciliationVars ==
  <<chain, call, lockHolder, chainEvidence, effect, faults>>

NoCall == [op |-> None, pc |-> "IDLE", saw |-> "NONE", version |-> 0]

CallRows == [op      : Operations \union {None},
             pc      : {"IDLE", "CHECK", "MARK", "VERIFY", "PERSIST", "CLAIM",
                        "RESOLVE", "REFUSED", "REPLAY", "EFFECT", "ADVANCE"},
             saw     : {"NONE", "SUCCESS", "REVERT", "MISMATCH"},
             version : 0..(MaxLeaseVersion + 1)]

\* Calls, locks, chain results and evidence rows stay within their values.
ReconciliationTypeOK ==
  /\ chain \in [Operations -> {"NONE", "SUCCESS", "REVERT"}]
  /\ call \in [Reconcilers -> CallRows]
  /\ lockHolder \in [Operations -> Reconcilers \union {None}]
  /\ chainEvidence \in [Operations -> {"NONE", "SUCCESS", "REVERT"}]
  /\ effect \in [Operations -> 0..MaxAmount]
  /\ faults \in 0..MaxFaults

ReconciliationInit ==
  /\ chain         = [o \in Operations |-> "NONE"]
  /\ call          = [w \in Reconcilers |-> NoCall]
  /\ lockHolder    = [o \in Operations |-> None]
  /\ chainEvidence = [o \in Operations |-> "NONE"]
  /\ effect        = [o \in Operations |-> 0]
  /\ faults        = 0

\* The node mines the bytes it took, once and finally: automine, one local node.
Mine(o, outcome) ==
  /\ sent[o]
  /\ chain[o] = "NONE"
  /\ chain' = [chain EXCEPT ![o] = outcome]
  /\ UNCHANGED <<vars, call, lockHolder, chainEvidence, effect, faults>>

-----------------------------------------------------------------------------
(* A call and its control flow. *)

At(w, o, pc) == call[w].op = o /\ call[w].pc = pc

Goes(w, pc) == call' = [call EXCEPT ![w].pc = pc]

\* Sensitivity variant: the lock is released by a call that reached its end only.
CallEndsLocked(w) ==
  /\ call' = [call EXCEPT ![w] = NoCall]
  /\ lockHolder' = [o \in Operations |->
                      IF At(w, o, "ADVANCE") THEN None ELSE lockHolder[o]]

\* The call returns or throws; `finally` releases the lock if it still holds it.
CallEnds(w) ==
  /\ call' = [call EXCEPT ![w] = NoCall]
  /\ lockHolder' = [o \in Operations |->
                      IF lockHolder[o] = w THEN None ELSE lockHolder[o]]

\* reconcileLocalChainEvidence up to the branch on the verdict.  `saw` is what
\* verifyUntrustedChainEvidence (module ChainEvidence) makes of the RPC payloads:
\* a chain result only when it is the chain's, a mismatch at any time, also when
\* the receipt is not there yet.  The caller signed the resolution beforehand for
\* the lease version it expects.  Verdicts that return at once change nothing.
StartCall(w, o, saw) ==
  /\ call[w] = NoCall
  /\ lockHolder[o] = None
  /\ sendAttempt[o] \in {"ACCEPTED", "UNKNOWN"}
  /\ saw # "MISMATCH" => saw = chain[o]
  /\ opState[o] # "RECONCILED"
  /\ ~(saw = "MISMATCH" /\ opState[o] = "DISPUTED")
  /\ lockHolder' = [lockHolder EXCEPT ![o] = w]
  /\ call' = [call EXCEPT ![w] =
                [op      |-> o,
                 pc      |-> IF saw = "MISMATCH" THEN "CLAIM" ELSE "CHECK",
                 saw     |-> saw,
                 version |-> lease[o].version + 1]]
  /\ UNCHANGED <<vars, chain, chainEvidence, effect, faults>>

OutcomeOf(saw) ==
  CASE saw = "SUCCESS" -> "CONFIRMED" [] saw = "REVERT" -> "FAILED"
    [] OTHER -> "CONFLICT"

\* loadResolvedRecovery: a resolution of the other outcome makes the call throw.
CheckPrior(w, o) ==
  /\ At(w, o, "CHECK")
  /\ \/ /\ recovery[AttemptOf[o]] = NoAttempt
        /\ Goes(w, "MARK")
     \/ /\ recovery[AttemptOf[o]].outcome = OutcomeOf(call[w].saw)
        /\ Goes(w, "REPLAY")
  /\ UNCHANGED <<vars, chain, lockHolder, chainEvidence, effect, faults>>

\* A reservation already BROADCAST with the same evidence is returned as it is.
MarkStep(w, o) ==
  /\ At(w, o, "MARK")
  /\ \/ MarkReservationBroadcast(o, ReceiptOf[o])
     \/ /\ reservation[o].status = "BROADCAST"
        /\ CanonicalEvidence(o, {"AUTHORIZED", "SIGNING", "SIGNED"})
        /\ evidence[o].receipt = ReceiptOf[o]
        /\ UNCHANGED vars
  /\ Goes(w, "VERIFY")
  /\ UNCHANGED <<chain, lockHolder, chainEvidence, effect, faults>>

VerifyStep(w, o) ==
  /\ At(w, o, "VERIFY")
  /\ \/ VerifyBroadcastEvidence(o)
     \/ /\ reservation[o].status = "BROADCAST"
        /\ evidence[o].status = "VERIFIED"
        /\ UNCHANGED vars
  /\ Goes(w, "PERSIST")
  /\ UNCHANGED <<chain, lockHolder, chainEvidence, effect, faults>>

\* Sensitivity variant: the effect goes in with the evidence it is derived from.
PersistVerifiedEvidenceAndEffect(w, o) ==
  /\ At(w, o, "PERSIST")
  /\ chainEvidence' = [chainEvidence EXCEPT ![o] = call[w].saw]
  /\ effect' = [effect EXCEPT ![o] =
                  IF call[w].saw = "SUCCESS" THEN TransferAmount[o] ELSE @]
  /\ Goes(w, "CLAIM")
  /\ UNCHANGED <<vars, chain, lockHolder, faults>>

\* Rows of an earlier call for the same transaction are kept.
PersistVerifiedEvidence(w, o) ==
  /\ At(w, o, "PERSIST")
  /\ sendAttempt[o] \in {"ACCEPTED", "UNKNOWN"}
  /\ chainEvidence' = [chainEvidence EXCEPT
       ![o] = IF @ = "NONE" THEN call[w].saw ELSE @]
  /\ Goes(w, "CLAIM")
  /\ UNCHANGED <<vars, chain, lockHolder, effect, faults>>

\* The lease it gets may have another version than the one it signed for.
ClaimStep(w, o) ==
  /\ At(w, o, "CLAIM")
  /\ ClaimRecoveryLease(w, o)
  /\ Goes(w, IF lease[o].version + 1 = call[w].version
             THEN "RESOLVE" ELSE "REFUSED")
  /\ UNCHANGED <<chain, lockHolder, chainEvidence, effect, faults>>

AfterResolution(w) ==
  Goes(w, IF call[w].saw = "SUCCESS" THEN "EFFECT" ELSE "ADVANCE")

ResolveStep(w, o) ==
  /\ At(w, o, "RESOLVE")
  /\ \E v \in 1..MaxLeaseVersion :
       /\ v = call[w].version
       /\ \/ /\ call[w].saw = "SUCCESS"
             /\ ResolveConfirmed(w, o, AttemptOf[o], v, TransferAmount[o],
                                 ReceiptOf[o])
          \/ /\ call[w].saw = "REVERT"
             /\ ResolveVerifiedRevert(w, o, AttemptOf[o], v, ReceiptOf[o])
          \/ /\ call[w].saw = "MISMATCH"
             /\ ResolveDisputed(w, o, AttemptOf[o], v, "CONFLICT")
  /\ AfterResolution(w)
  /\ UNCHANGED <<chain, lockHolder, chainEvidence, effect, faults>>

\* Sensitivity variant: a resolved recovery is taken for a finished one.
ReplayStepFinished(w, o) ==
  /\ At(w, o, "REPLAY")
  /\ Goes(w, "ADVANCE")
  /\ UNCHANGED <<vars, chain, lockHolder, chainEvidence, effect, faults>>

\* resolveRecovery again with the stored resolution: the hash that must match
\* covers the credential, so only the worker that resolved may go on.
ReplayStep(w, o) ==
  /\ At(w, o, "REPLAY")
  /\ recovery[AttemptOf[o]].worker = w
  /\ AfterResolution(w)
  /\ UNCHANGED <<vars, chain, lockHolder, chainEvidence, effect, faults>>

\* INSERT ... ON CONFLICT (operation_id) DO NOTHING, from the receipt evidence.
InsertEconomicEffect(w, o) ==
  /\ At(w, o, "EFFECT")
  /\ chainEvidence[o] = "SUCCESS"
  /\ effect[o] \in {0, TransferAmount[o]}
  /\ effect' = [effect EXCEPT ![o] = TransferAmount[o]]
  /\ Goes(w, "ADVANCE")
  /\ UNCHANGED <<vars, chain, lockHolder, chainEvidence, faults>>

\* advanceOperationLifecycle: the whole path in one transaction, hop by hop
\* against the table.  Only a path that begins at SIGNED or at BROADCAST gets
\* through to RECONCILED.
Settles(o, target) ==
  /\ IF target = "DISPUTED"
     THEN "DISPUTED" \in LIFECYCLE_TRANSITIONS[opState[o]]
     ELSE opState[o] \in {"SIGNED", "BROADCAST"}
  /\ opState' = [opState EXCEPT ![o] = target]
  /\ UNCHANGED <<moneyVars, revision, lapsed, idempotency, settlementVars,
                 fence, authorityVars, executionVars>>

AdvanceStep(w, o) ==
  /\ At(w, o, "ADVANCE")
  /\ \E target \in {"DISPUTED", "RECONCILED"} :
       /\ target = "DISPUTED" <=> call[w].saw = "MISMATCH"
       /\ \/ Settles(o, target)
          \/ opState[o] \in {target, "RECONCILED"} /\ UNCHANGED vars
  /\ CallEnds(w)
  /\ UNCHANGED <<chain, chainEvidence, effect, faults>>

CallStep(w) == \E o \in Operations :
  \/ CheckPrior(w, o)
  \/ MarkStep(w, o)
  \/ VerifyStep(w, o)
  \/ PersistVerifiedEvidence(w, o)
  \/ ClaimStep(w, o)
  \/ ResolveStep(w, o)
  \/ ReplayStep(w, o)
  \/ InsertEconomicEffect(w, o)
  \/ AdvanceStep(w, o)

-----------------------------------------------------------------------------
(* How a call ends early. *)

NoStepAccepted(w) == ~ENABLED CallStep(w)

\* The next step is refused: its error leaves the call.
CallThrows(w) ==
  /\ call[w] # NoCall
  /\ NoStepAccepted(w)
  /\ CallEnds(w)
  /\ UNCHANGED <<vars, chain, chainEvidence, effect, faults>>

\* The process stops between two steps; its session and its lock go with it.
CallStops(w) ==
  /\ call[w] # NoCall
  /\ faults < MaxFaults
  /\ faults' = faults + 1
  /\ CallEnds(w)
  /\ UNCHANGED <<vars, chain, chainEvidence, effect>>

\* Only the session that holds the lock ends: the call goes on without it.
LockSessionEnds(o) ==
  /\ lockHolder[o] # None
  /\ faults < MaxFaults
  /\ faults' = faults + 1
  /\ lockHolder' = [lockHolder EXCEPT ![o] = None]
  /\ UNCHANGED <<vars, chain, call, chainEvidence, effect>>

=============================================================================
