------------------------------- MODULE Execution -------------------------------
(* adapters/local-anvil: one execution child per operation, under the advisory *)
(* lock of execution-store.ts, revalidates the authorization, signs, records   *)
(* the signed transaction, records a broadcast attempt, and only then sends.   *)
(* Between any two of these steps the control plane goes on, and the child may *)
(* stop; a later child starts from the rows it left.                           *)
EXTENDS WalletState

CONSTANT Executed   \* bound: the operations somebody asks to execute

ASSUME ExecutedAssumption == Executed \subseteq Operations

\* assertCurrentSigningAuthority, inside beginSigning and persistSignedEvidence.
SigningAuthority(o) ==
  /\ opState[o] \in {"AUTHORIZED", "SIGNING"}
  /\ reservation[o].status = "AUTHORIZED"
  /\ authz[o].kind # "NONE"
  /\ ~authz[o].invalidated
  /\ authz[o].revision = revision[o]
  /\ authz[o].kind = "OWNER_APPROVAL" => ConsumedApprovals(o) # {}
  /\ ~lapsed[o]
  /\ FencesCurrent(o, authz[o].fences)

\* One child at a time holds the advisory lock of an operation, and with an
\* attempt on record it only reports that attempt.
TakesLock(o) ==
  /\ o \in Executed
  /\ executor[o] = "IDLE"
  /\ sendAttempt[o] = "NONE"

\* No attempt and no signed transaction yet: sign from the beginning.
BeginSigning(o) ==
  /\ TakesLock(o)
  /\ ~signed[o]
  /\ SigningAuthority(o)
  /\ opState' = [opState EXCEPT ![o] = "SIGNING"]
  /\ executor' = [executor EXCEPT ![o] = "SIGNING"]
  /\ UNCHANGED <<moneyVars, revision, lapsed, idempotency, settlementVars,
                 fence, authorityVars, signed, sendAttempt, sent>>
  /\ ApprovalOperationConsistent(o)'

PersistSignedEvidence(o) ==
  /\ executor[o] = "SIGNING"
  /\ SigningAuthority(o)
  /\ signed' = [signed EXCEPT ![o] = TRUE]
  /\ opState' = [opState EXCEPT ![o] = "SIGNED"]
  /\ executor' = [executor EXCEPT ![o] = "MATERIAL"]
  /\ UNCHANGED <<moneyVars, revision, lapsed, idempotency, settlementVars,
                 fence, authorityVars, sendAttempt, sent>>
  /\ ApprovalOperationConsistent(o)'

\* The checks of signAuthorizedTransferCore.  Its expiry checks read the child's
\* clock, not the database's.
StandingAuthority(o) ==
  /\ authz[o].kind # "NONE"
  /\ ~authz[o].invalidated
  /\ authz[o].revision = revision[o]
  /\ authz[o].kind = "OWNER_APPROVAL" => ConsumedApprovals(o) # {}
  /\ reservation[o].status = "AUTHORIZED"
  /\ opState[o] \in {"AUTHORIZED", "SIGNING", "SIGNED"}
  /\ FencesCurrent(o, authz[o].fences)

\* A signed transaction without an attempt: sign the same bytes again.
RematerializeEvidence(o) ==
  /\ TakesLock(o)
  /\ signed[o]
  /\ StandingAuthority(o)
  /\ executor' = [executor EXCEPT ![o] = "MATERIAL"]
  /\ UNCHANGED <<moneyVars, operationVars, idempotency, settlementVars, fence,
                 authorityVars, signed, sendAttempt, sent>>

\* Reads the reservation, not the fences; an attempt that exists is returned.
StartBroadcastAttempt(o) ==
  /\ executor[o] = "MATERIAL"
  /\ reservation[o].status = "AUTHORIZED"
  /\ sendAttempt[o] = "NONE"
  /\ sendAttempt' = [sendAttempt EXCEPT ![o] = "STARTED"]
  /\ executor' = [executor EXCEPT ![o] = "SENDING"]
  /\ UNCHANGED <<moneyVars, operationVars, idempotency, settlementVars, fence,
                 authorityVars, signed, sent>>

\* sender.sendRawTransaction reaches the node, whatever answer comes back: also
\* after the child stopped waiting, or stopped, with the bytes on the wire.
NodeAccepts(o) ==
  /\ sendAttempt[o] \in {"STARTED", "UNKNOWN", "CONFLICT"}
  /\ ~sent[o]
  /\ sent' = [sent EXCEPT ![o] = TRUE]
  /\ UNCHANGED <<moneyVars, operationVars, idempotency, settlementVars, fence,
                 authorityVars, signed, sendAttempt, executor>>

\* The answer is classified: the expected hash, another hash, a proof that the
\* node refused the bytes before accepting them, or anything else.
FinishBroadcastAttempt(o, status) ==
  /\ executor[o] = "SENDING"
  /\ sendAttempt[o] = "STARTED"
  /\ status = "ACCEPTED" => sent[o]
  /\ status = "REJECTED" => ~sent[o]
  /\ sendAttempt' = [sendAttempt EXCEPT ![o] = status]
  /\ executor' = [executor EXCEPT ![o] = "IDLE"]
  /\ UNCHANGED <<moneyVars, operationVars, idempotency, settlementVars, fence,
                 authorityVars, signed, sent>>

\* A refusal, an exception or the end of the process: the lock is released.
ExecutorStops(o) ==
  /\ executor[o] # "IDLE"
  /\ executor' = [executor EXCEPT ![o] = "IDLE"]
  /\ UNCHANGED <<moneyVars, operationVars, idempotency, settlementVars, fence,
                 authorityVars, signed, sendAttempt, sent>>

ExecutionStep(o) ==
  \/ BeginSigning(o)
  \/ PersistSignedEvidence(o)
  \/ RematerializeEvidence(o)
  \/ StartBroadcastAttempt(o)
  \/ NodeAccepts(o)
  \/ \E status \in {"ACCEPTED", "REJECTED", "UNKNOWN", "CONFLICT"} :
       FinishBroadcastAttempt(o, status)
  \/ ExecutorStops(o)

=============================================================================
