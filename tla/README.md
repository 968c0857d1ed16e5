# Crip wallet: verification of the control plane

TLA+ models of the Crip wallet: how an agent's transfer is prepared, decided on,
paid for, authorized, signed, sent and settled, and how the money is accounted for. Paths below are relative to the repository root (`src/` in
`PROJECT.json`).

## 1. The system

| component | state it keeps | operations | hard parts |
|---|---|---|---|
| Lifecycle table, `packages/schemas/src/lifecycle.ts` | none (a table) | adjacency of `operations.current_state` | four packages write the column, one checks the table |
| Budget ledger, `packages/budget-ledger/src/ledger.ts` | `budget_accounts`, `budget_reservations`, `idempotency_records`, `reservation_broadcast_evidence`, `operation_recovery_leases`, `recovery_attempts` | reserve, release, expire, dispute, mark broadcast, verify evidence, finalize, claim and resolve recovery | contention for a budget, retries, leases and clocks, settlement below the amount |
| Approvals, `packages/approvals/src/core.ts`, `index.ts` | `approval_requests`, `approval_decisions`, `owner_approval_authentications`, `authorization_evidence`, newest `execution_envelopes` | create, authenticate, approve, reject, revoke, expire, consume, replace envelope, authorize autonomously | decisions on stale fences or revisions, two-transaction approval |
| Control fences, `packages/approvals/src/control.ts` | `control_fences`, `authorization_invalidations` | pause, resume, revoke; revalidation probe | takes back holds, approvals and authorizations of many operations in one transaction |
| Preparation, `packages/transaction-pipeline/src/preparation.ts` | `operations`, `transaction_simulations`, `policy_decisions`, first envelope | lifecycle advance, pipeline audit, persist simulation / decision / envelope | ids chosen by callers, late and repeated calls, a replaced local chain |
| Construction, decoding, verification, `packages/transaction-pipeline/src/{construct,decode,verify}-transfer.ts` | none | candidate from intent and context, independent decoding, verification | encodings; a candidate that changes between the calls |
| Simulation and freshness, `packages/transaction-pipeline/src/simulation.ts` | none (reads the chain) | resolve, verify, check freshness | a chain that moves between two reads |
| Chain evidence, `packages/transaction-pipeline/src/chain-evidence.ts` | none | verify four untrusted RPC answers | reorganisations, false answers |
| Policy engine, `packages/policy-engine/src/index.ts` | none | decide ALLOW / DENY / REQUIRE_APPROVAL | arithmetic on decimal strings, windows |
| Audit, `packages/audit/src/index.ts` | `audit_events` hash chain | append, inside the caller's transaction | one last event, many writers, one of them without a transaction |
| Trust boundary, `packages/trust-boundary/src/index.ts` | credentials, nonces | authenticate a component call | replay |
| Execution adapter, `adapters/local-anvil/src/{signer,broadcast,execution}-*.ts` | `signed_transactions`, `broadcast_attempts`, advisory lock | begin signing, persist evidence, start attempt, send, finish attempt | crash at any point, late delivery, fence changes in the middle |
| Execution processes, `adapters/local-anvil/src/execution-{client,process}.ts` | none | start, time out and kill a child | two children for one operation |
| Fault proxy, `adapters/local-anvil/src/fault-proxy.ts` | rules, requests, withheld receipts | forward, drop, refuse, alter, withhold, crash | what really reached the node |
| Reconciliation, `adapters/local-anvil/src/reconciliation.ts` | chain evidence rows, `execution_economic_effects` | turn verified evidence into ledger calls | seven transactions, a crash between any two, two reconcilers |
| Database guards, `migrations/*.sql` | the tables | deferred consistency triggers, binding guards | they, not the services, stop many illegal writes |

The services never call each other over a network: they share one PostgreSQL
database. Each operation is one transaction: serializable for the ledger,
approvals and control (`budget-ledger/src/transaction.ts`, with retry), row
locks for the adapter. Approvals and control take the four fences of an operation
before anything else; the ledger takes them in `reserveBudget` only. Execution is a
child process that makes several transactions and one RPC call under a session
advisory lock.

What makes each part correct: money is neither lost nor created, whoever
releases (ledger, approvals, control); funds behind bytes that may be out are
not given back; nothing is spent without verified evidence and a standing
authorization; an owner's approval counts for exactly one envelope revision under
exactly the fences it was asked for; a pause or a revocation leaves nothing
behind that can still be approved or signed; recovery is decided once; the books
follow the chain and every mined transfer is settled in the end; what is verified
is what was constructed, and what is reported of the chain is what it did; the
audit trail is one chain per stream, whoever writes.

## 2. Modules

| module | models | composes |
|---|---|---|
| `Lifecycle` | the states and the adjacency table | |
| `BudgetAccounting` | the two money tables, the postings, and `AccountingSpec`: when money may move | |
| `WalletState` | all shared rows (`VARIABLES`), their types, and the trigger predicates | `Lifecycle`, `BudgetAccounting` |
| `BudgetLedger` | `ledger.ts` | `WalletState` |
| `Approvals` | `core.ts`, `index.ts` | `WalletState` |
| `ControlFences` | `control.ts` | `WalletState` |
| `Preparation` | `advanceOperationLifecycle`, `persistExecutionEnvelope` | `WalletState` |
| `Execution` | signer, broadcaster, executor, and the node (external) | `WalletState` |
| `ControlPlane` | all of them on one database: `Init`, `Next`, `Spec`, the properties | the five above |
| `Reconciliation` | `reconciliation.ts`, one action per transaction of a call | `BudgetLedger`, `Preparation` |
| `Settlement` | control plane, execution and reconcilers: fairness, liveness | `ControlPlane`, `Reconciliation` |
| `ChainEvidence` | `chain-evidence.ts` and the endpoint it distrusts | |
| `FaultProxy` | `fault-proxy.ts` and the node behind it | |
| `Delivery` | `execution-client.ts`, `execution-process.ts`, `execution-core.ts`, `broadcast-core.ts` around one signed transaction | `FaultProxy` |
| `TransferPipeline` | `preparation.ts` up to the first envelope | `Lifecycle` |
| `Digits` | the number that a string of digits stands for | |
| `TransferCore` | construction, decoding, verification | `Digits` |
| `Simulation` | `simulation.ts` and the node it reads | |
| `PolicyEngine` | the policy engine | `Digits` |
| `AppendOnlyLog` | what the audit trail promises | |
| `AuditChain` | `audit/src/index.ts` inside the transactions of its callers | implements `AppendOnlyLog` |
| `MCControlPlane`, `MCSettlement`, `MCDelivery`, `MCTransferPipeline`, `MCAuditChain` | values of the constants for TLC | |
| `MCPipelineStages` | values for the four stages that share no row; a behaviour is a call of one of them | `PolicyEngine`, `TransferCore`, `Simulation`, `ChainEvidence` |
| `BudgetAccountingProofs` | theorems about the abstract ledger | |
| `ControlPlaneProofs`, `ControlPlaneAuthority` | theorems about `ControlPlane`: it implements the ledger, types, sent funds; authority, fences, keys, leases | the second extends the first |
| `SettlementProofs` | theorems about `Settlement` | extends `ControlPlaneAuthority` |
| `DeliveryProofs` | theorems about `Delivery` and `FaultProxy` | |
| `PipelineProofs` | theorems about `TransferPipeline`, `Simulation`, `ChainEvidence` | |
| `AmountProofs` | theorems about `PolicyEngine` and `TransferCore`: digits and their numbers | |
| `AuditProofs` | theorems about `AuditChain`: it implements `AppendOnlyLog` | |

`map` in `PROJECT.json` gives the source lines of every definition.

### How state and actions correspond to the code

* One variable per table; a row is a record with the columns some guard reads.
  `reservation[o].status = "NONE"` is the absence of a row, `None` is NULL.
  `lapsed[o]` is the database clock having passed the expiry of the envelope and
  of what hangs on it; `lease[o].live` is `lease_expires_at > clock_timestamp()`.
* **One action is one committed transaction.** Serializable isolation, or the row
  locks the adapter takes, make that sound. A call that throws, that a trigger
  aborts or that PostgreSQL rolls back is no step. A replay that returns what is
  stored is a stuttering step.
* **Triggers are conjuncts over the new state.** A deferred constraint trigger
  runs at commit, so `ApprovalOperationConsistent(o)'` and
  `CanonicalAuthorization(o, status)'` close the actions that write the rows the
  triggers are on, and only those: `DISPUTED` is exempt from the first
  (migration 0019), which one finding turns on.
* **The postings are shared, the guards are not.** `PostRelease` is the same two
  UPDATEs wherever they are written; whether the service checked enough before
  it is the guard of each action, and that the guards suffice is
  `ImplementsAccounting`. The CHECK constraints of `budget_accounts` are
  deliberately not guards.
* Times that a caller passes in, or that are read from the process's clock, are
  unconstrained: approve and consume may find a request expired, `resolveRecovery`
  may find a lapsed lease live.
* `executor[o]` is the program counter of the execution child: `IDLE`, `SIGNING`
  (after `beginSigning`), `MATERIAL` (bytes in memory), `SENDING` (attempt
  STARTED). `ExecutorStops` is a refusal, an exception or the death of the child
  at any of these. `NodeAccepts` is the node taking the bytes, possibly after the
  child gave up.
* `Reconciliation` has one action per transaction of `reconcileLocalChainEvidence`,
  and a call's program counter, verdict and expected lease version between them.
  The verdict `saw` is what `ChainEvidence` shows it can be: the chain's result, or
  a mismatch at any time. `CallThrows` is the error of a refused step, `CallStops`
  the end of the process, `LockSessionEnds` the loss of the advisory lock alone.
  The replay of a resolution is refused to another worker, because its hash covers
  the credential.
* `Delivery` and `Execution` model the same child at two scales. `Execution` has
  one child per operation among all the services; `Delivery` has several children
  of one operation, the lock session, and every answer the endpoint can give. Signing
  is one unmodelled step there. The production sender never throws
  `ProvenPreAcceptanceRejection`; both kinds of sender are explored (`senderProves`).
* `ChainEvidence`: an answer carries the set of its fields that differ from the
  envelope. `Simulation`: one action per RPC read; block hashes are indices of blocks
  ever mined, so a dropped and re-mined height has another hash.
* `AuditChain`: one action per SQL statement. `Program[kind]` is the list of statements
  of a service's transaction, in the order of its code, and `txn[w].at` the next one; a
  retry starts over at the first. PostgreSQL's row locks, snapshots,
  unique index and deadlock detector are external definitions. A serializable
  transaction may fail at any statement; that PostgreSQL aborts the ones it must is
  not assumed.
* `TransferCore`: calldata is a sequence of digits with the code's layout (selector,
  padded address word, amount word) and smaller widths; `Radix` itself is a character that
  is no digit. The external encoder writes the digits of an amount by repeated division
  (`Quotients`), the decoder reads the number of a word (`ValueOf`).
* `PolicyEngine`: amounts are canonical digit strings. `Borrows` is the variable `borrow` of
  `subtractAtomic` as each position of its loop leaves it; `compareAtomic` compares lengths first.

Definitions marked "Sensitivity variant" are plausible slips in the definition
that follows them. They are not used by any specification; substituting one for
its definition must break the property paired with it in `mutants`, which shows
that the property can fail.

## 3. Runs

All with two workers. The runs set `CHECK_DEADLOCK FALSE`, because with every
operation settled and every bound used up the system really stops; `audit` does
not: there, no circle of waiting transactions may be left standing.
`WalletTypeOK` contains the types of the ledger; the type invariants of
`Reconciliation`, `Delivery` and `AuditChain` hold on the configurations below as well
and can be added to them.

| run | instance | distinct states | properties |
|---|---|---|---|
| `owner_path` | 1 operation that needs its owner, 2 fences, all lifecycle targets, 2 requests, 2 revisions, fence versions to 3 | 281,654 | `WalletTypeOK`, `ActiveApprovalIsCurrent`, `FencedOperationsStop`, `OwnerAuthorityEndToEnd`, `ProbesAgree`, `ControlBlockedOnlyByOrphan`, `LifecycleTableRespected` |
| `shared_budget` | 2 operations (one owner, one autonomous) on 3 units, amounts 1..2, 2 keys, fence versions to 3 | 101,224 | `ReservedBacking`, `OneKeyPerReservation`, `AccountingSpec` |
| `recovery` | 1 autonomous operation, 2 reconcilers, 2 attempt ids, lease versions to 2, a matching and a foreign receipt | 374,372 | `AccountBalanced`, `FinalizedIsSpend`, `SpendIsProven`, `SentFundsAreNeverReturned`, `OneResolutionPerLease` |
| `settlement` | 1 operation, 2 retrying reconcilers, 1 fault, lease versions to 3, a transfer of 2 on a reservation of 2 or, without the fault, of 1, 1 fence change, callers' advances to BUDGET_RESERVED, BROADCAST, PENDING_CONFIRMATION and CONFIRMED | 488,706 | `LedgerAgreesWithChain`, `EffectMatchesBooking`, `ReconciledIsComplete`, `SettlementCompletes` |
| `delivery` | 2 children and a reader of receipts, starting in passthrough; one fault, which is a change to any of the ten modes or a lost lock session | 559,824 | `OneSendPerLockSession`, `StatusTellsTheTruth`, `ForwardedReachedNode`, `DeliveryEnds` |
| `transfer_pipeline` | 2 operations, 2 ids of each kind (symmetric), 2 chains, 2 events by calls, 1 return to REVALIDATION_REQUIRED (by a pause or a caller), advances to every state before the first approval and to EXPIRED | 3,610,924 | `TrailFollowsThePipeline`, `EvidenceIsItsOwn` |
| `pipeline_stages` | policy: amounts 0, 1, 9..11, 90, 99..101, 109, 110 in every role. Core: calldata of 10 binary digits, 2 recipients, 4 amounts (one too large), 2 changes, 1 other context. Simulation: 3 blocks, 2 base fees, balances and ceilings around the cost, 1 foreign transaction. Evidence: 2 competing blocks, 2 reorganisations, 1 false field | 2,630,300 | `AllowedTransferFits`, `FittingTransferIsAllowed`, `AllowedOnlyInForce`; `VerifiedIsConstructed`, `ConstructedIsVerified`; `FreshEvidenceIsOfOneBlock`, `FreshIsExecutable`, `ResolvedIsVerified`; `VerdictIsExecution`, `VerdictIsCanonical`, `HonestEvidenceVerifies` |
| `audit` | three mixes of four writers: two fence changes, a signer and its refusal; preparation, refusal, reconciliation and ledger on one stream; preparation with and without an audit context, a repeated `beginSigning` and a refusal. 2 retries | 145,266 | `StateChangesAreRecorded`, `OnlyRefusalsCollide`, `AuditTrailIsALog`, `EveryWriterEnds` |

What they show:

* `AccountingSpec` as a property of `ControlPlane` is the refinement: every step of
  every service maps to a step of the abstract ledger or leaves money alone. The
  mapping is the identity on `account` and `reservation`.
* `SentFundsAreNeverReturned`: the release fence of migration 0023 is what holds
  this, against release, expiry, replacement, fence changes and a FAILED recovery;
  the only way back is a verified receipt that the transfer reverted.
* `SpendIsProven`: FINALIZED implies verified evidence and an authorization of the
  newest envelope that no control event had taken back.
* `OneKeyPerReservation`, `OneResolutionPerLease`: retries and takeovers.
* `ActiveApprovalIsCurrent`: stronger than what approve and consume test for. It
  says the stale branch of both is never needed, because each fence change and
  each replacement already closed the requests it made stale.
* `FencedOperationsStop`: no operation waits for an owner or stands authorized
  under a fence that is not ACTIVE.
* `OwnerAuthorityEndToEnd`: from the policy verdict to the bytes on the node.
* `ProbesAgree`: `authorizeReservation` reads no fence and
  `revalidateAuthorization` no envelope revision; before expiry they agree anyway.
  (After expiry they do not: only the second looks at the clock.)
* `LifecycleTableRespected`: the direct writers of `current_state` stay inside the
  table.
* `LedgerAgreesWithChain`, `EffectMatchesBooking`, `ReconciledIsComplete`: spend is
  booked for transfers that the chain carried out and for no others, the economic
  effect is recorded once, after the booking and for its amount, and RECONCILED is
  reached with nothing missing, in whatever order the steps of stopped, repeated
  and concurrent calls fall.
* `SettlementCompletes`: a mined transfer with a recorded answer ends RECONCILED, or
  with its funds DISPUTED, unless it is locked out, and then for good. There are three
  lockouts (section 4): a fence changed after the authorization (`FenceLockout`), a caller
  of `advanceOperationLifecycle` moved the operation to where the reconciler's path does
  not begin or to BROADCAST too early (`AdvanceLockout`), or the transfer exceeds the
  reservation (`AmountLockout`). Each is needed: without any one of them TLC refutes the
  property.
* `ControlBlockedOnlyByOrphan`: a pause or revocation can be refused by the
  consistency trigger, but only because of a pending request whose operation no
  longer waits for its owner.
* `OneSendPerLockSession`: the attempt row, found under the lock, is what prevents a
  second send; each lost lock session allows exactly one more.
  `StatusTellsTheTruth`: ACCEPTED and REJECTED are true of the node under every fault.
  With a lost session a proof of non-transmission by one child says nothing about
  the other's request, and the property says so.
* `VerdictIsExecution`, `VerdictIsCanonical`: one false field or a moving chain cannot
  make the verifier accept what did not happen; a false field and a reorganisation
  together can (a receipt carried to the competing block), so the property excludes
  exactly that. `HonestEvidenceVerifies` is the converse, for funds are disputed on a
  mismatch.
* `FreshEvidenceIsOfOneBlock`: the resolution may mix two chains when a tip is dropped
  between its reads; such evidence never passes the freshness check.
* `TrailFollowsThePipeline`, `EvidenceIsItsOwn`: late and repeated calls, and ids that
  two operations use. Callers may advance an operation to any adjacent state, without
  the evidence that the other calls ask for, and leave out the audit context of any
  call; so the first speaks of what is on record, in order between two returns to
  REVALIDATION_REQUIRED, and the second of the calls that present evidence. That evidence
  is there at all is refuted (`FinalizedOnEvidence`, section 4).
* `StateChangesAreRecorded`: a change of the operation and its event commit together, and
  only the calls that were made without an audit context leave none.
* `AuditTrailIsALog` is a refinement: `AuditChain` implements `AppendOnlyLog` with
  the committed rows, in the order of their numbers, for the log. The unique index
  guards the operation's stream; the fence's stream has no index and rests on the
  fence row that each change updates.
  `OnlyRefusalsCollide`: a signing refusal is appended without a transaction and can
  roll back another writer's state change; nothing else can.
* `AllowedTransferFits` and `FittingTransferIsAllowed` compare the engine with
  arithmetic in both directions.

### Bounds, and why they are enough

Two operations are needed for contention and for a bulk release, one for
everything about a single authorization. Fence version 3 allows pause then resume,
which is what a stale snapshot needs; two revisions and two requests allow a
replaced envelope with a second request slot; two leases and two attempts allow a
takeover and a second resolution. The amount 2 on an allocation of 3 makes one of
two reservations fail and a settlement below the amount possible.

Two reconcilers and one fault let a stopped call or a lost lock meet a takeover in one settlement; three lease
versions let each caller claim once and the one that lost its claim again (with two, calls stop for want of
a version, which the code does not run out of). A transfer of 2 on a reservation of 1 is the
smallest that the books cannot settle; it goes without faults (`MCSettlementSpec`), as the amount is looked at by the
CONFIRMED resolution alone, which refuses it in every call, cut short or not. With faults as well there are 959,986 states and
the same properties hold. The lifecycle targets of `settlement` are the ones that
the reconciler tells apart: any state but SIGNED, BROADCAST and RECONCILED is to it what
PENDING_CONFIRMATION or CONFIRMED is. With all of them (`MCAdvanceTargets`) and `FairSettlementSpec` there are 1,802,520 states, which
takes longer than the other runs and satisfies `SettlementCompletes` too.
In `transfer_pipeline` two events suffice for two neighbours of a trail out of order, one return for a second pass,
and past the first approval the pipeline has no calls. Two children with one
lost lock session are the smallest case of a second send, and one change of mode
after the start puts each of the ten faults at every point of an execution.
Three blocks allow a tip to be dropped and re-mined between two reads. Base 2 and short words keep every digit
position of the calldata layout; amount 16 does not fit a word of four. Three-digit
amounts around 9, 10, 99, 100 contain every borrow across one and two digits. The
theorems of section 5 remove the bounds for what they cover.

### Fairness

Nothing in this repository schedules the services: an operation is a call by some
caller who may stop. So no fairness is assumed of the control plane, and the
progress questions that arise from its data alone are stated as safety, as the
absence of a state from which progress is impossible (`SettlementStaysPossible`,
`ControlIsAvailable`); both are refuted below, and `ControlBlockedOnlyByOrphan`
says how far the second holds. Liveness is claimed where a running
process or a stated retry drives it:

* `FairSettlementSpec`: a running call takes its next step or throws (`CallProceeds`, which is weak fairness
  of the two together); leases lapse (weak: time); a caller in
  `Retrying` starts a call again and again and gets the lock in the end (strong,
  because others take the lock in between; PostgreSQL serves waiters in order). Nothing is assumed of
  the node: the property begins with a mined transfer.
* `FairDeliverySpec`: children, proxy and node go on (weak); the harness releases
  withheld receipts (weak; its tests do so in their teardown, and `close` does it).
* `AuditSpec`: a client goes on with its program and the deadlock detector runs (weak).
* `PipelineFairSpec` (only for a refuted property): the orchestrator repeats its calls.

## 4. Where the documents and the code disagree

Each is a run that expects a violation, with the quoted line in `findings`.

| run | what the document says | what the code does |
|---|---|---|
| `settlement_lockout` | ADR-0005: broadcast operations continue to reconcile after a pause or revocation | the trigger of migration 0023 wants unchanged, ACTIVE fences for FINALIZED; a fence version never goes back, so the reservation can never be settled |
| `send_after_fence` | ADR-0005: signed bytes are never broadcast after a revocation | the start of the attempt reads the reservation, which a fence change leaves AUTHORIZED once signing has begun |
| `overspend` | PRODUCT_SPEC: spend never exceeds allocation | nothing compares the reserved amount with the amount that the envelope transfers |
| `revalidation` | PRODUCT_SPEC: the operation must repeat reservation and envelope finalization | `budget_reservations.operation_id` is UNIQUE and the one row is RELEASED; the operation stays at BUDGET_RESERVED |

These are stated in the modules and are refuted as well; to see the behaviour, put
the definition into the configuration named, in place of its properties.

| definition | configuration | what the document says | what the code does |
|---|---|---|---|
| `DisputedFundsAreHeld` | `MCRecovery.cfg` | ADR-0014: DISPUTED keeps funds held | an AMBIGUOUS or CONFLICT answer for a RELEASED or EXPIRED reservation marks it DISPUTED with its funds already returned |
| `ResolvedOnlyWhileLive` | `MCRecovery.cfg` | PHASE-1: recovery lease validity is PostgreSQL time | the resolution compares with the worker's clock |
| `ControlIsAvailable` | `MCOwnerPath.cfg` | PRODUCT_SPEC: immediate revocation and pause | disputing a HELD reservation under a pending request makes every fence change in its scopes abort |
| `RevokedHoldsNothing` | `MCOwnerPath.cfg` | PRODUCT_SPEC: a revocation releases every hold before authorization | only in four lifecycle states; `DENIED` with a hold, for one, keeps it |
| `ConflictEndsDisputed` | `MCSettlement.cfg`, `Retrying = {rec2}` | ADR-0011: ambiguous outcomes terminate in DISPUTED | a process that stops between the CONFLICT resolution and the lifecycle advance leaves the operation where it is: every later call is refused |
| `DuplicateResumes` | `MCSettlement.cfg`, `Retrying = {rec2}` | ADR-0014: duplicate attempts return the original result | only to the worker that resolved; another one's replay has another hash, and the economic effect is never recorded |
| `NoLockCycle` | `MCAudit.cfg` | PRODUCT_SPEC: one serialized lock order, fences first | the signer locks the operation first (RISK_REGISTER R-032 lists the inversion as open); a deadlock is not retried |
| `FinalizedOnEvidence` | `MCTransferPipeline.cfg` | PRODUCT_SPEC: all state-changing transactions must be simulated | `advanceOperationLifecycle` takes VERIFIED to SIMULATED and SIMULATED to POLICY_FINALIZED without a simulation or a decision row |
| `EveryTransitionIsAudited` | `MCAudit.cfg` | PRODUCT_SPEC: every transition must be explicit and audited | the audit context is optional, and an advance before the reservation cannot have one |
| `NewerHeadIsPermitted` | `MCPipelineStages.cfg` | comment in `simulation.ts`: an unrelated newer head is permitted | any change of the base fee is refused |

Also met. PRODUCT_SPEC's section on revocation wants a pre-reservation
intent marked `REVOKED`, but the consistency trigger wants a RELEASED reservation
for `REVOKED` (and `REJECTED`), so an operation that never reserved cannot be
marked so. `advanceOperationLifecycle` may move a SIGNED operation to BROADCAST while its
reservation is not yet settled; `markReservationBroadcast`, which every new
reconciliation call begins with, accepts AUTHORIZED, SIGNING and SIGNED only and then
refuses it for good. It may move it on to PENDING_CONFIRMATION or CONFIRMED as well, and the
reconciler's path, which starts at BROADCAST, then throws in every call, with the booking done or not
(`AdvanceLockout` in `Settlement`).
`reconcileLocalChainEvidence` holds a pool connection for its lock while each step
takes another from the same pool: as many concurrent calls as the pool has
connections wait for one another for ever. And an attempt left STARTED by a killed
child is refused by reconciliation and turned into UNKNOWN by nobody.

## 5. Theorems

Checked by TLAPS for every value of the constants that satisfies the named
assumptions: finitely many operations, natural allocations and bounds, `None`
outside the sets it stands beside, the SYSTEM fence among each operation's fences.

### Money and types

* **`AccountingTypeCorrect`, `AccountsStayBalanced`, `ReservedIsBacked`,
  `FinalizedSpendIsRecorded`** (`BudgetAccountingProofs`): `AccountingSpec` implies the
  accounting invariants that `shared_budget` and `recovery` check. None of them is inductive alone: that a release
  does not drive `reserved` below zero needs that `reserved` covers the live
  reservations, which needs that each live row has an amount and a budget. The
  inductive invariant `AccountingInv` is their conjunction with the shape of one
  row. Sums are cardinalities of sets of units, so the lemmas (`TotalSplit`,
  `TotalChange`, `OneRowChange`) need no induction; the bulk release splits the sum
  over the released set.
* **`ImplementsAccounting`** (`ControlPlaneProofs`): `Spec => AccountingSpec`. One
  lemma per service: each action either is one of the postings under a guard at
  least as strong as the abstract one, or leaves both tables alone.
  **`ControlPlaneBalanced`** follows from it.
* **`ControlPlaneTypeCorrect`** (`ControlPlaneProofs`): one lemma per service.
* **`SentFundsAreSafe`** (`ControlPlaneProofs`): `SentFundsAreNeverReturned`. It is
  not inductive: a release before the node accepts, with the attempt already
  STARTED, leads to a state that satisfies it and a next state that does not. The
  strengthening `SendInv` says that an attempt that may have been sent pins the
  reservation, whether or not the node has taken the bytes; and that only a
  VERIFIED receipt unpins it. TLC confirms the theorem's property in `recovery`.

### The control plane's authority (`ControlPlaneAuthority`)

Together with `BudgetAccountingProofs` and `ControlPlaneProofs`, every safety property that the runs check of
`ControlPlane` is a theorem.

* `AuthorityHolds` is the inductive step for the rest. `AuthorityInv(o)` has five
  parts: the open request of an operation is single and current (`RequestInv`); funds
  past HELD stand on an authorization of the newest envelope, and until signing begins
  on unmoved fences (`AuthorizedInv`); an owner's authorization is one consumed,
  authenticated request (`OwnerInv`); signing and sending come after the authorization
  and never go back before it (`ExecutorInv`); FINALIZED has verified evidence
  (`SettledInv`). None is inductive without the others: that a consumed request is
  current needs that a fence change closed the stale ones, which needs that the
  operations in its scope are in a state the change looks at.
* **`RequestsAreCurrent`, `FencesStop`, `OwnerDecides`, `ProbesAlwaysAgree`,
  `SpendIsAlwaysProven`** follow from it. By the first, the branch of `approve` and `consume`
  that finds a request stale is dead code: the proofs of both actions dismiss it.
* **`LifecycleIsRespected`** is an action property, from the same invariant: each
  direct write of `current_state` is looked up in the table at the states the
  invariant leaves possible.
* **`OnlyOrphansBlockControl`** shows that the release of everything in scope keeps
  the consistency trigger true, except where a pending request has no waiting operation.
* **`OneKeyHolds`, `OneResolutionHolds`** have invariants of their own: an operation
  has a key exactly if it has a row, and then one; a resolution on record is of an
  earlier lease version, or of the newest, which is then no longer ACTIVE.

### Delivery (`DeliveryProofs`)

`DeliveryInv` traces every request, child and attempt row. `OneSendPerLockSession` counts the
children that sent; what is inductive counts those that may still come to send.
A child that has seen no attempt holds the lock or is astray (its session is lost);
the astray are at most as many as sessions were lost (`SessionsOK`). **`SendsAreBounded`**
follows for any number of children. **`StatusIsTrue`** needs where an answer came from: REFUSED
put nothing on the wire, EXPECTED comes from a node that has the bytes.
**`ForwardedIsTaken`** is a part of the invariant.

### Settlement (`SettlementProofs`)

The control plane's invariants are first shown to survive the reconciler's steps.
`BooksInv` then ties reservation, recovery attempt, durable evidence and effect
of an operation to the chain, and `CallInv` says what is on record already at each point
of a call, also after the call lost its lock and others went on. The release clause
speaks of every attempt that can still reach the node, not of sent bytes: the bytes may
arrive after the release. **`BooksFollowChain`, `EffectsRepeatBookings`,
`ReconciledMeansDone`** follow. `ReconciledAssumption` is needed: only
`reconciliation.ts` asks for RECONCILED. A caller who passed it to
`advanceOperationLifecycle` would reach it from CONFIRMED with nothing booked.

### The pipeline's stages (`PipelineProofs`)

* `TransferPipeline`: **`TrailsAreInOrder`, `EvidenceStaysOwn`**, for any set of lifecycle
  targets (`AdvanceAssumption`). The adjacency table never goes to an earlier stage but to
  REVALIDATION_REQUIRED, so the state bounds the stages recorded since the last return,
  whether or not the calls on the way recorded anything; and rows are never overwritten, so what a call found
  under its id stays there.
* `Simulation`: **`FreshIsOfOneBlock`, `FreshCanExecute`, `ResolvedAlwaysVerifies`**, for chains of
  any length and any fees. The invariant says after each read what has been read, and
  that it belongs to the block as long as that block is on the chain; blocks that were
  dropped keep their hash and never come back.
* `ChainEvidence`: **`VerdictsAreCanonical`, `VerdictsAreExecutions`, `HonestAnswersVerify`**. Each
  answer is traced to the block it was taken from, or is the one that was altered. The
  second assumes `MaxLies <= 1`, which is what the property speaks of: a false
  status together with false logs does turn a failure into a success.

### Amounts and their digits (`AmountProofs`)

Four properties say that an algorithm on digits computes with numbers: for strings and words of
any length, in any base. The library's induction theorems take an operator as a parameter and cannot
be used, but induction over positions needs none of them: the positions where a claim fails are a set of
natural numbers, a set that is not empty has a least element because `<` is well founded
(`WFMin`), and that element is refuted from the one before (`LeastNumber`, `Upward`, `Downward`).

* **Values.** `ValuesExist` shows that the recursive function in `ValueOf` is what its equation
  says; the value of a prefix is then a natural below the power of the base (`ValueIs`, `Places`).
* **Comparison.** Where two strings first differ, the numbers of the prefixes differ by at
  least one, and no later digit makes that up (`BeforeIsLess`); a longer string without leading zero is the larger number
  (`LongerIsMore`, the one place where canonicity counts). So `isAtomicAtMost` is `<=` (`AtMostIs`).
* **Subtraction.** From the last digit on, what is left of the difference at a
  position is the difference of the prefixes less the borrow (`Difference`). At the first digit nothing
  is borrowed, as `right` is not the larger number (`BorrowCancels`). Leading zeros
  change neither the value nor canonicity (`StripIs`). So `subtractAtomic` is subtraction (`SubtractIs`).
* **`AllowedTransfersFit`, `FittingTransfersAreAllowed`, `AllowedIsInForce`** follow for any
  policy, intent, amounts and spend.
* **Words.** Digits written by division are read back as the number (`ValueOfWord`), and
  a word is the only one of its number (`WordOfValue`): both by the quotients at each
  place. The parts of the calldata are determined by the whole and determine it
  (`EncodeLayout`, `LayoutIsUnique`, `DecodesLayout`).
* `CoreInv` is the inductive invariant: the two properties, the types, and that a candidate nobody
  has changed is the constructor's, decoded or not yet decoded. An accepted candidate is
  `Core` field by field, the calldata by the uniqueness of its layout (`AcceptedIsCore`):
  **`VerifiedIsTheConstructed`**. Unless someone changes it, it is accepted (`CoreIsAccepted`):
  **`ConstructedAlwaysVerifies`**.

### The audit trail (`AuditProofs`)

* **`TrailIsAppendOnly`** is the refinement: `AuditSpec => AuditTrailIsALog`, for any number
  of writers, any mix of the eight kinds of call, any number of retries. What has to be shown is
  that a commit adds to a stream a run of events that continues the newest one; what makes
  it hard is that the events were written, and their place in the chain read, several
  statements and several commits of others earlier. `AuditInv` says of every writer where
  in its program it is and what follows from that: which rows it has locked (`Locked`), how
  many rows and events it has written (`Progress`), that its snapshot shows all fence events if
  it shows the newest version of the fence (`Snapshot`), that the event it read is one of the stream with
  its own additions and on the fence's stream the last (`TailRead`), and that the committed
  stream with its additions is one chain (`OnTop`).
* The two streams rest on different things, and the proof shows which. No index covers the
  fence's: there a control change has locked the fence row, and its UPDATE of that row fails if
  the row is newer than its snapshot, so the snapshot's last event is the last, and nobody
  else can add one (`OneWriterAdds`). On the operation's stream every service but the refusal holds
  the operation's row; a refusal does not, and may take the number that a waiting
  transaction has just written. The unique index lets one of them through (`NumbersDiffer`), and
  that is enough because two chains that continue the same one share a number (`ChainsMeet`).
  PostgreSQL's detection of read and write dependencies is not needed for either: a SERIALIZABLE
  transaction may fail at any statement, and has to only where it writes a row that is newer
  than its snapshot.
* **`ChangesAreRecorded`** (`StateChangesAreRecorded`) counts: the committed updates of the operation
  are the events of the calls that describe one and the commits of calls without an audit context. The
  program of each audited call has as many updates as events, an unaudited one has one update, a repeated
  `beginSigning`, a ledger call and a refusal have none, and a transaction commits or discards all it did.
* **`OnlyRefusalsTakeNumbers`** (`OnlyRefusalsCollide`): who runs READ COMMITTED and still meets a taken
  number can only have met a refusal. **`AuditIsTyped`** is the type invariant.

### Assumptions on constants

Beside the types and finiteness above: no operation starts in AWAITING_APPROVAL
(`InitialAssumption`: that state is written together with its request), RECONCILED is
asked for by reconciliation only (`ReconciledAssumption`), and the mark for a missing
row is not a row (`NoRowAssumption`). Amounts of policies and intents are canonical
(`PolicyEngineAssumption`, the pattern of `policySchema`), and the selector has whole bytes
(`TransferCoreAssumption`). TLC evaluates all of them in the runs.

### What the proofs changed in the models

A CASE expression of TLA+ may take any branch whose guard is true. The code's early
returns are ordered, and the attempt at `AllowedIsInForce` failed exactly where two guards were
true at once. `EvaluatePolicy`, `VerifyExecutable`, the decoders and `VerificationOf`, the answers of
`FaultProxy` and `Blockers` of `AuditChain` are now IF chains in the code's order, or
have disjoint guards. In `ChainEvidence` the logs of a receipt are examined by their
places instead of through a filtered sequence, and in `Simulation` a read
extends what has been read by a function (`GotAnd`). In `AuditChain` a writer had a queue of
statements still to run; it is now a place in a constant program, as invariants speak of what
came before as much as of what is left. In `PolicyEngine` an amount had been a number next to its string; it is the
string alone now, `Borrows` is a function over positions instead of a fold, and in `TransferCore` digits
come from quotients instead of powers. All say the same as before in a form the provers can
expand.

### What is trusted

The SMT translation of tlapm 1.4.5 gives `Len` an axiom that holds of sequences but
is asserted of every value: whatever has the domain `1..n` has the length `n`, and every length is a natural.
All proof modules were also checked with that axiom
restricted to natural `n`, and no definition that they expand uses a function on
`0..n` as if it were a sequence.

### Only model-checked

* Liveness (`SettlementCompletes`, `DeliveryEnds`, `EveryWriterEnds`): fairness is out of
  the prover's reach. The type invariants of these modules are parts of the
  invariants above.

## 6. Limits

* Amounts are small naturals; `numeric(78,0)` does not overflow in the code's range.
* Hashes, signatures, nonces, reasons, timestamps and audit rows are left out: a
  binding check that compares copies of immutable columns always passes here.
* A policy's status column moves only with its fence and is folded into it.
* The policy verdict is a constant per operation; `DENY` never reaches these tables.
* In `ControlPlane` there is one execution child per operation at a time and row-lock
  deadlocks are aborts; `Delivery` and `AuditChain` take these up.
* `ControlPlane` starts at the end of the preparation pipeline (`InitialStates`);
  `TransferPipeline` covers the part before, with the ledger and the fences reduced
  to one status per operation.
* A mined transaction in `Settlement` is final: the local node does not reorganise
  what it mined. Reorganisations between reads are in `ChainEvidence` and `Simulation`.
* In `Simulation` a dropped block does not come back, so a chain that returns to an earlier
  fork is left out; the local node mines a new block at the height of the dropped one.
* `TransferPipeline` ends before the first request for approval: targets past it are in `ControlPlane`,
  whose `Preparation` takes the same advance.
* In `ChainEvidence` an endpoint falsifies one field; several at once can make any
  story consistent, and a verifier that reads one endpoint cannot tell.

### Not modelled

* `schemas/*` beyond the lifecycle table and the bounds that decisions use: shapes.
* `owner-auth.ts`, `trust-boundary`, `signer-keys.ts`: cryptography. Their verdicts
  appear as the steps they guard.
* `signer-client.ts`, `signer-process.ts`, `adapter-sdk`, `local-anvil/src/index.ts`:
  pipes, interface types, a static descriptor.
* `migrate.ts`: sixty lines of file I/O under one lock; a model would be as long.
* `tooling/*`, `scripts/*`, `MockERC20.sol`: developer tools and a test fixture.

## 7. Plan

Done: the control plane, its composition with execution, reconciliation and the
node, the preparation pipeline from the candidate to the envelope, the audit trail.
Proved: every safety property, action property and refinement that a run checks. Next:

1. Two operations in `settlement`, once symmetry over reconcilers is shown sound there.
2. `phase2-fixture.mjs`, if it is ever used outside the tests.
