---------------------------- MODULE TransferPipeline ----------------------------
(* packages/transaction-pipeline/src/preparation.ts up to the first envelope:  *)
(* an orchestrator moves an operation through construction, decoding,          *)
(* verification, simulation and the final policy decision, and every call is   *)
(* one transaction that locks the operation row.  Callers run concurrently,    *)
(* retry, and may present ids that another operation used; the system may be   *)
(* paused and the local chain replaced at any point.                           *)
EXTENDS Lifecycle, Naturals, Sequences, FiniteSets

CONSTANTS
  Ops,           \* operations
  Fixtures,      \* local chain instances, in the order they become current
  SimulationIds, \* ids that callers give simulations
  Evidence,      \* evidence[fixture, n]: distinct simulation results
  DecisionIds,   \* ids that callers give policy decisions
  Decisions,     \* hashes of policy decisions
  AdvanceTargets, \* bound: the states that callers of the advance ask for
  MaxEvents,     \* bound: events that calls write, of all operations
  MaxRestarts,   \* bound: pauses of the system and advances back
  NoRow          \* no such row

ASSUME NoRowAssumption ==
  /\ NoRow \notin [op : Ops, is : Evidence]
  /\ NoRow \notin [op : Ops, is : Decisions]

ASSUME AdvanceAssumption == AdvanceTargets \subseteq LIFECYCLE_STATES

VARIABLES
  opState,       \* operations.current_state
  simulations,   \* transaction_simulations by id: [op, evidence]
  decisions,     \* policy_decisions by id: [op, hash]
  held,          \* budget_reservations.status of the operation, NoRow before
  fixture,       \* the current row of local_chain_fixtures
  trail,         \* audit events of each operation
  restarts,      \* pauses and advances back so far
  basis,         \* what the calls that moved o presented in this pass (history)
  sentBack       \* lengths of the trail at which o was sent back (history)

rowVars == <<simulations, decisions>>
pipelineVars == <<opState, rowVars, held, fixture, trail, restarts, basis, sentBack>>

-----------------------------------------------------------------------------

\* Where a state lies in the pipeline; what ends an operation comes last.
Stage ==
  [s \in LIFECYCLE_STATES |->
     CASE s \in {"DRAFT", "REVALIDATION_REQUIRED"} -> 0
       [] s = "VALIDATED" -> 1
       [] s = "POLICY_PRECHECKED" -> 2
       [] s = "CONSTRUCTED" -> 3
       [] s = "DECODED" -> 4
       [] s = "VERIFIED" -> 5
       [] s = "SIMULATED" -> 6
       [] s = "POLICY_FINALIZED" -> 7
       [] s = "BUDGET_RESERVED" -> 8
       [] s = "ENVELOPE_FINALIZED" -> 9
       [] OTHER -> 10]

NoBasis == [simulation |-> NoRow, decision |-> NoRow]

\* The triggers on operations and budget_reservations, over the new rows.  No
\* request for approval and no authorization is made before the first envelope.
ApprovalOperationConsistent(o) ==
  /\ opState[o] \notin {"AWAITING_APPROVAL", "AUTHORIZED"}
  /\ opState[o] = "ENVELOPE_FINALIZED" => held[o] = "HELD"
  /\ opState[o] \in {"REVALIDATION_REQUIRED", "REJECTED", "REVOKED"} => held[o] = "RELEASED"
  /\ opState[o] = "EXPIRED" => held[o] = "EXPIRED"

Transition(o, next) ==
  /\ next \in LIFECYCLE_TRANSITIONS[opState[o]]
  /\ opState' = [opState EXCEPT ![o] = next]

EventsWritten == {e \in Ops \X (1..MaxEvents) : e[2] <= Len(trail[e[1]])}

Records(o, state) ==
  /\ Cardinality(EventsWritten) < MaxEvents
  /\ trail' = [trail EXCEPT ![o] = Append(@, Stage[state])]

\* Every audit context is the caller's choice: `audit?: AuditContext`.
MayRecord(o, state) == UNCHANGED trail \/ Records(o, state)

\* Operations that are sent back start another pass.
Restarts(O) ==
  /\ restarts < MaxRestarts
  /\ restarts' = restarts + 1
  /\ basis' = [o \in Ops |-> IF o \in O THEN NoBasis ELSE basis[o]]
  /\ sentBack' = [o \in Ops |-> IF o \in O THEN sentBack[o] \union {Len(trail[o])}
                                          ELSE sentBack[o]]

StaysInPass == UNCHANGED <<restarts, basis, sentBack>>

\* Any adjacent state, without the evidence that the calls below ask for, and
\* with an event only when there is a reservation to correlate it with.
AdvanceOperationLifecycle(o, next) ==
  /\ Transition(o, next)
  /\ \/ UNCHANGED trail
     \/ held[o] # NoRow /\ Records(o, next)
  /\ IF next = "REVALIDATION_REQUIRED" THEN Restarts({o}) ELSE StaysInPass
  /\ UNCHANGED <<rowVars, held, fixture>>
  /\ ApprovalOperationConsistent(o)'

\* Sensitivity variant: the state is not read again.
InStateUnread(o, state) == opState[o] \in LIFECYCLE_STATES

\* appendPipelineAudit: the locked row must be in the expected state.
InState(o, state) == opState[o] = state

\* persistTransferPipelineAudit: a separate call, which the caller may repeat.
\* A call that throws changes nothing; the others are the ones modelled.
PersistTransferPipelineAudit(o, state, f) ==
  /\ f = fixture
  /\ InState(o, state)
  /\ Records(o, state)
  /\ UNCHANGED <<opState, rowVars, held, fixture, restarts, basis, sentBack>>

\* Sensitivity variant: the row found under the id is not compared.
BoundToAny(row, o, evidence) == row # NoRow

\* The row found under the id is this operation's and holds this evidence.
BoundTo(row, o, evidence) == row = [op |-> o, is |-> evidence]

\* INSERT .. ON CONFLICT (id) DO NOTHING.
Inserted(rows, id, o, evidence) ==
  IF rows[id] = NoRow THEN [rows EXCEPT ![id] = [op |-> o, is |-> evidence]] ELSE rows

\* The trigger wants the current fixture, also for an insert that conflicts; the
\* unique index admits one row per operation and evidence.
PersistSimulation(o, id, e) ==
  /\ opState[o] = "VERIFIED"
  /\ e.fixture = fixture
  /\ simulations[id] = NoRow =>
       \A other \in SimulationIds : simulations[other] # [op |-> o, is |-> e]
  /\ simulations' = Inserted(simulations, id, o, e)
  /\ BoundTo(simulations'[id], o, e)
  /\ Transition(o, "SIMULATED")
  /\ MayRecord(o, "SIMULATED")
  /\ basis' = [basis EXCEPT ![o].simulation = [id |-> id, is |-> e]]
  /\ UNCHANGED <<decisions, held, fixture, restarts, sentBack>>

PersistPolicyDecision(o, id, d) ==
  /\ opState[o] = "SIMULATED"
  /\ decisions' = Inserted(decisions, id, o, d)
  /\ BoundTo(decisions'[id], o, d)
  /\ Transition(o, "POLICY_FINALIZED")
  /\ MayRecord(o, "POLICY_FINALIZED")
  /\ basis' = [basis EXCEPT ![o].decision = [id |-> id, is |-> d]]
  /\ UNCHANGED <<simulations, held, fixture, restarts, sentBack>>

\* reserveBudget: one reservation row per operation, whatever became of it.
ReserveBudget(o) ==
  /\ held[o] = NoRow
  /\ held' = [held EXCEPT ![o] = "HELD"]
  /\ UNCHANGED <<opState, rowVars, fixture, trail, restarts, basis, sentBack>>
  /\ ApprovalOperationConsistent(o)'

\* releaseReservation and expireReservation of the ledger.
ReturnReservation(o, status) ==
  /\ held[o] = "HELD"
  /\ held' = [held EXCEPT ![o] = status]
  /\ UNCHANGED <<opState, rowVars, fixture, trail, restarts, basis, sentBack>>
  /\ ApprovalOperationConsistent(o)'

PersistExecutionEnvelope(o) ==
  /\ opState[o] = "BUDGET_RESERVED" /\ held[o] = "HELD"
  /\ Transition(o, "ENVELOPE_FINALIZED")
  /\ MayRecord(o, "ENVELOPE_FINALIZED")
  /\ UNCHANGED <<rowVars, held, fixture, restarts, basis, sentBack>>

\* changeControlFence, a pause of the system and the resume after it:
\* invalidateHeldBeforeApproval for every operation with a held reservation.
PauseAndResume ==
  LET fenced == {o \in Ops : /\ held[o] = "HELD"
                             /\ opState[o] \in {"POLICY_FINALIZED", "BUDGET_RESERVED",
                                                "ENVELOPE_FINALIZED"}}
  IN  /\ Restarts(fenced)
      /\ opState' = [o \in Ops |-> IF o \in fenced THEN "REVALIDATION_REQUIRED" ELSE opState[o]]
      /\ held' = [o \in Ops |-> IF o \in fenced THEN "RELEASED" ELSE held[o]]
      /\ trail' = [o \in Ops |-> IF o \in fenced THEN Append(trail[o], 0) ELSE trail[o]]
      /\ UNCHANGED <<rowVars, fixture>>

\* The harness registers a new local chain (external).
ReplaceFixture ==
  /\ fixture + 1 \in Fixtures
  /\ fixture' = fixture + 1
  /\ UNCHANGED <<opState, rowVars, held, trail, restarts, basis, sentBack>>

-----------------------------------------------------------------------------

PipelineInit ==
  /\ opState = [o \in Ops |-> "POLICY_PRECHECKED"]
  /\ simulations = [i \in SimulationIds |-> NoRow]
  /\ decisions = [i \in DecisionIds |-> NoRow]
  /\ held = [o \in Ops |-> NoRow]
  /\ fixture \in Fixtures /\ \A f \in Fixtures : fixture <= f
  /\ trail = [o \in Ops |-> <<>>]
  /\ restarts = 0
  /\ basis = [o \in Ops |-> NoBasis]
  /\ sentBack = [o \in Ops |-> {}]

\* What the orchestrator of an operation does next.
Prepare(o) ==
  \/ \E next \in AdvanceTargets : AdvanceOperationLifecycle(o, next)
  \/ \E i \in SimulationIds, e \in Evidence : PersistSimulation(o, i, e)
  \/ \E i \in DecisionIds, d \in Decisions : PersistPolicyDecision(o, i, d)
  \/ ReserveBudget(o)
  \/ PersistExecutionEnvelope(o)

PipelineNext ==
  \/ \E o \in Ops :
       \/ Prepare(o)
       \/ \E status \in {"RELEASED", "EXPIRED"} : ReturnReservation(o, status)
       \/ \E s \in {"CONSTRUCTED", "DECODED", "VERIFIED"}, f \in Fixtures :
            PersistTransferPipelineAudit(o, s, f)
  \/ PauseAndResume
  \/ ReplaceFixture

PipelineSpec == PipelineInit /\ [][PipelineNext]_pipelineVars

\* The orchestrator repeats its calls until the envelope stands.
PipelineFairSpec == PipelineSpec /\ \A o \in Ops : WF_pipelineVars(Prepare(o))

-----------------------------------------------------------------------------
(* Properties. *)

\* The trail of an operation tells its pipeline in order: no event of an earlier
\* stage follows one of a later stage unless the operation was sent back between
\* them, although events are written by calls of their own that may be late,
\* repeated or left out, and a caller may send an operation back without one.
TrailFollowsThePipeline ==
  \A o \in Ops : \A i \in 1..(Len(trail[o]) - 1) :
    trail[o][i] <= trail[o][i + 1] \/ i \in sentBack[o]

\* No call moves an operation on evidence that is not its own or not what was
\* presented: the simulation and the decision on which persistSimulation and
\* persistPolicyDecision moved it in this pass are still in their tables, under
\* the ids given, for this operation.  Ids are the callers' and may collide, and
\* an insert that conflicts does nothing.
EvidenceIsItsOwn ==
  \A o \in Ops :
    /\ basis[o].simulation # NoRow =>
         simulations[basis[o].simulation.id] = [op |-> o, is |-> basis[o].simulation.is]
    /\ basis[o].decision # NoRow =>
         decisions[basis[o].decision.id] = [op |-> o, is |-> basis[o].decision.is]

\* PRODUCT_SPEC.md:1134 "All state-changing MVP transactions must be simulated":
\* an operation with a final policy decision has the rows of this pass.  Refuted:
\* advanceOperationLifecycle takes VERIFIED to SIMULATED, and SIMULATED to
\* POLICY_FINALIZED, without either.
FinalizedOnEvidence ==
  \A o \in Ops : opState[o] \in {"POLICY_FINALIZED", "BUDGET_RESERVED", "ENVELOPE_FINALIZED"} =>
    basis[o].simulation # NoRow /\ basis[o].decision # NoRow

\* "the operation must repeat verification, simulation, final policy evaluation,
\* reservation validation, envelope finalization, and authorization": an
\* operation that was sent back gets an envelope again.  Checked for a pause, with
\* an orchestrator that asks for the next state forward (AdvanceTargets).
RevalidatedIsRepeated ==
  \A o \in Ops : (opState[o] = "REVALIDATION_REQUIRED") ~> (opState[o] = "ENVELOPE_FINALIZED")
=============================================================================
