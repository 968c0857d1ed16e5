---------------------------- MODULE PipelineProofs ----------------------------
(* Proofs about the transaction pipeline: the trail and the evidence of an     *)
(* operation on its way to the envelope (TransferPipeline), the resolution and *)
(* the freshness of a transfer (Simulation) and what is made of chain evidence *)
(* (ChainEvidence).  The three share no variable; each has an invariant of its *)
(* own.                                                                        *)
EXTENDS TransferPipeline, Simulation, ChainEvidence, TLAPS

-----------------------------------------------------------------------------
(* TransferPipeline: the inductive invariant. *)

SimulationRows == [op : Ops, is : Evidence]
DecisionRows == [op : Ops, is : Decisions]

PipelineTypeOK ==
  /\ opState \in [Ops -> LIFECYCLE_STATES]
  /\ simulations \in [SimulationIds -> SimulationRows \union {NoRow}]
  /\ decisions \in [DecisionIds -> DecisionRows \union {NoRow}]
  /\ trail \in [Ops -> Seq(0..10)]
  /\ sentBack \in [Ops -> SUBSET Nat]
  /\ basis \in [Ops -> [simulation : [id : SimulationIds, is : Evidence] \union {NoRow},
                        decision : [id : DecisionIds, is : Decisions] \union {NoRow}]]

\* The last event of a trail is not of a stage that the operation has yet to
\* reach, unless the operation was sent back since: without it the next event
\* could be of an earlier stage.
TrailInv ==
  \A o \in Ops : trail[o] # << >> =>
    \/ trail[o][Len(trail[o])] <= Stage[opState[o]]
    \/ Len(trail[o]) \in sentBack[o]

PipelineInv ==
  PipelineTypeOK /\ TrailInv /\ TrailFollowsThePipeline /\ EvidenceIsItsOwn

-----------------------------------------------------------------------------
(* TransferPipeline: lemmas about the table and about trails. *)

LEMMA StageType ==
  ASSUME NEW s \in LIFECYCLE_STATES
  PROVE  Stage[s] \in 0..10
  BY DEF Stage

\* Whatever state a caller of advanceOperationLifecycle asks for, the table takes
\* an operation forward or sends it back to be validated again.
LEMMA AdvanceGoesForward ==
  ASSUME NEW s \in LIFECYCLE_STATES, NEW next,
         next \in LIFECYCLE_TRANSITIONS[s]
  PROVE  /\ next \in LIFECYCLE_STATES
         /\ next # "REVALIDATION_REQUIRED" => Stage[s] <= Stage[next]
<1>1. CASE s \in {"DRAFT", "VALIDATED", "POLICY_PRECHECKED", "CONSTRUCTED", "DECODED"}
  BY <1>1 DEF LIFECYCLE_TRANSITIONS, LIFECYCLE_STATES, Refusals, Stage
<1>2. CASE s \in {"VERIFIED", "SIMULATED", "POLICY_FINALIZED", "BUDGET_RESERVED"}
  BY <1>2 DEF LIFECYCLE_TRANSITIONS, LIFECYCLE_STATES, Refusals, Stage
<1>3. CASE s \in {"ENVELOPE_FINALIZED", "AWAITING_APPROVAL", "AUTHORIZED", "SIGNING"}
  BY <1>3 DEF LIFECYCLE_TRANSITIONS, LIFECYCLE_STATES, Refusals, Stage
<1>4. CASE s \in {"SIGNED", "BROADCAST", "PENDING_CONFIRMATION", "CONFIRMED"}
  BY <1>4 DEF LIFECYCLE_TRANSITIONS, LIFECYCLE_STATES, Refusals, Stage
<1>5. CASE s \in {"BROADCAST_FAILED", "REVERTED", "DISPUTED", "REVALIDATION_REQUIRED"}
  BY <1>5 DEF LIFECYCLE_TRANSITIONS, LIFECYCLE_STATES, Refusals, Stage
<1>6. CASE s \in {"RECONCILED", "REJECTED", "DENIED", "EXPIRED", "SIMULATION_FAILED",
                  "SIGNING_FAILED", "CANCELLED", "REVOKED"}
  BY <1>6 DEF LIFECYCLE_TRANSITIONS, LIFECYCLE_STATES
<1> QED
  BY <1>1, <1>2, <1>3, <1>4, <1>5, <1>6 DEF LIFECYCLE_STATES

\* A trail that tells its stages in order, but for the places in B.
InOrder(t, B) == \A i \in 1..(Len(t) - 1) : t[i] <= t[i + 1] \/ i \in B

LEMMA AppendFacts ==
  ASSUME NEW S, NEW t \in Seq(S), NEW n \in S
  PROVE  /\ Append(t, n) \in Seq(S) /\ Len(t) \in Nat
         /\ Len(Append(t, n)) = Len(t) + 1
         /\ Append(t, n) # << >> /\ Append(t, n)[Len(t) + 1] = n
         /\ \A i \in 1..Len(t) : Append(t, n)[i] = t[i]
  OBVIOUS

\* An event of a stage that is not before the last one may follow a trail in
\* order, and any event when the operation was sent back.
LEMMA AppendInOrder ==
  ASSUME NEW t \in Seq(0..10), NEW B, InOrder(t, B), NEW n \in 0..10,
         t # << >> => (t[Len(t)] <= n \/ Len(t) \in B)
  PROVE  /\ Append(t, n) \in Seq(0..10) /\ Append(t, n) # << >>
         /\ InOrder(Append(t, n), B)
         /\ Append(t, n)[Len(Append(t, n))] = n
<1> DEFINE u == Append(t, n)
<1>1. /\ u \in Seq(0..10) /\ Len(t) \in Nat /\ Len(u) = Len(t) + 1
      /\ u # << >> /\ u[Len(t) + 1] = n
      /\ \A i \in 1..Len(t) : u[i] = t[i]
  <2> DEFINE S == 0..10
  <2>1. t \in Seq(S) /\ n \in S
    OBVIOUS
  <2> HIDE DEF S
  <2>2. /\ u \in Seq(S) /\ Len(t) \in Nat /\ Len(u) = Len(t) + 1
        /\ u # << >> /\ u[Len(t) + 1] = n
        /\ \A i \in 1..Len(t) : u[i] = t[i]
    BY <2>1, AppendFacts
  <2> QED
    BY <2>2 DEF S
<1>2. ASSUME NEW i \in 1..(Len(u) - 1)
      PROVE  u[i] <= u[i + 1] \/ i \in B
  <2>1. CASE i = Len(t)
    <3>1. t # << >> /\ u[i] = t[Len(t)] /\ u[i + 1] = n
      BY <1>1, <1>2, <2>1
    <3> QED
      BY <2>1, <3>1
  <2>2. CASE i # Len(t)
    BY <1>1, <1>2, <2>2 DEF InOrder
  <2> QED
    BY <2>1, <2>2
<1> QED
  BY <1>1, <1>2 DEF InOrder

\* INSERT .. ON CONFLICT DO NOTHING never changes a row that is there.
LEMMA InsertedKeeps ==
  ASSUME NEW I, NEW R, NoRow \notin R, NEW rs \in [I -> R \union {NoRow}],
         NEW id \in I, NEW o, NEW e, [op |-> o, is |-> e] \in R
  PROVE  /\ Inserted(rs, id, o, e) \in [I -> R \union {NoRow}]
         /\ \A i \in I : rs[i] # NoRow => Inserted(rs, id, o, e)[i] = rs[i]
  BY DEF Inserted

-----------------------------------------------------------------------------
(* TransferPipeline: what a step does to one operation. *)

\* The state moved forward without an event, or with an event of a stage that
\* lies between the old state and the new one, or the operation was sent back.
TrailMoves(o) ==
  /\ sentBack'[o] \in SUBSET Nat /\ sentBack[o] \subseteq sentBack'[o]
  /\ opState'[o] \in LIFECYCLE_STATES
  /\ \/ /\ trail'[o] = trail[o]
        /\ Stage[opState[o]] <= Stage[opState'[o]] \/ Len(trail[o]) \in sentBack'[o]
     \/ \E n \in 0..10 :
          /\ trail'[o] = Append(trail[o], n)
          /\ Stage[opState[o]] <= n \/ Len(trail[o]) \in sentBack'[o]
          /\ n <= Stage[opState'[o]]

\* Trails stay in order under such moves, whatever else the step does.
LEMMA TrailKeeps ==
  ASSUME PipelineInv, \A o \in Ops : TrailMoves(o),
         trail' = [o \in Ops |-> trail'[o]], sentBack' = [o \in Ops |-> sentBack'[o]]
  PROVE  /\ trail' \in [Ops -> Seq(0..10)] /\ sentBack' \in [Ops -> SUBSET Nat]
         /\ TrailInv' /\ TrailFollowsThePipeline'
<1>1. ASSUME NEW o \in Ops
      PROVE  /\ trail'[o] \in Seq(0..10)
             /\ trail'[o] # << >> => \/ trail'[o][Len(trail'[o])] <= Stage[opState'[o]]
                                     \/ Len(trail'[o]) \in sentBack'[o]
             /\ InOrder(trail'[o], sentBack'[o])
  <2> DEFINE s == Stage[opState[o]]
             t == Stage[opState'[o]]
  <2>1. /\ trail[o] \in Seq(0..10) /\ InOrder(trail[o], sentBack[o])
        /\ trail[o] # << >> => trail[o][Len(trail[o])] <= s \/ Len(trail[o]) \in sentBack[o]
    BY DEF PipelineInv, PipelineTypeOK, TrailInv, TrailFollowsThePipeline, InOrder
  <2>2. s \in 0..10 /\ t \in 0..10 /\ sentBack[o] \subseteq sentBack'[o]
    BY <1>1, StageType DEF TrailMoves, PipelineInv, PipelineTypeOK
  <2> DEFINE last == trail[o][Len(trail[o])]
  <2>3. trail[o] # << >> => last \in 0..10
    BY <2>1
  <2>4. InOrder(trail[o], sentBack'[o])
    BY <2>1, <2>2 DEF InOrder
  <2>5. trail[o] # << >> => last <= s \/ Len(trail[o]) \in sentBack[o]
    BY <2>1
  <2>6. CASE trail'[o] = trail[o] /\ (s <= t \/ Len(trail[o]) \in sentBack'[o])
    <3>1. trail[o] # << >> => last <= t \/ Len(trail[o]) \in sentBack'[o]
      <4> HIDE DEF last, s, t
      <4> QED
        BY <2>2, <2>3, <2>6, <2>5
    <3> QED
      BY <2>1, <2>4, <2>6, <3>1
  <2>7. CASE \E n \in 0..10 : /\ trail'[o] = Append(trail[o], n)
                              /\ s <= n \/ Len(trail[o]) \in sentBack'[o]
                              /\ n <= t
    <3>1. PICK n \in 0..10 : /\ trail'[o] = Append(trail[o], n)
                             /\ s <= n \/ Len(trail[o]) \in sentBack'[o]
                             /\ n <= t
      BY <2>7
    <3>2. trail[o] # << >> => (last <= n \/ Len(trail[o]) \in sentBack'[o])
      <4> HIDE DEF last, s, t
      <4> QED
        BY <2>2, <2>3, <2>5, <3>1
    <3> QED
      BY <2>1, <2>4, <3>1, <3>2, AppendInOrder
  <2> QED
    BY <1>1, <2>6, <2>7 DEF TrailMoves
<1>2. \A o \in Ops : sentBack'[o] \in SUBSET Nat
  BY DEF TrailMoves
<1> QED
  BY <1>1, <1>2 DEF TrailInv, TrailFollowsThePipeline, InOrder

\* What moved an operation in this pass stays what it was, or is forgotten with
\* the pass, or is the row that this step found or inserted under its id.
SimulationMoves(o) ==
  \/ basis'[o].simulation \in {NoRow, basis[o].simulation}
  \/ /\ basis'[o].simulation \in [id : SimulationIds, is : Evidence]
     /\ BoundTo(simulations'[basis'[o].simulation.id], o, basis'[o].simulation.is)

DecisionMoves(o) ==
  \/ basis'[o].decision \in {NoRow, basis[o].decision}
  \/ /\ basis'[o].decision \in [id : DecisionIds, is : Decisions]
     /\ BoundTo(decisions'[basis'[o].decision.id], o, basis'[o].decision.is)

RowsStay ==
  /\ \A i \in SimulationIds : simulations[i] # NoRow => simulations'[i] = simulations[i]
  /\ \A i \in DecisionIds : decisions[i] # NoRow => decisions'[i] = decisions[i]

\* As rows are never overwritten, evidence that was an operation's own stays so.
LEMMA EvidenceKeeps ==
  ASSUME PipelineInv, RowsStay,
         \A o \in Ops : SimulationMoves(o) /\ DecisionMoves(o)
  PROVE  EvidenceIsItsOwn'
<1>1. ASSUME NEW o \in Ops, basis'[o].simulation # NoRow
      PROVE  simulations'[basis'[o].simulation.id] =
               [op |-> o, is |-> basis'[o].simulation.is]
  <2>1. CASE basis'[o].simulation = basis[o].simulation
    <3>1. /\ basis[o].simulation \in [id : SimulationIds, is : Evidence]
          /\ simulations[basis[o].simulation.id] = [op |-> o, is |-> basis[o].simulation.is]
      BY <1>1, <2>1 DEF PipelineInv, PipelineTypeOK, EvidenceIsItsOwn
    <3>2. [op |-> o, is |-> basis[o].simulation.is] \in SimulationRows
      BY <3>1 DEF SimulationRows
    <3>3. simulations[basis[o].simulation.id] # NoRow
      BY <3>1, <3>2, NoRowAssumption DEF SimulationRows
    <3> QED
      BY <2>1, <3>1, <3>3 DEF RowsStay
  <2> QED
    BY <1>1, <2>1 DEF SimulationMoves, BoundTo
<1>2. ASSUME NEW o \in Ops, basis'[o].decision # NoRow
      PROVE  decisions'[basis'[o].decision.id] = [op |-> o, is |-> basis'[o].decision.is]
  <2>1. CASE basis'[o].decision = basis[o].decision
    <3>1. /\ basis[o].decision \in [id : DecisionIds, is : Decisions]
          /\ decisions[basis[o].decision.id] = [op |-> o, is |-> basis[o].decision.is]
      BY <1>2, <2>1 DEF PipelineInv, PipelineTypeOK, EvidenceIsItsOwn
    <3>2. [op |-> o, is |-> basis[o].decision.is] \in DecisionRows
      BY <3>1 DEF DecisionRows
    <3>3. decisions[basis[o].decision.id] # NoRow
      BY <3>1, <3>2, NoRowAssumption DEF DecisionRows
    <3> QED
      BY <2>1, <3>1, <3>3 DEF RowsStay
  <2> QED
    BY <1>2, <2>1 DEF DecisionMoves, BoundTo
<1> QED
  BY <1>1, <1>2 DEF EvidenceIsItsOwn

\* The whole invariant, from what a step does to types, rows and each operation.
LEMMA PipelineKeeps ==
  ASSUME PipelineInv, RowsStay,
         opState' \in [Ops -> LIFECYCLE_STATES],
         simulations' \in [SimulationIds -> SimulationRows \union {NoRow}],
         decisions' \in [DecisionIds -> DecisionRows \union {NoRow}],
         basis' \in [Ops -> [simulation : [id : SimulationIds, is : Evidence] \union {NoRow},
                             decision : [id : DecisionIds, is : Decisions] \union {NoRow}]],
         trail' = [o \in Ops |-> trail'[o]], sentBack' = [o \in Ops |-> sentBack'[o]],
         \A o \in Ops : TrailMoves(o) /\ SimulationMoves(o) /\ DecisionMoves(o)
  PROVE  PipelineInv'
  BY TrailKeeps, EvidenceKeeps DEF PipelineInv, PipelineTypeOK

-----------------------------------------------------------------------------
(* TransferPipeline: the steps. *)

\* Every operation starts before construction, with no event and no evidence.
LEMMA PipelineInitInv == PipelineInit => PipelineInv
<1> SUFFICES ASSUME PipelineInit PROVE PipelineInv
  OBVIOUS
<1>1. PipelineTypeOK
  BY DEF PipelineInit, PipelineTypeOK, LIFECYCLE_STATES, NoBasis
<1>2. \A o \in Ops : trail[o] = << >> /\ basis[o] = NoBasis
  BY DEF PipelineInit
<1> QED
  BY <1>1, <1>2 DEF PipelineInv, TrailInv, TrailFollowsThePipeline, EvidenceIsItsOwn, NoBasis

\* An event is the last of its trail, if the call's caller wants it recorded.
LEMMA MayRecordMoves ==
  ASSUME PipelineTypeOK, NEW o \in Ops, NEW state \in LIFECYCLE_STATES, MayRecord(o, state)
  PROVE  /\ trail' = [p \in Ops |-> trail'[p]]
         /\ \A p \in Ops \ {o} : trail'[p] = trail[p]
         /\ trail'[o] = trail[o] \/ trail'[o] = Append(trail[o], Stage[state])
  BY DEF MayRecord, Records, PipelineTypeOK

\* A call that moves one operation forward, and records it or not, keeps the
\* trails in order; the other operations stay where they are.
LEMMA ForwardMoves ==
  ASSUME PipelineTypeOK, NEW o \in Ops, NEW next \in LIFECYCLE_STATES,
         opState' = [opState EXCEPT ![o] = next], MayRecord(o, next),
         UNCHANGED sentBack, Stage[opState[o]] <= Stage[next]
  PROVE  \A p \in Ops : TrailMoves(p)
<1>1. ASSUME NEW p \in Ops PROVE TrailMoves(p)
  <2>1. /\ Stage[opState[p]] \in 0..10 /\ Stage[next] \in 0..10
        /\ opState'[p] = (IF p = o THEN next ELSE opState[p])
        /\ sentBack'[p] = sentBack[p] /\ sentBack[p] \in SUBSET Nat
    BY StageType DEF PipelineTypeOK
  <2>2. CASE p = o
    <3>1. trail'[o] = trail[o] \/ trail'[o] = Append(trail[o], Stage[next])
      BY MayRecordMoves
    <3>2. CASE trail'[o] = trail[o]
      BY <2>1, <2>2, <3>2 DEF TrailMoves
    <3>3. CASE trail'[o] = Append(trail[o], Stage[next])
      <4>1. \E n \in 0..10 : /\ trail'[o] = Append(trail[o], n)
                             /\ Stage[opState[o]] <= n
                             /\ n <= Stage[next]
        <5> Stage[next] \in 0..10
          BY <2>1
        <5> WITNESS Stage[next] \in 0..10
        <5> QED
          BY <3>3
      <4> QED
        BY <2>1, <2>2, <4>1 DEF TrailMoves
    <3> QED
      BY <3>1, <3>2, <3>3
  <2>3. CASE p # o
    <3>1. trail'[p] = trail[p]
      BY <2>3, MayRecordMoves
    <3> QED
      BY <2>1, <2>3, <3>1 DEF TrailMoves, PipelineTypeOK
  <2> QED
    BY <2>2, <2>3
<1> QED
  BY <1>1

\* Sent back operations forget their evidence, and their trails may start again.
LEMMA RestartMoves ==
  ASSUME PipelineInv, NEW O \in SUBSET Ops, Restarts(O), UNCHANGED rowVars,
         opState' = [p \in Ops |-> IF p \in O THEN "REVALIDATION_REQUIRED" ELSE opState[p]],
         trail' = [p \in Ops |-> trail'[p]],
         \A p \in Ops \ O : trail'[p] = trail[p],
         \A p \in O : trail'[p] \in {trail[p], Append(trail[p], 0)}
  PROVE  PipelineInv'
<1>1. PipelineTypeOK
  BY DEF PipelineInv
<1>2. opState' \in [Ops -> LIFECYCLE_STATES] /\ Stage["REVALIDATION_REQUIRED"] = 0
  BY <1>1 DEF PipelineTypeOK, LIFECYCLE_STATES, Stage
<1>3. /\ basis' \in [Ops -> [simulation : [id : SimulationIds, is : Evidence] \union {NoRow},
                             decision : [id : DecisionIds, is : Decisions] \union {NoRow}]]
      /\ sentBack' = [p \in Ops |-> sentBack'[p]]
      /\ RowsStay
  BY <1>1 DEF Restarts, NoBasis, PipelineTypeOK, RowsStay, rowVars
<1>4. ASSUME NEW p \in Ops
      PROVE  TrailMoves(p) /\ SimulationMoves(p) /\ DecisionMoves(p)
  <2>1. CASE p \in O
    <3>1. /\ basis'[p] = NoBasis
          /\ sentBack'[p] = sentBack[p] \union {Len(trail[p])}
          /\ opState'[p] = "REVALIDATION_REQUIRED"
      BY <2>1 DEF Restarts
    <3>2. sentBack[p] \in SUBSET Nat /\ Len(trail[p]) \in Nat
      BY <1>1 DEF PipelineTypeOK
    <3>3. trail'[p] = trail[p] \/ trail'[p] = Append(trail[p], 0)
      BY <2>1
    <3> QED
      BY <1>2, <3>1, <3>2, <3>3 DEF TrailMoves, SimulationMoves, DecisionMoves, NoBasis,
         LIFECYCLE_STATES
  <2>2. CASE p \notin O
    <3>1. /\ basis'[p] = basis[p] /\ sentBack'[p] = sentBack[p]
          /\ opState'[p] = opState[p] /\ trail'[p] = trail[p]
      BY <2>2 DEF Restarts
    <3>2. /\ sentBack[p] \in SUBSET Nat /\ opState[p] \in LIFECYCLE_STATES
          /\ Stage[opState[p]] \in 0..10
      BY <1>1, StageType DEF PipelineTypeOK
    <3> QED
      BY <3>1, <3>2 DEF TrailMoves, SimulationMoves, DecisionMoves
  <2> QED
    BY <2>1, <2>2
<1> QED
  BY <1>1, <1>2, <1>3, <1>4, PipelineKeeps DEF PipelineTypeOK, rowVars

\* advanceOperationLifecycle goes forward in the table and keeps the evidence,
\* or sends the operation back, with an event or without one.
LEMMA AdvanceKeepsPipeline ==
  ASSUME PipelineInv, NEW o \in Ops, NEW next, AdvanceOperationLifecycle(o, next)
  PROVE  PipelineInv'
<1>1. /\ PipelineTypeOK /\ UNCHANGED rowVars
      /\ opState' = [opState EXCEPT ![o] = next]
      /\ opState[o] \in LIFECYCLE_STATES
      /\ next \in LIFECYCLE_TRANSITIONS[opState[o]]
      /\ MayRecord(o, next)
  BY DEF AdvanceOperationLifecycle, PipelineInv, PipelineTypeOK, Transition, MayRecord
<1>2. /\ next \in LIFECYCLE_STATES
      /\ next # "REVALIDATION_REQUIRED" => Stage[opState[o]] <= Stage[next]
  BY <1>1, AdvanceGoesForward
<1>3. CASE next = "REVALIDATION_REQUIRED"
  <2>1. /\ Restarts({o}) /\ Stage[next] = 0
        /\ opState' = [p \in Ops |-> IF p \in {o} THEN "REVALIDATION_REQUIRED"
                                                 ELSE opState[p]]
    BY <1>1, <1>3 DEF AdvanceOperationLifecycle, PipelineTypeOK, Stage, LIFECYCLE_STATES
  <2>2. /\ trail' = [p \in Ops |-> trail'[p]]
        /\ \A p \in Ops \ {o} : trail'[p] = trail[p]
        /\ trail'[o] = trail[o] \/ trail'[o] = Append(trail[o], 0)
    BY <1>1, <1>2, <2>1, MayRecordMoves
  <2> QED
    BY <1>1, <2>1, <2>2, RestartMoves
<1>4. CASE next # "REVALIDATION_REQUIRED"
  <2>1. StaysInPass
    BY <1>4 DEF AdvanceOperationLifecycle
  <2>2. \A p \in Ops : TrailMoves(p)
    BY <1>1, <1>2, <1>4, <2>1, ForwardMoves DEF StaysInPass
  <2>3. \A p \in Ops : SimulationMoves(p) /\ DecisionMoves(p)
    BY <2>1 DEF StaysInPass, SimulationMoves, DecisionMoves
  <2>4. opState' \in [Ops -> LIFECYCLE_STATES] /\ trail' = [p \in Ops |-> trail'[p]]
    BY <1>1, <1>2, MayRecordMoves DEF PipelineTypeOK
  <2> QED
    BY <1>1, <2>1, <2>2, <2>3, <2>4, PipelineKeeps
       DEF PipelineTypeOK, StaysInPass, RowsStay, rowVars
<1> QED
  BY <1>3, <1>4

\* persistTransferPipelineAudit writes the event of the state that the row is in.
LEMMA AuditKeepsPipeline ==
  ASSUME PipelineInv, NEW o \in Ops, NEW s \in {"CONSTRUCTED", "DECODED", "VERIFIED"},
         NEW f, PersistTransferPipelineAudit(o, s, f)
  PROVE  PipelineInv'
<1>1. /\ PipelineTypeOK /\ opState[o] = s
      /\ UNCHANGED <<opState, rowVars, basis, sentBack>>
      /\ MayRecord(o, s)
  BY DEF PersistTransferPipelineAudit, InState, PipelineInv, MayRecord
<1>2. s \in LIFECYCLE_STATES /\ Stage[s] \in 0..10
  BY StageType DEF LIFECYCLE_STATES
<1>3. opState' = [opState EXCEPT ![o] = s]
  BY <1>1 DEF PipelineTypeOK
<1>4. \A p \in Ops : TrailMoves(p)
  <2>1. Stage[opState[o]] <= Stage[s]
    BY <1>1, <1>2
  <2>2. UNCHANGED sentBack
    BY <1>1
  <2> QED
    BY <1>1, <1>2, <1>3, <2>1, <2>2, ForwardMoves
<1>5. \A p \in Ops : SimulationMoves(p) /\ DecisionMoves(p)
  BY <1>1 DEF SimulationMoves, DecisionMoves
<1>6. RowsStay /\ trail' = [p \in Ops |-> trail'[p]]
  BY <1>1, <1>2, MayRecordMoves DEF RowsStay, rowVars
<1> QED
  BY <1>1, <1>4, <1>5, <1>6, PipelineKeeps DEF PipelineTypeOK, rowVars

\* persistSimulation moves the operation on the row under the id given, which is
\* its own, whether this call inserted it or found it.
LEMMA SimulationKeepsPipeline ==
  ASSUME PipelineInv, NEW o \in Ops, NEW id \in SimulationIds, NEW e \in Evidence,
         PersistSimulation(o, id, e)
  PROVE  PipelineInv'
<1> DEFINE row == [op |-> o, is |-> e]
<1>1. /\ PipelineTypeOK /\ opState[o] = "VERIFIED"
      /\ opState' = [opState EXCEPT ![o] = "SIMULATED"]
      /\ simulations' = Inserted(simulations, id, o, e)
      /\ BoundTo(simulations'[id], o, e)
      /\ MayRecord(o, "SIMULATED")
      /\ basis' = [basis EXCEPT ![o].simulation = [id |-> id, is |-> e]]
      /\ UNCHANGED <<decisions, sentBack>>
  BY DEF PersistSimulation, Transition, PipelineInv
<1>2. /\ simulations' \in [SimulationIds -> SimulationRows \union {NoRow}]
      /\ RowsStay
  <2>1. row \in SimulationRows /\ NoRow \notin SimulationRows
    BY NoRowAssumption DEF SimulationRows
  <2>2. simulations \in [SimulationIds -> SimulationRows \union {NoRow}]
    BY <1>1 DEF PipelineTypeOK
  <2>3. /\ Inserted(simulations, id, o, e) \in [SimulationIds -> SimulationRows \union {NoRow}]
        /\ \A i \in SimulationIds : simulations[i] # NoRow =>
             Inserted(simulations, id, o, e)[i] = simulations[i]
    BY <2>1, <2>2, InsertedKeeps
  <2> QED
    BY <1>1, <2>3 DEF RowsStay
<1>3. /\ "SIMULATED" \in LIFECYCLE_STATES
      /\ opState' \in [Ops -> LIFECYCLE_STATES]
      /\ Stage[opState[o]] <= Stage["SIMULATED"]
  BY <1>1 DEF PipelineTypeOK, LIFECYCLE_STATES, Stage
<1>4. /\ basis' \in [Ops -> [simulation : [id : SimulationIds, is : Evidence] \union {NoRow},
                             decision : [id : DecisionIds, is : Decisions] \union {NoRow}]]
      /\ basis'[o].simulation = [id |-> id, is |-> e]
      /\ basis'[o].decision = basis[o].decision
      /\ \A p \in Ops \ {o} : basis'[p] = basis[p]
  BY <1>1 DEF PipelineTypeOK
<1>5. \A p \in Ops : SimulationMoves(p) /\ DecisionMoves(p)
  BY <1>1, <1>4 DEF SimulationMoves, DecisionMoves
<1>6. \A p \in Ops : TrailMoves(p)
  BY <1>1, <1>3, ForwardMoves
<1>7. trail' = [p \in Ops |-> trail'[p]]
  BY <1>1, <1>3, MayRecordMoves
<1> QED
  BY <1>1, <1>2, <1>3, <1>4, <1>5, <1>6, <1>7, PipelineKeeps DEF PipelineTypeOK

\* persistPolicyDecision, likewise.
LEMMA DecisionKeepsPipeline ==
  ASSUME PipelineInv, NEW o \in Ops, NEW id \in DecisionIds, NEW d \in Decisions,
         PersistPolicyDecision(o, id, d)
  PROVE  PipelineInv'
<1> DEFINE row == [op |-> o, is |-> d]
<1>1. /\ PipelineTypeOK /\ opState[o] = "SIMULATED"
      /\ opState' = [opState EXCEPT ![o] = "POLICY_FINALIZED"]
      /\ decisions' = Inserted(decisions, id, o, d)
      /\ BoundTo(decisions'[id], o, d)
      /\ MayRecord(o, "POLICY_FINALIZED")
      /\ basis' = [basis EXCEPT ![o].decision = [id |-> id, is |-> d]]
      /\ UNCHANGED <<simulations, sentBack>>
  BY DEF PersistPolicyDecision, Transition, PipelineInv
<1>2. /\ decisions' \in [DecisionIds -> DecisionRows \union {NoRow}]
      /\ RowsStay
  <2>1. row \in DecisionRows /\ NoRow \notin DecisionRows
    BY NoRowAssumption DEF DecisionRows
  <2>2. decisions \in [DecisionIds -> DecisionRows \union {NoRow}]
    BY <1>1 DEF PipelineTypeOK
  <2>3. /\ Inserted(decisions, id, o, d) \in [DecisionIds -> DecisionRows \union {NoRow}]
        /\ \A i \in DecisionIds : decisions[i] # NoRow =>
             Inserted(decisions, id, o, d)[i] = decisions[i]
    BY <2>1, <2>2, InsertedKeeps
  <2> QED
    BY <1>1, <2>3 DEF RowsStay
<1>3. /\ "POLICY_FINALIZED" \in LIFECYCLE_STATES
      /\ opState' \in [Ops -> LIFECYCLE_STATES]
      /\ Stage[opState[o]] <= Stage["POLICY_FINALIZED"]
  BY <1>1 DEF PipelineTypeOK, LIFECYCLE_STATES, Stage
<1>4. /\ basis' \in [Ops -> [simulation : [id : SimulationIds, is : Evidence] \union {NoRow},
                             decision : [id : DecisionIds, is : Decisions] \union {NoRow}]]
      /\ basis'[o].decision = [id |-> id, is |-> d]
      /\ basis'[o].simulation = basis[o].simulation
      /\ \A p \in Ops \ {o} : basis'[p] = basis[p]
  BY <1>1 DEF PipelineTypeOK
<1>5. \A p \in Ops : SimulationMoves(p) /\ DecisionMoves(p)
  BY <1>1, <1>4 DEF SimulationMoves, DecisionMoves
<1>6. \A p \in Ops : TrailMoves(p)
  BY <1>1, <1>3, ForwardMoves
<1>7. trail' = [p \in Ops |-> trail'[p]]
  BY <1>1, <1>3, MayRecordMoves
<1> QED
  BY <1>1, <1>2, <1>3, <1>4, <1>5, <1>6, <1>7, PipelineKeeps DEF PipelineTypeOK

\* persistExecutionEnvelope goes on with what the operation has.
LEMMA EnvelopeKeepsPipeline ==
  ASSUME PipelineInv, NEW o \in Ops, PersistExecutionEnvelope(o)
  PROVE  PipelineInv'
<1>1. /\ PipelineTypeOK /\ opState[o] = "BUDGET_RESERVED"
      /\ opState' = [opState EXCEPT ![o] = "ENVELOPE_FINALIZED"]
      /\ MayRecord(o, "ENVELOPE_FINALIZED")
      /\ UNCHANGED <<rowVars, basis, sentBack>>
  BY DEF PersistExecutionEnvelope, Transition, PipelineInv
<1>2. /\ "ENVELOPE_FINALIZED" \in LIFECYCLE_STATES
      /\ opState' \in [Ops -> LIFECYCLE_STATES]
      /\ Stage[opState[o]] <= Stage["ENVELOPE_FINALIZED"]
  BY <1>1 DEF PipelineTypeOK, LIFECYCLE_STATES, Stage
<1>3. \A p \in Ops : TrailMoves(p)
  BY <1>1, <1>2, ForwardMoves
<1>4. \A p \in Ops : SimulationMoves(p) /\ DecisionMoves(p)
  BY <1>1 DEF SimulationMoves, DecisionMoves
<1>5. RowsStay /\ trail' = [p \in Ops |-> trail'[p]]
  BY <1>1, <1>2, MayRecordMoves DEF RowsStay, rowVars
<1> QED
  BY <1>1, <1>2, <1>3, <1>4, <1>5, PipelineKeeps DEF PipelineTypeOK, rowVars

\* A pause sends operations back and says so in their trails.
LEMMA PauseKeepsPipeline ==
  ASSUME PipelineInv, PauseAndResume
  PROVE  PipelineInv'
<1>1. PICK fenced \in SUBSET Ops :
        /\ Restarts(fenced)
        /\ opState' = [o \in Ops |-> IF o \in fenced THEN "REVALIDATION_REQUIRED"
                                     ELSE opState[o]]
        /\ trail' = [o \in Ops |-> IF o \in fenced THEN Append(trail[o], 0) ELSE trail[o]]
        /\ UNCHANGED rowVars
  BY DEF PauseAndResume
<1>2. /\ trail' = [p \in Ops |-> trail'[p]]
      /\ \A p \in Ops \ fenced : trail'[p] = trail[p]
      /\ \A p \in fenced : trail'[p] \in {trail[p], Append(trail[p], 0)}
  BY <1>1
<1> QED
  BY <1>1, <1>2, RestartMoves

\* The other steps touch neither a state, nor a trail, nor evidence.
LEMMA OthersKeepPipeline ==
  ASSUME PipelineInv, UNCHANGED <<opState, rowVars, trail, basis, sentBack>>
  PROVE  PipelineInv'
  BY DEF PipelineInv, PipelineTypeOK, TrailInv, TrailFollowsThePipeline,
     EvidenceIsItsOwn, rowVars

LEMMA PipelineStep == PipelineInv /\ [PipelineNext]_pipelineVars => PipelineInv'
<1> SUFFICES ASSUME PipelineInv, [PipelineNext]_pipelineVars PROVE PipelineInv'
  OBVIOUS
<1>1. ASSUME NEW o \in Ops, Prepare(o) PROVE PipelineInv'
  <2>1. ASSUME NEW next \in AdvanceTargets, AdvanceOperationLifecycle(o, next)
        PROVE  PipelineInv'
    BY <2>1, AdvanceKeepsPipeline
  <2>2. ASSUME NEW i \in SimulationIds, NEW e \in Evidence, PersistSimulation(o, i, e)
        PROVE  PipelineInv'
    BY <2>2, SimulationKeepsPipeline
  <2>3. ASSUME NEW i \in DecisionIds, NEW d \in Decisions, PersistPolicyDecision(o, i, d)
        PROVE  PipelineInv'
    BY <2>3, DecisionKeepsPipeline
  <2>4. CASE ReserveBudget(o)
    BY <2>4, OthersKeepPipeline DEF ReserveBudget
  <2>5. CASE PersistExecutionEnvelope(o)
    BY <2>5, EnvelopeKeepsPipeline
  <2> QED
    BY <1>1, <2>1, <2>2, <2>3, <2>4, <2>5 DEF Prepare
<1>2. ASSUME NEW o \in Ops, NEW status, ReturnReservation(o, status) PROVE PipelineInv'
  BY <1>2, OthersKeepPipeline DEF ReturnReservation
<1>3. ASSUME NEW o \in Ops, NEW s \in {"CONSTRUCTED", "DECODED", "VERIFIED"},
             NEW f \in Fixtures, PersistTransferPipelineAudit(o, s, f)
      PROVE  PipelineInv'
  BY <1>3, AuditKeepsPipeline
<1>4. CASE PauseAndResume
  BY <1>4, PauseKeepsPipeline
<1>5. CASE ReplaceFixture
  BY <1>5, OthersKeepPipeline DEF ReplaceFixture
<1>6. CASE UNCHANGED pipelineVars
  BY <1>6, OthersKeepPipeline DEF pipelineVars
<1> QED
  BY <1>1, <1>2, <1>3, <1>4, <1>5, <1>6 DEF PipelineNext

\* The invariant holds for any number of operations, callers' ids, fixtures and
\* restarts, any length of the trails and any states that callers ask for.
THEOREM PipelineHolds == PipelineSpec => []PipelineInv
  BY PipelineInitInv, PipelineStep, PTL DEF PipelineSpec

\* The audit trail of an operation tells its pipeline in order from one time it
\* is sent back to the next, although persistTransferPipelineAudit is a call of
\* its own that may be late, repeated or left out, every other event is the
\* caller's choice, and advanceOperationLifecycle takes any adjacent state.
THEOREM TrailsAreInOrder == PipelineSpec => []TrailFollowsThePipeline
<1>1. PipelineInv => TrailFollowsThePipeline
  BY DEF PipelineInv
<1> QED
  BY <1>1, PipelineHolds, PTL

\* No call moves an operation on evidence of another one or on other evidence
\* than its caller presented, although ids collide and an insert that conflicts
\* does nothing (persistSimulation, persistPolicyDecision).
THEOREM EvidenceStaysOwn == PipelineSpec => []EvidenceIsItsOwn
<1>1. PipelineInv => EvidenceIsItsOwn
  BY DEF PipelineInv
<1> QED
  BY <1>1, PipelineHolds, PTL

-----------------------------------------------------------------------------
(* Simulation: the inductive invariant.  Reads of one evaluation are separate, *)
(* so the invariant says of each value read which block it is of: of the block *)
(* at the hash read first, provided that this block is still on the chain.     *)

\* The block of hash h is on the chain, at height n.
OnChain(n, h) == n \in DOMAIN chain /\ chain[n] = h

ChainOK ==
  /\ blocks \in Seq(Block)
  /\ chain \in Seq(1..Len(blocks)) /\ chain # <<>>
  /\ limits \in [intent : Ceilings, policy : Ceilings]

ResolveCalls == {"head", "block", "byHash", "nonce", "token", "native", "simulate", "fee"}
AfterBlock == {"byHash", "nonce", "token", "native", "simulate", "fee"}
CheckCalls == {"head", "block", "nonce", "token", "native", "fee"}
Calls ==
  {<<"none", "none">>} \union {<<"resolve", c>> : c \in ResolveCalls}
    \union {<<"check", c>> : c \in CheckCalls}

Resolves(calls) == \E c \in calls : Resolving(c)
Checks(calls) == \E c \in calls : Check(c)

\* What simulateAndResolveTransfer has read when it is about to make a read of
\* the set.
ResolveInv ==
  /\ Resolves(ResolveCalls) => freshness = "NONE"
  /\ Resolving("block") => got.number \in Nat
  /\ Resolves(AfterBlock) =>
       /\ {"number", "hash", "base"} \subseteq DOMAIN got
       /\ got.number \in Nat /\ got.hash \in 1..Len(blocks)
       /\ got.base = blocks[got.hash].base
  /\ Resolves({"native", "simulate", "fee"}) =>
       /\ "token" \in DOMAIN got
       /\ OnChain(got.number, got.hash) => got.token = blocks[got.hash].token
  /\ Resolves({"simulate", "fee"}) =>
       /\ "native" \in DOMAIN got
       /\ OnChain(got.number, got.hash) => got.native = blocks[got.hash].native
  /\ Resolving("fee") => got.gas \in GasEstimates \ {0}

\* The balances and the base fee of the evidence are those of its block.
OfOneBlock ==
  LET b == blocks[evidence.hash]
  IN  evidence.token = b.token /\ evidence.native = b.native /\ evidence.base = b.base

\* What simulateAndResolveTransfer returned.
ResolvedInv ==
  /\ evidence.resolved \in BOOLEAN
  /\ evidence.resolved =>
       /\ evidence.number \in Nat /\ evidence.hash \in 1..Len(blocks)
       /\ evidence.base \in Bases /\ evidence.priority \in Priorities
       /\ evidence.gas \in GasEstimates \ {0}
       /\ evidence.gasLimit = GasLimitOf(evidence.gas)
       /\ evidence.maxFee = MaxFee(evidence.base, evidence.priority)
       /\ evidence.cost = evidence.gasLimit * evidence.maxFee
       /\ evidence.cost <= Least(limits.intent, limits.policy)
       /\ OnChain(evidence.number, evidence.hash) => OfOneBlock

\* What checkSimulationFreshness has found when it is about to make a read of the
\* set, and when it has called the evidence fresh.
CheckedHead ==
  /\ "head" \in DOMAIN got /\ got.head \in Nat
  /\ evidence.number <= got.head /\ got.head - evidence.number <= MaxBlockAge
  /\ undisturbed => got.head \in DOMAIN chain

CheckInv ==
  /\ Checks(CheckCalls) => evidence.resolved /\ freshness = "NONE"
  /\ Checks(CheckCalls \ {"head"}) => CheckedHead
  /\ Checks(CheckCalls \ {"head", "block"}) =>
       OfOneBlock /\ (undisturbed => OnChain(evidence.number, evidence.hash))
  /\ Checks({"native", "fee"}) => (undisturbed => At(got.head).token >= Amount)
  /\ Checks({"fee"}) => (undisturbed => At(got.head).native >= evidence.cost)
  /\ freshness = "FRESH" =>
       /\ call = <<"none", "none">>
       /\ evidence.resolved /\ CheckedHead /\ OfOneBlock
       /\ undisturbed =>
            /\ OnChain(evidence.number, evidence.hash)
            /\ At(got.head).token >= Amount
            /\ At(got.head).native >= evidence.cost
            /\ At(got.head).base + evidence.priority <= evidence.maxFee

SimInv == ChainOK /\ call \in Calls /\ ResolveInv /\ ResolvedInv /\ CheckInv

-----------------------------------------------------------------------------
(* Simulation: lemmas. *)

\* Which reads are next, before and after a step.
LEMMA CallIs ==
  ASSUME NEW c, NEW S
  PROVE  /\ call = <<"resolve", c>> => (Resolves(S) <=> c \in S) /\ ~Checks(S)
         /\ call = <<"check", c>> => (Checks(S) <=> c \in S) /\ ~Resolves(S)
         /\ call = <<"none", "none">> => ~Resolves(S) /\ ~Checks(S)
  BY DEF Resolves, Checks, Resolving, Check

LEMMA CallBecomes ==
  ASSUME NEW c, NEW S
  PROVE  /\ call' = <<"resolve", c>> => (Resolves(S)' <=> c \in S) /\ ~Checks(S)'
         /\ call' = <<"check", c>> => (Checks(S)' <=> c \in S) /\ ~Resolves(S)'
         /\ call' = <<"none", "none">> => ~Resolves(S)' /\ ~Checks(S)'
  BY DEF Resolves, Checks, Resolving, Check

\* What the node may do to what was read: blocks keep their contents, a block
\* that was dropped never returns (its hash is not used again), and while no
\* block is dropped the chain only grows.
NodeMoves ==
  /\ \A h \in 1..Len(blocks) : h \in 1..Len(blocks') /\ blocks'[h] = blocks[h]
  /\ \A n : \A h \in 1..Len(blocks) :
       n \in DOMAIN chain' /\ chain'[n] = h => OnChain(n, h)
  /\ undisturbed' =>
       undisturbed /\ \A n \in DOMAIN chain : n \in DOMAIN chain' /\ chain'[n] = chain[n]

LEMMA MineMoves ==
  ASSUME ChainOK, Mine
  PROVE  ChainOK' /\ NodeMoves
<1>1. PICK b \in Block : blocks' = Append(blocks, b)
  BY DEF Mine
<1>2. chain' = Append(chain, Len(blocks) + 1) /\ UNCHANGED <<limits, undisturbed>>
  BY DEF Mine
<1>3. /\ blocks \in Seq(Block) /\ chain \in Seq(1..Len(blocks))
      /\ Len(blocks) \in Nat /\ Len(chain) \in Nat
  BY DEF ChainOK
<1>4. /\ blocks' \in Seq(Block) /\ Len(blocks') = Len(blocks) + 1
      /\ \A h \in 1..Len(blocks) : blocks'[h] = blocks[h]
  BY <1>1, <1>3
<1>5. /\ Len(chain') = Len(chain) + 1 /\ DOMAIN chain' = 1..(Len(chain) + 1)
      /\ DOMAIN chain = 1..Len(chain)
      /\ chain'[Len(chain) + 1] = Len(blocks) + 1
      /\ \A n \in 1..Len(chain) : chain'[n] = chain[n]
  BY <1>2, <1>3
<1>6. chain' \in Seq(1..Len(blocks'))
  <2>1. chain \in Seq(1..Len(blocks'))
    BY <1>3, <1>4
  <2> QED
    BY <1>2, <1>3, <1>4, <2>1
<1>7. ChainOK'
  <2>1. chain' # <<>>
    BY <1>2, <1>3
  <2> QED
    BY <1>2, <1>4, <1>6, <2>1 DEF ChainOK
<1>8. ASSUME NEW n, NEW h \in 1..Len(blocks), n \in DOMAIN chain', chain'[n] = h
      PROVE  OnChain(n, h)
  BY <1>3, <1>5, <1>8 DEF OnChain
<1> QED
  BY <1>2, <1>3, <1>4, <1>5, <1>7, <1>8 DEF NodeMoves

LEMMA DropTipMoves ==
  ASSUME ChainOK, DropTip
  PROVE  ChainOK' /\ NodeMoves
<1>1. /\ chain' = SubSeq(chain, 1, Len(chain) - 1) /\ undisturbed' = FALSE
      /\ UNCHANGED <<blocks, limits>> /\ Len(chain) > 1
  BY DEF DropTip
<1>2. chain \in Seq(1..Len(blocks)) /\ Len(chain) \in Nat
  BY DEF ChainOK
<1>3. /\ chain' \in Seq(1..Len(blocks)) /\ DOMAIN chain' = 1..(Len(chain) - 1)
      /\ \A n \in 1..(Len(chain) - 1) : chain'[n] = chain[n]
  BY <1>1, <1>2
<1>4. ASSUME NEW n, NEW h \in 1..Len(blocks), n \in DOMAIN chain', chain'[n] = h
      PROVE  OnChain(n, h)
  <2>1. n \in 1..(Len(chain) - 1) /\ DOMAIN chain = 1..Len(chain)
    BY <1>2, <1>3, <1>4
  <2>2. chain'[n] = chain[n]
    BY <1>3, <2>1
  <2>3. n \in DOMAIN chain
    BY <1>2, <2>1
  <2> QED
    BY <1>4, <2>2, <2>3 DEF OnChain
<1>5. chain' # <<>>
  <2>1. 1 \in DOMAIN chain'
    BY <1>1, <1>2, <1>3
  <2> QED
    BY <2>1
<1> QED
  BY <1>1, <1>3, <1>4, <1>5 DEF ChainOK, NodeMoves

\* The node's steps between two reads spoil nothing that the invariant says.
LEMMA NodeKeepsSim ==
  ASSUME SimInv, ChainOK', NodeMoves, UNCHANGED <<limits, call, got, evidence, freshness>>
  PROVE  SimInv'
<1> USE DEF SimInv
<1>1. \A S : (Resolves(S)' <=> Resolves(S)) /\ (Checks(S)' <=> Checks(S))
  BY DEF Resolves, Checks, Resolving, Check
<1>2. \A n : \A h \in 1..Len(blocks) : OnChain(n, h)' => OnChain(n, h)
  BY DEF NodeMoves, OnChain
<1>3. \A h \in 1..Len(blocks) : h \in 1..Len(blocks') /\ blocks'[h] = blocks[h]
  BY DEF NodeMoves
<1>4. ResolveInv'
  <2>1. /\ Resolves({"native", "simulate", "fee"}) => Resolves(AfterBlock)
        /\ Resolves({"simulate", "fee"}) => Resolves(AfterBlock)
    BY DEF Resolves, AfterBlock
  <2>2. ResolveInv
    OBVIOUS
  <2>3. Resolves(AfterBlock) =>
          /\ got.hash \in 1..Len(blocks) /\ got'.hash \in 1..Len(blocks')
          /\ blocks'[got.hash] = blocks[got.hash]
          /\ OnChain(got.number, got.hash)' => OnChain(got.number, got.hash)
    BY <1>2, <1>3, <2>2 DEF ResolveInv
  <2>4. Resolves(AfterBlock) =>
          /\ {"number", "hash", "base"} \subseteq DOMAIN got'
          /\ got'.number \in Nat /\ got'.base = blocks'[got'.hash].base
    BY <2>2, <2>3 DEF ResolveInv
  <2> QED
    BY <1>1, <2>1, <2>2, <2>3, <2>4 DEF ResolveInv, Resolving
<1>5. evidence.resolved => (OfOneBlock' <=> OfOneBlock)
  BY <1>3 DEF ResolvedInv, OfOneBlock
<1>6. ResolvedInv'
  BY <1>2, <1>3, <1>5 DEF ResolvedInv
<1>7. CheckInv'
  <2>1. CheckedHead => CheckedHead'
    BY DEF CheckedHead, NodeMoves
  <2>2. \A n, h : undisturbed' /\ OnChain(n, h) => OnChain(n, h)'
    BY DEF NodeMoves, OnChain
  <2>3. undisturbed' /\ CheckedHead => undisturbed /\ At(got.head)' = At(got.head)
    <3> SUFFICES ASSUME undisturbed', CheckedHead
                 PROVE  undisturbed /\ At(got.head)' = At(got.head)
      OBVIOUS
    <3>1. undisturbed /\ got.head \in DOMAIN chain
      BY DEF NodeMoves, CheckedHead
    <3>2. chain'[got.head] = chain[got.head] /\ chain[got.head] \in 1..Len(blocks)
      BY <3>1 DEF NodeMoves, ChainOK
    <3> QED
      BY <1>3, <3>1, <3>2 DEF At
  <2>4. Checks(CheckCalls \ {"head"}) \/ freshness = "FRESH" => CheckedHead
    BY DEF CheckInv
  <2>5. Checks(CheckCalls \ {"head", "block"}) => Checks(CheckCalls \ {"head"})
    BY DEF Checks
  <2>6. Checks(CheckCalls \ {"head"}) => Checks(CheckCalls)
    BY DEF Checks
  <2>7. /\ Checks({"native", "fee"}) => Checks(CheckCalls \ {"head"})
        /\ Checks({"fee"}) => Checks(CheckCalls \ {"head"})
    BY DEF Checks, CheckCalls
  <2> QED
    BY <1>1, <1>5, <2>1, <2>2, <2>3, <2>4, <2>5, <2>6, <2>7 DEF CheckInv
<1> QED
  BY <1>4, <1>6, <1>7

-----------------------------------------------------------------------------
(* Simulation: simulateAndResolveTransfer. *)

quietVars == <<chain, blocks, limits, freshness, undisturbed>>

\* A read of a resolution leaves the rest of the invariant alone.
LEMMA ReadKeepsSim ==
  ASSUME SimInv, UNCHANGED quietVars, UNCHANGED evidence, Resolves(ResolveCalls),
         NEW c \in ResolveCalls, call' = <<"resolve", c>>, ResolveInv'
  PROVE  SimInv'
<1>1. freshness = "NONE" /\ freshness' = "NONE"
  BY DEF SimInv, ResolveInv, quietVars
<1>2. \A S : ~Checks(S)'
  BY CallBecomes
<1>3. CheckInv'
  BY <1>1, <1>2 DEF CheckInv
<1>4. ChainOK' /\ ResolvedInv'
  BY DEF SimInv, ChainOK, ResolvedInv, OnChain, OfOneBlock, quietVars
<1>5. call' \in Calls
  BY DEF Calls
<1> QED
  BY <1>3, <1>4, <1>5 DEF SimInv

\* A resolution that throws leaves no evidence behind.
LEMMA ThrowKeepsSim ==
  ASSUME SimInv, UNCHANGED quietVars, Throws, freshness = "NONE"
  PROVE  SimInv'
<1>1. call' = <<"none", "none">> /\ freshness' = "NONE" /\ UNCHANGED evidence
  BY DEF Throws, quietVars
<1>2. \A S : ~Checks(S)' /\ ~Resolves(S)'
  BY <1>1, CallBecomes
<1>3. ~Resolving("block")' /\ ~Resolving("fee")'
  BY <1>1 DEF Resolving
<1>4. CheckInv' /\ ResolveInv'
  BY <1>1, <1>2, <1>3 DEF CheckInv, ResolveInv
<1>5. ChainOK' /\ ResolvedInv'
  BY <1>1 DEF SimInv, ChainOK, ResolvedInv, OnChain, OfOneBlock, quietVars
<1>6. call' \in Calls
  BY <1>1 DEF Calls
<1> QED
  BY <1>4, <1>5, <1>6 DEF SimInv

\* The first block read: its number, its hash and its base fee are of one block.
LEMMA ResolveBlockKeepsSim ==
  ASSUME SimInv, UNCHANGED quietVars, ResolveHead \/ ResolveBlock
  PROVE  SimInv'
<1>1. CASE ResolveHead
  <2>1. /\ call = <<"resolve", "head">> /\ call' = <<"resolve", "block">>
        /\ got' = [number |-> Len(chain)] /\ UNCHANGED evidence
    BY <1>1 DEF ResolveHead, ReadsOn, Resolving
  <2>2. \A S : Resolves(S)' <=> "block" \in S
    BY <2>1, CallBecomes
  <2>3. Resolves(ResolveCalls)
    BY <2>1, CallIs DEF ResolveCalls
  <2>4. freshness' = "NONE"
    BY <2>3 DEF SimInv, ResolveInv, quietVars
  <2>5. got'.number \in Nat
    BY <2>1 DEF SimInv, ChainOK
  <2>6. ResolveInv'
    BY <2>1, <2>2, <2>4, <2>5 DEF ResolveInv, Resolving, AfterBlock
  <2> QED
    BY <2>1, <2>3, <2>6, ReadKeepsSim DEF ResolveCalls
<1>2. CASE ResolveBlock
  <2>1. call = <<"resolve", "block">>
    BY <1>2 DEF ResolveBlock, Resolving
  <2>2. Resolves(ResolveCalls)
    BY <2>1, CallIs DEF ResolveCalls
  <2>3. freshness = "NONE" /\ freshness' = "NONE" /\ got.number \in Nat
    BY <2>1, <2>2 DEF SimInv, ResolveInv, quietVars, Resolving
  <2>4. CASE Has(got.number)
    <3>1. /\ call' = <<"resolve", "byHash">> /\ UNCHANGED evidence
          /\ got' = [number |-> got.number, hash |-> chain[got.number],
                     base |-> At(got.number).base]
      BY <1>2, <2>1, <2>4 DEF ResolveBlock, ReadsOn
    <3>2. chain[got.number] \in 1..Len(blocks)
      BY <2>4 DEF Has, SimInv, ChainOK
    <3>3. \A S : Resolves(S)' <=> "byHash" \in S
      BY <3>1, CallBecomes
    <3>4. /\ {"number", "hash", "base"} \subseteq DOMAIN got'
          /\ got'.number \in Nat /\ got'.hash \in 1..Len(blocks')
          /\ got'.base = blocks'[got'.hash].base
      BY <2>3, <3>1, <3>2 DEF At, quietVars
    <3>5. ResolveInv'
      BY <2>3, <3>1, <3>3, <3>4 DEF ResolveInv, Resolving
    <3> QED
      BY <2>2, <3>1, <3>5, ReadKeepsSim DEF ResolveCalls
  <2>5. CASE ~Has(got.number)
    BY <1>2, <2>3, <2>5, ThrowKeepsSim DEF ResolveBlock
  <2> QED
    BY <2>4, <2>5
<1> QED
  BY <1>1, <1>2

\* What a later read of a resolution may rely on.
LEMMA ResolveReads ==
  ASSUME SimInv, NEW c \in AfterBlock, call = <<"resolve", c>>
  PROVE  /\ Resolves(ResolveCalls) /\ freshness = "NONE"
         /\ {"number", "hash", "base"} \subseteq DOMAIN got
         /\ got.number \in Nat /\ got.hash \in 1..Len(blocks)
         /\ got.base = blocks[got.hash].base
         /\ c \in {"native", "simulate", "fee"} =>
              /\ "token" \in DOMAIN got
              /\ OnChain(got.number, got.hash) => got.token = blocks[got.hash].token
         /\ c \in {"simulate", "fee"} =>
              /\ "native" \in DOMAIN got
              /\ OnChain(got.number, got.hash) => got.native = blocks[got.hash].native
         /\ c = "fee" => got.gas \in GasEstimates \ {0}
<1>1. \A S : Resolves(S) <=> c \in S
  BY CallIs
<1>2. c \in ResolveCalls
  BY DEF AfterBlock, ResolveCalls
<1> QED
  BY <1>1, <1>2 DEF SimInv, ResolveInv, AfterBlock, Resolving

\* One more value read: the fields that were there stay.
LEMMA GotAndKeeps ==
  ASSUME NEW field, NEW value, got' = GotAnd(field, value)
  PROVE  /\ DOMAIN got' = DOMAIN got \union {field} /\ got'[field] = value
         /\ \A f \in DOMAIN got \ {field} : got'[f] = got[f]
  BY DEF GotAnd

\* A read at a height gives a value of the first block read, if that is on the
\* chain: of another block it is only where the first one is gone for good.
LEMMA ReadIsOfTheBlock ==
  ASSUME NEW n, NEW h, OnChain(n, h) PROVE At(n) = blocks[h]
  BY DEF OnChain, At

\* The reads between the first block and the fee data.
LEMMA MiddleKeepsSim ==
  ASSUME SimInv, UNCHANGED quietVars,
         ResolveByHash \/ ResolveNonce \/ ResolveToken \/ ResolveNative \/ ResolveSimulate
  PROVE  SimInv'
<1>1. \A n, h : OnChain(n, h)' <=> OnChain(n, h)
  BY DEF OnChain, quietVars
<1>2. ASSUME NEW c \in AfterBlock, call = <<"resolve", c>>, Throws PROVE SimInv'
  BY <1>2, ResolveReads, ThrowKeepsSim
<1>3. CASE ResolveByHash
  <2>1. call = <<"resolve", "byHash">> /\ "byHash" \in AfterBlock
    BY <1>3 DEF ResolveByHash, Resolving, AfterBlock
  <2>2. CASE ReadsOn("nonce", got)
    <3>1. call' = <<"resolve", "nonce">> /\ UNCHANGED <<got, evidence>>
      BY <2>1, <2>2 DEF ReadsOn
    <3>2. \A S : Resolves(S)' <=> "nonce" \in S
      BY <3>1, CallBecomes
    <3>3. ResolveInv'
      BY <2>1, <3>1, <3>2, ResolveReads DEF ResolveInv, Resolving, quietVars
    <3> QED
      BY <2>1, <3>1, <3>3, ResolveReads, ReadKeepsSim DEF ResolveCalls
  <2> QED
    BY <1>2, <1>3, <2>1, <2>2 DEF ResolveByHash
<1>4. CASE ResolveNonce
  <2>1. /\ call = <<"resolve", "nonce">> /\ "nonce" \in AfterBlock
        /\ call' = <<"resolve", "token">> /\ got' = GotAnd("nonce", nonce)
        /\ UNCHANGED evidence
    BY <1>4 DEF ResolveNonce, ReadsOn, Resolving, AfterBlock
  <2>2. \A S : Resolves(S)' <=> "token" \in S
    BY <2>1, CallBecomes
  <2>3. /\ DOMAIN got' = DOMAIN got \union {"nonce"}
        /\ \A f \in DOMAIN got \ {"nonce"} : got'[f] = got[f]
    BY <2>1, GotAndKeeps
  <2>4. ResolveInv'
    BY <2>1, <2>2, <2>3, ResolveReads DEF ResolveInv, Resolving, quietVars
  <2> QED
    BY <2>1, <2>4, ResolveReads, ReadKeepsSim DEF ResolveCalls
<1>5. CASE ResolveToken
  <2>1. call = <<"resolve", "token">> /\ "token" \in AfterBlock
    BY <1>5 DEF ResolveToken, Resolving, AfterBlock
  <2>2. CASE ReadsOn("native", GotAnd("token", At(got.number).token))
    <3>1. /\ call' = <<"resolve", "native">> /\ UNCHANGED evidence
          /\ got' = GotAnd("token", At(got.number).token)
      BY <2>1, <2>2 DEF ReadsOn
    <3>2. \A S : Resolves(S)' <=> "native" \in S
      BY <3>1, CallBecomes
    <3>3. /\ DOMAIN got' = DOMAIN got \union {"token"}
          /\ got'.token = At(got.number).token
          /\ \A f \in DOMAIN got \ {"token"} : got'[f] = got[f]
      BY <3>1, GotAndKeeps
    <3>4. /\ got'.number = got.number /\ got'.hash = got.hash
          /\ got'.base = got.base
      BY <2>1, <3>3, ResolveReads
    <3>5. OnChain(got.number, got.hash) => got'.token = blocks[got.hash].token
      BY <3>3, ReadIsOfTheBlock
    <3>6. ResolveInv'
      BY <1>1, <2>1, <3>1, <3>2, <3>3, <3>4, <3>5, ResolveReads
         DEF ResolveInv, Resolving, quietVars
    <3> QED
      BY <2>1, <3>1, <3>6, ResolveReads, ReadKeepsSim DEF ResolveCalls
  <2> QED
    BY <1>2, <1>5, <2>1, <2>2 DEF ResolveToken
<1>6. CASE ResolveNative
  <2>1. call = <<"resolve", "native">> /\ "native" \in AfterBlock
    BY <1>6 DEF ResolveNative, Resolving, AfterBlock
  <2>2. CASE ReadsOn("simulate", GotAnd("native", At(got.number).native))
    <3>1. /\ call' = <<"resolve", "simulate">> /\ UNCHANGED evidence
          /\ got' = GotAnd("native", At(got.number).native)
      BY <2>1, <2>2 DEF ReadsOn
    <3>2. \A S : Resolves(S)' <=> "simulate" \in S
      BY <3>1, CallBecomes
    <3>3. /\ DOMAIN got' = DOMAIN got \union {"native"}
          /\ got'.native = At(got.number).native
          /\ \A f \in DOMAIN got \ {"native"} : got'[f] = got[f]
      BY <3>1, GotAndKeeps
    <3>4. /\ got'.number = got.number /\ got'.hash = got.hash
          /\ got'.base = got.base /\ got'.token = got.token
      BY <2>1, <3>3, ResolveReads
    <3>5. OnChain(got.number, got.hash) => got'.native = blocks[got.hash].native
      BY <3>3, ReadIsOfTheBlock
    <3>6. ResolveInv'
      BY <1>1, <2>1, <3>1, <3>2, <3>3, <3>4, <3>5, ResolveReads
         DEF ResolveInv, Resolving, quietVars
    <3> QED
      BY <2>1, <3>1, <3>6, ResolveReads, ReadKeepsSim DEF ResolveCalls
  <2> QED
    BY <1>2, <1>6, <2>1, <2>2 DEF ResolveNative
<1>7. CASE ResolveSimulate
  <2>1. call = <<"resolve", "simulate">> /\ "simulate" \in AfterBlock
    BY <1>7 DEF ResolveSimulate, Resolving, AfterBlock
  <2>2. ASSUME NEW gas \in GasEstimates \ {0}, ReadsOn("fee", GotAnd("gas", gas))
        PROVE  SimInv'
    <3>1. /\ call' = <<"resolve", "fee">> /\ UNCHANGED evidence
          /\ got' = GotAnd("gas", gas)
      BY <2>1, <2>2 DEF ReadsOn
    <3>2. \A S : Resolves(S)' <=> "fee" \in S
      BY <3>1, CallBecomes
    <3>3. /\ DOMAIN got' = DOMAIN got \union {"gas"} /\ got'.gas = gas
          /\ \A f \in DOMAIN got \ {"gas"} : got'[f] = got[f]
      BY <3>1, GotAndKeeps
    <3>4. /\ got'.number = got.number /\ got'.hash = got.hash
          /\ got'.base = got.base /\ got'.token = got.token /\ got'.native = got.native
      BY <2>1, <3>3, ResolveReads
    <3>5. ResolveInv'
      BY <1>1, <2>1, <3>1, <3>2, <3>3, <3>4, ResolveReads
         DEF ResolveInv, Resolving, quietVars
    <3> QED
      BY <2>1, <3>1, <3>5, ResolveReads, ReadKeepsSim DEF ResolveCalls
  <2> QED
    BY <1>2, <1>7, <2>1, <2>2 DEF ResolveSimulate
<1> QED
  BY <1>3, <1>4, <1>5, <1>6, <1>7

\* The evidence that a resolution returns: the base fee is of the block read
\* first, and so are the balances as long as that block stands.
LEMMA ResolveFeeKeepsSim ==
  ASSUME SimInv, UNCHANGED quietVars, ResolveFee
  PROVE  SimInv'
<1>1. call = <<"resolve", "fee">> /\ "fee" \in AfterBlock
  BY DEF ResolveFee, Resolving, AfterBlock
<1>2. /\ freshness = "NONE" /\ freshness' = "NONE"
      /\ got.number \in Nat /\ got.hash \in 1..Len(blocks)
      /\ got.base = blocks[got.hash].base /\ got.gas \in GasEstimates \ {0}
      /\ OnChain(got.number, got.hash) =>
           got.token = blocks[got.hash].token /\ got.native = blocks[got.hash].native
  BY <1>1, ResolveReads DEF quietVars
<1>3. CASE Throws
  BY <1>2, <1>3, ThrowKeepsSim
<1>4. CASE ~Throws
  <2>1. PICK priority \in Priorities :
          LET base == At(got.number).base
              limit == GasLimitOf(got.gas)
              fee == MaxFee(base, priority)
          IN  /\ Has(got.number) /\ base = got.base
              /\ limit * fee <= Least(limits.intent, limits.policy)
              /\ evidence' = [resolved |-> TRUE, number |-> got.number, hash |-> got.hash,
                              nonce |-> got.nonce, token |-> got.token,
                              native |-> got.native, gas |-> got.gas, gasLimit |-> limit,
                              base |-> base, priority |-> priority, maxFee |-> fee,
                              cost |-> limit * fee]
              /\ call' = <<"none", "none">>
    BY <1>4 DEF ResolveFee
  <2>2. /\ evidence'.resolved = TRUE /\ evidence'.number = got.number
        /\ evidence'.hash = got.hash /\ evidence'.token = got.token
        /\ evidence'.native = got.native /\ evidence'.gas = got.gas
        /\ evidence'.gasLimit = GasLimitOf(got.gas)
        /\ evidence'.base = got.base /\ evidence'.priority = priority
        /\ evidence'.maxFee = MaxFee(got.base, priority)
        /\ evidence'.cost = GasLimitOf(got.gas) * MaxFee(got.base, priority)
    BY <2>1
  <2>3. evidence'.cost <= Least(limits.intent, limits.policy)
    BY <2>1, <2>2
  <2>4. got.base \in Bases
    <3>1. blocks[got.hash] \in Block
      BY <1>2 DEF SimInv, ChainOK
    <3> QED
      BY <1>2, <3>1 DEF Block
  <2>5. OnChain(evidence.number, evidence.hash)' => OfOneBlock'
    BY <1>2, <2>2 DEF OnChain, OfOneBlock, quietVars
  <2>6. ResolvedInv'
    BY <1>2, <2>2, <2>3, <2>4, <2>5 DEF ResolvedInv, Least, quietVars
  <2>7. call' = <<"none", "none">>
    BY <2>1
  <2>8. (\A S : ~Resolves(S)' /\ ~Checks(S)') /\ ~Resolving("block")' /\ ~Resolving("fee")'
    BY <2>7, CallBecomes DEF Resolving
  <2>9. ResolveInv' /\ CheckInv' /\ ChainOK' /\ call' \in Calls
    BY <1>2, <2>7, <2>8 DEF ResolveInv, CheckInv, SimInv, ChainOK, quietVars, Calls
  <2> QED
    BY <2>6, <2>9 DEF SimInv
<1> QED
  BY <1>3, <1>4

\* The verifier recomputes what the resolver computed.
LEMMA ResolvedVerifies == SimInv => ResolvedIsVerified
<1> SUFFICES ASSUME SimInv, evidence.resolved PROVE VerifyExecutable(evidence) = "ok"
  BY DEF ResolvedIsVerified
<1>1. /\ evidence.base \in Nat /\ evidence.priority \in Nat
      /\ evidence.gas \in Nat /\ evidence.gas # 0
      /\ evidence.gasLimit = GasLimitOf(evidence.gas)
      /\ evidence.maxFee = MaxFee(evidence.base, evidence.priority)
      /\ evidence.cost = evidence.gasLimit * evidence.maxFee
      /\ evidence.cost <= Least(limits.intent, limits.policy)
  BY SimulationAssumption DEF SimInv, ResolvedInv
<1>2. Least(limits.intent, limits.policy) \in Nat
  BY SimulationAssumption DEF SimInv, ChainOK, Least
<1>3. evidence.gasLimit \in Nat /\ evidence.maxFee \in Nat
  BY <1>1 DEF GasLimitOf, MaxFee
<1>4. evidence.gasLimit * evidence.maxFee \in Nat
  BY <1>3
<1>5. ~(evidence.priority > evidence.maxFee)
      /\ ~(evidence.base + evidence.priority > evidence.maxFee)
  BY <1>1 DEF MaxFee
<1>6. ~(evidence.gasLimit * evidence.maxFee > Least(limits.intent, limits.policy))
  BY <1>1, <1>2, <1>4
<1> QED
  BY <1>1, <1>5, <1>6 DEF VerifyExecutable, GasLimitOf

-----------------------------------------------------------------------------
(* Simulation: checkSimulationFreshness. *)

checkedVars == <<chain, blocks, limits, undisturbed>>

\* A check that refuses claims nothing.
LEMMA RefusalKeepsSim ==
  ASSUME SimInv, UNCHANGED checkedVars, NEW v, v # "FRESH", Says(v)
  PROVE  SimInv'
<1>1. call' = <<"none", "none">> /\ freshness' # "FRESH" /\ UNCHANGED evidence
  BY DEF Says
<1>2. (\A S : ~Resolves(S)' /\ ~Checks(S)') /\ ~Resolving("block")' /\ ~Resolving("fee")'
  BY <1>1, CallBecomes DEF Resolving
<1>3. ResolveInv' /\ CheckInv'
  BY <1>1, <1>2 DEF ResolveInv, CheckInv
<1>4. ChainOK' /\ ResolvedInv' /\ call' \in Calls
  BY <1>1 DEF SimInv, ChainOK, ResolvedInv, OnChain, OfOneBlock, checkedVars, Calls
<1> QED
  BY <1>3, <1>4 DEF SimInv

\* A check that goes on: what it has found so far is in CheckInv.
LEMMA FindingKeepsSim ==
  ASSUME SimInv, UNCHANGED checkedVars, NEW c \in CheckCalls, NEW d \in CheckCalls,
         NEW what, call = <<"check", d>>, Goes(c, what),
         (\A S : Checks(S)' <=> c \in S) => CheckInv'
  PROVE  SimInv'
<1>1. call' = <<"check", c>> /\ UNCHANGED <<evidence, freshness>>
  BY DEF Goes, ReadsOn
<1>2. \A S : (Checks(S)' <=> c \in S) /\ ~Resolves(S)'
  BY <1>1, CallBecomes
<1>3. ~Resolving("block")' /\ ~Resolving("fee")'
  BY <1>1 DEF Resolving
<1>4. ResolveInv' /\ CheckInv'
  BY <1>1, <1>2, <1>3 DEF ResolveInv
<1>5. ChainOK' /\ ResolvedInv' /\ call' \in Calls
  BY <1>1 DEF SimInv, ChainOK, ResolvedInv, OnChain, OfOneBlock, checkedVars, Calls
<1> QED
  BY <1>4, <1>5 DEF SimInv

\* What a read of a check may rely on.
LEMMA CheckReads ==
  ASSUME SimInv, NEW c \in CheckCalls, call = <<"check", c>>
  PROVE  /\ evidence.resolved /\ freshness = "NONE"
         /\ c # "head" => CheckedHead
         /\ c \notin {"head", "block"} =>
              OfOneBlock /\ (undisturbed => OnChain(evidence.number, evidence.hash))
         /\ c \in {"native", "fee"} => (undisturbed => At(got.head).token >= Amount)
         /\ c = "fee" => (undisturbed => At(got.head).native >= evidence.cost)
         /\ evidence.number \in Nat /\ evidence.hash \in 1..Len(blocks)
         /\ OnChain(evidence.number, evidence.hash) => OfOneBlock
<1>1. \A S : Checks(S) <=> c \in S
  BY CallIs
<1> QED
  BY <1>1 DEF SimInv, CheckInv, ResolvedInv

\* The head of the chain, and the age of the evidence there.
LEMMA CheckHeadKeepsSim ==
  ASSUME SimInv, UNCHANGED checkedVars, CheckHead
  PROVE  SimInv'
<1>1. call = <<"check", "head">> /\ "head" \in CheckCalls /\ "block" \in CheckCalls
  BY DEF CheckHead, Check, CheckCalls
<1>2. evidence.resolved /\ freshness = "NONE" /\ evidence.number \in Nat
  BY <1>1, CheckReads
<1>3. Len(chain) \in Nat /\ DOMAIN chain = 1..Len(chain) /\ MaxBlockAge \in Nat
  BY SimulationAssumption DEF SimInv, ChainOK
<1>4. CASE Len(chain) < evidence.number
  <2>1. Says("NONCANONICAL_BLOCK")
    BY <1>2, <1>3, <1>4 DEF CheckHead
  <2> QED
    BY <2>1, RefusalKeepsSim
<1>5. CASE Len(chain) >= evidence.number /\ Len(chain) - evidence.number > MaxBlockAge
  <2>1. Says("BLOCK_TOO_OLD")
    BY <1>2, <1>3, <1>5 DEF CheckHead
  <2> QED
    BY <2>1, RefusalKeepsSim
<1>6. CASE Len(chain) >= evidence.number /\ ~(Len(chain) - evidence.number > MaxBlockAge)
  <2>1. Goes("block", [head |-> Len(chain)])
    BY <1>2, <1>3, <1>6 DEF CheckHead
  <2>2. /\ got' = [head |-> Len(chain)] /\ UNCHANGED <<evidence, freshness>>
        /\ call' = <<"check", "block">>
    BY <1>1, <2>1 DEF Goes, ReadsOn
  <2>3. Len(chain) # 0
    BY DEF SimInv, ChainOK
  <2>4. CheckedHead'
    <3>1. got'.head = Len(chain) /\ "head" \in DOMAIN got'
      BY <2>2
    <3> QED
      BY <1>2, <1>3, <1>6, <2>2, <2>3, <3>1 DEF CheckedHead, checkedVars
  <2>5. ASSUME \A S : Checks(S)' <=> "block" \in S PROVE CheckInv'
    BY <1>2, <2>2, <2>4, <2>5 DEF CheckInv
  <2> QED
    BY <1>1, <2>1, <2>5, FindingKeepsSim
<1> QED
  BY <1>2, <1>3, <1>4, <1>5, <1>6

\* The block at the simulated height is still the one of the evidence: it was
\* all the time, and so the evidence is of one block.
LEMMA CheckBlockKeepsSim ==
  ASSUME SimInv, UNCHANGED checkedVars, CheckBlock
  PROVE  SimInv'
<1>1. call = <<"check", "block">> /\ "block" \in CheckCalls /\ "nonce" \in CheckCalls
  BY DEF CheckBlock, Check, CheckCalls
<1>2. CASE \E v \in {"MISSING_BLOCK", "NONCANONICAL_BLOCK"} : Says(v)
  BY <1>2, RefusalKeepsSim
<1>3. CASE /\ Has(evidence.number) /\ SameBlock(evidence.number)
           /\ Goes("nonce", GotAnd("base", At(evidence.number).base))
  <2>1. OnChain(evidence.number, evidence.hash) /\ OfOneBlock
    BY <1>1, <1>3, CheckReads DEF Has, SameBlock, OnChain
  <2>2. /\ evidence.resolved /\ freshness = "NONE" /\ CheckedHead
    BY <1>1, CheckReads
  <2>3. /\ got' = GotAnd("base", At(evidence.number).base)
        /\ UNCHANGED <<evidence, freshness>>
    BY <1>3 DEF Goes, ReadsOn
  <2>4. got'.head = got.head /\ "head" \in DOMAIN got'
    BY <2>2, <2>3, GotAndKeeps DEF CheckedHead
  <2>5. CheckedHead' /\ OfOneBlock' /\ OnChain(evidence.number, evidence.hash)'
    BY <2>1, <2>2, <2>3, <2>4 DEF CheckedHead, OfOneBlock, OnChain, checkedVars
  <2>6. ASSUME \A S : Checks(S)' <=> "nonce" \in S PROVE CheckInv'
    BY <2>2, <2>3, <2>5, <2>6 DEF CheckInv
  <2> QED
    BY <1>1, <1>3, <2>6, FindingKeepsSim
<1> QED
  BY <1>2, <1>3 DEF CheckBlock

\* The sender's nonce and its balances at the head that the check found.
LEMMA CheckFundsKeepsSim ==
  ASSUME SimInv, UNCHANGED checkedVars, CheckNonce \/ CheckToken \/ CheckNative
  PROVE  SimInv'
<1>1. ASSUME NEW v \in {"NONCE_CHANGED", "ERROR", "TOKEN_BALANCE_CHANGED",
                        "NATIVE_BALANCE_CHANGED"}, Says(v)
      PROVE  SimInv'
  BY <1>1, RefusalKeepsSim
<1>2. ASSUME NEW d \in {"nonce", "token", "native"}, NEW c \in {"token", "native", "fee"},
             call = <<"check", d>>, Goes(c, got),
             d = "nonce" => c = "token",
             d = "token" => c = "native" /\ At(got.head).token >= Amount,
             d = "native" => c = "fee" /\ At(got.head).native >= evidence.cost
      PROVE  SimInv'
  <2>1. d \in CheckCalls /\ c \in CheckCalls
    BY DEF CheckCalls
  <2>2. /\ evidence.resolved /\ freshness = "NONE" /\ CheckedHead /\ OfOneBlock
        /\ undisturbed => OnChain(evidence.number, evidence.hash)
        /\ d = "native" => (undisturbed => At(got.head).token >= Amount)
    BY <1>2, <2>1, CheckReads
  <2>3. UNCHANGED <<got, evidence, freshness>>
    BY <1>2 DEF Goes, ReadsOn
  <2>4. /\ CheckedHead' /\ OfOneBlock' /\ At(got.head)' = At(got.head)
        /\ OnChain(evidence.number, evidence.hash)' <=> OnChain(evidence.number, evidence.hash)
    BY <2>2, <2>3 DEF CheckedHead, OfOneBlock, OnChain, At, checkedVars
  <2>5. ASSUME \A S : Checks(S)' <=> c \in S PROVE CheckInv'
    BY <1>2, <2>2, <2>3, <2>4, <2>5 DEF CheckInv, checkedVars
  <2> QED
    BY <1>2, <2>1, <2>5, FindingKeepsSim
<1>3. CASE CheckNonce
  <2>1. call = <<"check", "nonce">>
    BY <1>3 DEF CheckNonce, Check
  <2>2. Goes("token", got) \/ Says("NONCE_CHANGED")
    BY <1>3 DEF CheckNonce
  <2> QED
    BY <1>1, <1>2, <2>1, <2>2
<1>4. ASSUME NEW d \in {"token", "native"}, call = <<"check", d>>, Has(got.head)
      PROVE  /\ At(got.head) \in Block
             /\ Amount \in Nat /\ evidence.cost \in Nat
  <2>1. chain[got.head] \in 1..Len(blocks)
    BY <1>4 DEF Has, SimInv, ChainOK
  <2>2. At(got.head) \in Block
    BY <2>1 DEF At, SimInv, ChainOK
  <2>3. evidence.resolved
    BY <1>4, CheckReads DEF CheckCalls
  <2>4. /\ evidence.cost = evidence.gasLimit * evidence.maxFee
        /\ evidence.gas \in Nat /\ evidence.gasLimit = GasLimitOf(evidence.gas)
        /\ evidence.maxFee = MaxFee(evidence.base, evidence.priority)
        /\ evidence.base \in Nat /\ evidence.priority \in Nat
    BY <2>3, SimulationAssumption DEF SimInv, ResolvedInv
  <2>5. evidence.gasLimit \in Nat /\ evidence.maxFee \in Nat
    BY <2>4 DEF GasLimitOf, MaxFee
  <2>6. evidence.cost \in Nat
    BY <2>4, <2>5
  <2> QED
    BY <2>2, <2>6, SimulationAssumption
<1>5. CASE CheckToken
  <2>1. call = <<"check", "token">>
    BY <1>5 DEF CheckToken, Check
  <2>2. \/ Says("ERROR") \/ Says("TOKEN_BALANCE_CHANGED")
        \/ Has(got.head) /\ ~(At(got.head).token < Amount) /\ Goes("native", got)
    BY <1>5 DEF CheckToken, BalanceHeight
  <2>3. CASE Has(got.head) /\ ~(At(got.head).token < Amount) /\ Goes("native", got)
    <3>1. At(got.head).token \in Nat /\ Amount \in Nat
      BY <1>4, <2>1, <2>3, SimulationAssumption DEF Block
    <3>2. At(got.head).token >= Amount
      BY <2>3, <3>1
    <3> QED
      BY <1>2, <2>1, <2>3, <3>2
  <2> QED
    BY <1>1, <2>2, <2>3
<1>6. CASE CheckNative
  <2>1. call = <<"check", "native">>
    BY <1>6 DEF CheckNative, Check
  <2>2. \/ Says("ERROR") \/ Says("NATIVE_BALANCE_CHANGED")
        \/ Has(got.head) /\ ~(At(got.head).native < evidence.cost) /\ Goes("fee", got)
    BY <1>6 DEF CheckNative, BalanceHeight
  <2>3. CASE Has(got.head) /\ ~(At(got.head).native < evidence.cost) /\ Goes("fee", got)
    <3>1. At(got.head).native \in Nat /\ evidence.cost \in Nat
      BY <1>4, <2>1, <2>3, SimulationAssumption DEF Block
    <3>2. At(got.head).native >= evidence.cost
      BY <2>3, <3>1
    <3> QED
      BY <1>2, <2>1, <2>3, <3>2
  <2> QED
    BY <1>1, <2>2, <2>3
<1> QED
  BY <1>3, <1>5, <1>6

\* The base fee at that head, and the answer.
LEMMA CheckFeeKeepsSim ==
  ASSUME SimInv, UNCHANGED checkedVars, CheckFee
  PROVE  SimInv'
<1>1. call = <<"check", "fee">> /\ "fee" \in CheckCalls
  BY DEF CheckFee, Check, CheckCalls
<1>2. CASE Says("ERROR") \/ Says("FEE_CEILING_CONFLICT")
  BY <1>2, RefusalKeepsSim
<1>3. CASE /\ Has(got.head) /\ ~(At(got.head).base + evidence.priority > evidence.maxFee)
           /\ Says("FRESH")
  <2>1. /\ evidence.resolved /\ CheckedHead /\ OfOneBlock
        /\ undisturbed => /\ OnChain(evidence.number, evidence.hash)
                          /\ At(got.head).token >= Amount
                          /\ At(got.head).native >= evidence.cost
    BY <1>1, CheckReads
  <2>2. At(got.head).base + evidence.priority <= evidence.maxFee
    <3>1. At(got.head) \in Block
      BY <1>3 DEF Has, At, SimInv, ChainOK
    <3>2. evidence.priority \in Nat /\ evidence.maxFee \in Nat
      BY <2>1, SimulationAssumption DEF SimInv, ResolvedInv, MaxFee
    <3>3. At(got.head).base \in Nat
      BY <3>1, SimulationAssumption DEF Block
    <3> QED
      BY <1>3, <3>2, <3>3
  <2>3. call' = <<"none", "none">> /\ freshness' = "FRESH" /\ UNCHANGED <<got, evidence>>
    BY <1>3 DEF Says
  <2>4. (\A S : ~Resolves(S)' /\ ~Checks(S)') /\ ~Resolving("block")' /\ ~Resolving("fee")'
    BY <2>3, CallBecomes DEF Resolving
  <2>5. /\ CheckedHead' /\ OfOneBlock' /\ At(got.head)' = At(got.head)
        /\ OnChain(evidence.number, evidence.hash)' <=> OnChain(evidence.number, evidence.hash)
    BY <2>1, <2>3 DEF CheckedHead, OfOneBlock, OnChain, At, checkedVars
  <2>6. CheckInv'
    BY <2>1, <2>2, <2>3, <2>4, <2>5 DEF CheckInv, checkedVars
  <2>7. ResolveInv' /\ ChainOK' /\ ResolvedInv' /\ call' \in Calls
    BY <2>3, <2>4 DEF ResolveInv, SimInv, ChainOK, ResolvedInv, OnChain, OfOneBlock,
       checkedVars, Calls
  <2> QED
    BY <2>6, <2>7 DEF SimInv
<1> QED
  BY <1>2, <1>3 DEF CheckFee

\* A check begins with nothing found.
LEMMA BeginCheckKeepsSim ==
  ASSUME SimInv, BeginCheck
  PROVE  SimInv'
<1>1. /\ call = <<"none", "none">> /\ evidence.resolved /\ freshness = "NONE"
      /\ UNCHANGED <<chain, blocks, limits, got, evidence>>
      /\ \/ call' = <<"check", "head">> /\ freshness' = "NONE"
         \/ call' = call /\ freshness' = "EXECUTABLE_CHANGED"
  BY DEF BeginCheck
<1>2. /\ \A S : ~Resolves(S)' /\ (Checks(S)' => "head" \in S /\ freshness' = "NONE")
      /\ ~Resolving("block")' /\ ~Resolving("fee")'
  BY <1>1, CallBecomes DEF Resolving
<1>3. ResolveInv' /\ CheckInv'
  BY <1>1, <1>2 DEF ResolveInv, CheckInv
<1>4. ChainOK' /\ ResolvedInv' /\ call' \in Calls
  BY <1>1 DEF SimInv, ChainOK, ResolvedInv, OnChain, OfOneBlock, Calls, CheckCalls
<1> QED
  BY <1>3, <1>4 DEF SimInv

-----------------------------------------------------------------------------
(* Simulation: the theorems. *)

LEMMA SimInitInv == SimInit => SimInv
<1> SUFFICES ASSUME SimInit PROVE SimInv
  OBVIOUS
<1>1. PICK b \in Block : blocks = <<b>>
  BY DEF SimInit
<1>2. /\ chain = <<1>> /\ limits \in [intent : Ceilings, policy : Ceilings]
      /\ call = <<"resolve", "head">> /\ evidence = NoEvidence /\ freshness = "NONE"
  BY DEF SimInit
<1>3. ChainOK
  <2>1. Len(blocks) = 1 /\ blocks \in Seq(Block)
    BY <1>1
  <2>2. 1 \in 1..Len(blocks)
    BY <2>1
  <2> QED
    BY <1>2, <2>1, <2>2 DEF ChainOK
<1>4. \A S : (Resolves(S) <=> "head" \in S) /\ ~Checks(S)
  BY <1>2, CallIs
<1>5. ~Resolving("block") /\ ~Resolving("fee")
  BY <1>2 DEF Resolving
<1>6. ResolveInv /\ CheckInv /\ ResolvedInv /\ call \in Calls
  BY <1>2, <1>4, <1>5 DEF ResolveInv, CheckInv, ResolvedInv, NoEvidence, AfterBlock,
     Calls, ResolveCalls
<1> QED
  BY <1>3, <1>6 DEF SimInv

LEMMA SimStep == SimInv /\ [SimNext]_simVars => SimInv'
<1> SUFFICES ASSUME SimInv, [SimNext]_simVars PROVE SimInv'
  OBVIOUS
<1>1. CASE Mine
  <2>1. ChainOK' /\ NodeMoves
    BY <1>1, MineMoves DEF SimInv
  <2> QED
    BY <1>1, <2>1, NodeKeepsSim DEF Mine
<1>2. CASE DropTip
  <2>1. ChainOK' /\ NodeMoves
    BY <1>2, DropTipMoves DEF SimInv
  <2> QED
    BY <1>2, <2>1, NodeKeepsSim DEF DropTip
<1>3. CASE TakeNonce \/ UNCHANGED simVars
  <2>1. /\ UNCHANGED <<chain, blocks, limits, call, got, evidence, freshness, undisturbed>>
    BY <1>3 DEF TakeNonce, simVars
  <2>2. ChainOK' /\ NodeMoves
    BY <2>1 DEF SimInv, ChainOK, NodeMoves, OnChain
  <2> QED
    BY <2>1, <2>2, NodeKeepsSim
<1>4. CASE Resolve
  BY <1>4, ResolveBlockKeepsSim, MiddleKeepsSim, ResolveFeeKeepsSim DEF Resolve, quietVars
<1>5. CASE BeginCheck
  BY <1>5, BeginCheckKeepsSim
<1>6. CASE CheckFreshness
  BY <1>6, CheckHeadKeepsSim, CheckBlockKeepsSim, CheckFundsKeepsSim, CheckFeeKeepsSim
     DEF CheckFreshness, checkedVars
<1> QED
  BY <1>1, <1>2, <1>3, <1>4, <1>5, <1>6 DEF SimNext

\* The invariant of resolution and freshness holds for any number of blocks, any
\* fees, estimates, balances and ceilings, and any interleaving with the node.
THEOREM SimulationHolds == SimSpec => []SimInv
  BY SimInitInv, SimStep, PTL DEF SimSpec

\* Fresh evidence is of one block: evidence whose balances, base fee and hash
\* were read from different chains is refused (checkSimulationFreshness).
THEOREM FreshIsOfOneBlock == SimSpec => []FreshEvidenceIsOfOneBlock
<1>1. SimInv => FreshEvidenceIsOfOneBlock
  BY DEF SimInv, CheckInv, OfOneBlock, FreshEvidenceIsOfOneBlock
<1> QED
  BY <1>1, SimulationHolds, PTL

\* What is called fresh can be executed at the head that the check found, if no
\* block was dropped since the check began, whatever else happened to the chain.
THEOREM FreshCanExecute == SimSpec => []FreshIsExecutable
<1>1. ASSUME SimInv PROVE FreshIsExecutable
  <2> SUFFICES ASSUME freshness = "FRESH", undisturbed
               PROVE  /\ At(got.head).token >= Amount /\ At(got.head).native >= evidence.cost
                      /\ At(got.head).base + evidence.priority <= evidence.maxFee
                      /\ \E n \in DOMAIN chain :
                           chain[n] = evidence.hash /\ got.head - n <= MaxBlockAge
    BY DEF FreshIsExecutable
  <2>1. /\ OnChain(evidence.number, evidence.hash) /\ CheckedHead
        /\ At(got.head).token >= Amount /\ At(got.head).native >= evidence.cost
        /\ At(got.head).base + evidence.priority <= evidence.maxFee
    BY <1>1 DEF SimInv, CheckInv
  <2> QED
    BY <2>1 DEF OnChain, CheckedHead
<1> QED
  BY <1>1, SimulationHolds, PTL

\* verifyExecutableTransfer accepts every transfer that simulateAndResolveTransfer
\* resolved, for any gas estimate and any fees.
THEOREM ResolvedAlwaysVerifies == SimSpec => []ResolvedIsVerified
  BY ResolvedVerifies, SimulationHolds, PTL

-----------------------------------------------------------------------------
(* ChainEvidence: the inductive invariant.  Each answer is traced to the block *)
(* it was about, and a false one to the answer it was altered from.            *)

\* The honest answers while the block of hash h is on the chain.
AnswersAt(read, h) ==
  LET b == BlockOf(h)
      mined == executed[h] # "ABSENT"
  IN  CASE read = "transaction" ->
             IF mined THEN {ChainTx(b)} ELSE {Missing, Malformed}
        [] read = "receipt" ->
             IF mined THEN {ChainReceipt(b, executed[h])} ELSE {Missing}
        [] read = "blockByNumber" -> {[shape |-> "OK", block |-> b]}
        [] read = "blockByHash" ->
             {[shape |-> "OK", block |-> BlockOf(g)] : g \in Hashes} \union {Missing}

\* The answer to a read is honest about the block on the chain, or was altered.
Honest(r) == answers[r] \in AnswersAt(r, canonical)
False(r) == \E y \in AnswersAt(r, canonical) : answers[r] \in Altered(r, y)

EvidenceInv ==
  /\ executed \in [Hashes -> {"SUCCESS", "REVERT", "ABSENT"}] /\ canonical \in Hashes
  /\ lies \in Nat /\ lies <= MaxLies /\ reorgs \in Nat
  /\ DOMAIN answers \subseteq Reads
  /\ lies = 0 =>
       /\ \A r \in DOMAIN answers : \E h \in Hashes : answers[r] \in AnswersAt(r, h)
       /\ "blockByNumber" \in DOMAIN answers =>
            answers.blockByNumber \in AnswersAt("blockByNumber", seen)
  /\ reorgs = 0 /\ lies = 0 => \A r \in DOMAIN answers : Honest(r)
  /\ reorgs = 0 /\ lies = 1 =>
       \E q \in DOMAIN answers : False(q) /\ \A r \in DOMAIN answers \ {q} : Honest(r)

LEMMA HonestIsNow == \A r : HonestAnswers(r) = AnswersAt(r, canonical)
  BY DEF HonestAnswers, AnswersAt

LEMMA EvidenceInitInv == EvidenceInit => EvidenceInv
  BY ChainEvidenceAssumption DEF EvidenceInit, EvidenceInv

\* A new answer is honest about the block now on the chain, or altered from one.
LEMMA ReadKeepsEvidence ==
  ASSUME EvidenceInv, NEW read \in Reads, NEW x, ReadAnswer(read, x)
  PROVE  EvidenceInv'
<1>1. /\ read \notin DOMAIN answers
      /\ DOMAIN answers' = DOMAIN answers \union {read} /\ answers'[read] = x
      /\ \A r \in DOMAIN answers : answers'[r] = answers[r]
      /\ seen' = IF read = "blockByNumber" THEN canonical ELSE seen
      /\ UNCHANGED <<executed, canonical, reorgs>>
  BY DEF ReadAnswer
<1>2. \A r, h : AnswersAt(r, h)' = AnswersAt(r, h)
  BY <1>1 DEF AnswersAt
<1>3. \A r \in DOMAIN answers : (Honest(r)' <=> Honest(r)) /\ (False(r)' <=> False(r))
  BY <1>1, <1>2 DEF Honest, False
<1>4. CASE x \in HonestAnswers(read) /\ UNCHANGED lies
  <2>1. x \in AnswersAt(read, canonical) /\ Honest(read)'
    BY <1>1, <1>2, <1>4, HonestIsNow DEF Honest
  <2>2. lies = 0 => \A r \in DOMAIN answers' : \E h \in Hashes : answers'[r] \in AnswersAt(r, h)
    BY <1>1, <2>1 DEF EvidenceInv
  <2>3. lies = 0 /\ "blockByNumber" \in DOMAIN answers' =>
          answers'.blockByNumber \in AnswersAt("blockByNumber", seen')
    BY <1>1, <2>1 DEF EvidenceInv
  <2>4. reorgs = 0 /\ lies = 0 => \A r \in DOMAIN answers' : Honest(r)'
    BY <1>1, <1>3, <2>1 DEF EvidenceInv
  <2>5. reorgs = 0 /\ lies = 1 =>
          \E q \in DOMAIN answers' : False(q)' /\ \A r \in DOMAIN answers' \ {q} : Honest(r)'
    BY <1>1, <1>3, <2>1 DEF EvidenceInv
  <2> QED
    BY <1>1, <1>2, <1>4, <2>2, <2>3, <2>4, <2>5 DEF EvidenceInv
<1>5. CASE /\ lies < MaxLies /\ lies' = lies + 1
           /\ \E y \in HonestAnswers(read) : x \in Altered(read, y)
  <2>1. False(read)'
    BY <1>1, <1>2, <1>5, HonestIsNow DEF False, Altered
  <2>2. lies' \in Nat /\ lies' <= MaxLies /\ lies' # 0 /\ (lies' = 1 => lies = 0)
    BY <1>5, ChainEvidenceAssumption DEF EvidenceInv
  <2>3. reorgs = 0 /\ lies' = 1 =>
          \E q \in DOMAIN answers' : False(q)' /\ \A r \in DOMAIN answers' \ {q} : Honest(r)'
    BY <1>1, <1>3, <2>1, <2>2 DEF EvidenceInv
  <2> QED
    BY <1>1, <2>2, <2>3 DEF EvidenceInv
<1> QED
  BY <1>4, <1>5 DEF ReadAnswer

\* A reorganisation changes no answer and no execution.
LEMMA ReorgKeepsEvidence ==
  ASSUME EvidenceInv, NEW h \in Hashes, Reorg(h)
  PROVE  EvidenceInv'
<1>1. /\ canonical' = h /\ reorgs' = reorgs + 1
      /\ UNCHANGED <<executed, answers, lies, seen>>
  BY DEF Reorg
<1>2. \A r, g : AnswersAt(r, g)' = AnswersAt(r, g)
  BY <1>1 DEF AnswersAt
<1>3. reorgs' \in Nat /\ reorgs' # 0
  BY <1>1 DEF EvidenceInv
<1> QED
  BY <1>1, <1>2, <1>3 DEF EvidenceInv

LEMMA EvidenceStep == EvidenceInv /\ [EvidenceNext]_evidenceVars => EvidenceInv'
<1> SUFFICES ASSUME EvidenceInv, [EvidenceNext]_evidenceVars PROVE EvidenceInv'
  OBVIOUS
<1>1. CASE UNCHANGED evidenceVars
  <2>1. UNCHANGED <<executed, canonical, answers, lies, reorgs, seen>>
    BY <1>1 DEF evidenceVars
  <2>2. \A r, h : AnswersAt(r, h)' = AnswersAt(r, h)
    BY <2>1 DEF AnswersAt
  <2>3. \A r : (Honest(r)' <=> Honest(r)) /\ (False(r)' <=> False(r))
    BY <2>1, <2>2 DEF Honest, False
  <2> QED
    BY <2>1, <2>2, <2>3 DEF EvidenceInv
<1> QED
  BY <1>1, ReadKeepsEvidence, ReorgKeepsEvidence DEF EvidenceNext

-----------------------------------------------------------------------------
(* ChainEvidence: what the verifier's silence says. *)

LEMMA WhenSilent == \A c \in BOOLEAN : \A code : (When(c, code) = {}) <=> ~c
  BY DEF When

\* verifyUntrustedChainEvidence reports nothing only if no part of it does.
LEMMA SilentParts ==
  ASSUME NEW e, NEW a, Verify(e, a) = {}
  PROVE  /\ ParseIssues(e, a) = {} /\ TransactionIssues(a.transaction) = {}
         /\ BlockIssues(a) = {} /\ ReceiptIssues(a) = {} /\ LogIssues(a) = {}
<1>1. ExpectationIssues(e) = {}
  BY DEF Verify
<1>2. ParseIssues(e, a) \ {"FIXTURE_MISMATCH", "MALFORMED_LOG"} = {}
  BY <1>1 DEF Verify
<1> QED
  BY <1>1, <1>2 DEF Verify

\* Answers that match: nothing is missing or malformed, the gas is within the
\* envelope's, the hash is right, and the blocks are one.
LEMMA SilentAnswers ==
  ASSUME NEW e, NEW a, Verify(e, a) = {}
  PROVE  /\ a.transaction.shape \notin {"MISSING", "MALFORMED"}
         /\ a.receipt.shape \notin {"MISSING", "MALFORMED"}
         /\ a.transaction.block = a.blockByNumber.block
         /\ a.receipt.block = a.transaction.block
         /\ a.receipt.status \in {"success", "reverted"}
         /\ a.receipt.hashOK
         /\ a.transaction.gas = GasLimit
         /\ ~(a.receipt.gasUsed > a.transaction.gas)
<1>1. /\ ParseIssues(e, a) = {} /\ TransactionIssues(a.transaction) = {}
      /\ BlockIssues(a) = {} /\ ReceiptIssues(a) = {}
  BY SilentParts
<1>2. /\ When(a.transaction.shape = "MISSING", "TRANSACTION_MISSING") = {}
      /\ When(a.transaction.shape = "MALFORMED", "MALFORMED_TRANSACTION") = {}
      /\ When(a.receipt.shape = "MISSING", "RECEIPT_MISSING") = {}
      /\ When(a.receipt.shape = "MALFORMED", "MALFORMED_RECEIPT") = {}
  BY <1>1 DEF ParseIssues
<1>3. /\ When(a.transaction.block # a.blockByNumber.block,
              "TRANSACTION_BLOCK_MISMATCH") = {}
      /\ When(a.receipt.block # a.transaction.block, "RECEIPT_BLOCK_MISMATCH") = {}
  BY <1>1 DEF BlockIssues
<1>4. /\ When(~a.receipt.hashOK, "RECEIPT_HASH_MISMATCH") = {}
      /\ When(a.receipt.gasUsed > a.transaction.gas, "RECEIPT_GAS_INVALID") = {}
      /\ When(a.receipt.status \notin {"success", "reverted"},
              "RECEIPT_STATUS_INVALID") = {}
  BY <1>1 DEF ReceiptIssues
<1>5. When(a.transaction.gas # GasLimit, "TRANSACTION_GAS_MISMATCH") = {}
  BY <1>1 DEF TransactionIssues
<1> QED
  BY <1>2, <1>3, <1>4, <1>5 DEF When

\* A reverted receipt has no log, and a success has a transfer.
LEMMA SilentLogs ==
  ASSUME NEW e, NEW a, Verify(e, a) = {}
  PROVE  /\ a.receipt.status = "reverted" => ParsedLogs(a.receipt) = {}
         /\ a.receipt.status = "success" => ParsedLogs(a.receipt) # {}
<1>1. LogIssues(a) = {}
  BY SilentParts
<1>2. a.receipt.status = "reverted" => ParsedLogs(a.receipt) = {}
  <2>1. When(a.receipt.status = "reverted" /\ ParsedLogs(a.receipt) # {},
             "REVERTED_RECEIPT_HAS_LOGS") = {}
    BY <1>1 DEF LogIssues
  <2> QED
    BY <2>1 DEF When
<1>3. ASSUME a.receipt.status = "success", ParsedLogs(a.receipt) = {} PROVE FALSE
  <2>1. TransferIssues(a) = {}
    BY <1>1, <1>3 DEF LogIssues
  <2>2. TransferIssues(a) = {"TRANSFER_MISSING"}
    BY <1>3 DEF TransferIssues
  <2> QED
    BY <2>1, <2>2
<1> QED
  BY <1>2, <1>3

-----------------------------------------------------------------------------
(* ChainEvidence: the theorems. *)

\* Every answer is traced, for any number of competing blocks, reorganisations
\* and altered fields.
THEOREM EvidenceHolds == EvidenceSpec => []EvidenceInv
  BY EvidenceInitInv, EvidenceStep, PTL DEF EvidenceSpec

\* From an honest endpoint, evidence verifies only for the block that was on the
\* chain when it was read by its number.
THEOREM VerdictsAreCanonical == EvidenceSpec => []VerdictIsCanonical
<1>1. ASSUME EvidenceInv PROVE VerdictIsCanonical
  <2> SUFFICES ASSUME Collected, Result # "MISMATCH", lies = 0
               PROVE  answers.receipt.block.hash = seen
    BY DEF VerdictIsCanonical
  <2>1. Verify(expectation, answers) = {}
    BY DEF Result, Verdict
  <2>2. answers.receipt.block = answers.blockByNumber.block
    BY <2>1, SilentAnswers
  <2>3. answers.blockByNumber \in AnswersAt("blockByNumber", seen)
    BY <1>1 DEF EvidenceInv, Collected, Reads
  <2>4. answers.blockByNumber.block = BlockOf(seen)
    BY <2>3 DEF AnswersAt
  <2> QED
    BY <2>2, <2>4 DEF BlockOf
<1> QED
  BY <1>1, EvidenceHolds, PTL

\* An honest receipt that parses is of a block with the transfer, and its status
\* is what the transfer did there.
LEMMA HonestReceipt ==
  ASSUME EvidenceInv, NEW h \in Hashes, NEW x \in AnswersAt("receipt", h), x.shape # "MISSING"
  PROVE  /\ x = ChainReceipt(BlockOf(h), executed[h])
         /\ x.block = BlockOf(h) /\ executed[h] \in {"SUCCESS", "REVERT"}
         /\ x.status = IF executed[h] = "SUCCESS" THEN "success" ELSE "reverted"
<1>1. executed[h] \in {"SUCCESS", "REVERT", "ABSENT"}
  BY DEF EvidenceInv
<1>2. x \in IF executed[h] # "ABSENT" THEN {ChainReceipt(BlockOf(h), executed[h])}
            ELSE {Missing}
  BY DEF AnswersAt
<1>3. executed[h] # "ABSENT"
  BY <1>2 DEF Missing
<1>4. x = ChainReceipt(BlockOf(h), executed[h])
  BY <1>2, <1>3
<1> QED
  BY <1>1, <1>3, <1>4 DEF ChainReceipt

\* A false receipt that the verifier accepts beside an honest transaction still
\* tells what the transfer did: a status cannot be altered without its logs.
LEMMA FalseReceipt ==
  ASSUME EvidenceInv, Collected, Verify(expectation, answers) = {},
         False("receipt"), Honest("transaction")
  PROVE  /\ executed[canonical] \in {"SUCCESS", "REVERT"}
         /\ answers.receipt.block = BlockOf(canonical)
         /\ answers.receipt.status = IF executed[canonical] = "SUCCESS" THEN "success"
                                     ELSE "reverted"
<1> DEFINE x == answers.receipt
           b == BlockOf(canonical)
<1>1. PICK y \in AnswersAt("receipt", canonical) : x \in Altered("receipt", y)
  BY DEF False
<1>2. x \notin {Missing, Malformed}
  BY SilentAnswers DEF Missing, Malformed
<1>3. y.shape = "OK"
  BY <1>1, <1>2 DEF Altered
<1>4. canonical \in Hashes
  BY DEF EvidenceInv
<1>5. /\ y = ChainReceipt(b, executed[canonical])
      /\ y.block = b /\ executed[canonical] \in {"SUCCESS", "REVERT"}
      /\ y.status = IF executed[canonical] = "SUCCESS" THEN "success" ELSE "reverted"
  BY <1>1, <1>3, <1>4, HonestReceipt
<1>6. answers.transaction.block = b
  <2>1. answers.transaction \in {ChainTx(b)} \union {Missing, Malformed}
    BY DEF Honest, AnswersAt
  <2>2. answers.transaction \notin {Missing, Malformed}
    BY SilentAnswers DEF Missing, Malformed
  <2> QED
    BY <2>1, <2>2 DEF ChainTx
<1>7. x.block = b
  BY <1>6, SilentAnswers
<1>8. x.status \in {"success", "reverted"}
  BY SilentAnswers
<1>9. \/ x.status = y.status
      \/ \E s \in {"success", "reverted", "0x0"} : x = [y EXCEPT !.status = s]
  <2>1. \/ \E c \in OtherBlocks(y.block) : x = [y EXCEPT !.block = c]
        \/ x = [y EXCEPT !.hashOK = FALSE] \/ x = [y EXCEPT !.gasUsed = GasLimit + 1]
        \/ \E s \in {"success", "reverted", "0x0"} : x = [y EXCEPT !.status = s]
        \/ \E l \in AlteredLogs(y.logs, y.block) : x = [y EXCEPT !.logs = l]
    BY <1>1, <1>2, <1>3 DEF Altered
  <2> QED
    BY <1>5, <2>1 DEF ChainReceipt
<1>10. ASSUME NEW s \in {"success", "reverted", "0x0"}, x = [y EXCEPT !.status = s]
       PROVE  x.status = y.status
  <2>1. x.logs = y.logs /\ x.status = s
    BY <1>5, <1>10 DEF ChainReceipt
  <2>2. CASE executed[canonical] = "SUCCESS"
    <3>1. x.logs = <<TransferLog(b)>>
      BY <1>5, <2>1, <2>2 DEF ChainReceipt
    <3>2. 1 \in ParsedLogs(x)
      BY <3>1 DEF ParsedLogs, TransferLog
    <3> QED
      BY <1>5, <1>8, <2>2, <3>2, SilentLogs
  <2>3. CASE executed[canonical] = "REVERT"
    <3>1. x.logs = <<>>
      BY <1>5, <2>1, <2>3 DEF ChainReceipt
    <3>2. ParsedLogs(x) = {}
      BY <3>1 DEF ParsedLogs
    <3> QED
      BY <1>5, <1>8, <2>3, <3>2, SilentLogs
  <2> QED
    BY <1>5, <2>2, <2>3
<1> QED
  BY <1>5, <1>7, <1>9, <1>10

\* Evidence that verifies tells what the transfer really did in the block it
\* names, when at most one field of the four answers is false or the chain
\* changes between the reads, but not both.  Two altered fields (a status and its
\* logs) can make a failure look like a success, hence the assumption.
THEOREM VerdictsAreExecutions ==
  ASSUME MaxLies <= 1
  PROVE  EvidenceSpec => []VerdictIsExecution
<1>1. ASSUME EvidenceInv PROVE VerdictIsExecution
  <2> SUFFICES ASSUME Collected, Result # "MISMATCH", ~(lies > 0 /\ reorgs > 0)
               PROVE  executed[answers.receipt.block.hash] = Result
    BY DEF VerdictIsExecution
  <2>1. Verify(expectation, answers) = {}
    BY DEF Result, Verdict
  <2>2. Result = IF answers.receipt.status = "success" THEN "SUCCESS" ELSE "REVERT"
    BY <2>1 DEF Result, Verdict
  <2>3. answers.receipt.shape # "MISSING"
    BY <2>1, SilentAnswers
  <2>4. ASSUME NEW h \in Hashes, answers.receipt \in AnswersAt("receipt", h)
        PROVE  executed[answers.receipt.block.hash] = Result
    <3>1. /\ answers.receipt.block = BlockOf(h) /\ executed[h] \in {"SUCCESS", "REVERT"}
          /\ answers.receipt.status = IF executed[h] = "SUCCESS" THEN "success"
                                      ELSE "reverted"
      BY <1>1, <2>3, <2>4, HonestReceipt
    <3> QED
      BY <2>2, <3>1 DEF BlockOf
  <2>5. CASE lies = 0
    BY <1>1, <2>4, <2>5 DEF EvidenceInv, Collected, Reads
  <2>6. CASE lies # 0
    <3>1. lies = 1 /\ reorgs = 0
      BY <1>1, <2>6, ChainEvidenceAssumption DEF EvidenceInv
    <3>2. PICK q \in DOMAIN answers :
            False(q) /\ \A r \in DOMAIN answers \ {q} : Honest(r)
      BY <1>1, <3>1 DEF EvidenceInv
    <3>3. CASE q = "receipt"
      <4>1. Honest("transaction")
        BY <3>2, <3>3 DEF Collected, Reads
      <4>2. /\ executed[canonical] \in {"SUCCESS", "REVERT"}
            /\ answers.receipt.block = BlockOf(canonical)
            /\ answers.receipt.status = IF executed[canonical] = "SUCCESS" THEN "success"
                                        ELSE "reverted"
        BY <1>1, <2>1, <3>2, <3>3, <4>1, FalseReceipt
      <4> QED
        BY <2>2, <4>2 DEF BlockOf
    <3>4. CASE q # "receipt"
      <4>1. Honest("receipt") /\ canonical \in Hashes
        BY <1>1, <3>2, <3>4 DEF Collected, Reads, EvidenceInv
      <4> QED
        BY <2>4, <4>1 DEF Honest
    <3> QED
      BY <3>3, <3>4
  <2> QED
    BY <2>5, <2>6
<1> QED
  BY <1>1, EvidenceHolds, PTL

\* The four honest answers about one block raise no issue.
LEMMA HonestIsSilent ==
  ASSUME NEW h, NEW result \in {"SUCCESS", "REVERT"},
         NEW e, e = [shape |-> TRUE, envelope |-> TRUE, fixture |-> TRUE],
         NEW a, a.transaction = ChainTx(BlockOf(h)),
         a.receipt = ChainReceipt(BlockOf(h), result),
         a.blockByNumber = [shape |-> "OK", block |-> BlockOf(h)],
         a.blockByHash = [shape |-> "OK", block |-> BlockOf(h)]
  PROVE  Verify(e, a) = {}
<1> DEFINE b == BlockOf(h)
           r == a.receipt
<1>1. /\ a.transaction.shape = "OK" /\ a.transaction.wrong = {}
      /\ a.transaction.gas = GasLimit /\ a.transaction.block = b
  BY DEF ChainTx
<1>2. /\ r.shape = "OK" /\ r.hashOK = TRUE /\ r.block = b /\ r.gasUsed = GasLimit
      /\ r.status = IF result = "SUCCESS" THEN "success" ELSE "reverted"
      /\ r.logs = IF result = "SUCCESS" THEN <<TransferLog(b)>> ELSE <<>>
  BY DEF ChainReceipt
<1>3. GasLimit \in Nat
  BY ChainEvidenceAssumption
<1>4. \A i \in DOMAIN r.logs : i = 1 /\ r.logs[i] = TransferLog(b)
  BY <1>2
<1>5. /\ TransferLog(b).shape = "OK" /\ TransferLog(b).topic = "TRANSFER"
      /\ TransferLog(b).decodes = TRUE /\ TransferLog(b).wrong = {}
      /\ TransferLog(b).removed = FALSE /\ TransferLog(b).hashOK = TRUE
      /\ TransferLog(b).block = b
  BY DEF TransferLog
<1>6. ExpectationIssues(e) = {}
  BY DEF ExpectationIssues, When
<1>7. ParseIssues(e, a) = {}
  <2>1. ~\E i \in DOMAIN r.logs : r.logs[i].shape # "OK"
    BY <1>4, <1>5
  <2> QED
    BY <1>1, <1>2, <2>1 DEF ParseIssues, When
<1>8. TransactionIssues(a.transaction) = {}
  BY <1>1 DEF TransactionIssues, When
<1>9. BlockIssues(a) = {}
  BY <1>1, <1>2 DEF BlockIssues, When
<1>10. ReceiptIssues(a) = {}
  BY <1>1, <1>2, <1>3 DEF ReceiptIssues, When
<1>11. LogIssues(a) = {}
  <2>1. ParsedLogs(r) = IF result = "SUCCESS" THEN {1} ELSE {}
    BY <1>2, <1>4, <1>5 DEF ParsedLogs
  <2>2. ~\E i \in ParsedLogs(r) :
          r.logs[i].removed \/ ~r.logs[i].hashOK \/ r.logs[i].block # a.transaction.block
    BY <1>1, <1>4, <1>5 DEF ParsedLogs
  <2>3. result = "SUCCESS" => TransferIssues(a) = {}
    <3> SUFFICES ASSUME result = "SUCCESS" PROVE TransferIssues(a) = {}
      OBVIOUS
    <3>1. ParsedLogs(a.receipt) = {1} /\ r.logs[1] = TransferLog(b)
      BY <1>2, <2>1
    <3>2. {i \in ParsedLogs(a.receipt) : IsTransfer(a.receipt.logs[i])} = {1}
      BY <1>5, <3>1 DEF IsTransfer
    <3>3. (CHOOSE i \in {1} : TRUE) = 1
      OBVIOUS
    <3> QED
      BY <1>5, <3>1, <3>2, <3>3 DEF TransferIssues, When
  <2> QED
    BY <1>2, <2>1, <2>2, <2>3 DEF LogIssues, When
<1> QED
  BY <1>6, <1>7, <1>8, <1>9, <1>10, <1>11 DEF Verify

\* Honest answers about a chain that did not change verify, with the result that
\* the transfer had: a mismatch, which disputes the funds, is never the
\* verifier's own doing.
THEOREM HonestAnswersVerify == EvidenceSpec => []HonestEvidenceVerifies
<1>1. ASSUME EvidenceInv PROVE HonestEvidenceVerifies
  <2> SUFFICES ASSUME Collected, lies = 0, reorgs = 0, executed[canonical] # "ABSENT",
                      expectation = [shape |-> TRUE, envelope |-> TRUE, fixture |-> TRUE],
                      answers.blockByHash = [shape |-> "OK", block |-> BlockOf(canonical)]
               PROVE  Result = executed[canonical]
    BY DEF HonestEvidenceVerifies
  <2>1. \A r \in Reads : answers[r] \in AnswersAt(r, canonical)
    BY <1>1 DEF EvidenceInv, Collected, Honest
  <2>2. executed[canonical] \in {"SUCCESS", "REVERT"}
    BY <1>1 DEF EvidenceInv
  <2>3. /\ answers.transaction = ChainTx(BlockOf(canonical))
        /\ answers.receipt = ChainReceipt(BlockOf(canonical), executed[canonical])
        /\ answers.blockByNumber = [shape |-> "OK", block |-> BlockOf(canonical)]
    BY <2>1 DEF Reads, AnswersAt
  <2>4. Verify(expectation, answers) = {}
    BY <2>2, <2>3, HonestIsSilent
  <2>5. answers.receipt.status = IF executed[canonical] = "SUCCESS" THEN "success"
                                 ELSE "reverted"
    BY <2>3 DEF ChainReceipt
  <2> QED
    BY <2>2, <2>4, <2>5 DEF Result, Verdict
<1> QED
  BY <1>1, EvidenceHolds, PTL

=============================================================================
