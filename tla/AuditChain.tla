------------------------------- MODULE AuditChain -------------------------------
(* packages/audit/src/index.ts, appendAuditEvent, under the transactions that  *)
(* call it.  A writer is one call of a service: a program of statements on one *)
(* client.  Every statement is a step, so that writers interleave inside their *)
(* transactions.  PostgreSQL (external) contributes row locks held to the end, *)
(* the snapshot of a SERIALIZABLE transaction, the unique index on             *)
(* (operation_id, sequence_no), which does not cover control events (their     *)
(* operation_id is NULL), and the deadlock detector.  Its check of read/write  *)
(* conflicts may abort a SERIALIZABLE transaction at any point; that it aborts *)
(* the ones it must is not assumed, and nothing here depends on it.            *)
EXTENDS Naturals, Sequences, FiniteSets

CONSTANTS
  Writers,      \* calls in flight
  Mixes,        \* bound: which services run at the same time
  MaxRetries,   \* retries after a serialization failure (3 in the code)
  NoId          \* no previous event

Services == {"prepare", "unaudited", "ledger", "sign", "signAgain", "advance", "control",
             "refusal"}

ASSUME AuditChainAssumption ==
  MaxRetries \in Nat /\ Mixes \subseteq [Writers -> Services]

Streams == {"operation", "scope"}        \* audit streams: an operation's, a fence's
Rows == {"system", "agent", "operation"} \* two fences and the operation
Unique == {"operation"}                  \* streams under UNIQUE (operation_id, ..)

VARIABLES
  kind,      \* kind[w]: the service that writer w calls
  rows,      \* rows[s]: committed audit events of stream s
  version,   \* version[r]: committed updates of row r
  locks,     \* {<<row, writer>>}; a row is <<table row, NoId>> or <<stream, event id>>
  txn        \* txn[w]: the writer's transaction

auditVars == <<kind, rows, version, locks, txn>>

-----------------------------------------------------------------------------
(* The writers' programs: one record per SQL statement, on a row or a stream. *)

Lock(r) == [do |-> "lock", on |-> r]
Update(r) == [do |-> "update", on |-> r]

\* The statements of appendAuditEvent: SELECT the last event .. FOR UPDATE, which
\* reads and then waits for the row's lock, and INSERT of the next sequence number.
Read(s) == [do |-> "read", on |-> s]
Hold(s) == [do |-> "hold", on |-> s]
Insert(s) == [do |-> "insert", on |-> s]

\* Sensitivity variant: prepare appends before it takes the row.
PrepareUnguarded ==
  <<Read("operation"), Hold("operation"), Insert("operation"), Update("operation")>>

\* A preparation call with an audit context: transition, or the call that made
\* the transition, appends the event.
PrepareProgram ==
  <<Lock("operation"), Update("operation"),
    Read("operation"), Hold("operation"), Insert("operation")>>

\* The same without one: transition returns after the update.  Before the
\* reservation an advance has no choice, as an audited one would throw.
UnauditedProgram == <<Lock("operation"), Update("operation")>>

\* A ledger call that writes no operation row: a lease, an evidence record.
LedgerProgram ==
  <<Lock("operation"), Read("operation"), Hold("operation"), Insert("operation")>>

\* beginSigning of an AUTHORIZED operation, and persistSignedEvidence.
SignProgram ==
  <<Lock("operation"), Lock("system"), Lock("agent"), Update("operation"),
    Read("operation"), Hold("operation"), Insert("operation")>>

\* beginSigning of an operation that is SIGNING already: an event and no update.
\* persistTransferPipelineAudit is the same without the fences.
SignAgainProgram ==
  <<Lock("operation"), Lock("system"), Lock("agent"),
    Read("operation"), Hold("operation"), Insert("operation")>>

\* Two states of the reconciler's lifecycle, each update with its event.
AdvanceProgram ==
  <<Update("operation"), Read("operation"), Hold("operation"), Insert("operation"),
    Update("operation"), Read("operation"), Hold("operation"), Insert("operation")>>

\* Sensitivity variant: control takes the fence and changes no row.
ControlFenceRead == <<Lock("system"), Read("scope"), Hold("scope"), Insert("scope")>>

\* changeControlFence: a pause or a resume that changes the fence, with one
\* affected operation.
ControlProgram ==
  <<Lock("system"), Update("system"), Read("scope"), Hold("scope"), Insert("scope"),
    Lock("operation"), Update("operation"),
    Read("operation"), Hold("operation"), Insert("operation")>>

\* recordSigningRefusal, which takes no row.
RefusalProgram == <<Read("operation"), Hold("operation"), Insert("operation")>>

Program ==
  [prepare |-> PrepareProgram, unaudited |-> UnauditedProgram, ledger |-> LedgerProgram,
   sign |-> SignProgram, signAgain |-> SignAgainProgram, advance |-> AdvanceProgram,
   control |-> ControlProgram, refusal |-> RefusalProgram]

\* Sensitivity variant: transition without withTransaction.
IsolationBare(w) ==
  CASE kind[w] \in {"ledger", "control"} -> "serializable"
    [] kind[w] \in {"refusal", "prepare", "unaudited"} -> "autocommit"
    [] OTHER -> "read committed"

\* withSerializableTransaction, a plain BEGIN, or a bare client.
Isolation(w) ==
  CASE kind[w] \in {"ledger", "control"} -> "serializable"
    [] kind[w] = "refusal" -> "autocommit"
    [] OTHER -> "read committed"

-----------------------------------------------------------------------------
(* What a statement sees and waits for. *)

NoEvent == [id |-> NoId, seq |-> 0]

Fresh(tries) ==
  [status |-> "idle", at |-> 1, tries |-> tries,
   snapshot |-> NoId, tail |-> NoEvent, wrote |-> [r \in Rows |-> 0],
   added |-> [s \in Streams |-> {}], count |-> 0]

Running(w) == txn[w].status = "running"
Ended(w) == txn[w].at > Len(Program[kind[w]])
Step(w) == Program[kind[w]][txn[w].at]
Doing(w, what) == Running(w) /\ ~Ended(w) /\ Step(w).do = what

Serializable(w) == Isolation(w) = "serializable"

\* The events of stream s that a statement of w sees: its snapshot's, or under
\* READ COMMITTED the committed ones, and its own.
Visible(w, s) ==
  (IF Serializable(w) THEN txn[w].snapshot.rows[s] ELSE rows[s])
    \union txn[w].added[s]

LastOf(events) ==
  IF events = {} THEN NoEvent
  ELSE LET last == CHOOSE e \in events : \A f \in events : f.seq <= e.seq
       IN  [id |-> last.id, seq |-> last.seq]

\* The row that the next statement of w needs.
RowWanted(w) ==
  <<Step(w).on, IF Step(w).do = "hold" THEN txn[w].tail.id ELSE NoId>>

HeldByOthers(r, w) == {v \in Writers \ {w} : <<r, v>> \in locks}

\* Whom the next statement of w waits for: the holder of a row, or the inserter
\* of the same key in the unique index.
Blockers(w) ==
  IF \/ Doing(w, "lock") \/ Doing(w, "update")
     \/ Doing(w, "hold") /\ txn[w].tail # NoEvent
  THEN HeldByOthers(RowWanted(w), w)
  ELSE IF Doing(w, "insert") /\ Step(w).on \in Unique
  THEN {v \in Writers \ {w} :
          \E e \in txn[v].added[Step(w).on] : e.seq = txn[w].tail.seq + 1}
  ELSE {}

-----------------------------------------------------------------------------
(* Ends of a transaction. *)

Release(w) == {l \in locks : l[2] # w}

\* ROLLBACK, and the error goes to the caller.
Fail(w, why) ==
  /\ locks' = Release(w)
  /\ txn' = [txn EXCEPT ![w] = [Fresh(txn[w].tries) EXCEPT !.status = why]]
  /\ UNCHANGED <<rows, version>>

\* Sensitivity variant: retries without a bound.
RetriesLeftAlways(w) == txn[w].tries <= MaxRetries

RetriesLeft(w) == txn[w].tries < MaxRetries

Tries(w) == IF txn[w].tries < MaxRetries THEN txn[w].tries + 1 ELSE txn[w].tries

\* isSerializationFailure: ROLLBACK and, while retries are left, a new attempt
\* with a new snapshot.
Retry(w) ==
  IF RetriesLeft(w)
  THEN /\ locks' = Release(w)
       /\ txn' = [txn EXCEPT ![w] = Fresh(Tries(w))]
       /\ UNCHANGED <<rows, version>>
  ELSE Fail(w, "serialization")

\* BEGIN and the first query; a serializable snapshot is taken before any lock
\* is waited for.
Begin(w) ==
  /\ txn[w].status = "idle"
  /\ txn' = [txn EXCEPT ![w].status = "running",
                        ![w].snapshot = IF Serializable(w)
                                        THEN [rows |-> rows, version |-> version]
                                        ELSE NoId]
  /\ UNCHANGED <<rows, version, locks>>

\* COMMIT.
Commit(w) ==
  /\ Running(w) /\ Ended(w)
  /\ rows' = [s \in Streams |-> rows[s] \union txn[w].added[s]]
  /\ version' = [r \in Rows |-> version[r] + txn[w].wrote[r]]
  /\ locks' = Release(w)
  /\ txn' = [txn EXCEPT ![w] = [Fresh(txn[w].tries) EXCEPT !.status = "committed"]]

-----------------------------------------------------------------------------
(* Statements. *)

\* A guard of the service fails (a state that moved on, an expired authority, a
\* fence that needs no change) or the connection is lost: the transaction rolls back.
Throw(w) == Running(w) /\ ~Ended(w) /\ Fail(w, "thrown")

\* A read/write conflict: 40001 at any statement or at COMMIT.
SerializationFailure(w) == Running(w) /\ Serializable(w) /\ Retry(w)

\* A row that a concurrent transaction updated after the snapshot.
Stale(w, r) ==
  Serializable(w) /\ version[r] # txn[w].snapshot.version[r]

\* SELECT .. FOR UPDATE of a service's row, or UPDATE.
LockRow(w) ==
  /\ Doing(w, "lock") \/ Doing(w, "update")
  /\ Blockers(w) = {}
  /\ LET r == Step(w).on
         once == IF Step(w).do = "update" THEN 1 ELSE 0
     IN  IF Stale(w, r) THEN Retry(w)
         ELSE IF Isolation(w) = "autocommit"
         THEN /\ version' = [version EXCEPT ![r] = @ + once]
              /\ txn' = [txn EXCEPT ![w].at = @ + 1]
              /\ UNCHANGED <<rows, locks>>
         ELSE /\ locks' = locks \union {<<RowWanted(w), w>>}
              /\ txn' = [txn EXCEPT ![w].at = @ + 1, ![w].wrote[r] = @ + once]
              /\ UNCHANGED <<rows, version>>

ReadTail(w) ==
  /\ Doing(w, "read")
  /\ txn' = [txn EXCEPT ![w].at = @ + 1, ![w].tail = LastOf(Visible(w, Step(w).on))]
  /\ UNCHANGED <<rows, version, locks>>

\* The row read is locked as it was read, whatever was inserted meanwhile.
HoldTail(w) ==
  /\ Doing(w, "hold")
  /\ Blockers(w) = {}
  /\ locks' = IF txn[w].tail = NoEvent \/ Isolation(w) = "autocommit"
              THEN locks ELSE locks \union {<<RowWanted(w), w>>}
  /\ txn' = [txn EXCEPT ![w].at = @ + 1]
  /\ UNCHANGED <<rows, version>>

\* A committed event has the key already: a unique violation, which under
\* SERIALIZABLE may be reported as a serialization failure.
Clash(w) == \/ Fail(w, "duplicate")
            \/ Serializable(w) /\ Retry(w)

InsertEvent(w) ==
  /\ Doing(w, "insert")
  /\ Blockers(w) = {}
  /\ LET s == Step(w).on
         e == [id |-> <<w, txn[w].count>>, seq |-> txn[w].tail.seq + 1,
               prev |-> txn[w].tail.id]
         taken == s \in Unique /\ \E f \in rows[s] \union txn[w].added[s] : f.seq = e.seq
     IN  IF taken THEN Clash(w)
         ELSE /\ IF Isolation(w) = "autocommit"
                 THEN /\ rows' = [rows EXCEPT ![s] = @ \union {e}]
                      /\ txn' = [txn EXCEPT ![w].at = @ + 1, ![w].count = @ + 1]
                 ELSE /\ txn' = [txn EXCEPT ![w].at = @ + 1, ![w].count = @ + 1,
                                            ![w].added[s] = @ \union {e}]
                      /\ UNCHANGED rows
              /\ UNCHANGED <<version, locks>>

\* Writers that all wait for one another.
OnCycle(w) ==
  Blockers(w) # {} /\ \E S \in SUBSET Writers :
    /\ w \in S
    /\ \A v \in S : Blockers(v) # {}
    /\ UNION {Blockers(v) : v \in S} = S

\* The deadlock detector aborts one of them; 40P01 is not retried.
DeadlockVictim(w) == OnCycle(w) /\ Fail(w, "deadlock")

AuditInit ==
  /\ kind \in Mixes
  /\ rows = [s \in Streams |-> {}]
  /\ version = [r \in Rows |-> 0]
  /\ locks = {}
  /\ txn = [w \in Writers |-> Fresh(0)]

Proceed(w) ==
  Begin(w) \/ LockRow(w) \/ ReadTail(w) \/ HoldTail(w) \/ InsertEvent(w) \/ Commit(w)

\* Every call has ended.
Done == /\ \A w \in Writers : txn[w].status \notin {"idle", "running"}
        /\ UNCHANGED auditVars

AuditNext ==
  \/ \E w \in Writers :
       /\ Proceed(w) \/ Throw(w) \/ SerializationFailure(w) \/ DeadlockVictim(w)
       /\ UNCHANGED kind
  \/ Done

\* A client goes on with its program, and the detector runs (deadlock_timeout).
AuditFairness == \A w \in Writers :
  /\ WF_auditVars(Proceed(w) /\ UNCHANGED kind)
  /\ WF_auditVars(DeadlockVictim(w) /\ UNCHANGED kind)

AuditSpec == AuditInit /\ [][AuditNext]_auditVars /\ AuditFairness

-----------------------------------------------------------------------------
(* Properties. *)

\* Every lock belongs to one running transaction, and retries stay within bounds.
AuditTypeOK ==
  /\ kind \in Mixes
  /\ DOMAIN rows = Streams
  /\ version \in [Rows -> Nat]
  /\ \A l \in locks : l[2] \in Writers /\ Running(l[2])
  /\ \A r \in {l[1] : l \in locks} : Cardinality({l \in locks : l[1] = r}) = 1
  /\ \A w \in Writers : txn[w].tries \in 0..MaxRetries

\* The committed events of a stream, in the order of their numbers; a place with
\* no event or with two is no entry of a log.
Chain(s) ==
  [i \in 1..Cardinality(rows[s]) |->
     LET here == {e \in rows[s] : e.seq = i}
     IN  IF Cardinality(here) = 1
         THEN LET e == CHOOSE x \in here : TRUE IN [id |-> e.id, prev |-> e.prev]
         ELSE [id |-> NoId, prev |-> NoId]]

Trail == INSTANCE AppendOnlyLog
           WITH log <- [s \in Streams |-> Chain(s)],
                Ids <- Writers \X Nat

\* The transactions implement the append-only log: whatever the interleaving,
\* the retries, the aborts and the deadlocks, both streams stay single chains
\* that only grow, the operation's by its unique index and the fence's, which
\* no index covers, by the fence row that every control change updates.
AuditTrailIsALog == Trail!LogSpec

\* The committed events that describe a change of the operation, and the
\* committed changes that were asked for without an audit context.
Described ==
  {e \in rows["operation"] : kind[e.id[1]] \in {"prepare", "sign", "advance", "control"}}
Undescribed == {w \in Writers : kind[w] = "unaudited" /\ txn[w].status = "committed"}

\* A change of the operation and its event commit together or not at all, and
\* nothing goes unrecorded but what preparation was asked to leave so: the
\* updates of the row are the events that describe one and those calls.
StateChangesAreRecorded ==
  version["operation"] = Cardinality(Described) + Cardinality(Undescribed)

\* "Every transition must be explicit and audited" (PRODUCT_SPEC.md:1029): the
\* code does not, where transition is called without an audit context.
EveryTransitionIsAudited == version["operation"] = Cardinality(Described)

\* A writer that holds the operation row under READ COMMITTED reads the true last
\* event, so that its number is free: only a refusal, which recordSigningRefusal
\* writes without the row and without a transaction, can take it away and roll
\* back a state change that had nothing to do with it.
OnlyRefusalsCollide ==
  (\E w \in Writers : Isolation(w) = "read committed" /\ txn[w].status = "duplicate")
    => \E e \in rows["operation"] : kind[e.id[1]] = "refusal"

\* Every call ends, committed or with an error for its caller.
EveryWriterEnds ==
  <>(\A w \in Writers : txn[w].status \notin {"idle", "running"})

\* "Authorization consumers and control mutations use the same serialized lock
\* order": no set of writers waits in a circle.
NoLockCycle == \A w \in Writers : ~OnCycle(w)
=============================================================================
