------------------------------ MODULE AuditProofs ------------------------------
(* The audit trail for any number of writers in any mix of the services, and   *)
(* any number of retries: it is an append-only log, it records every change of *)
(* the operation, and only a signing refusal can take a writer's number away.  *)
EXTENDS AuditChain, FiniteSetTheorems, TLAPS

-----------------------------------------------------------------------------
(* Chains. *)

EventIds == Writers \X Nat
Events == [id : EventIds, seq : Nat \ {0}, prev : EventIds \union {NoId}]
Tails == [id : EventIds \union {NoId}, seq : Nat]

\* What a transaction locks: a row of a service, or an audit event.
Places == (Rows \union Streams) \X (EventIds \union {NoId})

\* The events of S are numbered 1 to n, each number once, and each names the one
\* before it.
Chained(S, n) ==
  /\ \A e \in S : e.seq \in 1..n
  /\ \A i \in 1..n : \E e \in S : e.seq = i
  /\ \A e, f \in S : e.seq = f.seq => e = f
  /\ \A e \in S : e.seq = 1 => e.prev = NoId
  /\ \A e, f \in S : e.seq = f.seq + 1 => e.prev = f.id

IsChain(S) == \E n \in Nat : Chained(S, n)

\* t is the id and the number of an event of S, or there was none to read.
ReadFrom(t, S) == t = NoEvent \/ \E e \in S : t.id = e.id /\ t.seq = e.seq

-----------------------------------------------------------------------------
(* What a program has done when statement n is next. *)

\* It holds the operation's row, and a control change its fence.
RowTaken(k, n) ==
  \/ k \in {"prepare", "unaudited", "ledger", "sign", "signAgain", "advance"} /\ n > 1
  \/ k = "control" /\ n > 6

FenceTaken(k, n) == k = "control" /\ n > 1

\* Updates of a row, and events of a stream.
Updates(k, n, r) ==
  IF r = "operation"
  THEN IF \/ k \in {"prepare", "unaudited"} /\ n > 2
          \/ k = "sign" /\ n > 4
          \/ k = "control" /\ n > 7
       THEN 1
       ELSE IF k = "advance" THEN (IF n > 5 THEN 2 ELSE IF n > 1 THEN 1 ELSE 0) ELSE 0
  ELSE IF r = "system" /\ k = "control" /\ n > 2 THEN 1 ELSE 0

Inserts(k, n, s) ==
  IF s = "operation"
  THEN IF \/ k = "prepare" /\ n > 5
          \/ k = "ledger" /\ n > 4
          \/ k = "sign" /\ n > 7
          \/ k = "signAgain" /\ n > 6
          \/ k = "control" /\ n > 10
       THEN 1
       ELSE IF k = "advance" THEN (IF n > 8 THEN 2 ELSE IF n > 4 THEN 1 ELSE 0) ELSE 0
  ELSE IF k = "control" /\ n > 5 THEN 1 ELSE 0

-----------------------------------------------------------------------------
(* The inductive invariant. *)

Refused == \E e \in rows["operation"] : kind[e.id[1]] = "refusal"

\* Committed events, and those that some transaction has added.
All(s) == rows[s] \union UNION {txn[w].added[s] : w \in Writers}

\* The statement that w has next works on the event it read.
AfterRead(w) == Running(w) /\ ~Ended(w) /\ Step(w).do \in {"hold", "insert"}

Snapshots == [rows : [Streams -> SUBSET Events], version : [Rows -> Nat]]

Transactions ==
  [status : {"idle", "running", "committed", "thrown", "serialization", "duplicate",
             "deadlock"},
   at : Nat \ {0}, tries : 0..MaxRetries, snapshot : {NoId} \union Snapshots, tail : Tails,
   wrote : [Rows -> Nat], added : [Streams -> SUBSET Events], count : Nat]

WriterTypeOK(w) ==
  txn[w] \in Transactions /\ txn[w].at <= Len(Program[kind[w]]) + 1

\* What a transaction has written so far follows from where it stands; one that
\* does not run has written nothing.
Progress(w) ==
  /\ ~Running(w) => txn[w].at = 1
  /\ \A r \in Rows : txn[w].wrote[r] = Updates(kind[w], txn[w].at, r)
  /\ \A s \in Streams : IsFiniteSet(txn[w].added[s])
                        /\ Cardinality(txn[w].added[s]) = Inserts(kind[w], txn[w].at, s)
  /\ \A s \in Streams : \A e \in txn[w].added[s] : e.id[1] = w /\ e.id[2] < txn[w].count

\* Nothing of a transaction is committed before it commits.
Uncommitted(w) ==
  \A s \in Streams : \A e \in rows[s] :
    e.id[1] = w =>
      /\ txn[w].status # "idle"
      /\ Running(w) => kind[w] = "refusal" /\ e.id[2] < txn[w].count

Locked(w) ==
  /\ RowTaken(kind[w], txn[w].at) => <<<<"operation", NoId>>, w>> \in locks
  /\ FenceTaken(kind[w], txn[w].at) => <<<<"system", NoId>>, w>> \in locks

\* A snapshot is a part of each chain; a stream of fence events that the fence's
\* version says is unchanged is unchanged; a fence that is held does not change.
Snapshot(w) ==
  Running(w) /\ Serializable(w) =>
    /\ txn[w].snapshot \in Snapshots
    /\ \A s \in Streams : /\ txn[w].snapshot.rows[s] \subseteq rows[s]
                          /\ IsChain(txn[w].snapshot.rows[s])
    /\ \A r \in Rows : txn[w].snapshot.version[r] <= version[r]
    /\ txn[w].snapshot.version["system"] = version["system"] =>
         txn[w].snapshot.rows["scope"] = rows["scope"]
    /\ FenceTaken(kind[w], txn[w].at) =>
         txn[w].snapshot.version["system"] = version["system"]

\* The event read is still there; the last of the fence's stream is still the
\* last, and so is that of the operation's for the holder of its row, unless a
\* refusal came in between.
TailRead(w) ==
  AfterRead(w) =>
    LET s == Step(w).on IN
    /\ ReadFrom(txn[w].tail, rows[s] \union txn[w].added[s])
    /\ s = "scope" => txn[w].tail = LastOf(rows["scope"])
    /\ Isolation(w) = "read committed" =>
         Refused \/ txn[w].tail = LastOf(rows["operation"] \union txn[w].added["operation"])

\* What a transaction has added continues the committed chain.
OnTop(w) == \A s \in Streams : IsChain(rows[s] \union txn[w].added[s])

Collides(w) ==
  Isolation(w) = "read committed" /\ txn[w].status = "duplicate" => Refused

WriterInv(w) ==
  /\ WriterTypeOK(w)
  /\ Progress(w)
  /\ Uncommitted(w)
  /\ Locked(w)
  /\ Snapshot(w)
  /\ TailRead(w)
  /\ OnTop(w)
  /\ Collides(w)

\* A lock belongs to one running transaction, and nobody else has the same.
Exclusive ==
  \A l \in locks : /\ l \in Places \X Writers
                   /\ Running(l[2])
                   /\ \A m \in locks : l[1] = m[1] => l = m

IdsDiffer ==
  \A s, t \in Streams : \A e \in All(s), f \in All(t) : e.id = f.id => s = t /\ e = f

NumbersDiffer == \A e, f \in All("operation") : e.seq = f.seq => e = f

TablesOK ==
  /\ kind \in Mixes
  /\ rows \in [Streams -> SUBSET Events]
  /\ version \in [Rows -> Nat]
  /\ txn = [w \in Writers |-> txn[w]]
  /\ \A s \in Streams : IsChain(rows[s])

AuditInv ==
  /\ TablesOK
  /\ Exclusive
  /\ IdsDiffer
  /\ NumbersDiffer
  /\ \A w \in Writers : WriterInv(w)
  /\ IsFiniteSet(Undescribed)
  /\ StateChangesAreRecorded

-----------------------------------------------------------------------------
(* Lemmas about the programs. *)

\* The programs, statement by statement.
LEMMA ProgramTable ==
  /\ Program["prepare"] = <<Lock("operation"), Update("operation"),
                            Read("operation"), Hold("operation"), Insert("operation")>>
  /\ Program["unaudited"] = <<Lock("operation"), Update("operation")>>
  /\ Program["ledger"] = <<Lock("operation"), Read("operation"), Hold("operation"),
                           Insert("operation")>>
  /\ Program["sign"] = <<Lock("operation"), Lock("system"), Lock("agent"),
                         Update("operation"), Read("operation"), Hold("operation"),
                         Insert("operation")>>
  /\ Program["signAgain"] = <<Lock("operation"), Lock("system"), Lock("agent"),
                              Read("operation"), Hold("operation"), Insert("operation")>>
  /\ Program["advance"] = <<Update("operation"), Read("operation"), Hold("operation"),
                            Insert("operation"), Update("operation"), Read("operation"),
                            Hold("operation"), Insert("operation")>>
  /\ Program["control"] = <<Lock("system"), Update("system"), Read("scope"), Hold("scope"),
                            Insert("scope"), Lock("operation"), Update("operation"),
                            Read("operation"), Hold("operation"), Insert("operation")>>
  /\ Program["refusal"] = <<Read("operation"), Hold("operation"), Insert("operation")>>
BY DEF Program, PrepareProgram, UnauditedProgram, LedgerProgram, SignProgram,
       SignAgainProgram, AdvanceProgram, ControlProgram, RefusalProgram

\* What a statement adds to what the program has done.
Statement(k, n, st) ==
  /\ st.do \in {"lock", "update", "read", "hold", "insert"}
  /\ st.do \in {"lock", "update"} => st.on \in Rows /\ k # "refusal"
  /\ st.do \in {"read", "hold", "insert"} => st.on \in Streams
  /\ st.do \in {"read", "hold", "insert"} /\ st.on = "scope" =>
       k = "control" /\ FenceTaken(k, n) /\ Inserts(k, n, "scope") = 0
  /\ st.do \in {"read", "hold", "insert"} /\ st.on = "operation" /\ k # "refusal" =>
       RowTaken(k, n)
  /\ st.do = "read" /\ k \in {"ledger", "control"} => Inserts(k, n, st.on) = 0
  /\ \A r \in Rows : Updates(k, n + 1, r) =
       Updates(k, n, r) + IF st.do = "update" /\ st.on = r THEN 1 ELSE 0
  /\ \A s \in Streams : Inserts(k, n + 1, s) =
       Inserts(k, n, s) + IF st.do = "insert" /\ st.on = s /\ k # "refusal" THEN 1 ELSE 0
  /\ RowTaken(k, n + 1) =>
       RowTaken(k, n) \/ (st.do \in {"lock", "update"} /\ st.on = "operation")
  /\ FenceTaken(k, n + 1) =>
       FenceTaken(k, n) \/ (st.do = "lock" /\ st.on = "system")

LEMMA Statements ==
  ASSUME NEW k \in Services, NEW n \in 1..Len(Program[k])
  PROVE  Statement(k, n, Program[k][n])
<1> USE DEF Statement, RowTaken, FenceTaken, Updates, Inserts, Rows, Streams,
            Lock, Update, Read, Hold, Insert
<1>1. CASE k = "prepare"
  BY <1>1, ProgramTable
<1>2. CASE k = "ledger"
  BY <1>2, ProgramTable
<1>3. CASE k = "sign"
  BY <1>3, ProgramTable
<1>4. CASE k = "advance"
  BY <1>4, ProgramTable
<1>5. CASE k = "control"
  BY <1>5, ProgramTable
<1>6. CASE k = "refusal"
  BY <1>6, ProgramTable
<1>7. CASE k = "unaudited"
  BY <1>7, ProgramTable
<1>8. CASE k = "signAgain"
  BY <1>8, ProgramTable
<1> QED
  BY <1>1, <1>2, <1>3, <1>4, <1>5, <1>6, <1>7, <1>8 DEF Services

\* A statement that works on the event read comes right after the read or after
\* another such statement of the same stream.
LEMMA ReadsComeFirst ==
  ASSUME NEW k \in Services, NEW n \in 1..Len(Program[k]), n + 1 <= Len(Program[k]),
         Program[k][n + 1].do \in {"hold", "insert"}
  PROVE  Program[k][n].do \in {"read", "hold"} /\ Program[k][n].on = Program[k][n + 1].on
<1> USE DEF Lock, Update, Read, Hold, Insert
<1>1. CASE k = "prepare"
  BY <1>1, ProgramTable
<1>2. CASE k = "ledger"
  BY <1>2, ProgramTable
<1>3. CASE k = "sign"
  BY <1>3, ProgramTable
<1>4. CASE k = "advance"
  BY <1>4, ProgramTable
<1>5. CASE k = "control"
  BY <1>5, ProgramTable
<1>6. CASE k = "refusal"
  BY <1>6, ProgramTable
<1>7. CASE k = "unaudited"
  BY <1>7, ProgramTable
<1>8. CASE k = "signAgain"
  BY <1>8, ProgramTable
<1> QED
  BY <1>1, <1>2, <1>3, <1>4, <1>5, <1>6, <1>7, <1>8 DEF Services

\* Every program begins with a statement that needs nothing read.
LEMMA Beginnings ==
  ASSUME NEW k \in Services
  PROVE  /\ Len(Program[k]) \in Nat \ {0}
         /\ Program[k][1].do \notin {"hold", "insert"}
<1> USE DEF Lock, Update, Read, Hold, Insert
<1>1. CASE k = "prepare"
  BY <1>1, ProgramTable
<1>2. CASE k = "ledger"
  BY <1>2, ProgramTable
<1>3. CASE k = "sign"
  BY <1>3, ProgramTable
<1>4. CASE k = "advance"
  BY <1>4, ProgramTable
<1>5. CASE k = "control"
  BY <1>5, ProgramTable
<1>6. CASE k = "refusal"
  BY <1>6, ProgramTable
<1>7. CASE k = "unaudited"
  BY <1>7, ProgramTable
<1>8. CASE k = "signAgain"
  BY <1>8, ProgramTable
<1> QED
  BY <1>1, <1>2, <1>3, <1>4, <1>5, <1>6, <1>7, <1>8 DEF Services

\* Whatever was added to a stream was added under the row that protects it, an
\* event of the fence with an update of the fence; a program that has ended has
\* as many events as updates of the operation if it makes any.
LEMMA Written ==
  ASSUME NEW k \in Services, NEW n \in Nat \ {0}
  PROVE  /\ \A r \in Rows : Updates(k, n, r) \in Nat
         /\ \A s \in Streams : Inserts(k, n, s) \in Nat
         /\ Inserts(k, n, "operation") # 0 => RowTaken(k, n)
         /\ Inserts(k, n, "scope") # 0 => FenceTaken(k, n) /\ Updates(k, n, "system") = 1
         /\ Updates(k, n, "system") # 0 => FenceTaken(k, n)
         /\ n = 1 => /\ ~RowTaken(k, n) /\ ~FenceTaken(k, n)
                     /\ \A r \in Rows : Updates(k, n, r) = 0
                     /\ \A s \in Streams : Inserts(k, n, s) = 0
         /\ k = "refusal" => \A s \in Streams : Inserts(k, n, s) = 0
         /\ FenceTaken(k, n) => k = "control"
BY DEF Services, RowTaken, FenceTaken, Updates, Inserts, Rows, Streams

LEMMA Endings ==
  ASSUME NEW k \in Services, NEW n \in 1..(Len(Program[k]) + 1), n > Len(Program[k])
  PROVE  Updates(k, n, "operation") =
           IF k \in {"prepare", "sign", "advance", "control"}
           THEN Inserts(k, n, "operation")
           ELSE IF k = "unaudited" THEN 1 ELSE 0
<1> USE DEF Updates, Inserts
<1>1. CASE k = "prepare"
  BY <1>1, ProgramTable
<1>2. CASE k = "ledger"
  BY <1>2, ProgramTable
<1>3. CASE k = "sign"
  BY <1>3, ProgramTable
<1>4. CASE k = "advance"
  BY <1>4, ProgramTable
<1>5. CASE k = "control"
  BY <1>5, ProgramTable
<1>6. CASE k = "refusal"
  BY <1>6, ProgramTable
<1>7. CASE k = "unaudited"
  BY <1>7, ProgramTable
<1>8. CASE k = "signAgain"
  BY <1>8, ProgramTable
<1> QED
  BY <1>1, <1>2, <1>3, <1>4, <1>5, <1>6, <1>7, <1>8 DEF Services

-----------------------------------------------------------------------------
(* Lemmas about chains. *)

\* A chain has as many events as its last number says.
LEMMA ChainSize ==
  ASSUME NEW S, NEW n \in Nat, Chained(S, n)
  PROVE  IsFiniteSet(S) /\ Cardinality(S) = n
<1> DEFINE f == [i \in 1..n |-> CHOOSE e \in S : e.seq = i]
<1>1. \A i \in 1..n : f[i] \in S /\ f[i].seq = i
  BY DEF Chained
<1>2. f \in [1..n -> S]
  BY <1>1
<1>3. \A i, j \in 1..n : f[i] = f[j] => i = j
  BY <1>1
<1>4. \A e \in S : \E i \in 1..n : f[i] = e
  <2> TAKE e \in S
  <2>1. e.seq \in 1..n /\ f[e.seq] \in S /\ f[e.seq].seq = e.seq
    BY <1>1 DEF Chained
  <2> QED BY <2>1 DEF Chained
<1>5. ExistsBijection(1..n, S)
  BY <1>2, <1>3, <1>4 DEF ExistsBijection, Bijection, Injection, Surjection, IsInjective
<1> QED
  BY <1>5, FS_NatBijection, FS_CountingElements

\* The last event of a chain.
LEMMA ChainLast ==
  ASSUME NEW S, NEW n \in Nat, Chained(S, n)
  PROVE  /\ S = {} <=> n = 0
         /\ n = 0 => LastOf(S) = NoEvent
         /\ n # 0 => \E e \in S : e.seq = n /\ LastOf(S) = [id |-> e.id, seq |-> n]
<1>1. S = {} <=> n = 0
  BY DEF Chained
<1>2. ASSUME n # 0
      PROVE  \E e \in S : e.seq = n /\ LastOf(S) = [id |-> e.id, seq |-> n]
  <2> DEFINE last == CHOOSE e \in S : \A f \in S : f.seq <= e.seq
  <2>1. PICK e \in S : e.seq = n
    BY <1>2 DEF Chained
  <2>2. \A f \in S : f.seq <= e.seq
    BY <2>1 DEF Chained
  <2>3. last \in S /\ \A f \in S : f.seq <= last.seq
    BY <2>2
  <2>4. last.seq \in 1..n
    BY <2>3 DEF Chained
  <2>5. last.seq = n
    BY <2>1, <2>3, <2>4
  <2>6. LastOf(S) = [id |-> last.id, seq |-> last.seq]
    BY <1>1, <1>2 DEF LastOf
  <2> HIDE DEF last
  <2> QED BY <2>3, <2>5, <2>6
<1> QED BY <1>1, <1>2 DEF LastOf

\* What was read from a chain points into it.
LEMMA LastIsRead ==
  ASSUME NEW S \in SUBSET Events, IsChain(S)
  PROVE  ReadFrom(LastOf(S), S) /\ LastOf(S) \in Tails
<1>1. PICK n \in Nat : Chained(S, n)
  BY DEF IsChain
<1>2. CASE n = 0
  BY <1>1, <1>2, ChainLast DEF ReadFrom, NoEvent, Tails
<1>3. CASE n # 0
  <2>1. PICK e \in S : e.seq = n /\ LastOf(S) = [id |-> e.id, seq |-> n]
    BY <1>1, <1>3, ChainLast
  <2> QED BY <2>1 DEF ReadFrom, Tails, Events
<1> QED BY <1>2, <1>3

\* An event whose number is free, and that names an event of the chain with the
\* number before it, extends the chain.
LEMMA ChainGrows ==
  ASSUME NEW S \in SUBSET Events, IsChain(S), NEW e \in Events, NEW t \in Tails,
         ReadFrom(t, S), e.seq = t.seq + 1, e.prev = t.id,
         \A f \in S : f.seq # e.seq
  PROVE  /\ IsChain(S \union {e})
         /\ \A f \in S : f.seq < e.seq
<1>1. PICK n \in Nat : Chained(S, n)
  BY DEF IsChain
<1>2. t.seq \in 0..n
  BY <1>1 DEF ReadFrom, Chained, NoEvent
<1>3. e.seq = n + 1
  BY <1>1, <1>2 DEF Chained
<1>4. t = NoEvent \/ \E f \in S : f.seq = n /\ e.prev = f.id
  BY <1>3 DEF ReadFrom, Events
<1>5. e.seq = 1 => e.prev = NoId
  BY <1>1, <1>3, <1>4 DEF NoEvent, Chained
<1>6. \A f \in S : e.seq = f.seq + 1 => e.prev = f.id
  BY <1>1, <1>3, <1>4 DEF NoEvent, Chained, Events
<1>7. Chained(S \union {e}, n + 1)
  <2>1. \A f \in S \union {e} : f.seq \in 1..(n + 1)
    BY <1>1, <1>3 DEF Chained
  <2>2. \A i \in 1..(n + 1) : \E f \in S \union {e} : f.seq = i
    BY <1>1, <1>3 DEF Chained
  <2>3. \A f, g \in S \union {e} : f.seq = g.seq => f = g
    BY <1>1 DEF Chained
  <2>4. \A f \in S \union {e} : f.seq = 1 => f.prev = NoId
    BY <1>1, <1>5 DEF Chained
  <2>5. \A f, g \in S \union {e} : f.seq = g.seq + 1 => f.prev = g.id
    BY <1>1, <1>3, <1>6 DEF Chained
  <2> QED BY <2>1, <2>2, <2>3, <2>4, <2>5 DEF Chained
<1> QED BY <1>1, <1>3, <1>7 DEF IsChain, Chained

\* Two chains that continue the same one, each with an event of its own, use the
\* same number.
LEMMA ChainsMeet ==
  ASSUME NEW R, NEW S, NEW T, IsChain(R), IsChain(R \union S), IsChain(R \union T),
         R \intersect S = {}, R \intersect T = {}, S # {}, T # {}
  PROVE  \E e \in S, f \in T : e.seq = f.seq
<1>1. PICK n \in Nat : Chained(R, n)
  BY DEF IsChain
<1>2. ASSUME NEW X, IsChain(R \union X), R \intersect X = {}, X # {}
      PROVE  \E e \in X : e.seq = n + 1
  <2>1. PICK m \in Nat : Chained(R \union X, m)
    BY <1>2 DEF IsChain
  <2>2. PICK x \in X : TRUE
    BY <1>2
  <2>3. x.seq \in 1..m /\ x.seq \notin 1..n
    <3>1. ASSUME x.seq \in 1..n PROVE FALSE
      <4>1. PICK r \in R : r.seq = x.seq
        BY <1>1, <3>1 DEF Chained
      <4>2. r = x
        BY <2>1, <2>2, <4>1 DEF Chained
      <4> QED BY <1>2, <2>2, <4>1, <4>2
    <3> QED BY <2>1, <2>2, <3>1 DEF Chained
  <2>4. PICK e \in R \union X : e.seq = n + 1
    BY <2>1, <2>3 DEF Chained
  <2>5. e \notin R
    BY <1>1, <2>4 DEF Chained
  <2> QED BY <2>4, <2>5
<1> QED BY <1>2

-----------------------------------------------------------------------------
(* Lemmas about the invariant. *)

\* Which service a writer calls, and how.
LEMMA Kinds ==
  ASSUME TablesOK, NEW w \in Writers
  PROVE  /\ kind[w] \in Services
         /\ Serializable(w) <=> kind[w] \in {"ledger", "control"}
         /\ Isolation(w) = "autocommit" <=> kind[w] = "refusal"
         /\ Isolation(w) = "read committed" <=> kind[w] \in {"prepare", "unaudited", "sign", "signAgain", "advance"}
BY AuditChainAssumption DEF TablesOK, Services, Serializable, Isolation

\* Where nothing was added, nothing was counted, and conversely.
LEMMA AddedNothing ==
  ASSUME TablesOK, NEW w \in Writers, WriterInv(w), NEW s \in Streams
  PROVE  txn[w].added[s] = {} <=> Inserts(kind[w], txn[w].at, s) = 0
<1>1. /\ IsFiniteSet(txn[w].added[s])
      /\ Cardinality(txn[w].added[s]) = Inserts(kind[w], txn[w].at, s)
  BY DEF WriterInv, Progress
<1> QED BY <1>1, FS_EmptySet

\* A writer that does not run has left nothing behind.
LEMMA NotRunning ==
  ASSUME TablesOK, NEW w \in Writers, WriterInv(w), ~Running(w)
  PROVE  \A s \in Streams : txn[w].added[s] = {}
<1>1. txn[w].at = 1 /\ kind[w] \in Services
  BY Kinds DEF WriterInv, Progress
<1>2. \A s \in Streams : Inserts(kind[w], txn[w].at, s) = 0
  BY <1>1, Written
<1> QED BY <1>2, AddedNothing

\* The statement that a running writer has next.
LEMMA NextStatement ==
  ASSUME TablesOK, NEW w \in Writers, WriterInv(w), ~Ended(w)
  PROVE  /\ txn[w].at \in 1..Len(Program[kind[w]])
         /\ Step(w) = Program[kind[w]][txn[w].at]
         /\ Statement(kind[w], txn[w].at, Step(w))
<1>1. kind[w] \in Services
  BY Kinds
<1>2. Len(Program[kind[w]]) \in Nat
  BY <1>1, Beginnings
<1>3. txn[w].at \in 1..(Len(Program[kind[w]]) + 1) /\ txn[w].at <= Len(Program[kind[w]])
  BY <1>2 DEF WriterInv, WriterTypeOK, Transactions, Ended
<1>4. txn[w].at \in 1..Len(Program[kind[w]])
  BY <1>2, <1>3
<1> QED BY <1>1, <1>4, Statements DEF Step

\* A writer that nobody disturbs keeps its part of the invariant.
LEMMA Undisturbed ==
  ASSUME NEW v \in Writers, WriterInv(v), txn'[v] = txn[v],
         UNCHANGED <<kind, rows, version>>,
         \A r : <<r, v>> \in locks => <<r, v>> \in locks'
  PROVE  WriterInv(v)'
<1> USE DEF Running
<1>1. WriterTypeOK(v)'
  BY DEF WriterInv, WriterTypeOK
<1>2. Progress(v)' /\ Uncommitted(v)' /\ Locked(v)'
  BY DEF WriterInv, Progress, Uncommitted, Locked
<1>3. Snapshot(v)'
  BY DEF WriterInv, Snapshot, Serializable, Isolation
<1>4. TailRead(v)'
  BY DEF WriterInv, TailRead, AfterRead, Ended, Step, Isolation, Refused
<1>5. OnTop(v)' /\ Collides(v)'
  BY DEF WriterInv, OnTop, Collides, Isolation, Refused
<1> QED BY <1>1, <1>2, <1>3, <1>4, <1>5 DEF WriterInv

\* Without new events no two of them can come to share a name or a number.
LEMMA NothingAdded ==
  ASSUME IdsDiffer, NumbersDiffer, \A s \in Streams : All(s)' \subseteq All(s)
  PROVE  IdsDiffer' /\ NumbersDiffer'
<1>1. IdsDiffer'
  BY DEF IdsDiffer
<1>2. NumbersDiffer'
  BY DEF NumbersDiffer, Streams
<1> QED BY <1>1, <1>2

\* One writer takes a step that commits nothing.
LEMMA WriterStep ==
  ASSUME AuditInv, NEW w \in Writers, NEW t, txn' = [txn EXCEPT ![w] = t],
         UNCHANGED <<kind, rows, version>>,
         txn[w].status # "committed", t.status # "committed",
         \A v \in Writers \ {w} : \A r : <<r, v>> \in locks => <<r, v>> \in locks',
         Exclusive', IdsDiffer', NumbersDiffer', WriterInv(w)'
  PROVE  AuditInv'
<1>1. TablesOK'
  BY DEF AuditInv, TablesOK
<1>2. \A v \in Writers \ {w} : WriterInv(v)'
  BY Undisturbed DEF AuditInv, TablesOK
<1>3. StateChangesAreRecorded' /\ IsFiniteSet(Undescribed')
  <2>1. Undescribed' = Undescribed
    BY DEF AuditInv, TablesOK, Undescribed
  <2> QED BY <2>1 DEF AuditInv, StateChangesAreRecorded, Described
<1> QED BY <1>1, <1>2, <1>3 DEF AuditInv

-----------------------------------------------------------------------------
(* The initial states and the ends of a transaction. *)

LEMMA EmptyChain == IsChain({})
<1>1. Chained({}, 0)
  BY DEF Chained
<1> QED BY <1>1 DEF IsChain

\* A transaction that is about to start, or that has ended.
Blank(t) ==
  /\ t \in Transactions
  /\ t.status # "running"
  /\ t.at = 1
  /\ t.tail = NoEvent
  /\ t.wrote = [r \in Rows |-> 0]
  /\ t.added = [s \in Streams |-> {}]
  /\ t.count = 0

LEMMA FreshIsBlank ==
  ASSUME NEW tries \in 0..MaxRetries
  PROVE  Blank(Fresh(tries)) /\ Fresh(tries).status = "idle"
BY DEF Fresh, Blank, Transactions, Tails, NoEvent

\* A writer that may start, or that ended with a reason for it.
Clean(w) ==
  /\ Blank(txn[w])
  /\ txn[w].status = "idle" => \A s \in Streams : \A e \in rows[s] : e.id[1] # w
  /\ Collides(w)

CleanInv == TablesOK => \A w \in Writers : Clean(w) => WriterInv(w)

LEMMA CleanWriters == CleanInv
<1> SUFFICES ASSUME TablesOK, NEW w \in Writers, Clean(w)
             PROVE  WriterInv(w)
  BY DEF CleanInv
<1>0. Blank(txn[w])
  BY DEF Clean
<1>1. kind[w] \in Services /\ Len(Program[kind[w]]) \in Nat \ {0}
  BY Kinds, Beginnings
<1>2. WriterTypeOK(w)
  BY <1>0, <1>1 DEF Blank, WriterTypeOK
<1>3. ~Running(w)
  BY <1>0 DEF Running, Blank
<1>4. Progress(w)
  BY <1>0, <1>1, Written, FS_EmptySet DEF Progress, Blank
<1>5. Uncommitted(w)
  BY <1>3 DEF Uncommitted, Clean
<1>6. Locked(w)
  BY <1>0, <1>1, Written DEF Locked, Blank
<1>7. Snapshot(w) /\ TailRead(w)
  BY <1>3 DEF Snapshot, TailRead, AfterRead
<1>8. OnTop(w)
  <2>1. ASSUME NEW s \in Streams PROVE IsChain(rows[s] \union txn[w].added[s])
    <3>1. rows[s] \union txn[w].added[s] = rows[s]
      BY <1>0 DEF Blank
    <3> QED BY <3>1 DEF TablesOK
  <2> QED BY <2>1 DEF OnTop
<1> QED BY <1>2, <1>4, <1>5, <1>6, <1>7, <1>8 DEF WriterInv, Clean

LEMMA InitAudit == AuditInit => AuditInv
<1> SUFFICES ASSUME AuditInit PROVE AuditInv
  OBVIOUS
<1>1. \A s \in Streams : rows[s] = {}
  BY DEF AuditInit
<1>2. TablesOK
  BY <1>1, EmptyChain DEF AuditInit, TablesOK
<1>3. \A w \in Writers : txn[w] = Fresh(0)
  BY DEF AuditInit
<1>4. \A w \in Writers : WriterInv(w)
  <2> SUFFICES ASSUME NEW w \in Writers PROVE Clean(w)
    BY <1>2, CleanWriters DEF CleanInv
  <2>1. Blank(txn[w]) /\ txn[w].status = "idle"
    BY <1>3, FreshIsBlank, AuditChainAssumption
  <2> QED BY <1>1, <2>1 DEF Clean, Collides

<1>5. \A s \in Streams : All(s) = {}
  BY <1>1, <1>3 DEF All, Fresh
<1>6. IdsDiffer /\ NumbersDiffer /\ Exclusive
  BY <1>5 DEF IdsDiffer, NumbersDiffer, Exclusive, AuditInit, Streams
<1>7. StateChangesAreRecorded /\ IsFiniteSet(Undescribed)
  <2>1. Described = {} /\ Undescribed = {}
    BY <1>1, <1>3 DEF Streams, Described, Undescribed, Fresh
  <2> QED BY <2>1, FS_EmptySet DEF StateChangesAreRecorded, AuditInit, Rows
<1> QED BY <1>2, <1>4, <1>6, <1>7 DEF AuditInv

\* A transaction rolls back: to another attempt or with an error.
Rollback(w, t) ==
  /\ txn' = [txn EXCEPT ![w] = t]
  /\ locks' = Release(w)
  /\ UNCHANGED <<kind, rows, version>>

LEMMA RollbackStep ==
  ASSUME AuditInv, NEW w \in Writers, Running(w), NEW t, Rollback(w, t), Blank(t),
         t.status # "committed",
         t.status = "idle" => kind[w] # "refusal",
         t.status = "duplicate" /\ Isolation(w) = "read committed" => Refused
  PROVE  AuditInv'
<1>1. TablesOK' /\ txn'[w] = t
  BY DEF AuditInv, TablesOK, Rollback
<1>2. \A v \in Writers \ {w} : txn'[v] = txn[v]
  BY DEF AuditInv, TablesOK, Rollback
<1>3. \A s \in Streams : All(s)' \subseteq All(s)
  <2>1. \A v \in Writers, s \in Streams : txn'[v].added[s] \subseteq txn[v].added[s]
    BY <1>1, <1>2 DEF Blank
  <2>2. ASSUME NEW s \in Streams, NEW e \in All(s)' PROVE e \in All(s)
    <3>1. CASE e \in rows'[s]
      BY <3>1 DEF All, Rollback
    <3>2. CASE e \notin rows'[s]
      <4>1. PICK v \in Writers : e \in txn'[v].added[s]
        BY <2>2, <3>2 DEF All
      <4>2. e \in txn[v].added[s]
        BY <2>1, <4>1
      <4> QED BY <4>2 DEF All
    <3> QED BY <3>1, <3>2
  <2> QED BY <2>2
<1>4. IdsDiffer' /\ NumbersDiffer'
  BY <1>3, NothingAdded DEF AuditInv
<1>5. Exclusive'
  <2> SUFFICES ASSUME NEW l \in locks'
               PROVE  /\ l \in Places \X Writers /\ Running(l[2])'
                      /\ \A m \in locks' : l[1] = m[1] => l = m
    BY DEF Exclusive
  <2>1. l \in locks /\ l[2] # w /\ \A m \in locks' : m \in locks
    BY DEF Rollback, Release
  <2>2. l[2] \in Writers /\ txn'[l[2]] = txn[l[2]]
    BY <1>2, <2>1 DEF AuditInv, Exclusive
  <2> QED BY <2>1, <2>2 DEF AuditInv, Exclusive, Running
<1>6. \A v \in Writers \ {w} : \A r : <<r, v>> \in locks => <<r, v>> \in locks'
  BY DEF Rollback, Release
<1>7. (txn[w].status = "idle" => \A s \in Streams : \A e \in rows[s] : e.id[1] # w)'
  BY <1>1 DEF AuditInv, WriterInv, Uncommitted, Rollback
<1>8. Collides(w)'
  BY <1>1 DEF Collides, Isolation, Refused, Rollback
<1>9. WriterInv(w)'
  <2>1. CleanInv'
    BY CleanWriters, PTL
  <2>2. Clean(w)'
    BY <1>1, <1>7, <1>8 DEF Clean, Blank
  <2> QED BY <1>1, <2>1, <2>2 DEF CleanInv
<1> QED BY <1>4, <1>5, <1>6, <1>9, WriterStep DEF Rollback, Running

LEMMA FailStep ==
  ASSUME AuditInv, NEW w \in Writers, Running(w),
         NEW why \in {"thrown", "serialization", "duplicate", "deadlock"},
         Fail(w, why), UNCHANGED kind,
         why = "duplicate" /\ Isolation(w) = "read committed" => Refused
  PROVE  AuditInv'
<1> DEFINE t == [Fresh(txn[w].tries) EXCEPT !.status = why]
<1>1. Blank(t) /\ t.status = why
  <2>1. txn[w].tries \in 0..MaxRetries
    BY DEF AuditInv, WriterInv, WriterTypeOK, Transactions
  <2>2. Blank(Fresh(txn[w].tries))
    BY <2>1, FreshIsBlank
  <2> QED BY <2>2 DEF Blank, Transactions
<1>2. Rollback(w, t)
  BY DEF Fail, Rollback
<1> HIDE DEF t
<1> QED BY <1>1, <1>2, RollbackStep

LEMMA RetryStep ==
  ASSUME AuditInv, NEW w \in Writers, Running(w), Serializable(w), Retry(w), UNCHANGED kind
  PROVE  AuditInv'
<1>1. Isolation(w) # "read committed" /\ kind[w] # "refusal"
  BY Kinds DEF AuditInv, Serializable, Isolation
<1>2. CASE RetriesLeft(w)
  <2> DEFINE t == Fresh(Tries(w))
  <2>1. txn[w].tries \in 0..MaxRetries
    BY DEF AuditInv, WriterInv, WriterTypeOK, Transactions
  <2>2. Blank(t) /\ t.status = "idle"
    BY <2>1, FreshIsBlank, AuditChainAssumption DEF Tries
  <2>3. Rollback(w, t)
    BY <1>2 DEF Retry, Rollback
  <2> HIDE DEF t
  <2> QED BY <1>1, <2>2, <2>3, RollbackStep
<1>3. CASE ~RetriesLeft(w)
  BY <1>1, <1>3, FailStep DEF Retry
<1> QED BY <1>2, <1>3

-----------------------------------------------------------------------------
(* The statements of a transaction that is not committed by them. *)

LEMMA BeginStep ==
  ASSUME AuditInv, NEW w \in Writers, Begin(w), UNCHANGED kind
  PROVE  AuditInv'
<1> DEFINE t == [txn[w] EXCEPT !.status = "running",
                               !.snapshot = IF Serializable(w)
                                            THEN [rows |-> rows, version |-> version]
                                            ELSE NoId]
<1>1. txn' = [txn EXCEPT ![w] = t] /\ UNCHANGED <<kind, rows, version, locks>>
  BY DEF AuditInv, TablesOK, Begin
<1>2. txn'[w] = t
  BY <1>1 DEF AuditInv, TablesOK
<1>3. /\ txn[w] \in Transactions /\ txn[w].status = "idle"
      /\ rows \in [Streams -> SUBSET Events] /\ version \in [Rows -> Nat]
  BY DEF AuditInv, TablesOK, WriterInv, WriterTypeOK, Begin
<1>4. /\ t \in Transactions /\ t.status = "running"
      /\ t.at = txn[w].at /\ t.wrote = txn[w].wrote /\ t.added = txn[w].added
      /\ t.count = txn[w].count
      /\ Serializable(w) => t.snapshot = [rows |-> rows, version |-> version]
  BY <1>3 DEF Transactions, Snapshots
<1> HIDE DEF t
<1>5. txn[w].at = 1 /\ kind[w] \in Services
  BY <1>3, Kinds DEF AuditInv, WriterInv, Progress, Running
<1>6. \A v \in Writers, s \in Streams : txn'[v].added[s] = txn[v].added[s]
  BY <1>1, <1>4 DEF AuditInv, TablesOK
<1>7. IdsDiffer' /\ NumbersDiffer' /\ Exclusive'
  <2>1. \A s \in Streams : All(s)' \subseteq All(s)
    BY <1>1, <1>6 DEF All
  <2>2. \A v \in Writers : Running(v) => Running(v)'
    BY <1>1, <1>3 DEF AuditInv, TablesOK, Running
  <2> QED BY <1>1, <2>1, <2>2, NothingAdded DEF AuditInv, Exclusive
<1>8. WriterInv(w)'
  <2>1. WriterTypeOK(w)' /\ Progress(w)' /\ Locked(w)'
    BY <1>1, <1>2, <1>4, <1>5 DEF AuditInv, WriterInv, WriterTypeOK, Progress, Locked, Running
  <2>2. Uncommitted(w)'
    BY <1>1, <1>2, <1>3, <1>4 DEF AuditInv, WriterInv, Uncommitted
  <2>3. Snapshot(w)'
    <3>1. ~FenceTaken(kind[w], txn[w].at)
      BY <1>5, Written
    <3>2. Serializable(w)' = Serializable(w)
      BY <1>1 DEF Serializable, Isolation
    <3>3. ASSUME Serializable(w)
          PROVE  /\ t.snapshot.rows = rows /\ t.snapshot.version = version
                 /\ t.snapshot \in Snapshots
      BY <1>3, <1>4, <3>3 DEF Snapshots
    <3> QED BY <1>1, <1>2, <1>3, <1>4, <3>1, <3>2, <3>3 DEF AuditInv, TablesOK, Snapshot
  <2>4. TailRead(w)'
    BY <1>1, <1>2, <1>4, <1>5, Beginnings DEF TailRead, AfterRead, Step
  <2>5. OnTop(w)' /\ Collides(w)'
    BY <1>1, <1>2, <1>4 DEF AuditInv, WriterInv, OnTop, Collides
  <2> QED BY <2>1, <2>2, <2>3, <2>4, <2>5 DEF WriterInv
<1> QED BY <1>1, <1>3, <1>4, <1>7, <1>8, WriterStep

\* After a statement, a writer stands at the next one, which works on the stream
\* that this one read, if it works on an event read at all.
LEMMA NextPlace ==
  ASSUME AuditInv, NEW w \in Writers, ~Ended(w), UNCHANGED kind,
         txn'[w].at = txn[w].at + 1
  PROVE  /\ txn'[w].at \in Nat \ {0} /\ txn'[w].at <= Len(Program[kind[w]]) + 1
         /\ AfterRead(w)' => Step(w).do \in {"read", "hold"} /\ Step(w)'.on = Step(w).on
<1>1. kind[w] \in Services /\ Len(Program[kind[w]]) \in Nat
  BY Kinds, Beginnings DEF AuditInv
<1>2. /\ txn[w].at \in 1..Len(Program[kind[w]])
      /\ Step(w) = Program[kind[w]][txn[w].at]
  BY NextStatement DEF AuditInv
<1>3. ASSUME AfterRead(w)'
      PROVE  Step(w).do \in {"read", "hold"} /\ Step(w)'.on = Step(w).on
  <2>1. Step(w)' = Program[kind[w]][txn[w].at + 1]
    BY DEF Step
  <2>2. txn[w].at + 1 <= Len(Program[kind[w]])
    BY <1>1, <1>2, <1>3 DEF AfterRead, Ended
  <2>3. Program[kind[w]][txn[w].at + 1].do \in {"hold", "insert"}
    BY <1>3, <2>1 DEF AfterRead
  <2> QED BY <1>1, <1>2, <2>1, <2>2, <2>3, ReadsComeFirst
<1> QED BY <1>1, <1>2, <1>3

\* A statement that adds no event keeps the invariant, if what it locks and what
\* it reads does.
LEMMA Onward ==
  ASSUME AuditInv, NEW w \in Writers, Running(w), ~Ended(w), Step(w).do # "insert",
         NEW t \in Transactions, txn' = [txn EXCEPT ![w] = t],
         UNCHANGED <<kind, rows, version>>,
         \A l \in locks : l \in locks', Exclusive', Locked(w)', TailRead(w)',
         t.status = "running", t.at = txn[w].at + 1,
         t.snapshot = txn[w].snapshot, t.added = txn[w].added, t.count = txn[w].count,
         \A r \in Rows : t.wrote[r] = txn[w].wrote[r]
                           + IF Step(w).do = "update" /\ Step(w).on = r THEN 1 ELSE 0,
         Serializable(w) /\ FenceTaken(kind[w], txn[w].at + 1)
           => txn[w].snapshot.version["system"] = version["system"]
  PROVE  AuditInv'
<1>1. txn'[w] = t
  BY DEF AuditInv, TablesOK
<1>2. \A v \in Writers, s \in Streams : txn'[v].added[s] = txn[v].added[s]
  BY <1>1 DEF AuditInv, TablesOK
<1>3. IdsDiffer' /\ NumbersDiffer'
  <2>1. \A s \in Streams : All(s)' \subseteq All(s)
    BY <1>2 DEF All
  <2> QED BY <2>1, NothingAdded DEF AuditInv
<1>4. WriterTypeOK(w)' /\ Running(w)'
  BY <1>1, NextPlace DEF WriterTypeOK, Running
<1>5. Progress(w)'
  <2>1. Statement(kind[w], txn[w].at, Step(w))
    BY NextStatement DEF AuditInv
  <2>2. \A r \in Rows : t.wrote[r] = Updates(kind[w], txn[w].at + 1, r)
    BY <2>1 DEF AuditInv, WriterInv, Progress, Statement
  <2>3. txn[w].at \in Nat \ {0} /\ kind[w] \in Services
    BY Kinds DEF AuditInv, WriterInv, WriterTypeOK, Transactions
  <2>4. \A s \in Streams :
          Inserts(kind[w], txn[w].at + 1, s) = Inserts(kind[w], txn[w].at, s)
    BY <2>1, <2>3, Written DEF Statement
  <2> QED BY <1>1, <1>4, <2>2, <2>4 DEF AuditInv, WriterInv, Progress
<1>6. Uncommitted(w)' /\ OnTop(w)'
  BY <1>1 DEF AuditInv, WriterInv, Uncommitted, OnTop, Running
<1>7. Snapshot(w)'
  <2>1. Serializable(w)' = Serializable(w)
    BY DEF Serializable, Isolation
  <2> QED BY <1>1, <2>1 DEF AuditInv, WriterInv, Snapshot
<1>8. Collides(w)'
  BY <1>1 DEF Collides
<1>9. WriterInv(w)'
  BY <1>4, <1>5, <1>6, <1>7, <1>8 DEF WriterInv
<1> QED BY <1>3, <1>9, WriterStep DEF Running

\* Where a writer continues, what it must have taken it has taken.
LEMMA StillLocked ==
  ASSUME AuditInv, NEW w \in Writers, ~Ended(w), UNCHANGED kind,
         txn'[w].at = txn[w].at + 1, \A l \in locks : l \in locks',
         Step(w).do \in {"lock", "update"} => <<<<Step(w).on, NoId>>, w>> \in locks'
  PROVE  Locked(w)'
<1>1. Statement(kind[w], txn[w].at, Step(w)) /\ Locked(w)
  BY NextStatement DEF AuditInv, WriterInv
<1> QED BY <1>1 DEF Locked, Statement

\* What a writer reads is the end of a chain.
LEMMA SeenChain ==
  ASSUME AuditInv, NEW w \in Writers, Running(w), ~Ended(w), Step(w).do = "read"
  PROVE  LET s == Step(w).on
         IN  /\ s \in Streams
             /\ Visible(w, s) \in SUBSET Events /\ IsChain(Visible(w, s))
             /\ Visible(w, s) \subseteq rows[s] \union txn[w].added[s]
             /\ s = "scope" => Visible(w, s) = rows["scope"]
             /\ ~Serializable(w) => Visible(w, s) = rows[s] \union txn[w].added[s]
<1> DEFINE s == Step(w).on
<1>1. /\ Statement(kind[w], txn[w].at, Step(w))
      /\ WriterInv(w) /\ TablesOK
  BY NextStatement DEF AuditInv
<1>2. s \in Streams
  BY <1>1 DEF Statement
<1>3. rows[s] \in SUBSET Events /\ txn[w].added[s] \in SUBSET Events
  BY <1>1, <1>2 DEF WriterInv, WriterTypeOK, Transactions, TablesOK
<1>4. CASE ~Serializable(w)
  <2>1. kind[w] # "control"
    BY <1>1, <1>4, Kinds
  <2> QED BY <1>1, <1>2, <1>3, <1>4, <2>1 DEF Visible, WriterInv, OnTop, Statement
<1>5. CASE Serializable(w)
  <2>1. kind[w] \in {"ledger", "control"}
    BY <1>1, <1>5, Kinds
  <2>2. txn[w].added[s] = {}
    BY <1>1, <1>2, <2>1, AddedNothing DEF Statement
  <2>3. /\ txn[w].snapshot.rows[s] \in SUBSET Events
        /\ txn[w].snapshot.rows[s] \subseteq rows[s]
        /\ IsChain(txn[w].snapshot.rows[s])
    BY <1>1, <1>2, <1>5 DEF WriterInv, Snapshot, Snapshots
  <2>4. Visible(w, s) = txn[w].snapshot.rows[s]
    BY <1>5, <2>2 DEF Visible
  <2>5. s = "scope" => txn[w].snapshot.rows["scope"] = rows["scope"]
    BY <1>1, <1>5 DEF WriterInv, Snapshot, Statement
  <2> QED BY <1>2, <1>5, <2>3, <2>4, <2>5
<1> QED BY <1>4, <1>5

LEMMA ReadTailStep ==
  ASSUME AuditInv, NEW w \in Writers, ReadTail(w), UNCHANGED kind
  PROVE  AuditInv'
<1> DEFINE s == Step(w).on
           S == Visible(w, s)
           t == [txn[w] EXCEPT !.at = @ + 1, !.tail = LastOf(S)]
<1>1. Running(w) /\ ~Ended(w) /\ Step(w).do = "read"
  BY DEF ReadTail, Doing
<1>2. txn' = [txn EXCEPT ![w] = t] /\ UNCHANGED <<kind, rows, version, locks>>
  BY DEF AuditInv, TablesOK, ReadTail
<1>3. /\ s \in Streams /\ S \in SUBSET Events /\ IsChain(S)
      /\ S \subseteq rows[s] \union txn[w].added[s]
      /\ s = "scope" => S = rows["scope"]
      /\ ~Serializable(w) => S = rows[s] \union txn[w].added[s]
  BY <1>1, SeenChain
<1>4. ReadFrom(LastOf(S), S) /\ LastOf(S) \in Tails
  BY <1>3, LastIsRead
<1>5. txn[w] \in Transactions
  BY DEF AuditInv, WriterInv, WriterTypeOK
<1> HIDE DEF S
<1>6. /\ t \in Transactions /\ t.status = txn[w].status /\ t.at = txn[w].at + 1
      /\ t.snapshot = txn[w].snapshot /\ t.added = txn[w].added /\ t.count = txn[w].count
      /\ t.wrote = txn[w].wrote /\ t.tail = LastOf(S)
  <2>1. txn[w].at + 1 \in Nat \ {0}
    BY <1>5 DEF Transactions
  <2> DEFINE n == txn[w].at + 1
             last == LastOf(S)
  <2>2. t = [txn[w] EXCEPT !.at = n, !.tail = last]
    BY <1>5 DEF Transactions
  <2> HIDE DEF n, t, last
  <2>3. n \in Nat \ {0} /\ last \in Tails
    BY <1>4, <2>1 DEF n, last
  <2>4. /\ t \in Transactions /\ t.status = txn[w].status /\ t.at = n
        /\ t.snapshot = txn[w].snapshot /\ t.added = txn[w].added /\ t.count = txn[w].count
        /\ t.wrote = txn[w].wrote /\ t.tail = last
    BY <1>5, <2>2, <2>3 DEF Transactions
  <2> QED BY <2>4 DEF n, last
<1> HIDE DEF t
<1>7. txn'[w] = t
  BY <1>2 DEF AuditInv, TablesOK
<1>8. Locked(w)' /\ Exclusive'
  <2>1. \A v \in Writers : Running(v) => Running(v)'
    BY <1>2, <1>6, <1>7 DEF AuditInv, TablesOK, Running
  <2> QED BY <1>1, <1>2, <1>6, <1>7, <2>1, StillLocked DEF AuditInv, Exclusive
<1>9. TailRead(w)'
  <2> SUFFICES ASSUME AfterRead(w)' PROVE TailRead(w)'
    BY DEF TailRead
  <2>1. Step(w)'.on = s
    BY <1>1, <1>2, <1>6, <1>7, NextPlace
  <2>2. ReadFrom(txn'[w].tail, rows'[s] \union txn'[w].added[s])
    BY <1>2, <1>3, <1>4, <1>6, <1>7 DEF ReadFrom
  <2>3. s = "scope" => txn'[w].tail = LastOf(rows'["scope"])
    BY <1>2, <1>3, <1>6, <1>7
  <2>4. Isolation(w)' = "read committed" =>
          txn'[w].tail = LastOf(rows'["operation"] \union txn'[w].added["operation"])
    <3> SUFFICES ASSUME Isolation(w) = "read committed"
                 PROVE  s = "operation" /\ ~Serializable(w)
      BY <1>2, <1>3, <1>6, <1>7 DEF Isolation
    <3>1. kind[w] # "control" /\ ~Serializable(w)
      BY Kinds DEF AuditInv, Serializable
    <3>2. Statement(kind[w], txn[w].at, Step(w))
      BY <1>1, NextStatement DEF AuditInv
    <3> QED BY <1>1, <1>3, <3>1, <3>2 DEF Statement, Streams
  <2> QED BY <2>1, <2>2, <2>3, <2>4 DEF TailRead
<1>10. /\ Serializable(w) /\ FenceTaken(kind[w], txn[w].at + 1)
            => txn[w].snapshot.version["system"] = version["system"]
       /\ \A r \in Rows : t.wrote[r] = txn[w].wrote[r] + 0
  <2>1. Statement(kind[w], txn[w].at, Step(w))
    BY <1>1, NextStatement DEF AuditInv
  <2>2. FenceTaken(kind[w], txn[w].at + 1) => FenceTaken(kind[w], txn[w].at)
    BY <1>1, <2>1 DEF Statement
  <2> QED BY <1>1, <1>5, <1>6, <2>2 DEF AuditInv, WriterInv, Snapshot, Transactions
<1> QED BY <1>1, <1>2, <1>6, <1>8, <1>9, <1>10, Onward DEF Running

\* A lock that nobody else holds.
LEMMA NewLock ==
  ASSUME AuditInv, NEW w \in Writers, Running(w), NEW p \in Places, HeldByOthers(p, w) = {},
         locks' = locks \union {<<p, w>>}, \A v \in Writers : Running(v) => Running(v)'
  PROVE  Exclusive'
<1>1. \A m \in locks : m[1] = p => m = <<p, w>>
  <2> SUFFICES ASSUME NEW m \in locks, m[1] = p PROVE m = <<p, w>>
    OBVIOUS
  <2>1. m \in Places \X Writers /\ m = <<p, m[2]>> /\ m[2] \in Writers
    BY DEF AuditInv, Exclusive
  <2>2. m[2] = w
    BY <2>1 DEF HeldByOthers
  <2> QED BY <2>1, <2>2
<1>2. <<p, w>> \in Places \X Writers
  OBVIOUS
<1> QED BY <1>1, <1>2 DEF AuditInv, Exclusive

LEMMA HoldTailStep ==
  ASSUME AuditInv, NEW w \in Writers, HoldTail(w), UNCHANGED kind
  PROVE  AuditInv'
<1> DEFINE s == Step(w).on
           t == [txn[w] EXCEPT !.at = @ + 1]
<1>1. Running(w) /\ ~Ended(w) /\ Step(w).do = "hold"
  BY DEF HoldTail, Doing
<1>2. txn' = [txn EXCEPT ![w] = t] /\ UNCHANGED <<kind, rows, version>>
  BY DEF AuditInv, TablesOK, HoldTail
<1>3. txn[w] \in Transactions
  BY DEF AuditInv, WriterInv, WriterTypeOK
<1>4. /\ t \in Transactions /\ t.status = txn[w].status /\ t.at = txn[w].at + 1
      /\ t.snapshot = txn[w].snapshot /\ t.added = txn[w].added /\ t.count = txn[w].count
      /\ t.wrote = txn[w].wrote /\ t.tail = txn[w].tail
  BY <1>3 DEF Transactions
<1> HIDE DEF t
<1>5. txn'[w] = t
  BY <1>2 DEF AuditInv, TablesOK
<1>6. Statement(kind[w], txn[w].at, Step(w))
  BY <1>1, NextStatement DEF AuditInv
<1>7. \A v \in Writers : Running(v) => Running(v)'
  BY <1>2, <1>4, <1>5 DEF AuditInv, TablesOK, Running
<1>8. (\A l \in locks : l \in locks') /\ Exclusive'
  <2>1. CASE locks' = locks
    BY <1>7, <2>1 DEF AuditInv, Exclusive
  <2>2. CASE locks' # locks
    <3>1. txn[w].tail # NoEvent /\ locks' = locks \union {<<RowWanted(w), w>>}
      BY <2>2 DEF HoldTail
    <3>2. HeldByOthers(RowWanted(w), w) = {}
      BY <3>1 DEF HoldTail, Blockers
    <3>3. RowWanted(w) \in Places
      <4>1. s \in Streams
        BY <1>1, <1>6 DEF Statement
      <4>2. txn[w].tail.id \in EventIds \union {NoId}
        BY <1>3 DEF Transactions, Tails
      <4> QED BY <4>1, <4>2 DEF RowWanted, Places
    <3> QED BY <1>1, <1>7, <3>1, <3>2, <3>3, NewLock
  <2> QED BY <2>1, <2>2
<1>9. Locked(w)'
  BY <1>1, <1>2, <1>4, <1>5, <1>8, StillLocked
<1>10. TailRead(w)'
  <2> SUFFICES ASSUME AfterRead(w)' PROVE TailRead(w)'
    BY DEF TailRead
  <2>1. Step(w)'.on = s
    BY <1>1, <1>2, <1>4, <1>5, NextPlace
  <2>2. AfterRead(w) /\ TailRead(w)
    BY <1>1 DEF AfterRead, AuditInv, WriterInv
  <2>3. Isolation(w)' = Isolation(w) /\ Refused' = Refused
    BY <1>2 DEF Isolation, Refused
  <2> QED BY <1>2, <1>4, <1>5, <2>1, <2>2, <2>3 DEF TailRead
<1>11. /\ Serializable(w) /\ FenceTaken(kind[w], txn[w].at + 1)
            => txn[w].snapshot.version["system"] = version["system"]
       /\ \A r \in Rows : t.wrote[r] = txn[w].wrote[r] + 0
  <2>1. FenceTaken(kind[w], txn[w].at + 1) => FenceTaken(kind[w], txn[w].at)
    BY <1>1, <1>6 DEF Statement
  <2> QED BY <1>1, <1>3, <1>4, <2>1 DEF AuditInv, WriterInv, Snapshot, Transactions
<1> QED BY <1>1, <1>2, <1>4, <1>8, <1>9, <1>10, <1>11, Onward DEF Running

LEMMA LockRowStep ==
  ASSUME AuditInv, NEW w \in Writers, LockRow(w), UNCHANGED kind
  PROVE  AuditInv'
<1> DEFINE r == Step(w).on
           once == IF Step(w).do = "update" THEN 1 ELSE 0
<1>1. Running(w) /\ ~Ended(w) /\ Step(w).do \in {"lock", "update"}
  BY DEF LockRow, Doing
<1>2. Statement(kind[w], txn[w].at, Step(w))
  BY <1>1, NextStatement DEF AuditInv
<1>3. r \in Rows /\ kind[w] # "refusal"
  BY <1>1, <1>2 DEF Statement
<1>4. CASE Stale(w, r)
  BY <1>1, <1>4, RetryStep DEF LockRow, Stale
<1>5. CASE ~Stale(w, r)
  <2> DEFINE t == [txn[w] EXCEPT !.at = @ + 1, !.wrote[r] = @ + once]
  <2>1. Isolation(w) # "autocommit"
    BY <1>3, Kinds DEF AuditInv
  <2>2. /\ locks' = locks \union {<<RowWanted(w), w>>}
        /\ txn' = [txn EXCEPT ![w].at = @ + 1, ![w].wrote[r] = @ + once]
        /\ UNCHANGED <<kind, rows, version>>
    BY <1>5, <2>1 DEF LockRow
  <2>3. txn' = [txn EXCEPT ![w] = t]
    BY <2>2 DEF AuditInv, TablesOK
  <2>4. txn[w] \in Transactions
    BY DEF AuditInv, WriterInv, WriterTypeOK
  <2>5. /\ t \in Transactions /\ t.status = txn[w].status /\ t.at = txn[w].at + 1
        /\ t.snapshot = txn[w].snapshot /\ t.added = txn[w].added /\ t.count = txn[w].count
        /\ t.wrote = [txn[w].wrote EXCEPT ![r] = @ + once]
    <3> DEFINE n == txn[w].at + 1
               wrote == [txn[w].wrote EXCEPT ![r] = @ + once]
    <3>1. n \in Nat \ {0}
      BY <2>4 DEF Transactions
    <3>2. wrote \in [Rows -> Nat]
      BY <1>3, <2>4 DEF Transactions
    <3>3. t = [txn[w] EXCEPT !.at = n, !.wrote = wrote]
      BY <2>4 DEF Transactions
    <3> HIDE DEF n, t, wrote
    <3>4. /\ t \in Transactions /\ t.status = txn[w].status /\ t.at = n
          /\ t.snapshot = txn[w].snapshot /\ t.added = txn[w].added /\ t.count = txn[w].count
          /\ t.wrote = wrote
      BY <2>4, <3>1, <3>2, <3>3 DEF Transactions
    <3> QED BY <3>4 DEF n, wrote
  <2> HIDE DEF t
  <2>6. txn'[w] = t
    BY <2>3 DEF AuditInv, TablesOK
  <2>7. Exclusive'
    <3>1. HeldByOthers(RowWanted(w), w) = {}
      BY <1>1 DEF LockRow, Blockers
    <3>2. RowWanted(w) \in Places
      BY <1>1, <1>3 DEF RowWanted, Places
    <3>3. \A v \in Writers : Running(v) => Running(v)'
      BY <2>3, <2>5, <2>6 DEF AuditInv, TablesOK, Running
    <3> QED BY <1>1, <2>2, <3>1, <3>2, <3>3, NewLock
  <2>8. Locked(w)'
    <3>1. RowWanted(w) = <<r, NoId>>
      BY <1>1 DEF RowWanted
    <3> QED BY <1>1, <2>2, <2>5, <2>6, <3>1, StillLocked
  <2>9. TailRead(w)'
    <3>1. ~AfterRead(w)'
      BY <1>1, <2>2, <2>5, <2>6, NextPlace
    <3> QED BY <3>1 DEF TailRead
  <2>10. Serializable(w) /\ FenceTaken(kind[w], txn[w].at + 1)
            => txn[w].snapshot.version["system"] = version["system"]
    <3>1. FenceTaken(kind[w], txn[w].at + 1) =>
            FenceTaken(kind[w], txn[w].at) \/ r = "system"
      BY <1>2 DEF Statement
    <3> QED BY <1>1, <1>5, <3>1 DEF AuditInv, WriterInv, Snapshot, Stale
  <2>11. \A q \in Rows : t.wrote[q] = txn[w].wrote[q]
                            + IF Step(w).do = "update" /\ r = q THEN 1 ELSE 0
    BY <1>1, <1>3, <2>4, <2>5 DEF Transactions
  <2> QED BY <1>1, <2>2, <2>3, <2>5, <2>7, <2>8, <2>9, <2>10, <2>11, Onward DEF Running
<1> QED BY <1>4, <1>5

-----------------------------------------------------------------------------
(* The statement that appends an event. *)

LEMMA InAll ==
  ASSUME NEW s, NEW e
  PROVE  /\ e \in All(s) <=> e \in rows[s] \/ \E w \in Writers : e \in txn[w].added[s]
         /\ e \in All(s)' <=> e \in rows'[s] \/ \E w \in Writers : e \in txn'[w].added[s]
BY DEF All

\* One more event, with an id and, in the operation's stream, a number of its own.
Gains(s, e) ==
  /\ \A u \in Streams : \A f \in All(u)' : f \in All(u) \/ (u = s /\ f = e)
  /\ \A u \in Streams : \A f \in All(u) : f.id # e.id
  /\ s = "operation" => \A f \in All("operation") : f.seq # e.seq

LEMMA OneMore ==
  ASSUME IdsDiffer, NumbersDiffer, NEW s \in Streams, NEW e, Gains(s, e)
  PROVE  IdsDiffer' /\ NumbersDiffer'
<1>1. IdsDiffer'
  <2> SUFFICES ASSUME NEW u \in Streams, NEW v \in Streams,
                      NEW f \in All(u)', NEW g \in All(v)', f.id = g.id
               PROVE  u = v /\ f = g
    BY DEF IdsDiffer
  <2>1. f \in All(u) \/ (u = s /\ f = e)
    BY DEF Gains
  <2>2. g \in All(v) \/ (v = s /\ g = e)
    BY DEF Gains
  <2> QED BY <2>1, <2>2 DEF IdsDiffer, Gains
<1>2. NumbersDiffer'
  <2> SUFFICES ASSUME NEW f \in All("operation")', NEW g \in All("operation")', f.seq = g.seq
               PROVE  f = g
    BY DEF NumbersDiffer
  <2>1. f \in All("operation") \/ (s = "operation" /\ f = e)
    BY DEF Gains, Streams
  <2>2. g \in All("operation") \/ (s = "operation" /\ g = e)
    BY DEF Gains, Streams
  <2> QED BY <2>1, <2>2 DEF NumbersDiffer, Gains
<1> QED BY <1>1, <1>2

\* The id of the next event of w is new.
LEMMA NewId ==
  ASSUME AuditInv, NEW w \in Writers, Running(w), NEW u \in Streams, NEW f \in All(u)
  PROVE  f.id # <<w, txn[w].count>>
<1>0. txn[w].count \in Nat
  BY DEF AuditInv, WriterInv, WriterTypeOK, Transactions
<1>1. CASE f \in rows[u]
  <2>1. f.id \in EventIds
    BY <1>1 DEF AuditInv, TablesOK, Events
  <2> QED BY <1>0, <1>1, <2>1 DEF AuditInv, WriterInv, Uncommitted, EventIds
<1>2. ASSUME NEW v \in Writers, f \in txn[v].added[u]
      PROVE  f.id # <<w, txn[w].count>>
  <2>1. f.id \in EventIds
    BY <1>2 DEF AuditInv, WriterInv, WriterTypeOK, Transactions, Events
  <2>2. f.id[1] = v /\ f.id[2] < txn[v].count
    BY <1>2 DEF AuditInv, WriterInv, Progress
  <2> QED BY <1>0, <2>1, <2>2 DEF EventIds
<1> QED BY <1>1, <1>2 DEF All

\* A transaction's own events are no committed ones.
LEMMA NotCommittedYet ==
  ASSUME AuditInv, NEW w \in Writers, NEW s \in Streams
  PROVE  rows[s] \intersect txn[w].added[s] = {}
<1> SUFFICES ASSUME NEW e \in rows[s], e \in txn[w].added[s] PROVE FALSE
  OBVIOUS
<1>1. TablesOK /\ WriterInv(w)
  BY DEF AuditInv
<1>2. e.id[1] = w
  BY <1>1 DEF WriterInv, Progress
<1>3. Running(w)
  BY <1>1, NotRunning
<1>4. kind[w] = "refusal"
  BY <1>1, <1>2, <1>3 DEF WriterInv, Uncommitted
<1>5. Inserts(kind[w], txn[w].at, s) = 0
  <2>1. txn[w].at \in Nat \ {0} /\ kind[w] \in Services
    BY <1>1, Kinds DEF WriterInv, WriterTypeOK, Transactions
  <2> QED BY <1>4, <2>1, Written
<1> QED BY <1>1, <1>5, AddedNothing

\* What a writer inserts, and where.
LEMMA Insertion ==
  ASSUME AuditInv, NEW w \in Writers, InsertEvent(w)
  PROVE  LET s == Step(w).on
             e == [id |-> <<w, txn[w].count>>, seq |-> txn[w].tail.seq + 1,
                   prev |-> txn[w].tail.id]
         IN  /\ Running(w) /\ ~Ended(w) /\ AfterRead(w) /\ Step(w).do = "insert"
             /\ s \in Streams /\ e \in Events
             /\ txn[w].added[s] \in SUBSET Events /\ rows[s] \in SUBSET Events
             /\ txn[w].tail \in Tails
             /\ ReadFrom(txn[w].tail, rows[s] \union txn[w].added[s])
             /\ IsChain(rows[s] \union txn[w].added[s])
             /\ s = "scope" => /\ txn[w].added[s] = {}
                               /\ txn[w].tail = LastOf(rows["scope"])
<1> DEFINE s == Step(w).on
<1>1. Running(w) /\ ~Ended(w) /\ AfterRead(w) /\ Step(w).do = "insert"
  BY DEF InsertEvent, Doing, AfterRead
<1>2. /\ Statement(kind[w], txn[w].at, Step(w))
      /\ TablesOK /\ WriterInv(w) /\ txn[w] \in Transactions
  BY <1>1, NextStatement DEF AuditInv, WriterInv, WriterTypeOK
<1>3. s \in Streams
  BY <1>1, <1>2 DEF Statement
<1>4. s = "scope" => txn[w].added[s] = {}
  BY <1>1, <1>2, <1>3, AddedNothing DEF Statement
<1>5. txn[w].tail \in Tails /\ txn[w].count \in Nat
  BY <1>2 DEF Transactions
<1>6. [id |-> <<w, txn[w].count>>, seq |-> txn[w].tail.seq + 1,
       prev |-> txn[w].tail.id] \in Events
  BY <1>5 DEF Tails, Events, EventIds
<1>7. txn[w].added[s] \in SUBSET Events /\ rows[s] \in SUBSET Events
  BY <1>2, <1>3 DEF Transactions, TablesOK
<1> QED
  BY <1>1, <1>2, <1>3, <1>4, <1>5, <1>6, <1>7 DEF WriterInv, TailRead, OnTop

\* The end of a chain has the last number.
LEMMA NothingAfterLast ==
  ASSUME NEW S, IsChain(S), NEW f \in S
  PROVE  f.seq # LastOf(S).seq + 1
<1>1. PICK n \in Nat : Chained(S, n)
  BY DEF IsChain
<1>2. LastOf(S).seq = n
  BY <1>1, ChainLast DEF NoEvent
<1> QED BY <1>1, <1>2 DEF Chained

\* A number that is taken was taken by a refusal.
LEMMA ClashStep ==
  ASSUME AuditInv, NEW w \in Writers, InsertEvent(w), Clash(w), UNCHANGED kind,
         Step(w).on \in Unique,
         NEW f \in rows[Step(w).on] \union txn[w].added[Step(w).on],
         f.seq = txn[w].tail.seq + 1
  PROVE  AuditInv'
<1>1. Running(w) /\ AfterRead(w)
  BY Insertion
<1>2. Isolation(w) = "read committed" => Refused
  <2> SUFFICES ASSUME Isolation(w) = "read committed", ~Refused PROVE FALSE
    OBVIOUS
  <2>1. Step(w).on = "operation"
    BY DEF Unique
  <2>2. txn[w].tail = LastOf(rows["operation"] \union txn[w].added["operation"])
    BY <1>1 DEF AuditInv, WriterInv, TailRead
  <2>3. IsChain(rows["operation"] \union txn[w].added["operation"])
    BY DEF AuditInv, WriterInv, OnTop, Streams
  <2> QED BY <2>1, <2>2, <2>3, NothingAfterLast
<1>3. CASE Fail(w, "duplicate")
  BY <1>1, <1>2, <1>3, FailStep
<1>4. CASE Serializable(w) /\ Retry(w)
  BY <1>1, <1>4, RetryStep
<1> QED BY <1>3, <1>4 DEF Clash

\* An event of a transaction, whose number is free.
Adds(w, s, e) ==
  /\ s = Step(w).on
  /\ e = [id |-> <<w, txn[w].count>>, seq |-> txn[w].tail.seq + 1,
          prev |-> txn[w].tail.id]
  /\ s = "operation" => \A f \in rows[s] \union txn[w].added[s] : f.seq # e.seq
  /\ txn' = [txn EXCEPT ![w].at = @ + 1, ![w].count = @ + 1,
                        ![w].added[s] = @ \union {e}]
  /\ UNCHANGED <<kind, rows, version, locks>>

LEMMA AddStep ==
  ASSUME AuditInv, NEW w \in Writers, InsertEvent(w), Isolation(w) # "autocommit",
         NEW s \in Streams, NEW e \in Events, Adds(w, s, e)
  PROVE  AuditInv'
<1> USE DEF Adds
<1> DEFINE t == [txn[w] EXCEPT !.at = @ + 1, !.count = @ + 1, !.added[s] = @ \union {e}]
           S == rows[s] \union txn[w].added[s]
<1>1. /\ Running(w) /\ ~Ended(w) /\ AfterRead(w) /\ Step(w).do = "insert"
      /\ txn[w].added[s] \in SUBSET Events /\ S \in SUBSET Events
      /\ txn[w].tail \in Tails /\ ReadFrom(txn[w].tail, S) /\ IsChain(S)
      /\ s = "scope" => txn[w].added[s] = {} /\ txn[w].tail = LastOf(rows["scope"])
  BY Insertion
<1>2. txn' = [txn EXCEPT ![w] = t]
  <2>1. w \in DOMAIN txn
    BY DEF AuditInv, TablesOK
  <2> QED BY <2>1
<1>3. txn[w] \in Transactions
  BY DEF AuditInv, WriterInv, WriterTypeOK
<1>4. /\ t \in Transactions /\ t.status = txn[w].status /\ t.at = txn[w].at + 1
      /\ t.snapshot = txn[w].snapshot /\ t.count = txn[w].count + 1
      /\ t.wrote = txn[w].wrote
      /\ t.added = [txn[w].added EXCEPT ![s] = @ \union {e}]
  <2> DEFINE n == txn[w].at + 1
             c == txn[w].count + 1
             added == [txn[w].added EXCEPT ![s] = @ \union {e}]
  <2>1. n \in Nat \ {0} /\ c \in Nat
    BY <1>3 DEF Transactions
  <2>2. added \in [Streams -> SUBSET Events]
    BY <1>3 DEF Transactions
  <2>3. t = [txn[w] EXCEPT !.at = n, !.count = c, !.added = added]
    BY <1>3 DEF Transactions
  <2> HIDE DEF n, c, added, t
  <2>4. /\ t \in Transactions /\ t.status = txn[w].status /\ t.at = n
        /\ t.snapshot = txn[w].snapshot /\ t.count = c
        /\ t.wrote = txn[w].wrote /\ t.added = added
    BY <1>3, <2>1, <2>2, <2>3 DEF Transactions
  <2> QED BY <2>4 DEF n, c, added
<1> HIDE DEF t
<1>5. txn'[w] = t
  BY <1>2 DEF AuditInv, TablesOK
<1>6. /\ t.added[s] = txn[w].added[s] \union {e}
      /\ \A u \in Streams \ {s} : t.added[u] = txn[w].added[u]
  BY <1>3, <1>4 DEF Transactions
<1>7. \A f \in S : f.seq # e.seq
  <2>1. CASE s = "operation"
    BY <2>1
  <2>2. CASE s = "scope"
    <3>1. S = rows["scope"]
      BY <1>1, <2>2
    <3> QED BY <1>1, <2>2, <3>1, NothingAfterLast
  <2> QED BY <2>1, <2>2 DEF Streams
<1>8. IsChain(S \union {e})
  BY <1>1, <1>7, ChainGrows
<1> HIDE DEF S
<1>9. IdsDiffer' /\ NumbersDiffer'
  <2>1. \A u \in Streams : \A f \in All(u)' : f \in All(u) \/ (u = s /\ f = e)
    <3> SUFFICES ASSUME NEW u \in Streams, NEW f \in All(u)'
                 PROVE  f \in All(u) \/ (u = s /\ f = e)
      OBVIOUS
    <3>1. CASE f \in rows[u]
      BY <3>1, InAll
    <3>2. ASSUME NEW v \in Writers, f \in txn'[v].added[u]
          PROVE  f \in All(u) \/ (u = s /\ f = e)
      <4>1. f \in txn[v].added[u] \/ (u = s /\ f = e)
        <5>1. CASE v = w
          BY <1>5, <1>6, <3>2, <5>1
        <5>2. CASE v # w
          BY <1>2, <3>2, <5>2 DEF AuditInv, TablesOK
        <5> QED BY <5>1, <5>2
      <4> QED BY <4>1, InAll
    <3> QED BY <3>1, <3>2, InAll
  <2>2. \A u \in Streams : \A f \in All(u) : f.id # e.id
    BY <1>1, NewId
  <2>3. ASSUME s = "operation", NEW f \in All("operation") PROVE f.seq # e.seq
    <3>1. CASE f \in S
      BY <1>7, <3>1
    <3>2. ASSUME NEW v \in Writers \ {w}, f \in txn[v].added["operation"]
          PROVE  f.seq # e.seq
      <4>1. Blockers(w) = {}
        BY DEF InsertEvent
      <4> QED BY <1>1, <2>3, <3>2, <4>1 DEF Blockers, Doing, Unique
    <3> QED BY <2>3, <3>1, <3>2, InAll DEF S
  <2>4. IdsDiffer /\ NumbersDiffer
    BY DEF AuditInv
  <2>5. s = "operation" => \A f \in All("operation") : f.seq # e.seq
    BY <2>3
  <2>6. Gains(s, e)
    BY <2>1, <2>2, <2>5 DEF Gains
  <2> QED BY <2>4, <2>6, OneMore
<1>10. WriterInv(w)'
  <2>1. /\ Statement(kind[w], txn[w].at, Step(w)) /\ kind[w] # "refusal"
        /\ WriterInv(w) /\ kind[w] \in Services /\ txn[w].at \in Nat \ {0}
        /\ txn[w].count \in Nat
    BY <1>1, <1>3, NextStatement, Kinds DEF AuditInv, Transactions
  <2>2. WriterTypeOK(w)' /\ Running(w)'
    BY <1>1, <1>4, <1>5, NextPlace DEF WriterTypeOK, Running
  <2>3. Progress(w)'
    <3>1. \A r \in Rows : t.wrote[r] = Updates(kind[w], t.at, r)
      <4>1. \A r \in Rows : Updates(kind[w], txn[w].at + 1, r) = Updates(kind[w], txn[w].at, r)
        BY <1>1, <2>1, Written DEF Statement
      <4> QED BY <1>4, <2>1, <4>1 DEF WriterInv, Progress
    <3>2. ASSUME NEW u \in Streams
          PROVE  IsFiniteSet(t.added[u]) /\ Cardinality(t.added[u]) = Inserts(kind[w], t.at, u)
      <4>1. /\ IsFiniteSet(txn[w].added[u])
            /\ Cardinality(txn[w].added[u]) = Inserts(kind[w], txn[w].at, u)
        BY <2>1 DEF WriterInv, Progress
      <4>2. Inserts(kind[w], t.at, u) = Inserts(kind[w], txn[w].at, u) + (IF u = s THEN 1 ELSE 0)
        BY <1>1, <1>4, <2>1 DEF Statement
      <4>3. CASE u = s
        <5>1. e \notin txn[w].added[s]
          BY <1>7 DEF S
        <5>2. IsFiniteSet(txn[w].added[s])
          BY <4>1, <4>3
        <5>3. /\ IsFiniteSet(txn[w].added[s] \union {e})
              /\ Cardinality(txn[w].added[s] \union {e}) = Cardinality(txn[w].added[s]) + 1
          BY <5>1, <5>2, FS_AddElement
        <5> QED BY <1>6, <4>1, <4>2, <4>3, <5>3
      <4>4. CASE u # s
        <5>1. Inserts(kind[w], txn[w].at, u) \in Nat
          BY <2>1, Written
        <5> QED BY <1>6, <4>1, <4>2, <4>4, <5>1
      <4> QED BY <4>3, <4>4
    <3>3. ASSUME NEW u \in Streams, NEW f \in t.added[u]
          PROVE  f.id[1] = w /\ f.id[2] < t.count
      <4>1. CASE f \in txn[w].added[u]
        <5>1. f.id[1] = w /\ f.id[2] < txn[w].count /\ f \in Events
          BY <1>3, <2>1, <4>1 DEF WriterInv, Progress, Transactions
        <5>2. f.id[2] \in Nat
          BY <5>1 DEF Events, EventIds
        <5> QED BY <1>4, <2>1, <5>1, <5>2
      <4>2. CASE f = e
        BY <1>4, <2>1, <4>2
      <4> QED BY <1>6, <4>1, <4>2
    <3> QED BY <1>5, <2>2, <3>1, <3>2, <3>3 DEF Progress
  <2>4. Uncommitted(w)'
    BY <1>1, <1>4, <1>5, <2>1, <2>2 DEF WriterInv, Uncommitted, Running
  <2>5. Locked(w)'
    BY <1>1, <1>4, <1>5, StillLocked
  <2>6. Snapshot(w)'
    <3>1. FenceTaken(kind[w], txn[w].at + 1) => FenceTaken(kind[w], txn[w].at)
      BY <1>1, <2>1 DEF Statement
    <3>2. Serializable(w)' = Serializable(w)
      BY DEF Serializable, Isolation
    <3> QED BY <1>1, <1>4, <1>5, <2>1, <3>1, <3>2 DEF WriterInv, Snapshot
  <2>7. TailRead(w)'
    <3>1. ~AfterRead(w)'
      BY <1>1, <1>4, <1>5, NextPlace
    <3> QED BY <3>1 DEF TailRead
  <2>8. OnTop(w)'
    <3>1. ASSUME NEW u \in Streams PROVE IsChain(rows[u] \union t.added[u])
      <4>1. CASE u = s
        <5>1. rows[u] \union t.added[u] = S \union {e}
          BY <1>6, <4>1 DEF S
        <5> QED BY <1>8, <5>1
      <4>2. CASE u # s
        BY <1>6, <2>1, <4>2 DEF WriterInv, OnTop
      <4> QED BY <4>1, <4>2
    <3> QED BY <1>5, <3>1 DEF OnTop
  <2>9. Collides(w)'
    BY <1>1, <1>4, <1>5 DEF Collides, Running
  <2> QED BY <2>2, <2>3, <2>4, <2>5, <2>6, <2>7, <2>8, <2>9 DEF WriterInv
<1>11. Exclusive'
  <2>1. \A v \in Writers : Running(v) => Running(v)'
    BY <1>2, <1>4, <1>5 DEF AuditInv, TablesOK, Running
  <2> QED BY <2>1 DEF AuditInv, Exclusive
<1> QED BY <1>1, <1>2, <1>4, <1>9, <1>10, <1>11, WriterStep DEF Running

\* No transaction has an event of the operation while a refusal inserts one: both
\* would continue the same chain, and the refusal would wait.
LEMMA NobodyElseAdds ==
  ASSUME AuditInv, NEW w \in Writers, InsertEvent(w), Step(w).on = "operation",
         NEW e, e.seq = txn[w].tail.seq + 1, e \notin rows["operation"],
         IsChain(rows["operation"] \union {e}),
         NEW v \in Writers \ {w}
  PROVE  txn[v].added["operation"] = {}
<1> SUFFICES ASSUME txn[v].added["operation"] # {} PROVE FALSE
  OBVIOUS
<1>1. Running(w) /\ ~Ended(w) /\ Step(w).do = "insert" /\ Blockers(w) = {}
  BY Insertion DEF InsertEvent
<1>2. /\ IsChain(rows["operation"])
      /\ IsChain(rows["operation"] \union txn[v].added["operation"])
      /\ rows["operation"] \intersect txn[v].added["operation"] = {}
  BY NotCommittedYet DEF AuditInv, TablesOK, WriterInv, OnTop, Streams
<1>3. rows["operation"] \intersect {e} = {}
  OBVIOUS
<1>4. \E f \in txn[v].added["operation"], g \in {e} : f.seq = g.seq
  BY <1>2, <1>3, ChainsMeet
<1>5. v \in Blockers(w)
  BY <1>1, <1>4 DEF Blockers, Doing, Unique
<1> QED BY <1>1, <1>5

\* A signing refusal, which commits at once.
LEMMA RefuseStep ==
  ASSUME AuditInv, NEW w \in Writers, InsertEvent(w), UNCHANGED <<kind, version, locks>>,
         Isolation(w) = "autocommit", NEW s \in Streams, s = Step(w).on, NEW e \in Events,
         e = [id |-> <<w, txn[w].count>>, seq |-> txn[w].tail.seq + 1,
              prev |-> txn[w].tail.id],
         s = "operation" => \A f \in rows[s] \union txn[w].added[s] : f.seq # e.seq,
         rows' = [rows EXCEPT ![s] = @ \union {e}],
         txn' = [txn EXCEPT ![w].at = @ + 1, ![w].count = @ + 1]
  PROVE  AuditInv'
<1> DEFINE t == [txn[w] EXCEPT !.at = @ + 1, !.count = @ + 1]
<1>1. /\ Running(w) /\ ~Ended(w) /\ AfterRead(w) /\ Step(w).do = "insert"
      /\ rows[s] \in SUBSET Events /\ txn[w].tail \in Tails
      /\ ReadFrom(txn[w].tail, rows[s] \union txn[w].added[s])
  BY Insertion
<1>2. /\ kind[w] = "refusal" /\ kind[w] \in Services
      /\ Statement(kind[w], txn[w].at, Step(w))
      /\ txn[w] \in Transactions /\ WriterInv(w) /\ TablesOK
  BY <1>1, Kinds, NextStatement DEF AuditInv, WriterInv, WriterTypeOK
<1>3. txn' = [txn EXCEPT ![w] = t]
  BY <1>2 DEF TablesOK
<1>4. /\ t \in Transactions /\ t.status = txn[w].status /\ t.at = txn[w].at + 1
      /\ t.snapshot = txn[w].snapshot /\ t.count = txn[w].count + 1
      /\ t.wrote = txn[w].wrote /\ t.added = txn[w].added /\ t.tail = txn[w].tail
  <2> DEFINE n == txn[w].at + 1
             c == txn[w].count + 1
  <2>1. n \in Nat \ {0} /\ c \in Nat
    BY <1>2 DEF Transactions
  <2>2. t = [txn[w] EXCEPT !.at = n, !.count = c]
    BY <1>2 DEF Transactions
  <2> HIDE DEF n, c, t
  <2>3. /\ t \in Transactions /\ t.status = txn[w].status /\ t.at = n
        /\ t.snapshot = txn[w].snapshot /\ t.count = c
        /\ t.wrote = txn[w].wrote /\ t.added = txn[w].added /\ t.tail = txn[w].tail
    BY <1>2, <2>1, <2>2 DEF Transactions
  <2> QED BY <2>3 DEF n, c
<1> HIDE DEF t
<1>5. txn'[w] = t /\ \A v \in Writers \ {w} : txn'[v] = txn[v]
  BY <1>2, <1>3 DEF TablesOK
<1>6. s = "operation"
  BY <1>1, <1>2 DEF Statement, Streams
<1>7. rows'["operation"] = rows["operation"] \union {e} /\ rows'["scope"] = rows["scope"]
  BY <1>2, <1>6 DEF TablesOK, Streams
<1>8. \A u \in Streams : txn[w].added[u] = {}
  <2>1. \A u \in Streams : Inserts(kind[w], txn[w].at, u) = 0
    <3>1. txn[w].at \in Nat \ {0}
      BY <1>2 DEF Transactions
    <3> QED BY <1>2, <3>1, Written
  <2> QED BY <1>2, <2>1, AddedNothing
<1>9. IsChain(rows["operation"] \union {e}) /\ e \notin rows["operation"]
  <2>1. /\ rows["operation"] \in SUBSET Events /\ IsChain(rows["operation"])
        /\ ReadFrom(txn[w].tail, rows["operation"])
        /\ \A f \in rows["operation"] : f.seq # e.seq
    BY <1>1, <1>2, <1>6, <1>8 DEF TablesOK
  <2> QED BY <1>1, <2>1, ChainGrows
<1>10. \A v \in Writers : txn[v].added["operation"] = {}
  BY <1>6, <1>8, <1>9, NobodyElseAdds DEF Streams
<1>11. e.id = <<w, txn[w].count>> /\ kind[e.id[1]] = "refusal" /\ Refused'
  <2>1. e.id = <<w, txn[w].count>> /\ kind[e.id[1]] = "refusal"
    BY <1>2
  <2> QED BY <1>7, <2>1 DEF Refused
<1>12. TablesOK'
  <2>1. rows' \in [Streams -> SUBSET Events] /\ kind \in Mixes /\ version \in [Rows -> Nat]
    BY <1>2 DEF TablesOK
  <2>2. txn' = [v \in Writers |-> txn'[v]]
    BY <1>2, <1>3 DEF TablesOK
  <2>3. \A u \in Streams : IsChain(rows'[u])
    BY <1>2, <1>7, <1>9 DEF TablesOK, Streams
  <2> QED BY <2>1, <2>2, <2>3 DEF TablesOK
<1>13. Exclusive'
  <2>1. \A v \in Writers : Running(v) => Running(v)'
    BY <1>4, <1>5 DEF Running
  <2> QED BY <2>1 DEF AuditInv, Exclusive
<1>14. IdsDiffer' /\ NumbersDiffer'
  <2>1. ASSUME NEW u \in Streams, NEW f \in All(u)'
        PROVE  f \in All(u) \/ (u = s /\ f = e)
    <3>1. f \in rows'[u] => f \in rows[u] \/ (u = s /\ f = e)
      BY <1>6, <1>7 DEF Streams
    <3>2. \A v \in Writers : txn'[v].added = txn[v].added
      BY <1>4, <1>5
    <3> QED BY <3>1, <3>2, InAll
  <2>2. \A u \in Streams : \A f \in All(u) : f.id # e.id
    BY <1>1, <1>11, NewId
  <2>3. \A f \in All("operation") : f.seq # e.seq
    <3>1. \A f \in All("operation") : f \in rows["operation"]
      BY <1>10, InAll
    <3> QED BY <1>6, <3>1
  <2>4. Gains(s, e)
    BY <2>1, <2>2, <2>3 DEF Gains
  <2> QED BY <2>4, OneMore DEF AuditInv
<1>15. ASSUME NEW v \in Writers, v # w PROVE WriterInv(v)'
  <2>1. WriterInv(v) /\ txn'[v] = txn[v]
    BY <1>5, <1>15 DEF AuditInv
  <2>2. WriterTypeOK(v)' /\ Progress(v)' /\ Locked(v)'
    BY <2>1 DEF WriterInv, WriterTypeOK, Progress, Locked, Running
  <2>3. Uncommitted(v)'
    BY <1>7, <1>11, <1>15, <2>1 DEF WriterInv, Uncommitted, Streams, Running
  <2>4. Snapshot(v)'
    <3>1. Serializable(v)' = Serializable(v)
      BY DEF Serializable, Isolation
    <3> QED BY <1>7, <2>1, <3>1 DEF WriterInv, Snapshot, Streams, Running
  <2>5. TailRead(v)'
    <3> SUFFICES ASSUME AfterRead(v)' PROVE TailRead(v)'
      BY DEF TailRead
    <3>1. AfterRead(v) /\ Step(v)' = Step(v)
      BY <2>1 DEF AfterRead, Running, Ended, Step
    <3>2. Step(v).on \in Streams
      BY <2>1, <3>1, NextStatement DEF AuditInv, AfterRead, Statement
    <3> DEFINE u == Step(v).on
    <3>3. ReadFrom(txn[v].tail, rows'[u] \union txn[v].added[u])
      BY <1>7, <2>1, <3>1, <3>2 DEF WriterInv, TailRead, ReadFrom, Streams
    <3>4. u = "scope" => txn[v].tail = LastOf(rows'["scope"])
      BY <1>7, <2>1, <3>1 DEF WriterInv, TailRead
    <3> QED BY <1>11, <2>1, <3>1, <3>3, <3>4 DEF TailRead
  <2>6. OnTop(v)'
    <3>1. rows'["operation"] \union txn[v].added["operation"] = rows["operation"] \union {e}
      BY <1>7, <1>10
    <3> QED BY <1>7, <1>9, <2>1, <3>1 DEF WriterInv, OnTop, Streams
  <2>7. Collides(v)'
    BY <1>11 DEF Collides
  <2> QED BY <2>2, <2>3, <2>4, <2>5, <2>6, <2>7 DEF WriterInv
<1>16. WriterInv(w)'
  <2>1. txn[w].count \in Nat /\ txn[w].at \in Nat \ {0}
    BY <1>2 DEF Transactions
  <2>2. WriterTypeOK(w)' /\ Running(w)'
    BY <1>1, <1>4, <1>5, NextPlace DEF WriterTypeOK, Running
  <2>3. Progress(w)'
    <3>1. \A r \in Rows : Updates(kind[w], txn[w].at + 1, r) = Updates(kind[w], txn[w].at, r)
      BY <1>1, <1>2, <2>1, Written DEF Statement
    <3>2. \A u \in Streams :
            Inserts(kind[w], txn[w].at + 1, u) = Inserts(kind[w], txn[w].at, u)
      BY <1>1, <1>2, <2>1, Written DEF Statement
    <3>3. /\ \A r \in Rows : t.wrote[r] = Updates(kind[w], t.at, r)
          /\ \A u \in Streams : /\ IsFiniteSet(t.added[u])
                                /\ Cardinality(t.added[u]) = Inserts(kind[w], t.at, u)
      BY <1>2, <1>4, <3>1, <3>2 DEF WriterInv, Progress
    <3>4. \A u \in Streams : t.added[u] = {}
      BY <1>4, <1>8
    <3> QED BY <1>5, <2>2, <3>3, <3>4 DEF Progress
  <2>4. Uncommitted(w)'
    <3> SUFFICES ASSUME NEW u \in Streams, NEW f \in rows'[u], f.id[1] = w
                 PROVE  f.id[2] < txn[w].count + 1
      BY <1>1, <1>2, <1>4, <1>5, <2>2 DEF Uncommitted, Running
    <3>1. CASE f \in rows[u]
      <4>1. f.id[2] < txn[w].count /\ f \in Events
        BY <1>1, <1>2, <3>1 DEF WriterInv, Uncommitted, TablesOK
      <4>2. f.id[2] \in Nat
        BY <4>1 DEF Events, EventIds
      <4> QED BY <2>1, <4>1, <4>2
    <3>2. CASE f = e
      BY <1>11, <2>1, <3>2
    <3> QED BY <1>7, <3>1, <3>2 DEF Streams
  <2>5. Locked(w)'
    BY <1>1, <1>4, <1>5, StillLocked
  <2>6. Snapshot(w)'
    <3>1. ~Serializable(w)'
      BY <1>2 DEF Serializable, Isolation
    <3> QED BY <3>1 DEF Snapshot
  <2>7. TailRead(w)'
    <3>1. ~AfterRead(w)'
      BY <1>1, <1>4, <1>5, NextPlace
    <3> QED BY <3>1 DEF TailRead
  <2>8. OnTop(w)'
    <3> SUFFICES ASSUME NEW u \in Streams
                 PROVE  IsChain(rows'[u] \union txn'[w].added[u])
      BY DEF OnTop
    <3>1. rows'[u] \union txn'[w].added[u] = rows'[u]
      BY <1>4, <1>5, <1>8
    <3>2. IsChain(rows'[u])
      BY <1>12 DEF TablesOK
    <3> QED BY <3>1, <3>2
  <2>9. Collides(w)'
    BY <1>11 DEF Collides
  <2> QED BY <2>2, <2>3, <2>4, <2>5, <2>6, <2>7, <2>8, <2>9 DEF WriterInv
<1>17. StateChangesAreRecorded' /\ IsFiniteSet(Undescribed')
  <2>1. Described' = Described
    BY <1>7, <1>11 DEF Described
  <2>2. Undescribed' = Undescribed
    BY <1>2, <1>4, <1>5 DEF Undescribed
  <2> QED BY <2>1, <2>2 DEF AuditInv, StateChangesAreRecorded
<1> QED BY <1>12, <1>13, <1>14, <1>15, <1>16, <1>17 DEF AuditInv

LEMMA InsertStep ==
  ASSUME AuditInv, NEW w \in Writers, InsertEvent(w), UNCHANGED kind
  PROVE  AuditInv'
<1> DEFINE s == Step(w).on
           e == [id |-> <<w, txn[w].count>>, seq |-> txn[w].tail.seq + 1,
                 prev |-> txn[w].tail.id]
<1>1. s \in Streams /\ e \in Events
  BY Insertion
<1>2. CASE s \in Unique /\ \E f \in rows[s] \union txn[w].added[s] : f.seq = e.seq
  <2>1. Clash(w)
    BY <1>2 DEF InsertEvent
  <2>2. PICK f \in rows[s] \union txn[w].added[s] : f.seq = txn[w].tail.seq + 1
    BY <1>2
  <2> QED BY <1>2, <2>1, <2>2, ClashStep
<1>3. CASE ~(s \in Unique /\ \E f \in rows[s] \union txn[w].added[s] : f.seq = e.seq)
  <2>1. s = "operation" => \A f \in rows[s] \union txn[w].added[s] : f.seq # e.seq
    BY <1>3 DEF Unique
  <2>2. CASE Isolation(w) = "autocommit"
    <3>1. /\ rows' = [rows EXCEPT ![s] = @ \union {e}]
          /\ txn' = [txn EXCEPT ![w].at = @ + 1, ![w].count = @ + 1]
          /\ UNCHANGED <<kind, version, locks>>
      BY <1>3, <2>2 DEF InsertEvent
    <3> HIDE DEF s
    <3>2. s = Step(w).on /\ e = e
      BY DEF s
    <3> QED BY <1>1, <2>1, <2>2, <3>1, <3>2, RefuseStep
  <2>3. CASE Isolation(w) # "autocommit"
    <3>1. /\ txn' = [txn EXCEPT ![w].at = @ + 1, ![w].count = @ + 1,
                                ![w].added[s] = @ \union {e}]
          /\ UNCHANGED <<kind, rows, version, locks>>
      BY <1>3, <2>3 DEF InsertEvent
    <3> HIDE DEF s
    <3>2. s = Step(w).on
      BY DEF s
    <3>3. Adds(w, s, e)
      BY <2>1, <3>1, <3>2 DEF Adds
    <3> HIDE DEF e
    <3> QED BY <1>1, <2>3, <3>3, AddStep
  <2> QED BY <2>2, <2>3
<1> QED BY <1>2, <1>3

-----------------------------------------------------------------------------
(* COMMIT. *)

\* What a transaction has added to a stream it added under the row that protects
\* it: while w holds events of a stream, no other writer has any, and no other
\* writer has taken that row.
LEMMA OneWriterAdds ==
  ASSUME AuditInv, NEW w \in Writers, NEW v \in Writers, v # w
  PROVE  /\ txn[w].added["operation"] # {} =>
              ~RowTaken(kind[v], txn[v].at) /\ txn[v].added["operation"] = {}
         /\ txn[w].added["scope"] # {} \/ txn[w].wrote["system"] # 0 =>
              ~FenceTaken(kind[v], txn[v].at)
         /\ txn[w].added["scope"] # {} =>
              txn[w].wrote["system"] # 0 /\ txn[v].added["scope"] = {}
<1>1. ASSUME NEW u \in Writers
      PROVE  /\ kind[u] \in Services /\ txn[u].at \in Nat \ {0}
             /\ txn[u].added["operation"] # {} => RowTaken(kind[u], txn[u].at)
             /\ txn[u].added["scope"] # {} => /\ FenceTaken(kind[u], txn[u].at)
                                              /\ txn[u].wrote["system"] # 0
             /\ txn[u].wrote["system"] # 0 => FenceTaken(kind[u], txn[u].at)
  <2>1. TablesOK /\ WriterInv(u) /\ txn[u].at \in Nat \ {0} /\ kind[u] \in Services
    BY <1>1, Kinds DEF AuditInv, WriterInv, WriterTypeOK, Transactions
  <2>2. /\ txn[u].added["operation"] # {} => Inserts(kind[u], txn[u].at, "operation") # 0
        /\ txn[u].added["scope"] # {} => Inserts(kind[u], txn[u].at, "scope") # 0
    BY <2>1, AddedNothing DEF Streams
  <2>3. txn[u].wrote["system"] = Updates(kind[u], txn[u].at, "system")
    BY <2>1 DEF WriterInv, Progress, Rows
  <2> QED BY <2>1, <2>2, <2>3, Written
<1>2. RowTaken(kind[w], txn[w].at) => ~RowTaken(kind[v], txn[v].at)
  BY DEF AuditInv, WriterInv, Locked, Exclusive
<1>3. FenceTaken(kind[w], txn[w].at) => ~FenceTaken(kind[v], txn[v].at)
  BY DEF AuditInv, WriterInv, Locked, Exclusive
<1> QED BY <1>1, <1>2, <1>3

\* The events of a state change are as many as its updates of the operation, or
\* it is the one update of a call without an audit context.
LEMMA RecordedAtCommit ==
  ASSUME AuditInv, NEW w \in Writers, Commit(w), UNCHANGED kind
  PROVE  StateChangesAreRecorded' /\ IsFiniteSet(Undescribed')
<1> DEFINE Changing == {"prepare", "sign", "advance", "control"}
           A == Described
           D == txn[w].added["operation"]
           B == {e \in D : kind[e.id[1]] \in Changing}
           U == Undescribed
<1>1. /\ TablesOK /\ WriterInv(w) /\ version["operation"] = Cardinality(A) + Cardinality(U)
      /\ version["operation"] \in Nat /\ IsFiniteSet(U)
  BY DEF AuditInv, StateChangesAreRecorded, TablesOK, Rows
<1>2. rows'["operation"] = rows["operation"] \union D
  BY DEF Commit, Streams
<1>3. version'["operation"] = version["operation"] + txn[w].wrote["operation"]
  BY DEF Commit, Rows
<1>4. Described' = A \union B
  BY <1>2 DEF Described
<1>5. IsFiniteSet(A) /\ IsFiniteSet(D)
  <2>1. IsFiniteSet(rows["operation"])
    BY <1>1, ChainSize DEF TablesOK, IsChain, Streams
  <2>2. IsFiniteSet(D)
    BY <1>1 DEF WriterInv, Progress, Streams
  <2> QED BY <2>1, <2>2, FS_Subset DEF Described
<1>6. A \intersect B = {}
  BY NotCommittedYet DEF Streams, Described
<1>7. B = IF kind[w] \in Changing THEN D ELSE {}
  BY <1>1 DEF WriterInv, Progress, Streams
<1>8. Undescribed' = IF kind[w] = "unaudited" THEN U \union {w} ELSE U
  <2>1. txn'[w].status = "committed" /\ \A v \in Writers \ {w} : txn'[v] = txn[v]
    BY <1>1 DEF TablesOK, Commit, Fresh
  <2>2. w \notin U
    BY DEF Commit, Running, Undescribed
  <2> QED BY <2>1, <2>2 DEF Undescribed
<1>9. w \notin U
  BY DEF Commit, Running, Undescribed
<1>10. txn[w].wrote["operation"] = Cardinality(B) + IF kind[w] = "unaudited" THEN 1 ELSE 0
  <2>1. kind[w] \in Services /\ Len(Program[kind[w]]) \in Nat
    BY <1>1, Kinds, Beginnings
  <2>2. /\ txn[w].at \in 1..(Len(Program[kind[w]]) + 1)
        /\ txn[w].at > Len(Program[kind[w]])
    BY <1>1, <2>1 DEF WriterInv, WriterTypeOK, Transactions, Commit, Ended
  <2>3. Updates(kind[w], txn[w].at, "operation") =
          IF kind[w] \in Changing THEN Inserts(kind[w], txn[w].at, "operation")
          ELSE IF kind[w] = "unaudited" THEN 1 ELSE 0
    BY <2>1, <2>2, Endings
  <2>4. /\ txn[w].wrote["operation"] = Updates(kind[w], txn[w].at, "operation")
        /\ Cardinality(D) = Inserts(kind[w], txn[w].at, "operation")
    BY <1>1 DEF WriterInv, Progress, Rows, Streams
  <2>5. CASE kind[w] \in Changing
    <3>1. Cardinality(B) = Cardinality(D) /\ kind[w] # "unaudited"
      BY <1>7, <2>5
    <3>2. Inserts(kind[w], txn[w].at, "operation") \in Nat
      BY <2>1, <2>2, Written DEF Streams
    <3> HIDE DEF B, D
    <3> QED BY <2>3, <2>4, <2>5, <3>1, <3>2
  <2>6. CASE kind[w] \notin Changing
    <3>1. Cardinality(B) = 0
      BY <1>7, <2>6, FS_EmptySet
    <3> HIDE DEF B, D
    <3> QED BY <2>3, <2>4, <2>6, <3>1
  <2> QED BY <2>5, <2>6
<1>11. IsFiniteSet(B) /\ Cardinality(B) \in Nat /\ Cardinality(A) \in Nat
       /\ Cardinality(U) \in Nat
  BY <1>1, <1>5, FS_Subset, FS_CardinalityType
<1>12. Cardinality(A \union B) = Cardinality(A) + Cardinality(B)
  <2>1. Cardinality(A \union B) = Cardinality(A) + Cardinality(B) - Cardinality(A \intersect B)
    BY <1>5, <1>11, FS_Union
  <2>2. Cardinality(A \intersect B) = 0
    BY <1>6, FS_EmptySet
  <2> HIDE DEF A, B
  <2> QED BY <1>11, <2>1, <2>2
<1>13. /\ IsFiniteSet(Undescribed')
       /\ Cardinality(Undescribed') = Cardinality(U) + IF kind[w] = "unaudited" THEN 1 ELSE 0
  <2> HIDE DEF U
  <2>1. CASE kind[w] = "unaudited"
    <3>1. IsFiniteSet(U \union {w}) /\ Cardinality(U \union {w}) = Cardinality(U) + 1
      BY <1>1, <1>9, FS_AddElement
    <3> QED BY <1>8, <2>1, <3>1
  <2>2. CASE kind[w] # "unaudited"
    BY <1>1, <1>8, <1>11, <2>2
  <2> QED BY <2>1, <2>2
<1>14. version'["operation"] = Cardinality(A \union B) + Cardinality(Undescribed')
  <2> HIDE DEF A, B, U
  <2>1. version["operation"] = Cardinality(A) + Cardinality(U)
    BY <1>1
  <2>2. CASE kind[w] = "unaudited"
    BY <1>3, <1>10, <1>11, <1>12, <1>13, <2>1, <2>2
  <2>3. CASE kind[w] # "unaudited"
    BY <1>3, <1>10, <1>11, <1>12, <1>13, <2>1, <2>3
  <2> QED BY <2>2, <2>3
<1> QED BY <1>4, <1>13, <1>14 DEF StateChangesAreRecorded

\* A commit of another writer leaves v where it was.
LEMMA CommitOfAnother ==
  ASSUME AuditInv, NEW w \in Writers, Commit(w), UNCHANGED kind,
         NEW v \in Writers, v # w
  PROVE  WriterInv(v)'
<1>1. /\ TablesOK /\ WriterInv(v) /\ WriterInv(w) /\ txn'[v] = txn[v]
      /\ kind[v] \in Services
  BY Kinds DEF AuditInv, TablesOK, Commit
<1>2. \A s \in Streams : rows'[s] = rows[s] \union txn[w].added[s]
  BY DEF Commit
<1>3. /\ txn[w].added["operation"] # {} =>
           ~RowTaken(kind[v], txn[v].at) /\ txn[v].added["operation"] = {}
      /\ txn[w].added["scope"] # {} \/ txn[w].wrote["system"] # 0 =>
           ~FenceTaken(kind[v], txn[v].at)
      /\ txn[w].added["scope"] # {} =>
           txn[w].wrote["system"] # 0 /\ txn[v].added["scope"] = {}
  BY OneWriterAdds
<1>4. \A r \in Rows : /\ version'[r] = version[r] + txn[w].wrote[r]
                      /\ version[r] \in Nat /\ txn[w].wrote[r] \in Nat
  BY <1>1 DEF Commit, TablesOK, WriterInv, WriterTypeOK, Transactions
<1>5. Refused => Refused'
  BY <1>2 DEF Refused, Streams
<1>6. WriterTypeOK(v)' /\ Progress(v)'
  BY <1>1 DEF WriterInv, WriterTypeOK, Progress, Running
<1>7. Uncommitted(v)'
  <2>1. \A s \in Streams : \A e \in txn[w].added[s] : e.id[1] # v
    BY <1>1 DEF WriterInv, Progress
  <2> QED BY <1>1, <1>2, <2>1 DEF WriterInv, Uncommitted, Running
<1>8. Locked(v)'
  <2>1. \A r : <<r, v>> \in locks => <<r, v>> \in locks'
    BY DEF Commit, Release
  <2> QED BY <1>1, <2>1 DEF WriterInv, Locked
<1>9. Snapshot(v)'
  <2> SUFFICES ASSUME Running(v), Serializable(v)
               PROVE  Snapshot(v)'
    BY <1>1 DEF Snapshot, Running, Serializable, Isolation
  <2> DEFINE snap == txn[v].snapshot
  <2>1. /\ snap \in Snapshots
        /\ \A s \in Streams : snap.rows[s] \subseteq rows[s] /\ IsChain(snap.rows[s])
        /\ \A r \in Rows : snap.version[r] <= version[r] /\ snap.version[r] \in Nat
        /\ snap.version["system"] = version["system"] => snap.rows["scope"] = rows["scope"]
        /\ FenceTaken(kind[v], txn[v].at) => snap.version["system"] = version["system"]
    BY <1>1 DEF WriterInv, Snapshot, Snapshots
  <2> HIDE DEF snap
  <2>2. \A s \in Streams : snap.rows[s] \subseteq rows'[s]
    BY <1>2, <2>1
  <2>3. \A r \in Rows : snap.version[r] <= version'[r]
    BY <1>4, <2>1
  <2>4. snap.version["system"] = version'["system"] => snap.rows["scope"] = rows'["scope"]
    <3> SUFFICES ASSUME snap.version["system"] = version'["system"]
                 PROVE  snap.rows["scope"] = rows'["scope"]
      OBVIOUS
    <3>1. txn[w].wrote["system"] = 0 /\ snap.version["system"] = version["system"]
      BY <1>4, <2>1 DEF Rows
    <3> QED BY <1>2, <1>3, <2>1, <3>1 DEF Streams
  <2>5. FenceTaken(kind[v], txn[v].at) => snap.version["system"] = version'["system"]
    BY <1>3, <1>4, <2>1 DEF Rows
  <2> QED BY <1>1, <2>1, <2>2, <2>3, <2>4, <2>5 DEF Snapshot, snap
<1>10. TailRead(v)'
  <2> SUFFICES ASSUME AfterRead(v)' PROVE TailRead(v)'
    BY DEF TailRead
  <2>1. AfterRead(v) /\ Step(v)' = Step(v) /\ Isolation(v)' = Isolation(v)
    BY <1>1 DEF AfterRead, Running, Ended, Step, Isolation
  <2>2. Statement(kind[v], txn[v].at, Step(v)) /\ Step(v).on \in Streams
    BY <1>1, <2>1, NextStatement DEF AfterRead, Statement
  <2> DEFINE u == Step(v).on
  <2>3. /\ ReadFrom(txn[v].tail, rows[u] \union txn[v].added[u])
        /\ u = "scope" => txn[v].tail = LastOf(rows["scope"])
        /\ Isolation(v) = "read committed" =>
             Refused \/ txn[v].tail = LastOf(rows["operation"] \union txn[v].added["operation"])
    BY <1>1, <2>1 DEF WriterInv, TailRead
  <2>4. ReadFrom(txn[v].tail, rows'[u] \union txn[v].added[u])
    BY <1>2, <2>2, <2>3 DEF ReadFrom
  <2>5. u = "scope" => txn[v].tail = LastOf(rows'["scope"])
    <3> SUFFICES ASSUME u = "scope" PROVE txn[v].tail = LastOf(rows'["scope"])
      OBVIOUS
    <3>1. FenceTaken(kind[v], txn[v].at)
      BY <2>1, <2>2 DEF AfterRead, Statement
    <3>2. rows'["scope"] = rows["scope"]
      BY <1>2, <1>3, <3>1 DEF Streams
    <3> QED BY <2>3, <3>2
  <2>6. Isolation(v) = "read committed" =>
          Refused' \/ txn[v].tail = LastOf(rows'["operation"] \union txn[v].added["operation"])
    <3> SUFFICES ASSUME Isolation(v) = "read committed", ~Refused
                 PROVE  rows'["operation"] = rows["operation"]
      BY <1>5, <2>3
    <3>1. kind[v] \in {"prepare", "unaudited", "sign", "signAgain", "advance"}
      BY <1>1, Kinds
    <3>2. RowTaken(kind[v], txn[v].at)
      BY <2>1, <2>2, <3>1 DEF AfterRead, Statement, Streams
    <3> QED BY <1>2, <1>3, <3>2 DEF Streams
  <2> QED BY <1>1, <2>1, <2>4, <2>5, <2>6 DEF TailRead
<1>11. OnTop(v)'
  <2> SUFFICES ASSUME NEW s \in Streams
               PROVE  IsChain(rows'[s] \union txn'[v].added[s])
    BY DEF OnTop
  <2>1. txn[v].added[s] = {} \/ txn[w].added[s] = {}
    BY <1>3 DEF Streams
  <2>2. \/ rows'[s] \union txn'[v].added[s] = rows[s] \union txn[w].added[s]
        \/ rows'[s] \union txn'[v].added[s] = rows[s] \union txn[v].added[s]
    BY <1>1, <1>2, <2>1
  <2>3. /\ IsChain(rows[s] \union txn[w].added[s])
        /\ IsChain(rows[s] \union txn[v].added[s])
    BY <1>1 DEF WriterInv, OnTop
  <2> QED BY <2>2, <2>3
<1>12. Collides(v)'
  BY <1>1, <1>5 DEF WriterInv, Collides, Isolation
<1> QED BY <1>6, <1>7, <1>8, <1>9, <1>10, <1>11, <1>12 DEF WriterInv

LEMMA CommitStep ==
  ASSUME AuditInv, NEW w \in Writers, Commit(w), UNCHANGED kind
  PROVE  AuditInv'
<1> DEFINE t == [Fresh(txn[w].tries) EXCEPT !.status = "committed"]
<1>1. TablesOK /\ WriterInv(w) /\ txn[w] \in Transactions
  BY DEF AuditInv, WriterInv, WriterTypeOK
<1>2. Blank(t) /\ t.status = "committed"
  <2>1. txn[w].tries \in 0..MaxRetries
    BY <1>1 DEF Transactions
  <2>2. Blank(Fresh(txn[w].tries))
    BY <2>1, FreshIsBlank
  <2> QED BY <2>2 DEF Blank, Transactions
<1>3. txn' = [txn EXCEPT ![w] = t]
  BY DEF Commit
<1> HIDE DEF t
<1>4. txn'[w] = t /\ \A v \in Writers \ {w} : txn'[v] = txn[v]
  BY <1>1, <1>3 DEF TablesOK
<1>5. \A s \in Streams : rows'[s] = rows[s] \union txn[w].added[s]
  BY DEF Commit
<1>6. TablesOK'
  <2>1. \A s \in Streams : rows'[s] \in SUBSET Events /\ IsChain(rows'[s])
    BY <1>1, <1>5 DEF TablesOK, Transactions, WriterInv, OnTop
  <2>2. rows' \in [Streams -> SUBSET Events]
    BY <1>5, <2>1 DEF Commit
  <2>3. version' \in [Rows -> Nat]
    BY <1>1 DEF Commit, TablesOK, Transactions
  <2>4. txn' = [v \in Writers |-> txn'[v]]
    BY <1>1, <1>3 DEF TablesOK
  <2>5. kind' \in Mixes
    BY <1>1 DEF TablesOK
  <2> QED BY <2>1, <2>2, <2>3, <2>4, <2>5 DEF TablesOK
<1>7. Exclusive'
  <2> SUFFICES ASSUME NEW l \in locks'
               PROVE  /\ l \in Places \X Writers /\ Running(l[2])'
                      /\ \A m \in locks' : l[1] = m[1] => l = m
    BY DEF Exclusive
  <2>1. l \in locks /\ l[2] # w /\ \A m \in locks' : m \in locks
    BY DEF Commit, Release
  <2>2. l[2] \in Writers /\ txn'[l[2]] = txn[l[2]]
    BY <1>4, <2>1 DEF AuditInv, Exclusive
  <2> QED BY <2>1, <2>2 DEF AuditInv, Exclusive, Running
<1>8. IdsDiffer' /\ NumbersDiffer'
  <2>1. ASSUME NEW s \in Streams, NEW e \in All(s)'
        PROVE  e \in All(s)
    <3>1. CASE e \in rows'[s]
      BY <1>5, <3>1, InAll
    <3>2. ASSUME NEW v \in Writers, e \in txn'[v].added[s]
          PROVE  e \in All(s)
      <4>1. v # w
        BY <1>2, <1>4, <3>2 DEF Blank
      <4> QED BY <1>4, <3>2, <4>1, InAll
    <3> QED BY <3>1, <3>2, InAll
  <2>2. \A s \in Streams : All(s)' \subseteq All(s)
    BY <2>1
  <2> QED BY <2>2, NothingAdded DEF AuditInv
<1>9. WriterInv(w)'
  <2>1. Clean(w)'
    BY <1>2, <1>4 DEF Clean, Blank, Collides
  <2>2. CleanInv'
    BY CleanWriters, PTL
  <2> QED BY <1>6, <2>1, <2>2 DEF CleanInv
<1>10. \A v \in Writers : WriterInv(v)'
  BY <1>9, CommitOfAnother
<1>11. StateChangesAreRecorded' /\ IsFiniteSet(Undescribed')
  BY RecordedAtCommit
<1> QED BY <1>6, <1>7, <1>8, <1>10, <1>11 DEF AuditInv

-----------------------------------------------------------------------------
(* The theorems. *)

\* Every step keeps the invariant.
LEMMA AuditStep ==
  ASSUME AuditInv, [AuditNext]_auditVars
  PROVE  AuditInv'
<1>1. CASE UNCHANGED auditVars
  <2>1. \A v \in Writers : WriterInv(v)'
    BY <1>1, Undisturbed DEF AuditInv, auditVars
  <2>2. \A s \in Streams : All(s)' \subseteq All(s)
    BY <1>1 DEF All, auditVars
  <2>3. IdsDiffer' /\ NumbersDiffer'
    BY <2>2, NothingAdded DEF AuditInv
  <2>4. TablesOK' /\ Exclusive' /\ StateChangesAreRecorded' /\ IsFiniteSet(Undescribed')
    BY <1>1 DEF AuditInv, TablesOK, Exclusive, Running, StateChangesAreRecorded, Described,
                Undescribed, auditVars
  <2> QED BY <2>1, <2>3, <2>4 DEF AuditInv
<1>2. CASE Done
  BY <1>1, <1>2 DEF Done
<1>3. ASSUME NEW w \in Writers, UNCHANGED kind,
             Proceed(w) \/ Throw(w) \/ SerializationFailure(w) \/ DeadlockVictim(w)
      PROVE  AuditInv'
  <2>1. CASE Begin(w)
    BY <1>3, <2>1, BeginStep
  <2>2. CASE LockRow(w)
    BY <1>3, <2>2, LockRowStep
  <2>3. CASE ReadTail(w)
    BY <1>3, <2>3, ReadTailStep
  <2>4. CASE HoldTail(w)
    BY <1>3, <2>4, HoldTailStep
  <2>5. CASE InsertEvent(w)
    BY <1>3, <2>5, InsertStep
  <2>6. CASE Commit(w)
    BY <1>3, <2>6, CommitStep
  <2>7. CASE Throw(w)
    BY <1>3, <2>7, FailStep DEF Throw
  <2>8. CASE SerializationFailure(w)
    BY <1>3, <2>8, RetryStep DEF SerializationFailure
  <2>9. CASE DeadlockVictim(w)
    <3>1. Running(w)
      BY <2>9 DEF DeadlockVictim, OnCycle, Blockers, Doing
    <3> QED BY <1>3, <2>9, <3>1, FailStep DEF DeadlockVictim
  <2> QED BY <1>3, <2>1, <2>2, <2>3, <2>4, <2>5, <2>6, <2>7, <2>8, <2>9 DEF Proceed
<1> QED BY <1>1, <1>2, <1>3 DEF AuditNext

\* The invariant holds in every reachable state, for any number of writers that
\* call any of the services at the same time, and any bound on the retries.
THEOREM AuditHolds == AuditSpec => []AuditInv
<1>1. AuditInit => AuditInv
  BY InitAudit
<1>2. AuditInv /\ [AuditNext]_auditVars => AuditInv'
  BY AuditStep
<1> QED BY <1>1, <1>2, PTL DEF AuditSpec

\* The type invariant: a lock has one owner, whose transaction runs, and a call
\* is retried MaxRetries times at most (withSerializableTransaction).
THEOREM AuditIsTyped == AuditSpec => []AuditTypeOK
<1>1. ASSUME AuditInv PROVE AuditTypeOK
  <2>1. kind \in Mixes /\ DOMAIN rows = Streams /\ version \in [Rows -> Nat]
    BY <1>1 DEF AuditInv, TablesOK
  <2>2. \A l \in locks : l[2] \in Writers /\ Running(l[2])
    BY <1>1 DEF AuditInv, Exclusive
  <2>3. ASSUME NEW k \in locks
        PROVE  Cardinality({l \in locks : l[1] = k[1]}) = 1
    <3>1. {l \in locks : l[1] = k[1]} = {k}
      BY <1>1, <2>3 DEF AuditInv, Exclusive
    <3> QED BY <3>1, FS_Singleton
  <2>4. \A w \in Writers : txn[w].tries \in 0..MaxRetries
    BY <1>1 DEF AuditInv, WriterInv, WriterTypeOK, Transactions
  <2> QED BY <2>1, <2>2, <2>3, <2>4 DEF AuditTypeOK
<1> QED BY <1>1, AuditHolds, PTL

\* No service changes the operation's row without an event, and no event of a
\* service that changes it is committed without the change.
THEOREM ChangesAreRecorded == AuditSpec => []StateChangesAreRecorded
<1>1. AuditInv => StateChangesAreRecorded
  BY DEF AuditInv
<1> QED BY <1>1, AuditHolds, PTL

\* A state change under READ COMMITTED is rolled back for a duplicate number only
\* if recordSigningRefusal wrote an event.
THEOREM OnlyRefusalsTakeNumbers == AuditSpec => []OnlyRefusalsCollide
<1>1. AuditInv => OnlyRefusalsCollide
  BY DEF AuditInv, WriterInv, Collides, Refused, OnlyRefusalsCollide
<1> QED BY <1>1, AuditHolds, PTL

-----------------------------------------------------------------------------
(* The refinement. *)

\* The committed events of a stream as the log of the abstract specification.
ChainOf(S) ==
  [i \in 1..Cardinality(S) |->
     LET here == {e \in S : e.seq = i}
     IN  IF Cardinality(here) = 1
         THEN LET e == CHOOSE x \in here : TRUE IN [id |-> e.id, prev |-> e.prev]
         ELSE [id |-> NoId, prev |-> NoId]]

LEMMA ChainIsALog ==
  ASSUME NEW S \in SUBSET Events, NEW n \in Nat, Chained(S, n)
  PROVE  /\ ChainOf(S) \in Seq(Trail!Entries) /\ Len(ChainOf(S)) = n
         /\ \A e \in S : e.seq \in 1..n /\ ChainOf(S)[e.seq] = [id |-> e.id, prev |-> e.prev]
         /\ \A i \in 1..n : \E e \in S : e.seq = i
         /\ Trail!Linked(ChainOf(S))
<1>1. Cardinality(S) = n
  BY ChainSize
<1>2. /\ \A e \in S : e.seq \in 1..n
      /\ \A i \in 1..n : \E e \in S : e.seq = i
      /\ \A e, f \in S : e.seq = f.seq => e = f
      /\ \A e \in S : e.seq = 1 => e.prev = NoId
      /\ \A e, f \in S : e.seq = f.seq + 1 => e.prev = f.id
  BY DEF Chained
<1>3. ASSUME NEW e \in S
      PROVE  ChainOf(S)[e.seq] = [id |-> e.id, prev |-> e.prev]
  <2> DEFINE here == {x \in S : x.seq = e.seq}
  <2>1. here = {e}
    BY <1>2
  <2>2. Cardinality(here) = 1 /\ (CHOOSE x \in here : TRUE) = e
    BY <2>1, FS_Singleton
  <2>3. e.seq \in 1..Cardinality(S)
    BY <1>1, <1>2
  <2> QED BY <2>2, <2>3 DEF ChainOf
<1>4. DOMAIN ChainOf(S) = 1..n
  BY <1>1 DEF ChainOf
<1>5. \A i \in 1..n : ChainOf(S)[i] \in Trail!Entries
  <2> SUFFICES ASSUME NEW i \in 1..n PROVE ChainOf(S)[i] \in Trail!Entries
    OBVIOUS
  <2>1. PICK e \in S : e.seq = i
    BY <1>2
  <2>2. ChainOf(S)[i] = [id |-> e.id, prev |-> e.prev]
    BY <1>3, <2>1
  <2> QED BY <2>2 DEF Trail!Entries, Events, EventIds
<1>6. ChainOf(S) \in Seq(Trail!Entries) /\ Len(ChainOf(S)) = n
  <2>1. ChainOf(S) = [i \in 1..n |-> ChainOf(S)[i]]
    BY <1>1 DEF ChainOf
  <2> DEFINE chain == ChainOf(S)
  <2> HIDE DEF chain
  <2>2. chain = [i \in 1..n |-> chain[i]] /\ \A i \in 1..n : chain[i] \in Trail!Entries
    BY <1>5, <2>1 DEF chain
  <2>3. chain \in Seq(Trail!Entries) /\ Len(chain) = n
    BY <2>2
  <2> QED BY <2>3 DEF chain
<1>7. Trail!Linked(ChainOf(S))
  <2> SUFFICES ASSUME NEW i \in 1..n
               PROVE  ChainOf(S)[i].prev = IF i = 1 THEN NoId ELSE ChainOf(S)[i - 1].id
    BY <1>4 DEF Trail!Linked
  <2>1. PICK e \in S : e.seq = i
    BY <1>2
  <2>2. ChainOf(S)[i].prev = e.prev
    <3>1. ChainOf(S)[i] = [id |-> e.id, prev |-> e.prev]
      BY <1>3, <2>1
    <3> QED BY <3>1
  <2>3. CASE i = 1
    BY <1>2, <2>1, <2>2, <2>3
  <2>4. CASE i # 1
    <3>1. i - 1 \in 1..n
      BY <2>4
    <3>2. PICK f \in S : f.seq = i - 1
      BY <1>2, <3>1
    <3>3. ChainOf(S)[i - 1].id = f.id
      <4>1. ChainOf(S)[i - 1] = [id |-> f.id, prev |-> f.prev]
        BY <1>3, <3>2
      <4> QED BY <4>1
    <3>4. e.prev = f.id
      BY <1>2, <2>1, <3>2
    <3> QED BY <2>2, <2>4, <3>3, <3>4
  <2> QED BY <2>3, <2>4
<1> QED BY <1>2, <1>3, <1>6, <1>7

\* A longer chain has the shorter one as its beginning.
LEMMA ChainExtends ==
  ASSUME NEW S \in SUBSET Events, NEW T \in SUBSET Events, IsChain(S), IsChain(T),
         S \subseteq T
  PROVE  /\ Len(ChainOf(S)) <= Len(ChainOf(T))
         /\ SubSeq(ChainOf(T), 1, Len(ChainOf(S))) = ChainOf(S)
<1>1. PICK n \in Nat : Chained(S, n)
  BY DEF IsChain
<1>2. PICK m \in Nat : Chained(T, m)
  BY DEF IsChain
<1>3. /\ ChainOf(S) \in Seq(Trail!Entries) /\ Len(ChainOf(S)) = n
      /\ \A e \in S : ChainOf(S)[e.seq] = [id |-> e.id, prev |-> e.prev]
      /\ \A i \in 1..n : \E e \in S : e.seq = i
  BY <1>1, ChainIsALog
<1>4. /\ ChainOf(T) \in Seq(Trail!Entries) /\ Len(ChainOf(T)) = m
      /\ \A e \in T : e.seq \in 1..m /\ ChainOf(T)[e.seq] = [id |-> e.id, prev |-> e.prev]
  BY <1>2, ChainIsALog
<1>5. n <= m
  <2>1. CASE n = 0
    BY <2>1
  <2>2. CASE n # 0
    <3>1. PICK e \in S : e.seq = n
      BY <1>3, <2>2
    <3>2. e \in T
      BY <3>1
    <3>3. e.seq \in 1..m
      BY <1>4, <3>2
    <3> QED BY <3>1, <3>3
  <2> QED BY <2>1, <2>2
<1>6. ASSUME NEW i \in 1..n PROVE ChainOf(T)[i] = ChainOf(S)[i]
  <2>1. PICK e \in S : e.seq = i
    BY <1>3
  <2>2. ChainOf(S)[i] = [id |-> e.id, prev |-> e.prev]
    BY <1>3, <2>1
  <2>3. ChainOf(T)[i] = [id |-> e.id, prev |-> e.prev]
    BY <1>4, <2>1
  <2> QED BY <2>2, <2>3
<1>7. SubSeq(ChainOf(T), 1, n) = ChainOf(S)
  <2> DEFINE c == ChainOf(S)
             d == ChainOf(T)
  <2> HIDE DEF c, d
  <2>1. c \in Seq(Trail!Entries) /\ d \in Seq(Trail!Entries) /\ Len(c) = n /\ Len(d) = m
    BY <1>3, <1>4 DEF c, d
  <2>2. \A i \in 1..n : d[i] = c[i]
    BY <1>6 DEF c, d
  <2>3. SubSeq(d, 1, n) = c
    BY <1>5, <2>1, <2>2
  <2> QED BY <2>3 DEF c, d
<1> QED BY <1>3, <1>4, <1>5, <1>7

\* No step takes a committed event back.
LEMMA EventsStay ==
  ASSUME AuditInv, [AuditNext]_auditVars
  PROVE  \A s \in Streams : rows[s] \subseteq rows'[s]
<1>1. CASE UNCHANGED rows
  BY <1>1
<1>2. ASSUME NEW w \in Writers, Commit(w)
      PROVE  \A s \in Streams : rows[s] \subseteq rows'[s]
  BY <1>2 DEF Commit
<1>3. ASSUME NEW w \in Writers, InsertEvent(w), rows' # rows
      PROVE  \A s \in Streams : rows[s] \subseteq rows'[s]
  <2> DEFINE u == Step(w).on
             e == [id |-> <<w, txn[w].count>>, seq |-> txn[w].tail.seq + 1,
                   prev |-> txn[w].tail.id]
  <2>1. rows' = [rows EXCEPT ![u] = @ \union {e}]
    BY <1>3 DEF InsertEvent, Clash, Fail, Retry
  <2> HIDE DEF u, e
  <2> QED BY <2>1 DEF AuditInv, TablesOK
<1>4. ASSUME NEW w \in Writers, ~Commit(w), ~InsertEvent(w),
             Proceed(w) \/ Throw(w) \/ SerializationFailure(w) \/ DeadlockVictim(w)
      PROVE  UNCHANGED rows
  BY <1>4 DEF Proceed, Begin, LockRow, ReadTail, HoldTail, Throw, SerializationFailure,
              DeadlockVictim, Retry, Fail
<1> QED BY <1>1, <1>2, <1>3, <1>4 DEF AuditNext, Done, auditVars

\* The transactions implement the append-only log: every step of the database
\* appends to the chains of both streams or leaves them, links every entry to
\* the one before it, and writes no entry twice.
THEOREM TrailIsAppendOnly == AuditSpec => AuditTrailIsALog
<1> DEFINE chains == [s \in Streams |-> Chain(s)]
<1>1. \A s : Chain(s) = ChainOf(rows[s]) /\ Chain(s)' = ChainOf(rows'[s])
  BY DEF Chain, ChainOf
<1>2. AuditInit => Trail!LogInit
  <2> SUFFICES ASSUME AuditInit, NEW s \in Streams PROVE Chain(s) = <<>>
    BY DEF Trail!LogInit
  <2>1. rows[s] = {} /\ Cardinality({}) = 0
    BY FS_EmptySet DEF AuditInit
  <2>2. Chained({}, 0)
    BY DEF Chained
  <2>3. ChainOf({}) \in Seq(Trail!Entries) /\ Len(ChainOf({})) = 0
    BY <2>2, ChainIsALog
  <2>4. ChainOf({}) = <<>>
    BY <2>3
  <2> QED BY <1>1, <2>1, <2>4
<1>3. AuditInv /\ AuditInv' /\ [AuditNext]_auditVars => chains' = chains \/ Trail!Commit
  <2> SUFFICES ASSUME AuditInv, AuditInv', [AuditNext]_auditVars, chains' # chains
               PROVE  Trail!Commit
    OBVIOUS
  <2>1. \A s \in Streams : /\ chains[s] = ChainOf(rows[s]) /\ chains'[s] = ChainOf(rows'[s])
                           /\ rows[s] \in SUBSET Events /\ IsChain(rows[s])
                           /\ rows'[s] \in SUBSET Events /\ IsChain(rows'[s])
                           /\ rows[s] \subseteq rows'[s]
    BY <1>1, EventsStay DEF AuditInv, TablesOK
  <2> HIDE DEF chains
  <2>2. ASSUME NEW s \in Streams
        PROVE  /\ chains'[s] \in Seq(Trail!Entries)
               /\ Len(chains[s]) <= Len(chains'[s])
               /\ SubSeq(chains'[s], 1, Len(chains[s])) = chains[s]
               /\ Trail!Linked(chains'[s])
    <3>1. PICK n \in Nat : Chained(rows'[s], n)
      BY <2>1 DEF IsChain
    <3>2. ChainOf(rows'[s]) \in Seq(Trail!Entries) /\ Trail!Linked(ChainOf(rows'[s]))
      BY <2>1, <3>1, ChainIsALog
    <3> QED BY <2>1, <3>2, ChainExtends
  <2>3. ASSUME NEW s \in Streams, NEW i \in DOMAIN chains'[s]
        PROVE  \E e \in rows'[s] : e.seq = i /\ chains'[s][i].id = e.id
    <3>1. PICK n \in Nat : Chained(rows'[s], n)
      BY <2>1 DEF IsChain
    <3>2. /\ ChainOf(rows'[s]) \in Seq(Trail!Entries) /\ Len(ChainOf(rows'[s])) = n
          /\ \A e \in rows'[s] :
               ChainOf(rows'[s])[e.seq] = [id |-> e.id, prev |-> e.prev]
          /\ \A j \in 1..n : \E e \in rows'[s] : e.seq = j
      BY <2>1, <3>1, ChainIsALog
    <3>3. i \in 1..n
      BY <2>1, <2>3, <3>2
    <3>4. PICK e \in rows'[s] : e.seq = i
      BY <3>2, <3>3
    <3>5. chains'[s][i] = [id |-> e.id, prev |-> e.prev]
      BY <2>1, <3>2, <3>4
    <3>6. chains'[s][i].id = e.id
      BY <3>5
    <3> QED BY <3>4, <3>6
  <2>4. ASSUME NEW s \in Streams, NEW t \in Streams,
               NEW i \in DOMAIN chains'[s], NEW j \in DOMAIN chains'[t],
               chains'[s][i].id = chains'[t][j].id
        PROVE  s = t /\ i = j
    <3>1. PICK e \in rows'[s] : e.seq = i /\ chains'[s][i].id = e.id
      BY <2>3
    <3>2. PICK f \in rows'[t] : f.seq = j /\ chains'[t][j].id = f.id
      BY <2>3
    <3>3. e \in All(s)' /\ f \in All(t)'
      BY <3>1, <3>2, InAll
    <3>4. s = t /\ e = f
      BY <2>4, <3>1, <3>2, <3>3 DEF AuditInv, IdsDiffer
    <3> QED BY <3>1, <3>2, <3>4
  <2>5. chains = [s \in Streams |-> Chain(s)] /\ chains' # chains
    BY DEF chains
  <2> QED BY <2>2, <2>4, <2>5 DEF Trail!Commit, chains
<1>4. AuditInv /\ AuditInv' /\ [AuditNext]_auditVars => [Trail!Commit]_chains
  BY <1>3
<1> QED BY <1>2, <1>4, AuditHolds, PTL DEF AuditSpec, AuditTrailIsALog, Trail!LogSpec

=============================================================================
