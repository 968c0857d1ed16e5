------------------------------- MODULE Delivery -------------------------------
(* execution-client.ts, execution-process.ts, execution-core.ts and            *)
(* broadcast-core.ts around one signed transaction: the parent starts children *)
(* and kills the slow ones, each child takes the advisory lock of the          *)
(* operation, looks for a broadcast attempt, and only without one records it,  *)
(* sends the bytes through the RPC endpoint and classifies the answer.  The    *)
(* database session that holds the lock may end while its child goes on.       *)
EXTENDS FaultProxy

CONSTANTS
  Children,    \* the child processes started for the operation
  Readers,     \* clients that read the chain through the same endpoint
  None,        \* no child
  MaxFaults    \* bound: lost lock sessions and changed proxy modes together

ASSUME DeliveryAssumption ==
  /\ Children \subseteq Clients /\ Readers \subseteq Clients
  /\ Children \intersect Readers = {}
  /\ None \notin Clients
  /\ MaxFaults \in Nat

VARIABLES
  child,         \* where each child is
  lock,          \* the child whose session holds the advisory lock
  attempt,       \* broadcast_attempts.status of the one row
  verdict,       \* the child's classification of the answer
  report,        \* what the parent learned from the child
  lost,          \* lost lock sessions so far
  senderProves   \* the sender can prove that a request was never transmitted

childVars == <<child, lock, attempt, verdict, report, lost, senderProves>>
deliveryVars == <<proxyVars, childVars>>

Statuses == {"ACCEPTED", "REJECTED", "UNKNOWN", "CONFLICT"}

\* Children, the attempt row and reports stay within their values.
DeliveryTypeOK ==
  /\ ProxyTypeOK
  /\ child \in [Children -> {"IDLE", "LOCKING", "FIND", "START", "SEND", "WAIT",
                             "FINISH", "ENDED"}]
  /\ lock \in Children \union {None}
  /\ attempt \in Statuses \union {"NONE", "STARTED"}
  /\ verdict \in [Children -> Statuses \union {"NONE"}]
  /\ report \in [Children -> {"NONE", "OK", "FAILED"}]
  /\ lost \in 0..MaxFaults
  /\ senderProves \in BOOLEAN

\* Sensitivity variant: nobody unlocks.
UnlockedNever(c) == IF lock = c THEN c ELSE lock

\* `finally` of withExecutionLock, or the end of the session.
Unlocked(c) == IF lock = c THEN None ELSE lock

\* spawnExecutionProcess; the child then waits for pg_advisory_lock.
Spawn(c) ==
  /\ child[c] = "IDLE"
  /\ child' = [child EXCEPT ![c] = "LOCKING"]
  /\ UNCHANGED <<proxyVars, lock, attempt, verdict, report, lost, senderProves>>

TakeLock(c) ==
  /\ child[c] = "LOCKING"
  /\ lock = None
  /\ lock' = c
  /\ child' = [child EXCEPT ![c] = "FIND"]
  /\ UNCHANGED <<proxyVars, attempt, verdict, report, lost, senderProves>>

\* lifecycleResult, read by the parent: only an ACCEPTED attempt is a success.
Reports(c, status) ==
  /\ report' = [report EXCEPT ![c] = IF status = "ACCEPTED" THEN "OK" ELSE "FAILED"]
  /\ child' = [child EXCEPT ![c] = "ENDED"]
  /\ lock' = Unlocked(c)

\* Sensitivity variant: an attempt that was left STARTED is taken up again.
FindAttemptFinished(c) ==
  /\ child[c] = "FIND"
  /\ \/ /\ attempt \notin {"NONE", "STARTED"}
        /\ Reports(c, attempt)
     \/ /\ attempt \in {"NONE", "STARTED"}
        /\ child' = [child EXCEPT ![c] = "START"]
        /\ UNCHANGED <<lock, report>>
  /\ UNCHANGED <<proxyVars, attempt, verdict, lost, senderProves>>

\* findBroadcastAttempt: an attempt of any status is reported and never sent
\* again.  Without one the child signs (module Execution) and goes on.
FindAttempt(c) ==
  /\ child[c] = "FIND"
  /\ \/ /\ attempt # "NONE"
        /\ Reports(c, attempt)
     \/ /\ attempt = "NONE"
        /\ child' = [child EXCEPT ![c] = "START"]
        /\ UNCHANGED <<lock, report>>
  /\ UNCHANGED <<proxyVars, attempt, verdict, lost, senderProves>>

\* startBroadcastAttempt returns the row that is there; STARTED is sent.
StartAttempt(c) ==
  /\ child[c] = "START"
  /\ \/ /\ attempt \in {"NONE", "STARTED"}
        /\ attempt' = "STARTED"
        /\ child' = [child EXCEPT ![c] = "SEND"]
        /\ UNCHANGED <<lock, report>>
     \/ /\ attempt \in Statuses
        /\ Reports(c, attempt)
        /\ UNCHANGED attempt
  /\ UNCHANGED <<proxyVars, verdict, lost, senderProves>>

SendRawTransaction(c) ==
  /\ child[c] = "SEND"
  /\ Request(c, "send")
  /\ child' = [child EXCEPT ![c] = "WAIT"]
  /\ UNCHANGED <<lock, attempt, verdict, report, lost, senderProves>>

\* Sensitivity variant: any error answer is taken for a refusal of the bytes.
ClassifyError(answer) ==
  CASE answer = "EXPECTED" -> "ACCEPTED"
    [] answer = "OTHER_HASH" -> "CONFLICT"
    [] answer \in {"ERROR", "REFUSED"} -> "REJECTED"
    [] OTHER -> "UNKNOWN"

\* Only ProvenPreAcceptanceRejection makes REJECTED.
Classify(answer) ==
  CASE answer = "EXPECTED" -> "ACCEPTED"
    [] answer = "OTHER_HASH" -> "CONFLICT"
    [] answer = "REFUSED" /\ senderProves -> "REJECTED"
    [] OTHER -> "UNKNOWN"

\* The answer arrives, or the transport's timeout comes first.
ClassifyAnswer(c) ==
  /\ child[c] = "WAIT"
  /\ \/ /\ request[c].stage = "DONE"
        /\ verdict' = [verdict EXCEPT ![c] = Classify(request[c].answer)]
     \/ /\ request[c].stage # "DONE"
        /\ verdict' = [verdict EXCEPT ![c] = "UNKNOWN"]
  /\ child' = [child EXCEPT ![c] = "FINISH"]
  /\ UNCHANGED <<proxyVars, lock, attempt, report, lost, senderProves>>

\* The trigger refuses to change a finished attempt: the child ends in an error.
FinishAttempt(c) ==
  /\ child[c] = "FINISH"
  /\ \/ /\ attempt = "STARTED"
        /\ attempt' = verdict[c]
        /\ Reports(c, verdict[c])
     \/ /\ attempt # "STARTED"
        /\ Reports(c, "NONE")
        /\ UNCHANGED attempt
  /\ UNCHANGED <<proxyVars, verdict, lost, senderProves>>

\* The parent's timer (SIGKILL), or any other end of the process.
ChildDies(c) ==
  /\ child[c] \notin {"IDLE", "ENDED"}
  /\ Reports(c, "NONE")
  /\ UNCHANGED <<proxyVars, attempt, verdict, lost, senderProves>>

LoseLockSession ==
  /\ lock # None
  /\ lost + modeChanges < MaxFaults
  /\ lost' = lost + 1
  /\ lock' = None
  /\ UNCHANGED <<proxyVars, child, attempt, verdict, report, senderProves>>

ChildStep(c) ==
  \/ TakeLock(c)
  \/ FindAttempt(c)
  \/ StartAttempt(c)
  \/ SendRawTransaction(c)
  \/ ClassifyAnswer(c)
  \/ FinishAttempt(c)

DeliveryInit ==
  /\ ProxyInit
  /\ child = [c \in Children |-> "IDLE"]
  /\ lock = None
  /\ attempt = "NONE"
  /\ verdict = [c \in Children |-> "NONE"]
  /\ report = [c \in Children |-> "NONE"]
  /\ lost = 0
  /\ senderProves \in BOOLEAN

DeliveryNext ==
  \/ \E c \in Children : Spawn(c) \/ ChildStep(c) \/ ChildDies(c)
  \/ LoseLockSession
  \/ \E c \in Readers, method \in {"transaction", "receipt"} :
       Request(c, method) /\ UNCHANGED childVars
  \/ \E c \in Clients : ProxyStep(c) /\ UNCHANGED childVars
  \/ HarnessStep /\ lost + modeChanges' <= MaxFaults /\ UNCHANGED childVars

DeliverySpec == DeliveryInit /\ [][DeliveryNext]_deliveryVars

\* Processes, node and proxy go on; the harness releases what it withholds.
FairDeliverySpec ==
  /\ DeliverySpec
  /\ \A c \in Children : WF_deliveryVars(ChildStep(c))
  /\ \A c \in Clients : WF_deliveryVars(ProxyStep(c) /\ UNCHANGED childVars)
  /\ WF_deliveryVars(ReleaseReceipt /\ UNCHANGED childVars)

-----------------------------------------------------------------------------
(* Properties. *)

\* Clients whose request with the signed bytes left for the endpoint.
Sends == {c \in Children : request[c] # NoRequest}

\* The bytes are sent at most once per lock session: restarts, kills at any
\* point and children that run side by side never repeat a send, and each lost
\* session allows one more (execution-core.ts, persist before send).
OneSendPerLockSession == Cardinality(Sends) <= 1 + lost

\* The recorded status, and what the parent is told, is true of the node under
\* every fault of the endpoint: ACCEPTED only with the bytes at the node, and
\* REJECTED, which frees the funds, only while the node does not have them.  A
\* sender that proves non-transmission keeps this only while no lock session is
\* lost, for the proof of one child says nothing about the other's request.
StatusTellsTheTruth ==
  /\ attempt = "ACCEPTED" => taken
  /\ \A c \in Children : report[c] = "OK" => attempt = "ACCEPTED"
  /\ attempt = "REJECTED" /\ (senderProves => lost = 0) =>
       ~taken /\ wire \intersect Children = {}

\* A request that the proxy counts as forwarded did reach the node, whatever
\* changed while it was under way; tests rely on forwardCount.
ForwardedReachedNode ==
  \A c \in Clients : request[c].forwarded /\ request[c].method = "send" => taken

\* Nobody waits for ever: a withheld answer, a dropped connection, a crashed or
\* closed proxy or a dead lock holder delays the children that queue for the lock
\* and the readers at the proxy, but each of them ends, by its answer, its
\* timeout or the harness that releases the receipts (releaseReceipt, close).
AllEnded ==
  /\ \A c \in Children : child[c] \in {"IDLE", "ENDED"}
  /\ \A c \in Clients : request[c].stage \in {"NONE", "DONE"}

DeliveryEnds == []<>AllEnded

=============================================================================
