----------------------------- MODULE AppendOnlyLog -----------------------------
(* What the audit trail promises its readers (docs/decisions/ADR-0010): every   *)
(* stream is one chain that only grows, each entry naming the one before it,   *)
(* and no entry stands twice.  How concurrent database transactions achieve it *)
(* is in AuditChain, which implements this specification.                      *)
EXTENDS Naturals, Sequences

CONSTANTS Streams, Ids, NoId

VARIABLE log   \* log[s]: the entries [id, prev] of stream s, oldest first

Entries == [id : Ids, prev : Ids \union {NoId}]

LogInit == log = [s \in Streams |-> <<>>]

Linked(chain) ==
  \A i \in DOMAIN chain :
    chain[i].prev = IF i = 1 THEN NoId ELSE chain[i - 1].id

\* One commit adds entries at the end of some streams, and changes nothing else.
Commit ==
  /\ log' # log
  /\ \A s \in Streams :
       /\ log'[s] \in Seq(Entries)
       /\ Len(log[s]) <= Len(log'[s])
       /\ SubSeq(log'[s], 1, Len(log[s])) = log[s]
       /\ Linked(log'[s])
  /\ \A s, t \in Streams :
       \A i \in DOMAIN log'[s], j \in DOMAIN log'[t] :
         log'[s][i].id = log'[t][j].id => <<s, i>> = <<t, j>>

LogSpec == LogInit /\ [][Commit]_log
=============================================================================
