----------------------------- MODULE ChainEvidence -----------------------------
(* packages/transaction-pipeline/src/chain-evidence.ts: what the wallet makes  *)
(* of four RPC answers about one transaction.  The answers are read one by one *)
(* while the chain may replace its block, and an endpoint may alter some.      *)
(* A compared value is abstracted to whether it is the envelope's: an answer   *)
(* carries the set of its fields that are wrong.                               *)
EXTENDS Naturals, Sequences, FiniteSets

CONSTANTS
  Hashes,     \* hashes of the blocks that competed for the height
  NoBlock,    \* the hash of no block of this chain
  GasLimit,   \* envelope.gasLimit
  MaxReorgs,  \* bound: times the chain replaces its block at the height
  MaxLies     \* bound: fields of answers altered on the way

ASSUME ChainEvidenceAssumption ==
  /\ IsFiniteSet(Hashes) /\ NoBlock \notin Hashes
  /\ {GasLimit, MaxReorgs, MaxLies} \subseteq Nat

VARIABLES
  executed,     \* what the transfer did in each block (external)
  canonical,    \* the block at the height now (external)
  answers,      \* the four answers read so far
  expectation,  \* the caller's expectation: shape, envelope, fixture
  lies,         \* altered fields so far
  reorgs,       \* replaced blocks so far
  seen          \* the canonical block when it was read by number

evidenceVars ==
  <<executed, canonical, answers, expectation, lies, reorgs, seen>>

TxFields == {"hash", "chainId", "from", "to", "input", "value", "nonce", "type",
             "maxPriorityFeePerGas", "maxFeePerGas", "accessList"}
LogFields == {"tokenAddress", "from", "to", "amountAtomic"}
Reads == {"transaction", "receipt", "blockByNumber", "blockByHash"}

Height == 1
BlockOf(h) == [number |-> Height, hash |-> h]

\* `shape` is what the parser of an answer says: it is absent, or not a record
\* with every field of its type, or it is.
Missing == [shape |-> "MISSING"]
Malformed == [shape |-> "MALFORMED"]

\* The one log of a transfer: MockERC20 emits Transfer and nothing else.
TransferLog(b) ==
  [shape |-> "OK", topic |-> "TRANSFER", decodes |-> TRUE, wrong |-> {},
   removed |-> FALSE, hashOK |-> TRUE, block |-> b]

ChainTx(b) ==
  [shape |-> "OK", wrong |-> {}, gas |-> GasLimit, block |-> b]

ChainReceipt(b, result) ==
  [shape   |-> "OK", hashOK |-> TRUE, block |-> b, gasUsed |-> GasLimit,
   status  |-> IF result = "SUCCESS" THEN "success" ELSE "reverted",
   logs    |-> IF result = "SUCCESS" THEN <<TransferLog(b)>> ELSE <<>>]

-----------------------------------------------------------------------------
(* The verifier. *)

When(condition, code) == IF condition THEN {code} ELSE {}

\* validExpectationShape and validEnvelopeBinding end the verification at once.
ExpectationIssues(e) ==
  IF ~e.shape THEN {"INVALID_EXPECTATION"} ELSE When(~e.envelope, "ENVELOPE_INVALID")

ParseIssues(e, a) ==
  UNION
    {When(~e.fixture, "FIXTURE_MISMATCH"),
     When(a.transaction.shape = "MISSING", "TRANSACTION_MISSING"),
     When(a.transaction.shape = "MALFORMED", "MALFORMED_TRANSACTION"),
     When(a.receipt.shape = "MISSING", "RECEIPT_MISSING"),
     When(a.receipt.shape = "MALFORMED", "MALFORMED_RECEIPT"),
     When(a.receipt.shape = "OK"
            /\ \E i \in DOMAIN a.receipt.logs : a.receipt.logs[i].shape # "OK",
          "MALFORMED_LOG"),
     When("MISSING" \in {a.blockByNumber.shape, a.blockByHash.shape},
          "CANONICAL_BLOCK_MISSING"),
     When("MALFORMED" \in {a.blockByNumber.shape, a.blockByHash.shape},
          "MALFORMED_BLOCK")}

\* Field by field against the envelope.
TransactionIssues(tx) ==
  tx.wrong \union When(tx.gas # GasLimit, "TRANSACTION_GAS_MISMATCH")

\* Sensitivity variant: the verifier believes the transaction about its block.
BlockIssuesUnread(a) ==
  UNION
    {When(a.blockByNumber.block # a.blockByHash.block,
          "CANONICAL_BLOCK_MISMATCH"),
     When(a.receipt.block # a.transaction.block, "RECEIPT_BLOCK_MISMATCH")}

BlockIssues(a) ==
  UNION
    {When(a.transaction.block # a.blockByNumber.block,
          "TRANSACTION_BLOCK_MISMATCH"),
     When(a.blockByNumber.block # a.blockByHash.block,
          "CANONICAL_BLOCK_MISMATCH"),
     When(a.receipt.block # a.transaction.block, "RECEIPT_BLOCK_MISMATCH")}

\* Sensitivity variant: gas used up to the limit is refused.
ReceiptIssuesBelowLimit(a) ==
  UNION
    {When(~a.receipt.hashOK, "RECEIPT_HASH_MISMATCH"),
     When(a.receipt.gasUsed >= a.transaction.gas, "RECEIPT_GAS_INVALID"),
     When(a.receipt.status \notin {"success", "reverted"},
          "RECEIPT_STATUS_INVALID")}

ReceiptIssues(a) ==
  UNION
    {When(~a.receipt.hashOK, "RECEIPT_HASH_MISMATCH"),
     When(a.receipt.gasUsed > a.transaction.gas, "RECEIPT_GAS_INVALID"),
     When(a.receipt.status \notin {"success", "reverted"},
          "RECEIPT_STATUS_INVALID")}

\* The logs that parse, by their places in the receipt.
ParsedLogs(receipt) == {i \in DOMAIN receipt.logs : receipt.logs[i].shape = "OK"}

IsTransfer(log) == log.topic = "TRANSFER"

\* The transfer that a receipt of a success must consist of.
TransferIssues(a) ==
  LET logs == ParsedLogs(a.receipt)
      transfers == {i \in logs : IsTransfer(a.receipt.logs[i])}
      transfer == a.receipt.logs[CHOOSE i \in transfers : TRUE]
  IN  CASE transfers = {} ->
             {"TRANSFER_MISSING"}
        [] \E i, j \in transfers : i # j ->
             {"TRANSFER_DUPLICATE"}
        [] OTHER ->
             UNION {When(~transfer.decodes, "TRANSFER_MALFORMED"),
                    When(logs # transfers, "UNEXPECTED_LOG"),
                    When(transfer.decodes /\ transfer.wrong # {}, "TRANSFER_MISMATCH")}

\* Sensitivity variant: only a success is asked about its logs.
LogIssuesOfSuccess(a) ==
  IF a.receipt.status = "success" THEN TransferIssues(a) ELSE {}

LogIssues(a) ==
  LET logs == ParsedLogs(a.receipt)
      Foreign(l) ==
        l.removed \/ ~l.hashOK \/ l.block # a.transaction.block
  IN  UNION
        {When(a.receipt.status = "reverted" /\ logs # {},
              "REVERTED_RECEIPT_HAS_LOGS"),
         IF a.receipt.status = "success" THEN TransferIssues(a) ELSE {},
         When(\E i \in logs : Foreign(a.receipt.logs[i]), "TRANSFER_MISMATCH")}

\* verifyUntrustedChainEvidence: every mismatch it reports.
Verify(e, a) ==
  IF ExpectationIssues(e) # {} THEN ExpectationIssues(e)
  ELSE IF ParseIssues(e, a) \ {"FIXTURE_MISMATCH", "MALFORMED_LOG"} # {}
       THEN ParseIssues(e, a)
       ELSE UNION {ParseIssues(e, a), TransactionIssues(a.transaction),
                   BlockIssues(a), ReceiptIssues(a), LogIssues(a)}

Verdict(e, a) ==
  IF Verify(e, a) # {} THEN "MISMATCH"
  ELSE IF a.receipt.status = "success" THEN "SUCCESS" ELSE "REVERT"

-----------------------------------------------------------------------------
(* The endpoint (external). *)

\* A pending transaction has no block hash, which its parser refuses.
HonestAnswers(read) ==
  LET b == BlockOf(canonical)
      mined == executed[canonical] # "ABSENT"
  IN  CASE read = "transaction" ->
             IF mined THEN {ChainTx(b)} ELSE {Missing, Malformed}
        [] read = "receipt" ->
             IF mined THEN {ChainReceipt(b, executed[canonical])} ELSE {Missing}
        [] read = "blockByNumber" -> {[shape |-> "OK", block |-> b]}
        [] read = "blockByHash" ->
             {[shape |-> "OK", block |-> BlockOf(h)] : h \in Hashes}
               \union {Missing}

OtherBlocks(b) ==
  {[b EXCEPT !.number = Height + 1]}
    \union {[b EXCEPT !.hash = h] : h \in (Hashes \union {NoBlock}) \ {b.hash}}

\* A log with one field altered.
AlteredLog(l) ==
  {[l EXCEPT !.wrong = {f}] : f \in LogFields}
    \union {[l EXCEPT !.block = b] : b \in OtherBlocks(l.block)}
    \union {[l EXCEPT !.shape = "MALFORMED"], [l EXCEPT !.topic = "OTHER"],
            [l EXCEPT !.decodes = FALSE], [l EXCEPT !.removed = TRUE],
            [l EXCEPT !.hashOK = FALSE]}

AlteredLogs(logs, b) ==
  IF logs = <<>> THEN {<<TransferLog(b)>>}
  ELSE {<<>>, <<logs[1], logs[1]>>, <<logs[1], [logs[1] EXCEPT !.topic = "OTHER"]>>}
         \union {<<l>> : l \in AlteredLog(logs[1])}

\* An answer with one field altered.
Altered(read, x) ==
  {Missing, Malformed} \union
  IF x.shape # "OK" THEN {}
  ELSE {[x EXCEPT !.block = b] : b \in OtherBlocks(x.block)} \union
       CASE read = "transaction" ->
              {[x EXCEPT !.wrong = {f}] : f \in TxFields}
                \union {[x EXCEPT !.gas = g] : g \in {GasLimit - 1, GasLimit + 1}}
         [] read = "receipt" ->
              {[x EXCEPT !.hashOK = FALSE], [x EXCEPT !.gasUsed = GasLimit + 1]}
                \union {[x EXCEPT !.status = s] : s \in {"success", "reverted", "0x0"}}
                \union {[x EXCEPT !.logs = l] : l \in AlteredLogs(x.logs, x.block)}
         [] OTHER -> {}

-----------------------------------------------------------------------------
(* The caller reads, then has the answers verified. *)

ReadAnswer(read, x) ==
  /\ read \notin DOMAIN answers
  /\ \/ x \in HonestAnswers(read) /\ UNCHANGED lies
     \/ /\ lies < MaxLies
        /\ \E y \in HonestAnswers(read) : x \in Altered(read, y)
        /\ lies' = lies + 1
  /\ answers' = [r \in DOMAIN answers \union {read} |->
                   IF r = read THEN x ELSE answers[r]]
  /\ seen' = IF read = "blockByNumber" THEN canonical ELSE seen
  /\ UNCHANGED <<executed, canonical, expectation, reorgs>>

PossibleAnswers(read) ==
  HonestAnswers(read) \union
  IF lies < MaxLies THEN UNION {Altered(read, y) : y \in HonestAnswers(read)} ELSE {}

Reorg(h) ==
  /\ h # canonical
  /\ reorgs < MaxReorgs
  /\ reorgs' = reorgs + 1
  /\ canonical' = h
  /\ UNCHANGED <<executed, answers, expectation, lies, seen>>

EvidenceInit ==
  /\ executed \in [Hashes -> {"SUCCESS", "REVERT", "ABSENT"}]
  /\ canonical \in Hashes
  /\ expectation \in [shape : BOOLEAN, envelope : BOOLEAN, fixture : BOOLEAN]
  /\ answers = <<>>
  /\ lies = 0
  /\ reorgs = 0
  /\ seen = NoBlock

EvidenceNext ==
  \/ \E read \in Reads \ DOMAIN answers : \E x \in PossibleAnswers(read) : ReadAnswer(read, x)
  \/ \E h \in Hashes : Reorg(h)

EvidenceSpec == EvidenceInit /\ [][EvidenceNext]_evidenceVars

-----------------------------------------------------------------------------
(* Properties. *)

Collected == DOMAIN answers = Reads

Result == Verdict(expectation, answers)

\* Evidence that verifies tells what the transfer really did in the block that
\* the evidence names, when any one field of any answer is false or the chain
\* changes between the reads (verifyUntrustedChainEvidence).  Both together can
\* carry a receipt from one block to its competitor.
VerdictIsExecution ==
  Collected /\ ~(lies > 0 /\ reorgs > 0) /\ Result # "MISMATCH" =>
    executed[answers.receipt.block.hash] = Result

\* From an honest endpoint, evidence verifies only for the block that was on the
\* chain when it was read by its number: a transfer that a reorganisation took
\* away is not settled from its old receipt.
VerdictIsCanonical ==
  Collected /\ lies = 0 /\ Result # "MISMATCH" =>
    answers.receipt.block.hash = seen

\* Honest answers about a chain that did not change always verify, so a mismatch
\* (which disputes the funds) is never the verifier's own doing.
HonestEvidenceVerifies ==
  /\ Collected /\ lies = 0 /\ reorgs = 0
  /\ executed[canonical] # "ABSENT"
  /\ expectation = [shape |-> TRUE, envelope |-> TRUE, fixture |-> TRUE]
  /\ answers.blockByHash = [shape |-> "OK", block |-> BlockOf(canonical)]
  => Result = executed[canonical]

=============================================================================
