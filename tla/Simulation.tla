------------------------------- MODULE Simulation -------------------------------
(* packages/transaction-pipeline/src/simulation.ts: a transfer is resolved      *)
(* against one block, and before it is signed the evidence is checked against  *)
(* the chain as it then is.  Both are chains of separate reads of a node       *)
(* (external) that mines blocks, drops its tip and takes other transactions of *)
(* the same sender between any two of them.                                    *)
EXTENDS Naturals, Sequences

CONSTANTS
  MaxBlocks,     \* bound: blocks ever mined
  Bases,         \* base fees of a block
  Priorities,    \* priority fees that the node suggests
  GasEstimates,  \* answers of estimateGas
  TokenBalances,        \* token balances of the sender
  Natives,       \* native balances of the sender
  Ceilings,      \* maximum network fees of an intent and of a policy
  Amount,        \* the transfer's amount
  MaxBlockAge,   \* freshness window in blocks
  MaxNonce       \* bound: other transactions of the sender

ASSUME SimulationAssumption ==
  /\ {MaxBlocks, Amount, MaxBlockAge, MaxNonce} \subseteq Nat
  /\ Bases \union Priorities \union GasEstimates \subseteq Nat
  /\ TokenBalances \union Natives \union Ceilings \subseteq Nat

VARIABLES
  chain,      \* the node's chain: block hashes, oldest first
  blocks,     \* blocks[h]: what the block of hash h holds; hashes count up
  nonce,      \* the sender's pending nonce
  limits,     \* the intent's and the policy's fee ceilings
  call,       \* the evaluation in progress: "resolve" or "check", its next read
  got,        \* what it has read so far
  evidence,   \* the executable transfer and its simulation, once resolved
  freshness,    \* the freshness check's answer
  undisturbed \* no block was dropped since the freshness check began

simVars == <<chain, blocks, nonce, limits, call, got, evidence, freshness, undisturbed>>
nodeVars == <<chain, blocks, nonce>>

-----------------------------------------------------------------------------
(* The node. *)

Block == [base : Bases, token : TokenBalances, native : Natives]

Mine ==
  /\ Len(blocks) < MaxBlocks
  /\ \E b \in Block : blocks' = Append(blocks, b)
  /\ chain' = Append(chain, Len(blocks) + 1)
  /\ UNCHANGED <<nonce, limits, call, got, evidence, freshness, undisturbed>>

\* A reorganisation, or a revert to an earlier state of the node.
DropTip ==
  /\ Len(chain) > 1
  /\ chain' = SubSeq(chain, 1, Len(chain) - 1)
  /\ undisturbed' = FALSE
  /\ UNCHANGED <<blocks, nonce, limits, call, got, evidence, freshness>>

\* Another transaction of the sender enters the pool.
TakeNonce ==
  /\ nonce < MaxNonce
  /\ nonce' = nonce + 1
  /\ UNCHANGED <<chain, blocks, limits, call, got, evidence, freshness, undisturbed>>

\* A read at a height that the node no longer has is an error.
Has(n) == n \in DOMAIN chain
At(n) == blocks[chain[n]]

-----------------------------------------------------------------------------
(* simulateAndResolveTransfer. *)

NoEvidence == [resolved |-> FALSE]
Least(a, b) == IF a <= b THEN a ELSE b

\* Sensitivity variant: a tenth rounded down.
GasLimitOfFloor(gas) == gas + (gas \div 10)

\* The estimate and a tenth of it, rounded up.
GasLimitOf(gas) == gas + (IF (gas + 9) \div 10 = 0 THEN 1 ELSE (gas + 9) \div 10)

MaxFee(base, priority) == 2 * base + priority

Resolving(c) == call = <<"resolve", c>>
ReadsOn(c, what) == call' = <<call[1], c>> /\ got' = what /\ UNCHANGED evidence

\* What was read before, and one value more.
GotAnd(field, value) ==
  [f \in DOMAIN got \union {field} |-> IF f = field THEN value ELSE got[f]]

\* A failed resolution throws: no evidence of success, and the call is over.
Throws == call' = <<"none", "none">> /\ UNCHANGED <<got, evidence>>

ResolveHead == Resolving("head") /\ ReadsOn("block", [number |-> Len(chain)])

\* requireCanonicalBlock, first by number and then by the hash it was given.
ResolveBlock ==
  /\ Resolving("block")
  /\ IF Has(got.number)
     THEN ReadsOn("byHash", [number |-> got.number, hash |-> chain[got.number],
                           base |-> At(got.number).base])
     ELSE Throws

ResolveByHash ==
  /\ Resolving("byHash")
  /\ \/ ReadsOn("nonce", got)                            \* a node may keep orphans
     \/ chain[Least(got.number, Len(chain))] # got.hash /\ Throws

ResolveNonce == Resolving("nonce") /\ ReadsOn("token", GotAnd("nonce", nonce))

ResolveToken ==
  /\ Resolving("token")
  /\ IF Has(got.number) THEN ReadsOn("native", GotAnd("token", At(got.number).token))
     ELSE Throws

ResolveNative ==
  /\ Resolving("native")
  /\ IF Has(got.number) THEN ReadsOn("simulate", GotAnd("native", At(got.number).native))
     ELSE Throws

\* eth_call, estimateGas: the call succeeds only where the balance suffices.
ResolveSimulate ==
  /\ Resolving("simulate")
  /\ \/ /\ Has(got.number) /\ At(got.number).token >= Amount
        /\ got.token >= Amount
        /\ \E gas \in GasEstimates \ {0} : ReadsOn("fee", GotAnd("gas", gas))
     \/ Throws

\* getFeeData and what is computed from it.
ResolveFee ==
  /\ Resolving("fee")
  /\ IF ~Has(got.number) THEN Throws
     ELSE \E priority \in Priorities :
       LET base == At(got.number).base
           limit == GasLimitOf(got.gas)
           fee == MaxFee(base, priority)
           ok == /\ base = got.base
                 /\ limit * fee <= Least(limits.intent, limits.policy)
                 /\ got.native >= limit * fee
       IN  IF ok
           THEN /\ evidence' = [resolved |-> TRUE, number |-> got.number, hash |-> got.hash,
                                nonce |-> got.nonce, token |-> got.token,
                                native |-> got.native, gas |-> got.gas, gasLimit |-> limit,
                                base |-> base, priority |-> priority, maxFee |-> fee,
                                cost |-> limit * fee]
                /\ call' = <<"none", "none">>
                /\ got' = [number |-> 0]
           ELSE Throws

Resolve ==
  /\ ResolveHead \/ ResolveBlock \/ ResolveByHash \/ ResolveNonce \/ ResolveToken
       \/ ResolveNative \/ ResolveSimulate \/ ResolveFee
  /\ UNCHANGED <<chain, blocks, nonce, limits, freshness, undisturbed>>

-----------------------------------------------------------------------------
(* verifyExecutableTransfer, what it recomputes. *)

VerifyExecutable(e) ==
  IF e.priority > e.maxFee THEN "PRIORITY_FEE_EXCEEDS_MAX_FEE"
  ELSE IF \/ e.gas = 0
          \/ e.gasLimit # e.gas + (IF (e.gas + 9) \div 10 = 0 THEN 1 ELSE (e.gas + 9) \div 10)
          \/ e.base + e.priority > e.maxFee
  THEN "SIMULATION_CHANGED"
  ELSE IF e.gasLimit * e.maxFee > Least(limits.intent, limits.policy)
  THEN "FEE_CEILING_CONFLICT"
  ELSE IF e.cost # e.gasLimit * e.maxFee THEN "SIMULATION_CHANGED"
  ELSE "ok"

-----------------------------------------------------------------------------
(* checkSimulationFreshness. *)

BeginCheck ==
  /\ call = <<"none", "none">> /\ evidence.resolved /\ freshness = "NONE"
  /\ IF VerifyExecutable(evidence) = "ok"
     THEN call' = <<"check", "head">> /\ UNCHANGED freshness
     ELSE freshness' = "EXECUTABLE_CHANGED" /\ UNCHANGED call
  /\ undisturbed' = TRUE
  /\ UNCHANGED <<chain, blocks, nonce, limits, got, evidence>>

Check(c) == call = <<"check", c>>
Says(v) == freshness' = v /\ call' = <<"none", "none">> /\ UNCHANGED <<got, evidence>>
Goes(c, what) == ReadsOn(c, what) /\ UNCHANGED freshness

CheckHead ==
  /\ Check("head")
  /\ LET head == Len(chain)
     IN  CASE head < evidence.number -> Says("NONCANONICAL_BLOCK")
           [] head >= evidence.number /\ head - evidence.number > MaxBlockAge ->
                Says("BLOCK_TOO_OLD")
           [] OTHER -> Goes("block", [head |-> head])

\* Sensitivity variant: the block at the simulated height is taken as it is.
SameBlockUnread(n) == TRUE

\* canonical.hash === simulation.blockHash.
SameBlock(n) == chain[n] = evidence.hash

\* getBlockByNumber and getBlockByHash: the second read repeats the first where
\* nothing moved, and otherwise finds a block that is not the canonical one.
CheckBlock ==
  /\ Check("block")
  /\ IF ~Has(evidence.number) THEN Says("MISSING_BLOCK")
     ELSE \/ SameBlock(evidence.number)
               /\ Goes("nonce", GotAnd("base", At(evidence.number).base))
          \/ ~SameBlock(evidence.number) /\ Says("NONCANONICAL_BLOCK")

CheckNonce ==
  /\ Check("nonce")
  /\ IF nonce = evidence.nonce THEN Goes("token", got) ELSE Says("NONCE_CHANGED")

\* Sensitivity variant: balances at the simulated block.
BalanceHeightOld == evidence.number

\* Balances are read at the head that the check found.
BalanceHeight == got.head

CheckToken ==
  /\ Check("token")
  /\ CASE ~Has(BalanceHeight) -> Says("ERROR")
       [] Has(BalanceHeight) /\ At(BalanceHeight).token < Amount -> Says("TOKEN_BALANCE_CHANGED")
       [] OTHER -> Goes("native", got)

CheckNative ==
  /\ Check("native")
  /\ CASE ~Has(BalanceHeight) -> Says("ERROR")
       [] Has(BalanceHeight) /\ At(BalanceHeight).native < evidence.cost ->
            Says("NATIVE_BALANCE_CHANGED")
       [] OTHER -> Goes("fee", got)

\* The base fee at the head must be that of the simulated block, and the maximum
\* fee must cover it.
CheckFee ==
  /\ Check("fee")
  /\ CASE ~Has(got.head) -> Says("ERROR")
       [] /\ Has(got.head)
          /\ \/ At(got.head).base # got.base
             \/ At(got.head).base + evidence.priority > evidence.maxFee ->
            Says("FEE_CEILING_CONFLICT")
       [] OTHER -> Says("FRESH")

CheckFreshness ==
  /\ CheckHead \/ CheckBlock \/ CheckNonce \/ CheckToken \/ CheckNative \/ CheckFee
  /\ UNCHANGED <<chain, blocks, nonce, limits, undisturbed>>

-----------------------------------------------------------------------------

SimInit ==
  /\ \E b \in Block : blocks = <<b>>
  /\ chain = <<1>>
  /\ nonce = 0
  /\ limits \in [intent : Ceilings, policy : Ceilings]
  /\ call = <<"resolve", "head">>
  /\ got = [number |-> 0]
  /\ evidence = NoEvidence
  /\ freshness = "NONE"
  /\ undisturbed = TRUE

SimNext == Mine \/ DropTip \/ TakeNonce \/ Resolve \/ BeginCheck \/ CheckFreshness

SimSpec == SimInit /\ [][SimNext]_simVars

-----------------------------------------------------------------------------
(* Properties. *)

\* Fresh evidence is of one block: if the chain was replaced while the transfer
\* was resolved, its balances, its base fee and its block hash were read from
\* different chains, and the freshness check refuses it.
FreshEvidenceIsOfOneBlock ==
  freshness = "FRESH" =>
    LET b == blocks[evidence.hash]
    IN  <<evidence.token, evidence.native, evidence.base>> = <<b.token, b.native, b.base>>

\* What is called fresh can be executed on the chain that was checked: as long as
\* no block was dropped during the check, at the head that the check found, and
\* not only at the block of the simulation, the sender holds the amount and the
\* maximum cost and the maximum fee covers the base fee.
FreshIsExecutable ==
  freshness = "FRESH" /\ undisturbed =>
    /\ At(got.head).token >= Amount /\ At(got.head).native >= evidence.cost
    /\ At(got.head).base + evidence.priority <= evidence.maxFee
    /\ \E n \in DOMAIN chain : chain[n] = evidence.hash /\ got.head - n <= MaxBlockAge

\* The verifier recomputes what the resolver computed: a resolved transfer is
\* never refused as changed, for any gas estimate and any fees.
ResolvedIsVerified == evidence.resolved => VerifyExecutable(evidence) = "ok"

\* "an unrelated newer head is permitted": a check refuses for its fees only a
\* transfer whose maximum fee does not cover some base fee of the chain.
NewerHeadIsPermitted ==
  freshness = "FEE_CEILING_CONFLICT" =>
    \E n \in DOMAIN blocks : blocks[n].base + evidence.priority > evidence.maxFee

=============================================================================
