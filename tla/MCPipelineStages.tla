--------------------------- MODULE MCPipelineStages ---------------------------
(* The stages of the transaction pipeline that share no row with the others:   *)
(* the policy engine, the transfer core, the resolution and freshness of a     *)
(* transfer, and the verification of chain evidence.  A behaviour is one call  *)
(* of one of them; the other stages' variables are Unused in it.               *)
EXTENDS PolicyEngine, TransferCore, Simulation, ChainEvidence

CONSTANTS blockA, blockB, Unused

VARIABLE stage   \* the stage that is called

stageVars == <<stage, policyVars, coreVars, simVars, evidenceVars>>

\* The canonical string of a number of at most four digits.
StringOf(n) ==
  LET k == CHOOSE m \in 1..4 : n < Base^m /\ (m = 1 \/ n >= Base^(m - 1))
  IN  [i \in 1..k |-> (n \div Base^(k - i)) % Base]

MCLimitAmounts == {StringOf(n) : n \in {0, 1, 9, 10, 11, 90, 99, 100, 101, 109, 110}}
MCUsual ==
  [amount |-> StringOf(1), perTransaction |-> StringOf(10), total |-> StringOf(11),
   spent |-> StringOf(10), fee |-> StringOf(10)]

MCSelector   == <<1, 0>>
MCRecipients == {<<0, 1>>, <<1, 0>>}

PolicyUnused ==
  policy = Unused /\ canonicalIntent = Unused /\ context = Unused /\ decision = Unused

CoreUnused ==
  /\ intent = Unused /\ trusted = Unused /\ candidate = Unused /\ decoded = Unused
  /\ verification = Unused /\ edits = Unused /\ contexts = Unused

SimUnused ==
  /\ chain = Unused /\ blocks = Unused /\ nonce = Unused /\ limits = Unused
  /\ call = Unused /\ got = Unused /\ evidence = NoEvidence /\ freshness = Unused
  /\ undisturbed = Unused

EvidenceUnused ==
  /\ executed = Unused /\ canonical = Unused /\ answers = <<>>
  /\ expectation = Unused /\ lies = Unused /\ reorgs = Unused /\ seen = Unused

StagesInit ==
  \/ stage = "policy" /\ PolicyInit /\ CoreUnused /\ SimUnused /\ EvidenceUnused
  \/ stage = "core" /\ PolicyUnused /\ CoreInit /\ SimUnused /\ EvidenceUnused
  \/ stage = "simulation" /\ PolicyUnused /\ CoreUnused /\ SimInit /\ EvidenceUnused
  \/ stage = "evidence" /\ PolicyUnused /\ CoreUnused /\ SimUnused /\ EvidenceInit

StagesNext ==
  \/ /\ stage = "policy" /\ EvaluatePolicy
     /\ UNCHANGED <<stage, coreVars, simVars, evidenceVars>>
  \/ /\ stage = "core" /\ CoreNext
     /\ UNCHANGED <<stage, policyVars, simVars, evidenceVars>>
  \/ /\ stage = "simulation" /\ SimNext
     /\ UNCHANGED <<stage, policyVars, coreVars, evidenceVars>>
  \/ /\ stage = "evidence" /\ EvidenceNext
     /\ UNCHANGED <<stage, policyVars, coreVars, simVars>>

StagesSpec == StagesInit /\ [][StagesNext]_stageVars
=============================================================================
