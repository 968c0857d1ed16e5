------------------------------ MODULE MCAuditChain ------------------------------
(* Instances of AuditChain: which services run at the same time.               *)
EXTENDS AuditChain

CONSTANTS w1, w2, w3, w4

\* Preparation with and without an audit context, beginSigning that finds the
\* operation in SIGNING, and a refusal.
MixPlain == [w \in Writers |-> CASE w = w1 -> "unaudited" [] w = w2 -> "prepare"
                                 [] w = w3 -> "signAgain" [] OTHER -> "refusal"]

\* Two control changes of one fence, a signer and a refusal.
MixControl == [w \in Writers |-> CASE w = w1 -> "control" [] w = w2 -> "control"
                                   [] w = w3 -> "sign" [] OTHER -> "refusal"]

\* One operation's writers, and a refusal that holds no lock.
MixOperation == [w \in Writers |-> CASE w = w1 -> "prepare" [] w = w2 -> "refusal"
                                     [] w = w3 -> "advance" [] OTHER -> "ledger"]

MCMixes == {MixControl, MixOperation, MixPlain}
=============================================================================
