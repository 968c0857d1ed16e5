------------------------------ MODULE TransferCore ------------------------------
(* packages/transaction-pipeline: construct-transfer.ts, decode-transfer.ts    *)
(* and verify-transfer.ts.  A candidate is constructed from an intent and the  *)
(* trusted context, its calldata is decoded independently, and both results    *)
(* are verified together.  Between these calls the candidate lies with the     *)
(* caller, who may change it, and the trusted context may be another one.      *)
(* Calldata is a sequence of hex digits with scaled-down widths.               *)
EXTENDS Naturals, Sequences, Digits

CONSTANTS
  Radix,         \* hex digits are 0..Radix-1, Radix stands for any other character
  WordLength,   \* digits of an ABI word
  AddressLength,\* digits of an address
  Selector,     \* the digits of 0xa9059cbb
  Recipients,   \* addresses that intents and changes use
  Amounts,      \* amounts that intents and changes use
  TokenAddresses,       \* token addresses
  MaxEdits,     \* bound: changes of the candidate
  MaxContexts   \* bound: changes of the trusted context

ASSUME TransferCoreAssumption ==
  /\ Radix \in Nat \ {0, 1} /\ WordLength \in Nat /\ AddressLength \in 1..WordLength
  /\ Selector \in Seq(0..(Radix - 1)) /\ Len(Selector) % 2 = 0
  /\ \A r \in Recipients : r \in Seq(0..(Radix - 1)) /\ Len(r) = AddressLength
  /\ Amounts \subseteq Nat /\ MaxEdits \in Nat /\ MaxContexts \in Nat

VARIABLES
  intent,      \* the canonical intent
  trusted,     \* the trusted execution context
  candidate,   \* the core as the caller holds it, NoResult before
  decoded,     \* the result of decodeTransferIndependent, NoResult before
  verification,     \* the verifier's answer, "NONE" before
  edits,       \* changes of the candidate so far
  contexts     \* changes of the trusted context so far

coreVars == <<intent, trusted, candidate, decoded, verification, edits, contexts>>

NoResult == [ok |-> FALSE, code |-> "NONE"]
HexDigits == 0..(Radix - 1)
CalldataLength == Len(Selector) + 2 * WordLength

-----------------------------------------------------------------------------
(* Calldata. *)

Zeros(n) == [i \in 1..n |-> 0]

\* What is left of a number at each digit of a word, the later digits taken off.
Quotients(n) ==
  LET left[i \in 1..WordLength] ==
        IF i = WordLength THEN n ELSE left[i + 1] \div Radix
  IN  left

\* n < Radix^WordLength: one digit is left for the first place.
FitsWord(n) == Quotients(n)[1] < Radix
WordOf(n) == [i \in 1..WordLength |-> Quotients(n)[i] % Radix]
WordValue(word) == ValueOf(word, Radix)

Hexadecimal(data) == \A i \in 1..Len(data) : data[i] \in HexDigits

\* The decimal string of a number, and a string with leading zeros: the same
\* number, another string.
Decimal(n) == [number |-> n, padded |-> FALSE]

\* encodeFunctionData; an amount beyond uint256 is an error (external).
Encode(recipient, amount) ==
  Selector \o Zeros(WordLength - AddressLength) \o recipient \o WordOf(amount)

AddressWord(data) == SubSeq(data, Len(Selector) + 1, Len(Selector) + WordLength)
AmountWord(data) == SubSeq(data, Len(Selector) + WordLength + 1, Len(data))
AddressIn(word) == SubSeq(word, WordLength - AddressLength + 1, WordLength)
PaddingIn(word) == SubSeq(word, 1, WordLength - AddressLength)

Failure(code) == [ok |-> FALSE, code |-> code]

Decoded(data) ==
  [ok |-> TRUE, recipient |-> AddressIn(AddressWord(data)),
   amount |-> Decimal(WordValue(AmountWord(data)))]

\* Sensitivity variant: the padding of the address word is skipped.
decodeIgnoringPadding(data) ==
  IF ~Hexadecimal(data) \/ Len(data) % 2 # 0 THEN Failure("MALFORMED_HEX")
  ELSE IF Len(data) # CalldataLength THEN Failure("INVALID_LENGTH")
  ELSE IF SubSeq(data, 1, Len(Selector)) # Selector THEN Failure("UNKNOWN_SELECTOR")
  ELSE Decoded(data)

\* Sensitivity variant: the exact length is refused, too.
decodeBeyondLength(data) ==
  IF ~Hexadecimal(data) \/ Len(data) % 2 # 0 THEN Failure("MALFORMED_HEX")
  ELSE IF Len(data) <= CalldataLength THEN Failure("INVALID_LENGTH")
  ELSE Failure("TRAILING_DATA")

decodeTransferIndependent(data) ==
  IF ~Hexadecimal(data) \/ Len(data) % 2 # 0 THEN Failure("MALFORMED_HEX")
  ELSE IF Len(data) < CalldataLength THEN Failure("INVALID_LENGTH")
  ELSE IF Len(data) > CalldataLength THEN Failure("TRAILING_DATA")
  ELSE IF SubSeq(data, 1, Len(Selector)) # Selector THEN Failure("UNKNOWN_SELECTOR")
  ELSE IF PaddingIn(AddressWord(data)) # Zeros(WordLength - AddressLength)
  THEN Failure("NON_CANONICAL_ADDRESS_PADDING")
  ELSE Decoded(data)

-----------------------------------------------------------------------------
(* Construction and verification. *)

\* canonicalIntentSchema and validateTrusted hold; what is left to refuse.
Constructible ==
  /\ intent.action = "asset.transfer"
  /\ intent.chain = "local"
  /\ intent.token = trusted.token
  /\ FitsWord(intent.amount)

Provenance == [intent |-> "this", operation |-> trusted.operation]

\* The twelve fields; "good" is the constant that the code writes.
Core ==
  [ok |-> TRUE, keys |-> "good", action |-> "good", chain |-> "local",
   from |-> trusted.wallet, target |-> trusted.token, value |-> "good",
   calldata |-> Encode(intent.recipient, intent.amount), selector |-> "good",
   recipient |-> intent.recipient, amount |-> Decimal(intent.amount),
   nonce |-> "good", fixture |-> trusted.fixture, provenance |-> Provenance]

constructTransferCore ==
  /\ candidate = NoResult
  /\ Constructible
  /\ candidate' = Core
  /\ UNCHANGED <<intent, trusted, decoded, verification, edits, contexts>>

Decode ==
  /\ candidate.ok /\ verification = "NONE"
  /\ decoded' = decodeTransferIndependent(candidate.calldata)
  /\ UNCHANGED <<intent, trusted, candidate, verification, edits, contexts>>

\* verifyTransferCore: the code of the first check that fails.
VerificationOf(c, d) ==
  LET actual == decodeTransferIndependent(c.calldata)
  IN  IF intent.action # "asset.transfer" THEN "INVALID_INTENT"
      ELSE IF c.keys # "good" THEN "INVALID_CANDIDATE"
      ELSE IF ~actual.ok THEN "DECODE_FAILED"
      ELSE IF d # actual THEN "CALLDATA_MISMATCH"
      ELSE IF c.provenance # Provenance THEN "PROVENANCE_MISMATCH"
      ELSE IF c.action # "good" THEN "ACTION_MISMATCH"
      ELSE IF c.selector # "good" THEN "SELECTOR_MISMATCH"
      ELSE IF c.chain # "local" \/ c.chain # intent.chain THEN "CHAIN_MISMATCH"
      ELSE IF c.from # trusted.wallet THEN "SENDER_MISMATCH"
      ELSE IF c.target # trusted.token \/ c.target # intent.token THEN "TARGET_MISMATCH"
      ELSE IF c.value # "good" THEN "NATIVE_VALUE_MISMATCH"
      ELSE IF c.recipient # intent.recipient \/ actual.recipient # intent.recipient
      THEN "RECIPIENT_MISMATCH"
      ELSE IF c.amount # Decimal(intent.amount) \/ actual.amount # Decimal(intent.amount)
      THEN "AMOUNT_MISMATCH"
      ELSE IF c.nonce # "good" THEN "NONCE_STRATEGY_MISMATCH"
      ELSE IF c.fixture # trusted.fixture THEN "FIXTURE_MISMATCH"
      ELSE "ok"

VerifyCandidate ==
  /\ candidate.ok /\ decoded # NoResult /\ verification = "NONE"
  /\ verification' = VerificationOf(candidate, decoded)
  /\ UNCHANGED <<intent, trusted, candidate, decoded, edits, contexts>>

-----------------------------------------------------------------------------
(* What happens to the candidate and to the context between the calls. *)

EditedCalldata(data) ==
  {[data EXCEPT ![i] = d] : i \in DOMAIN data, d \in 0..Radix}
    \union {Append(data, 0), Append(data, 1)}
    \union (IF data = <<>> THEN {} ELSE {SubSeq(data, 1, Len(data) - 1)})

Edited(c) ==
  {[c EXCEPT !.calldata = data] : data \in EditedCalldata(c.calldata)}
    \union {[c EXCEPT !.recipient = r] : r \in Recipients}
    \union {[c EXCEPT !.amount = [number |-> n, padded |-> p]] :
              n \in Amounts, p \in BOOLEAN}
    \union {[c EXCEPT !.target = t] : t \in TokenAddresses}
    \union {[c EXCEPT !.keys = "bad"], [c EXCEPT !.action = "bad"],
            [c EXCEPT !.chain = "other"], [c EXCEPT !.from = "other"],
            [c EXCEPT !.value = "bad"], [c EXCEPT !.selector = "bad"],
            [c EXCEPT !.nonce = "bad"], [c EXCEPT !.fixture = 0],
            [c EXCEPT !.provenance.intent = "another"]}

Edit ==
  /\ candidate.ok /\ verification = "NONE" /\ edits < MaxEdits
  /\ candidate' \in Edited(candidate)
  /\ edits' = edits + 1
  /\ UNCHANGED <<intent, trusted, decoded, verification, contexts>>

\* Another operation's context, or the one after the local chain was replaced.
ChangeContext ==
  /\ contexts < MaxContexts /\ verification = "NONE"
  /\ \/ trusted' = [trusted EXCEPT !.operation = "another"]
     \/ \E t \in TokenAddresses : trusted' = [trusted EXCEPT !.fixture = @ + 1, !.token = t]
  /\ contexts' = contexts + 1
  /\ UNCHANGED <<intent, candidate, decoded, verification, edits>>

CoreInit ==
  /\ intent \in [action : {"asset.transfer", "wallet.read_state"},
                 chain : {"local", "other"}, token : TokenAddresses,
                 recipient : Recipients, amount : Amounts]
  /\ trusted \in [wallet : {"wallet"}, token : TokenAddresses, fixture : {1}, operation : {"one"}]
  /\ candidate = NoResult
  /\ decoded = NoResult
  /\ verification = "NONE"
  /\ edits = 0
  /\ contexts = 0

CoreNext == constructTransferCore \/ Decode \/ VerifyCandidate \/ Edit \/ ChangeContext

CoreSpec == CoreInit /\ [][CoreNext]_coreVars

-----------------------------------------------------------------------------
(* Properties. *)

\* The verifier accepts one candidate per intent and context, the constructor's:
\* no combination of changes to the fields and to single digits of the calldata,
\* before or after the decoding, and no other context gives a second one.
VerifiedIsConstructed ==
  verification = "ok" => Constructible /\ candidate = Core

\* What the constructor makes is decoded and verified, for every recipient and
\* every amount that fits a word: the ABI encoder and the independent decoder
\* agree digit for digit.
ConstructedIsVerified ==
  edits = 0 /\ contexts = 0 /\ verification # "NONE" => verification = "ok"
=============================================================================
