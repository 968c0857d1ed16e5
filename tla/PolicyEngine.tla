------------------------------ MODULE PolicyEngine ------------------------------
(* packages/policy-engine/src/index.ts: one evaluation of a policy for an      *)
(* intent.  Amounts are canonical decimal strings, here sequences of digits,   *)
(* and the engine compares and subtracts them digit by digit.  Identifiers and *)
(* allow-lists are abstracted to whether the intent's value is the policy's.   *)
EXTENDS Naturals, Sequences, FiniteSets, Digits

CONSTANTS
  LimitAmounts,   \* the strings that are tried as amounts
  Usual,     \* the amounts with which everything else is varied
  Base       \* digits are 0..Base-1; 10 in the code

\* canonicalAtomicPattern: no leading zero.
Canonical(s) == s # <<>> /\ (s[1] = 0 => Len(s) = 1)

Positive == LimitAmounts \ {<<0>>}

ASSUME PolicyEngineAssumption ==
  /\ Base \in Nat /\ Base > 1
  /\ \A s \in LimitAmounts : s \in Seq(0..(Base - 1)) /\ Canonical(s)
  /\ Usual \in [amount : Positive, perTransaction : Positive, total : Positive,
                spent : LimitAmounts, fee : LimitAmounts]

VARIABLES
  policy,    \* the policy
  canonicalIntent, \* the intent
  context,   \* the caller's context: the time, the spend so far, the grades
  decision   \* the engine's decision, "NONE" before the evaluation

policyVars == <<policy, canonicalIntent, context, decision>>

-----------------------------------------------------------------------------
(* Decimal strings. *)

NumberOf(s) == ValueOf(s, Base)

\* String order of two strings of the same length.
Before(left, right) ==
  \E i \in 1..Len(left) :
    left[i] < right[i] /\ \A j \in 1..(i - 1) : left[j] = right[j]

\* Sensitivity variant: strings are compared as strings, whatever their length.
compareAtomicAsText(left, right) ==
  IF left = right THEN 0
  ELSE IF \E i \in 1..Len(left) :
            i \in 1..Len(right) /\ left[i] < right[i]
              /\ \A j \in 1..(i - 1) : left[j] = right[j]
       THEN 1 ELSE 2

\* compareAtomic: 1 for less, 0 for equal, 2 for greater.
compareAtomic(left, right) ==
  CASE Len(left) < Len(right) -> 1
    [] Len(left) > Len(right) -> 2
    [] left = right -> 0
    [] OTHER -> IF Before(left, right) THEN 1 ELSE 2

isAtomicAtMost(value, limit) == compareAtomic(value, limit) \in {0, 1}

\* replace(/^0+(?=\d)/, ""): leading zeros go, the last digit stays.
StripZeros(s) ==
  LET first == CHOOSE i \in 1..Len(s) :
        /\ s[i] # 0 \/ i = Len(s)
        /\ \A j \in 1..(i - 1) : s[j] = 0
  IN  SubSeq(s, first, Len(s))

\* The digit of right below position i of left, 0 beyond its first.
RightDigit(left, right, i) ==
  LET k == i - (Len(left) - Len(right)) IN IF k >= 1 THEN right[k] ELSE 0

\* What each position borrows from the one on its left, from the last digit on.
Borrows(left, right) ==
  LET borrow[i \in 1..(Len(left) + 1)] ==
        IF i > Len(left) THEN 0
        ELSE IF left[i] < RightDigit(left, right, i) + borrow[i + 1] THEN 1 ELSE 0
  IN  borrow

\* Sensitivity variant: nothing is taken from the digit that is borrowed from.
subtractAtomicNoBorrow(left, right) ==
  IF ~isAtomicAtMost(right, left) THEN <<0>>
  ELSE StripZeros([i \in 1..Len(left) |->
         LET below == RightDigit(left, right, i)
         IN  (IF left[i] < below THEN left[i] + Base ELSE left[i]) - below])

\* subtractAtomic: digit by digit, "0" where left is the smaller one.
subtractAtomic(left, right) ==
  LET borrow == Borrows(left, right)
  IN  IF ~isAtomicAtMost(right, left) THEN <<0>>
      ELSE StripZeros([i \in 1..Len(left) |->
             (left[i] + Base * borrow[i]) - borrow[i + 1] - RightDigit(left, right, i)])

-----------------------------------------------------------------------------
(* The rules. *)

\* enforcementStrength: a smaller number is a stronger guarantee.
Grades == 0..4
meetsMinimumEnforcementGrade(actual, required) == actual <= required

\* Sensitivity variant: the last instant still counts.
isWithinWindowClosed(at, window) == at >= window.from /\ at <= window.until

isWithinWindow(at, window) == at >= window.from /\ at < window.until

Transfer == canonicalIntent.action = "asset.transfer"

\* evaluateRules: the names of the rules that fail.
FailedRules ==
  LET remaining == subtractAtomic(policy.total, context.spent)
      Rule(name, holds) == IF holds THEN {} ELSE {name}
  IN  UNION
        {Rule("status", policy.status = "active"),
         Rule("agent", canonicalIntent.agentMatches),
         Rule("wallet", canonicalIntent.walletMatches),
         Rule("policyTime", isWithinWindow(context.at, policy.window)),
         Rule("intentTime", isWithinWindow(context.at, canonicalIntent.window)),
         Rule("chain", canonicalIntent.chainAllowed),
         Rule("asset", Transfer => canonicalIntent.assetAllowed),
         Rule("recipient", Transfer => canonicalIntent.recipientAllowed),
         Rule("action", canonicalIntent.action \in policy.actions),
         Rule("mode", Transfer => policy.mode # "read-only"),
         Rule("perTransaction",
              Transfer => isAtomicAtMost(canonicalIntent.amount, policy.perTransaction)),
         Rule("total",
              Transfer => /\ canonicalIntent.assetIsBudget
                          /\ isAtomicAtMost(canonicalIntent.amount, remaining)),
         Rule("fee", Transfer => isAtomicAtMost(canonicalIntent.maxFee, policy.feeLimit)),
         Rule("budgetGrade",
              meetsMinimumEnforcementGrade(context.budgetGrade, policy.budgetGrade)),
         Rule("recipientGrade",
              meetsMinimumEnforcementGrade(context.recipientGrade, policy.recipientGrade))}

\* canonicalIntentSchema: a window that is not empty and at most this long.
MaxLifetime == 3
WellFormed ==
  /\ policy.window.from < policy.window.until
  /\ canonicalIntent.window.from < canonicalIntent.window.until
  /\ canonicalIntent.window.until - canonicalIntent.window.from <= MaxLifetime
  /\ canonicalIntent.amount # <<0>> /\ policy.total # <<0>> /\ policy.perTransaction # <<0>>

\* evaluatePolicy; what does not parse fails closed.
EvaluatePolicy ==
  /\ decision = "NONE"
  /\ decision' =
       IF ~WellFormed \/ FailedRules # {} THEN "DENY"
       ELSE IF ~Transfer THEN "ALLOW_READ"
       ELSE IF policy.mode = "review-required" THEN "REQUIRE_APPROVAL"
       ELSE "ALLOW_AUTONOMOUS"
  /\ UNCHANGED <<policy, canonicalIntent, context>>

-----------------------------------------------------------------------------
(* Inputs: every combination of amounts, and every one other fact gone wrong.  *)

GoodPolicy ==
  [status |-> "active", window |-> [from |-> 1, until |-> 9],
   actions |-> {"asset.transfer", "wallet.read_state"},
   mode |-> "autonomous-within-policy", feeLimit |-> Usual.fee,
   budgetGrade |-> 2, recipientGrade |-> 2]

GoodIntent ==
  [agentMatches |-> TRUE, walletMatches |-> TRUE, chainAllowed |-> TRUE,
   assetAllowed |-> TRUE, recipientAllowed |-> TRUE, assetIsBudget |-> TRUE,
   action |-> "asset.transfer", window |-> [from |-> 2, until |-> 5],
   maxFee |-> Usual.fee]

Policies ==
  {GoodPolicy}
    \union {[GoodPolicy EXCEPT !.status = s] : s \in {"draft", "superseded", "revoked"}}
    \union {[GoodPolicy EXCEPT !.mode = m] : m \in {"read-only", "review-required"}}
    \union {[GoodPolicy EXCEPT !.actions = {a}] : a \in GoodPolicy.actions}
    \union {[GoodPolicy EXCEPT !.window = w] : w \in [from : {1, 3, 4}, until : {3, 4}]}
    \union {[GoodPolicy EXCEPT !.budgetGrade = g] : g \in Grades}
    \union {[GoodPolicy EXCEPT !.recipientGrade = g] : g \in Grades}
    \union {[GoodPolicy EXCEPT !.feeLimit = fee] : fee \in LimitAmounts}

Facts == {"agentMatches", "walletMatches", "chainAllowed", "assetAllowed",
          "recipientAllowed", "assetIsBudget"}

Intents ==
  {GoodIntent}
    \union {[GoodIntent EXCEPT ![f] = FALSE] : f \in Facts}
    \union {[GoodIntent EXCEPT !.action = "wallet.read_state", ![f] = FALSE] : f \in Facts}
    \union {[GoodIntent EXCEPT !.window = w] : w \in [from : {0, 3, 4}, until : {3, 4}]}
    \union {[GoodIntent EXCEPT !.maxFee = fee] : fee \in LimitAmounts}

PolicyInit ==
  /\ decision = "NONE"
  /\ \E p \in Policies, i \in Intents :
       /\ p = GoodPolicy \/ i = GoodIntent
       /\ \E amount, perTransaction, total \in Positive, spent \in LimitAmounts :
            /\ <<p, i>> # <<GoodPolicy, GoodIntent>> =>
                 <<amount, perTransaction, total, spent>> =
                 <<Usual.amount, Usual.perTransaction, Usual.total, Usual.spent>>
            /\ policy = [f \in DOMAIN p \union {"perTransaction", "total"} |->
                           IF f = "total" THEN total
                           ELSE IF f = "perTransaction" THEN perTransaction ELSE p[f]]
            /\ canonicalIntent = [f \in DOMAIN i \union {"amount"} |->
                           IF f = "amount" THEN amount ELSE i[f]]
            /\ context = [at |-> 3, spent |-> spent, budgetGrade |-> 2,
                          recipientGrade |-> 2]

PolicySpec == PolicyInit /\ [][EvaluatePolicy]_policyVars

-----------------------------------------------------------------------------
(* Properties. *)

Allowed == decision \in {"ALLOW_AUTONOMOUS", "REQUIRE_APPROVAL"}

\* What an allowed transfer may move, in numbers: within the transaction limit,
\* and with everything spent before within the total.
WithinLimits ==
  /\ NumberOf(canonicalIntent.amount) <= NumberOf(policy.perTransaction)
  /\ NumberOf(context.spent) + NumberOf(canonicalIntent.amount) <= NumberOf(policy.total)

\* An allowed transfer keeps the policy's limits, by the arithmetic of numbers
\* and not of the digit strings that subtractAtomic and compareAtomic work on.
AllowedTransferFits == Allowed => WithinLimits

\* The engine does not refuse a transfer that satisfies the policy: with every
\* other fact in order the decision depends on the numbers alone.
FittingTransferIsAllowed ==
  /\ decision = "DENY"
  /\ \A f \in DOMAIN GoodIntent : canonicalIntent[f] = GoodIntent[f]
  /\ \A f \in DOMAIN GoodPolicy : policy[f] = GoodPolicy[f]
  => ~WithinLimits

\* Nothing is allowed outside the policy's or the intent's time, after a change
\* of status, or on a fact that is not the policy's: windows are half open.
AllowedOnlyInForce ==
  decision \in {"ALLOW_AUTONOMOUS", "REQUIRE_APPROVAL", "ALLOW_READ"} =>
    /\ policy.status = "active"
    /\ context.at \in policy.window.from..(policy.window.until - 1)
    /\ context.at \in canonicalIntent.window.from..(canonicalIntent.window.until - 1)
    /\ Transfer => \A f \in Facts : canonicalIntent[f]
    /\ decision = "ALLOW_AUTONOMOUS" => policy.mode = "autonomous-within-policy"

=============================================================================
