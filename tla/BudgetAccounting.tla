--------------------------- MODULE BudgetAccounting ---------------------------
(* What the budget ledger promises about money, and nothing else: the          *)
(* `budget_accounts` and `budget_reservations` tables, the postings (the SQL   *)
(* UPDATEs that ledger.ts, approvals/core.ts and approvals/control.ts all      *)
(* repeat), and the abstract specification of when a posting may happen.       *)
(* The detailed modules use the same postings under the guards the code has;   *)
(* that their steps are steps of AccountingSpec is a property of their own.    *)
(*                                                                             *)
(* The CHECK constraints of budget_accounts (no column negative, allocated =   *)
(* available + reserved + finalized_spend) are NOT guards of the postings: that *)
(* they never have to fire is what AccountBalanced and ReservedBacking say.    *)
EXTENDS Integers, FiniteSets

CONSTANTS
  Operations,   \* operation ids; UNIQUE(operation_id): one reservation each
  Budgets,      \* budget ids
  Allocated,    \* [Budgets -> Nat]: the immutable `allocated` column
  MaxAmount,    \* bound: largest amount_atomic a caller reserves
  None          \* the NULL of every optional column

ASSUME OperationsAssumption == IsFiniteSet(Operations)
ASSUME AllocatedAssumption  == Allocated \in [Budgets -> Nat]
ASSUME MaxAmountAssumption  == MaxAmount \in Nat
ASSUME NoneAssumption       == None \notin Operations \union Budgets

VARIABLES
  account,      \* budget_accounts: available, reserved, finalized (spend)
  reservation   \* budget_reservations, keyed by operation

moneyVars == <<account, reservation>>

ReservationStatuses ==
  {"HELD", "AUTHORIZED", "BROADCAST", "FINALIZED", "RELEASED", "EXPIRED",
   "DISPUTED"}

LiveStatuses == {"HELD", "AUTHORIZED", "BROADCAST"}

NoReservation ==
  [status |-> "NONE", budget |-> None, amount |-> 0, spend |-> 0]

AccountingTypeOK ==
  /\ account \in [Budgets -> [available : Int, reserved : Int, finalized : Int]]
  /\ reservation \in
       [Operations -> [status : ReservationStatuses \union {"NONE"},
                       budget : Budgets \union {None},
                       amount : 0..MaxAmount,
                       spend  : 0..MaxAmount]]

AccountingInit ==
  /\ account = [b \in Budgets |->
                  [available |-> Allocated[b], reserved |-> 0, finalized |-> 0]]
  /\ reservation = [o \in Operations |-> NoReservation]

-----------------------------------------------------------------------------
(* Sums of atomic amounts.  An amount n is the n units <<o, 1>> .. <<o, n>>,  *)
(* so that a sum over a set of reservations is a cardinality.                 *)

InBudget(S, b) == {o \in S : reservation[o].budget = b}

UnitsOf(S, f) == {u \in S \X (1..MaxAmount) : u[2] <= f[u[1]]}
Total(S, f)   == Cardinality(UnitsOf(S, f))

Amounts == [o \in Operations |-> reservation[o].amount]
Spends  == [o \in Operations |-> reservation[o].spend]

Value(S) == Total(S, Amounts)
Spent(S) == Total(S, Spends)

WithStatus(T) == {o \in Operations : reservation[o].status \in T}

-----------------------------------------------------------------------------
(* The postings. *)

\* UPDATE budget_accounts SET available - amount, reserved + amount; INSERT HELD
PostReserve(o, b, amount) ==
  /\ account' = [account EXCEPT ![b].available = @ - amount,
                                ![b].reserved  = @ + amount]
  /\ reservation' = [reservation EXCEPT
       ![o] = [status |-> "HELD", budget |-> b, amount |-> amount, spend |-> 0]]

\* UPDATE budget_reservations SET status, no money moves
PostStatus(o, status) ==
  /\ reservation' = [reservation EXCEPT ![o].status = status]
  /\ UNCHANGED account

\* available + amount, reserved - amount for every reservation of S, status
PostRelease(S, status) ==
  /\ account' = [b \in Budgets |->
       [available |-> account[b].available + Value(InBudget(S, b)),
        reserved  |-> account[b].reserved - Value(InBudget(S, b)),
        finalized |-> account[b].finalized]]
  /\ reservation' = [o \in Operations |->
       IF o \in S THEN [reservation[o] EXCEPT !.status = status]
                  ELSE reservation[o]]

\* Sensitivity variant: the unspent remainder is not returned.
PostFinalizeKeepsRest(o, spend) ==
  LET b == reservation[o].budget  amount == reservation[o].amount IN
  /\ account' = [account EXCEPT
       ![b] = [available |-> @.available,
               reserved  |-> @.reserved - amount,
               finalized |-> @.finalized + spend]]
  /\ reservation' = [reservation EXCEPT ![o].status = "FINALIZED",
                                        ![o].spend  = spend]

\* Sensitivity variant: the whole amount is taken for the spend.
PostFinalizeFull(o, spend) ==
  LET b == reservation[o].budget  amount == reservation[o].amount IN
  /\ account' = [account EXCEPT
       ![b] = [available |-> @.available,
               reserved  |-> @.reserved - amount,
               finalized |-> @.finalized + amount]]
  /\ reservation' = [reservation EXCEPT ![o].status = "FINALIZED",
                                        ![o].spend  = spend]

\* available + (amount - spend), reserved - amount, finalized_spend + spend
PostFinalize(o, spend) ==
  LET b == reservation[o].budget  amount == reservation[o].amount IN
  /\ account' = [account EXCEPT
       ![b] = [available |-> @.available + (amount - spend),
               reserved  |-> @.reserved - amount,
               finalized |-> @.finalized + spend]]
  /\ reservation' = [reservation EXCEPT ![o].status = "FINALIZED",
                                        ![o].spend  = spend]

-----------------------------------------------------------------------------
(* When a posting may happen. *)

AcctReserve(o, b, amount) ==
  /\ reservation[o].status = "NONE"
  /\ amount > 0
  /\ account[b].available >= amount
  /\ PostReserve(o, b, amount)

AcctAdvance(o, from, to) ==
  /\ reservation[o].status = from
  /\ PostStatus(o, to)

AcctRelease(S, status) ==
  /\ S \subseteq WithStatus(LiveStatuses)
  /\ PostRelease(S, status)

AcctSettle(o, spend) ==
  /\ reservation[o].status = "BROADCAST"
  /\ spend <= reservation[o].amount
  /\ PostFinalize(o, spend)

\* Any row the CHECK budget_reservations_terminal_spend admits as DISPUTED: also
\* one whose funds have already gone back (resolveRecovery AMBIGUOUS / CONFLICT).
AcctDispute(o) ==
  /\ reservation[o].status \in ReservationStatuses \ {"DISPUTED"}
  /\ reservation[o].spend = 0
  /\ PostStatus(o, "DISPUTED")

AccountingNext ==
  \/ \E o \in Operations, b \in Budgets, amount \in 1..MaxAmount :
       AcctReserve(o, b, amount)
  \/ \E o \in Operations : AcctAdvance(o, "HELD", "AUTHORIZED")
  \/ \E o \in Operations : AcctAdvance(o, "AUTHORIZED", "BROADCAST")
  \/ \E S \in SUBSET Operations : \E status \in {"RELEASED", "EXPIRED"} :
       AcctRelease(S, status)
  \/ \E o \in Operations, spend \in 0..MaxAmount : AcctSettle(o, spend)
  \/ \E o \in Operations : AcctDispute(o)

\* The promise about money: a reservation is made once, within `available`; funds
\* are returned or settled once, and only while the reservation is live; a
\* dispute moves none.  Every service that writes the two tables keeps to it.
AccountingSpec == AccountingInit /\ [][AccountingNext]_moneyVars

-----------------------------------------------------------------------------
(* Properties. *)

\* Every budget's columns stay non-negative and always add up to `allocated`:
\* the CHECK constraints budget_accounts_nonnegative and
\* budget_accounts_invariant never abort a transaction.
AccountBalanced ==
  \A b \in Budgets :
    /\ account[b].available >= 0
    /\ account[b].reserved  >= 0
    /\ account[b].finalized >= 0
    /\ account[b].available + account[b].reserved + account[b].finalized
         = Allocated[b]

\* The reserved column covers every reservation that can still be released or
\* settled (so no release or settlement can underflow it), and holds nothing
\* that is neither live nor disputed.
ReservedBacking ==
  \A b \in Budgets :
    /\ Value(InBudget(WithStatus(LiveStatuses), b)) <= account[b].reserved
    /\ account[b].reserved
         <= Value(InBudget(WithStatus(LiveStatuses \union {"DISPUTED"}), b))

\* finalized_spend is exactly the spend recorded on the budget's reservations,
\* and only a FINALIZED reservation records one, never more than its amount.
FinalizedIsSpend ==
  /\ \A b \in Budgets : account[b].finalized = Spent(InBudget(Operations, b))
  /\ \A o \in Operations :
       /\ reservation[o].spend <= reservation[o].amount
       /\ reservation[o].spend > 0 => reservation[o].status = "FINALIZED"

=============================================================================
