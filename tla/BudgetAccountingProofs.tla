------------------------ MODULE BudgetAccountingProofs ------------------------
(* Proofs about BudgetAccounting for every set of operations and budgets, every *)
(* allocation and every bound on the amounts.                                   *)
EXTENDS BudgetAccounting, FiniteSetTheorems, TLAPS

Weights == [Operations -> 0..MaxAmount]

-----------------------------------------------------------------------------
(* What the sum Total(S, f) is. *)

\* The units of a set of operations are finite, so a total is a natural number.
LEMMA TotalNat ==
  ASSUME NEW S \in SUBSET Operations, NEW f \in Weights
  PROVE  IsFiniteSet(UnitsOf(S, f)) /\ Total(S, f) \in Nat
<1>1. IsFiniteSet(S)
  BY OperationsAssumption, FS_Subset
<1>2. IsFiniteSet(1..MaxAmount)
  BY MaxAmountAssumption, FS_Interval
<1>3. IsFiniteSet(S \X (1..MaxAmount))
  BY <1>1, <1>2, FS_Product
<1>4. UnitsOf(S, f) \subseteq S \X (1..MaxAmount)
  BY DEF UnitsOf
<1>5. IsFiniteSet(UnitsOf(S, f))
  BY <1>3, <1>4, FS_Subset
<1> QED
  BY <1>5, FS_CardinalityType DEF Total

\* The total of two disjoint sets of operations is the sum of their totals.
LEMMA TotalSplit ==
  ASSUME NEW S \in SUBSET Operations, NEW T \in SUBSET Operations,
         NEW f \in Weights, S \cap T = {}
  PROVE  Total(S \union T, f) = Total(S, f) + Total(T, f)
<1>1. UnitsOf(S \union T, f) = UnitsOf(S, f) \union UnitsOf(T, f)
  BY DEF UnitsOf
<1>2. UnitsOf(S, f) \cap UnitsOf(T, f) = {}
  BY DEF UnitsOf
<1>3. /\ IsFiniteSet(UnitsOf(S, f)) /\ Total(S, f) \in Nat
      /\ IsFiniteSet(UnitsOf(T, f)) /\ Total(T, f) \in Nat
  BY TotalNat
<1>4. Cardinality(UnitsOf(S, f) \union UnitsOf(T, f))
        = Cardinality(UnitsOf(S, f)) + Cardinality(UnitsOf(T, f))
            - Cardinality(UnitsOf(S, f) \cap UnitsOf(T, f))
  BY <1>3, FS_Union
<1>5. Cardinality(UnitsOf(S, f) \cap UnitsOf(T, f)) = 0
  BY <1>2, FS_EmptySet
<1>6. Total(S \union T, f) = Total(S, f) + Total(T, f) - 0
  BY <1>1, <1>4, <1>5, Zenon DEF Total
<1> QED
  BY <1>3, <1>6

\* The total of one operation is its weight.
LEMMA TotalSingle ==
  ASSUME NEW o \in Operations, NEW f \in Weights
  PROVE  Total({o}, f) = f[o]
<1>1. f[o] \in Nat /\ f[o] <= MaxAmount
  BY MaxAmountAssumption DEF Weights
<1>2. UnitsOf({o}, f) = {o} \X (1..f[o])
  <2>1. UnitsOf({o}, f) \subseteq {o} \X (1..f[o])
    BY <1>1, MaxAmountAssumption DEF UnitsOf
  <2>2. {o} \X (1..f[o]) \subseteq UnitsOf({o}, f)
    BY <1>1, MaxAmountAssumption DEF UnitsOf
  <2> QED BY <2>1, <2>2
<1>3. IsFiniteSet({o}) /\ Cardinality({o}) = 1
  BY FS_Singleton
<1>4. IsFiniteSet(1..f[o]) /\ Cardinality(1..f[o]) = f[o]
  BY <1>1, FS_Interval
<1>5. Cardinality({o} \X (1..f[o])) = Cardinality({o}) * Cardinality(1..f[o])
  BY <1>3, <1>4, FS_Product, Zenon
<1>6. Total({o}, f) = 1 * f[o]
  BY <1>2, <1>3, <1>4, <1>5, Zenon DEF Total
<1> QED
  BY <1>1, <1>6

\* A total only depends on the weights of the operations it sums.
LEMMA TotalExt ==
  ASSUME NEW S \in SUBSET Operations, NEW f \in Weights, NEW g \in Weights,
         \A o \in S : f[o] = g[o]
  PROVE  Total(S, f) = Total(S, g)
<1>1. UnitsOf(S, f) = UnitsOf(S, g)
  BY DEF UnitsOf
<1> QED
  BY <1>1 DEF Total

\* One operation's share of a total.
Share(o, S, f) == IF o \in S THEN f[o] ELSE 0

\* When one operation enters, leaves or changes its weight, the total changes by
\* its share and by nothing else.
LEMMA TotalChange ==
  ASSUME NEW S \in SUBSET Operations, NEW T \in SUBSET Operations,
         NEW f \in Weights, NEW g \in Weights, NEW o \in Operations,
         S \ {o} = T \ {o},
         \A p \in Operations \ {o} : f[p] = g[p]
  PROVE  /\ Total(S, f) - Share(o, S, f) = Total(T, g) - Share(o, T, g)
         /\ Total(S, f) - Share(o, S, f) \in Nat
<1> DEFINE R == S \ {o}
<1>1. /\ Total(R, f) = Total(R, g) /\ Total(R, f) \in Nat
  <2>1. Total(R, f) = Total(R, g)
    BY TotalExt
  <2> QED BY <2>1, TotalNat
<1>2. ASSUME NEW A \in SUBSET Operations, NEW h \in Weights, A \ {o} = R
      PROVE  Total(A, h) - Share(o, A, h) = Total(R, h)
  <2>1. h[o] \in Nat
    BY MaxAmountAssumption DEF Weights
  <2>2. Total(R, h) \in Nat
    BY TotalNat
  <2>3. CASE o \in A
    <3>1. A = R \union {o} /\ R \cap {o} = {}
      BY <1>2, <2>3
    <3>2. Total(A, h) = Total(R, h) + Total({o}, h)
      BY <3>1, TotalSplit
    <3>3. Total({o}, h) = h[o]
      BY TotalSingle
    <3> QED BY <2>1, <2>2, <2>3, <3>2, <3>3 DEF Share
  <2>4. CASE o \notin A
    <3>1. A = R
      BY <1>2, <2>4
    <3> QED BY <2>2, <2>4, <3>1 DEF Share
  <2> QED BY <2>3, <2>4
<1>3. Total(S, f) - Share(o, S, f) = Total(R, f)
  BY <1>2
<1>4. Total(T, g) - Share(o, T, g) = Total(R, g)
  BY <1>2
<1> QED
  BY <1>1, <1>3, <1>4

-----------------------------------------------------------------------------
(* The three sums the invariants speak of, and one row's share of each. *)

OpenStatuses == LiveStatuses \union {"DISPUTED"}

LiveValue(b)  == Value(InBudget(WithStatus(LiveStatuses), b))
OpenValue(b)  == Value(InBudget(WithStatus(OpenStatuses), b))
SpentValue(b) == Spent(InBudget(Operations, b))

LiveShare(o, b) ==
  IF reservation[o].status \in LiveStatuses /\ reservation[o].budget = b
  THEN reservation[o].amount ELSE 0
OpenShare(o, b) ==
  IF reservation[o].status \in OpenStatuses /\ reservation[o].budget = b
  THEN reservation[o].amount ELSE 0
SpentShare(o, b) ==
  IF reservation[o].budget = b THEN reservation[o].spend ELSE 0

\* The amount and spend columns are weights.
LEMMA ColumnsAreWeights ==
  ASSUME AccountingTypeOK
  PROVE  Amounts \in Weights /\ Spends \in Weights
BY DEF AccountingTypeOK, Amounts, Spends, Weights

\* The sums are natural numbers.
LEMMA SumsAreNat ==
  ASSUME AccountingTypeOK, NEW b \in Budgets
  PROVE  LiveValue(b) \in Nat /\ OpenValue(b) \in Nat /\ SpentValue(b) \in Nat
<1>1. /\ InBudget(WithStatus(LiveStatuses), b) \in SUBSET Operations
      /\ InBudget(WithStatus(OpenStatuses), b) \in SUBSET Operations
      /\ InBudget(Operations, b) \in SUBSET Operations
  BY DEF InBudget, WithStatus
<1> QED
  BY <1>1, ColumnsAreWeights, TotalNat
     DEF LiveValue, OpenValue, SpentValue, Value, Spent

\* The same in the state after a step.
LEMMA SumsAreNatNext ==
  ASSUME AccountingTypeOK', NEW b \in Budgets
  PROVE  LiveValue(b)' \in Nat /\ OpenValue(b)' \in Nat /\ SpentValue(b)' \in Nat
<1>1. /\ InBudget(WithStatus(LiveStatuses), b)' \in SUBSET Operations
      /\ InBudget(WithStatus(OpenStatuses), b)' \in SUBSET Operations
      /\ InBudget(Operations, b)' \in SUBSET Operations
  BY DEF InBudget, WithStatus
<1>2. Amounts' \in Weights /\ Spends' \in Weights
  BY DEF AccountingTypeOK, Amounts, Spends, Weights
<1> QED
  BY <1>1, <1>2, TotalNat
     DEF LiveValue, OpenValue, SpentValue, Value, Spent

\* A step that writes one row moves each sum by that row's share.
LEMMA OneRowChange ==
  ASSUME AccountingTypeOK, AccountingTypeOK', NEW o \in Operations,
         NEW b \in Budgets,
         \A p \in Operations \ {o} : reservation'[p] = reservation[p]
  PROVE  /\ LiveValue(b)' - LiveShare(o, b)' = LiveValue(b) - LiveShare(o, b)
         /\ OpenValue(b)' - OpenShare(o, b)' = OpenValue(b) - OpenShare(o, b)
         /\ SpentValue(b)' - SpentShare(o, b)' = SpentValue(b) - SpentShare(o, b)
         /\ LiveValue(b) - LiveShare(o, b) \in Nat
<1>1. /\ Amounts \in Weights /\ Amounts' \in Weights
      /\ Spends \in Weights /\ Spends' \in Weights
      /\ \A p \in Operations \ {o} : Amounts[p] = Amounts'[p]
      /\ \A p \in Operations \ {o} : Spends[p] = Spends'[p]
      /\ Amounts[o] = reservation[o].amount
      /\ (Amounts')[o] = reservation'[o].amount
      /\ Spends[o] = reservation[o].spend
      /\ (Spends')[o] = reservation'[o].spend
  BY DEF AccountingTypeOK, Amounts, Spends, Weights
<1>2. ASSUME NEW T
      PROVE  LET A == InBudget(WithStatus(T), b) IN
             /\ A \in SUBSET Operations /\ A' \in SUBSET Operations
             /\ A \ {o} = A' \ {o}
             /\ o \in A <=> reservation[o].status \in T /\ reservation[o].budget = b
             /\ o \in A' <=> reservation'[o].status \in T /\ reservation'[o].budget = b
  BY DEF InBudget, WithStatus
<1>3. LET A == InBudget(Operations, b) IN
      /\ A \in SUBSET Operations /\ A' \in SUBSET Operations
      /\ A \ {o} = A' \ {o}
      /\ o \in A <=> reservation[o].budget = b
      /\ o \in A' <=> reservation'[o].budget = b
  BY DEF InBudget
<1>4. /\ LiveValue(b)' - LiveShare(o, b)' = LiveValue(b) - LiveShare(o, b)
      /\ LiveValue(b) - LiveShare(o, b) \in Nat
  <2> DEFINE A == InBudget(WithStatus(LiveStatuses), b)
  <2>1. /\ A \in SUBSET Operations /\ A' \in SUBSET Operations
        /\ A \ {o} = A' \ {o}
        /\ o \in A <=> reservation[o].status \in LiveStatuses /\ reservation[o].budget = b
        /\ o \in A' <=> reservation'[o].status \in LiveStatuses /\ reservation'[o].budget = b
    BY <1>2
  <2>2. /\ Share(o, A, Amounts) = LiveShare(o, b)
        /\ Share(o, A', Amounts') = LiveShare(o, b)'
    BY <1>1, <2>1, Zenon DEF Share, LiveShare
  <2> HIDE DEF A
  <2>3. /\ Total(A, Amounts) - Share(o, A, Amounts)
             = Total(A', Amounts') - Share(o, A', Amounts')
        /\ Total(A, Amounts) - Share(o, A, Amounts) \in Nat
    BY <1>1, <2>1, TotalChange
  <2> USE DEF A
  <2> QED BY <2>2, <2>3, Zenon DEF LiveValue, Value
<1>5. OpenValue(b)' - OpenShare(o, b)' = OpenValue(b) - OpenShare(o, b)
  <2> DEFINE A == InBudget(WithStatus(OpenStatuses), b)
  <2>1. /\ A \in SUBSET Operations /\ A' \in SUBSET Operations
        /\ A \ {o} = A' \ {o}
        /\ o \in A <=> reservation[o].status \in OpenStatuses /\ reservation[o].budget = b
        /\ o \in A' <=> reservation'[o].status \in OpenStatuses /\ reservation'[o].budget = b
    BY <1>2
  <2>2. /\ Share(o, A, Amounts) = OpenShare(o, b)
        /\ Share(o, A', Amounts') = OpenShare(o, b)'
    BY <1>1, <2>1, Zenon DEF Share, OpenShare
  <2> HIDE DEF A
  <2>3. Total(A, Amounts) - Share(o, A, Amounts)
             = Total(A', Amounts') - Share(o, A', Amounts')
    BY <1>1, <2>1, TotalChange
  <2> USE DEF A
  <2> QED BY <2>2, <2>3, Zenon DEF OpenValue, Value
<1>6. SpentValue(b)' - SpentShare(o, b)' = SpentValue(b) - SpentShare(o, b)
  <2> DEFINE A == InBudget(Operations, b)
  <2>2. /\ Share(o, A, Spends) = SpentShare(o, b)
        /\ Share(o, A', Spends') = SpentShare(o, b)'
    BY <1>1, <1>3, Zenon DEF Share, SpentShare
  <2> HIDE DEF A
  <2>3. Total(A, Spends) - Share(o, A, Spends)
             = Total(A', Spends') - Share(o, A', Spends')
    <3>1. A \in SUBSET Operations /\ A' \in SUBSET Operations /\ A \ {o} = A' \ {o}
      BY <1>3 DEF A
    <3> QED BY <1>1, <3>1, TotalChange
  <2> USE DEF A
  <2> QED BY <2>2, <2>3, Zenon DEF SpentValue, Spent
<1> QED BY <1>4, <1>5, <1>6

-----------------------------------------------------------------------------
(* The inductive invariant.  None of the three money properties is inductive   *)
(* alone: a release keeps `reserved` non-negative only because ReservedBacking *)
(* says the column covers the released rows, and a settlement keeps             *)
(* FinalizedIsSpend only because an unsettled row records no spend.             *)

AccountingInv ==
  AccountingTypeOK /\ AccountBalanced /\ ReservedBacking /\ FinalizedIsSpend

\* AccountingInv with the sums under their names, one budget at a time.
BudgetOK(b) ==
  /\ account[b].available >= 0 /\ account[b].reserved >= 0
  /\ account[b].finalized >= 0
  /\ account[b].available + account[b].reserved + account[b].finalized
       = Allocated[b]
  /\ LiveValue(b) <= account[b].reserved
  /\ account[b].reserved <= OpenValue(b)
  /\ account[b].finalized = SpentValue(b)

RowOK(o) ==
  /\ reservation[o].spend <= reservation[o].amount
  /\ reservation[o].spend > 0 => reservation[o].status = "FINALIZED"

\* The invariant, budget by budget and row by row, before and after a step.
LEMMA InvByBudgetAndRow ==
  AccountingInv <=> /\ AccountingTypeOK
                    /\ \A b \in Budgets : BudgetOK(b)
                    /\ \A o \in Operations : RowOK(o)
BY DEF AccountingInv, AccountBalanced, ReservedBacking, FinalizedIsSpend,
       BudgetOK, RowOK, LiveValue, OpenValue, SpentValue, OpenStatuses

\* The same, of the next state: what a step has to establish.
LEMMA InvByBudgetAndRowNext ==
  ASSUME AccountingTypeOK', \A b \in Budgets : BudgetOK(b)',
         \A o \in Operations : RowOK(o)'
  PROVE  AccountingInv'
BY DEF AccountingInv, AccountBalanced, ReservedBacking, FinalizedIsSpend,
       BudgetOK, RowOK, LiveValue, OpenValue, SpentValue, OpenStatuses

\* The tables start empty: every sum is zero.
LEMMA InitInv == AccountingInit => AccountingInv
<1> SUFFICES ASSUME AccountingInit PROVE AccountingInv
  OBVIOUS
<1>1. AccountingTypeOK
  BY AllocatedAssumption, MaxAmountAssumption
     DEF AccountingInit, AccountingTypeOK, NoReservation
<1>2. ASSUME NEW b \in Budgets PROVE BudgetOK(b)
  <2>1. /\ InBudget(WithStatus(LiveStatuses), b) = {}
        /\ InBudget(WithStatus(OpenStatuses), b) = {}
        /\ InBudget(Operations, b) = {}
    BY NoneAssumption
       DEF AccountingInit, NoReservation, InBudget, WithStatus, LiveStatuses,
           OpenStatuses
  <2>2. ASSUME NEW f PROVE Total({}, f) = 0
    <3>1. UnitsOf({}, f) = {}
      BY DEF UnitsOf
    <3> QED BY <3>1, FS_EmptySet DEF Total
  <2>3. LiveValue(b) = 0 /\ OpenValue(b) = 0 /\ SpentValue(b) = 0
    BY <2>1, <2>2 DEF LiveValue, OpenValue, SpentValue, Value, Spent
  <2> QED
    BY <2>3, AllocatedAssumption DEF AccountingInit, BudgetOK
<1>3. ASSUME NEW o \in Operations PROVE RowOK(o)
  BY DEF AccountingInit, NoReservation, RowOK
<1> QED BY <1>1, <1>2, <1>3, InvByBudgetAndRow

\* A step that writes one row preserves the invariant when the account columns
\* move by what the row's shares move by.
LEMMA OneRowInv ==
  ASSUME AccountingInv, AccountingTypeOK', NEW o \in Operations,
         \A p \in Operations \ {o} : reservation'[p] = reservation[p],
         RowOK(o)',
         \A c \in Budgets :
           LET moved == account'[c].reserved - account[c].reserved IN
           /\ LiveShare(o, c)' - LiveShare(o, c) <= moved
           /\ moved <= OpenShare(o, c)' - OpenShare(o, c)
           /\ account'[c].finalized - account[c].finalized
                = SpentShare(o, c)' - SpentShare(o, c)
           /\ account'[c].available >= 0
           /\ account'[c].available + account'[c].reserved + account'[c].finalized
                = account[c].available + account[c].reserved + account[c].finalized
  PROVE  AccountingInv'
<1>1. /\ AccountingTypeOK
      /\ \A b \in Budgets : BudgetOK(b)
      /\ \A p \in Operations : RowOK(p)
  BY InvByBudgetAndRow
<1>2. ASSUME NEW c \in Budgets PROVE BudgetOK(c)'
  <2>1. /\ LiveValue(c)' - LiveShare(o, c)' = LiveValue(c) - LiveShare(o, c)
        /\ OpenValue(c)' - OpenShare(o, c)' = OpenValue(c) - OpenShare(o, c)
        /\ SpentValue(c)' - SpentShare(o, c)' = SpentValue(c) - SpentShare(o, c)
    BY <1>1, OneRowChange
  <2>2. /\ LiveValue(c) \in Nat /\ OpenValue(c) \in Nat /\ SpentValue(c) \in Nat
        /\ LiveValue(c)' \in Nat /\ OpenValue(c)' \in Nat /\ SpentValue(c)' \in Nat
    BY <1>1, SumsAreNat, SumsAreNatNext
  <2>3. /\ account[c].available \in Int /\ account[c].reserved \in Int
        /\ account[c].finalized \in Int /\ Allocated[c] \in Nat
        /\ account'[c].available \in Int /\ account'[c].reserved \in Int
        /\ account'[c].finalized \in Int
    BY <1>1, AllocatedAssumption DEF AccountingTypeOK
  <2>4. /\ LiveShare(o, c) \in Int /\ OpenShare(o, c) \in Int
        /\ SpentShare(o, c) \in Int /\ LiveShare(o, c)' \in Int
        /\ OpenShare(o, c)' \in Int /\ SpentShare(o, c)' \in Int
    BY <1>1, MaxAmountAssumption
       DEF AccountingTypeOK, LiveShare, OpenShare, SpentShare
  <2>5. BudgetOK(c)
    BY <1>1
  <2> QED BY <2>1, <2>2, <2>3, <2>4, <2>5 DEF BudgetOK
<1>3. ASSUME NEW p \in Operations PROVE RowOK(p)'
  BY <1>1 DEF RowOK
<1> QED BY <1>2, <1>3, InvByBudgetAndRowNext

\* Every posting under its abstract guard preserves the invariant.
LEMMA NextInv ==
  AccountingInv /\ [AccountingNext]_moneyVars => AccountingInv'
<1> SUFFICES ASSUME AccountingInv, [AccountingNext]_moneyVars
             PROVE  AccountingInv'
  OBVIOUS
<1> USE MaxAmountAssumption
<1>0. /\ AccountingTypeOK
      /\ \A b \in Budgets : BudgetOK(b)
      /\ \A o \in Operations : RowOK(o)
  BY InvByBudgetAndRow
<1>1. ASSUME NEW o \in Operations, NEW b \in Budgets,
             NEW amount \in 1..MaxAmount, AcctReserve(o, b, amount)
      PROVE  AccountingInv'
  <2>1. AccountingTypeOK'
    BY <1>0, <1>1
       DEF AcctReserve, PostReserve, AccountingTypeOK, ReservationStatuses
  <2>2. /\ reservation'[o] = [status |-> "HELD", budget |-> b,
                              amount |-> amount, spend |-> 0]
        /\ \A p \in Operations \ {o} : reservation'[p] = reservation[p]
        /\ reservation[o].status = "NONE" /\ reservation[o].spend = 0
    BY <1>0, <1>1 DEF AcctReserve, PostReserve, AccountingTypeOK, RowOK
  <2>3. ASSUME NEW c \in Budgets
        PROVE  /\ LiveShare(o, c) = 0 /\ OpenShare(o, c) = 0
               /\ SpentShare(o, c) = 0 /\ SpentShare(o, c)' = 0
               /\ LiveShare(o, c)' = IF c = b THEN amount ELSE 0
               /\ OpenShare(o, c)' = IF c = b THEN amount ELSE 0
    BY <2>2 DEF LiveShare, OpenShare, SpentShare, LiveStatuses, OpenStatuses
  <2>4. ASSUME NEW c \in Budgets
        PROVE  /\ account'[c].available
                    = account[c].available - (IF c = b THEN amount ELSE 0)
               /\ account'[c].reserved
                    = account[c].reserved + (IF c = b THEN amount ELSE 0)
               /\ account'[c].finalized = account[c].finalized
               /\ account'[c].available >= 0
    BY <1>0, <1>1 DEF AcctReserve, PostReserve, AccountingTypeOK, BudgetOK
  <2>5. RowOK(o)'
    BY <2>2 DEF RowOK
  <2>6. \A c \in Budgets : account[c].available \in Int
          /\ account[c].reserved \in Int /\ account[c].finalized \in Int
    BY <1>0 DEF AccountingTypeOK
  <2>7. \A c \in Budgets :
           LET moved == account'[c].reserved - account[c].reserved IN
           /\ LiveShare(o, c)' - LiveShare(o, c) <= moved
           /\ moved <= OpenShare(o, c)' - OpenShare(o, c)
           /\ account'[c].finalized - account[c].finalized
                = SpentShare(o, c)' - SpentShare(o, c)
           /\ account'[c].available >= 0
           /\ account'[c].available + account'[c].reserved + account'[c].finalized
                = account[c].available + account[c].reserved + account[c].finalized
    BY <2>3, <2>4, <2>6
  <2> QED BY <2>1, <2>2, <2>5, <2>7, OneRowInv
<1>2. ASSUME NEW o \in Operations, NEW status \in ReservationStatuses,
             PostStatus(o, status),
             \/ /\ reservation[o].status \in LiveStatuses
                /\ status \in LiveStatuses
             \/ /\ reservation[o].status \in ReservationStatuses
                /\ reservation[o].spend = 0
                /\ status = "DISPUTED"
      PROVE  AccountingInv'
  <2>1. /\ reservation'[o] = [reservation[o] EXCEPT !.status = status]
        /\ \A p \in Operations \ {o} : reservation'[p] = reservation[p]
        /\ account' = account
    BY <1>0, <1>2 DEF PostStatus, AccountingTypeOK
  <2>2. AccountingTypeOK'
    BY <1>0, <1>2 DEF PostStatus, AccountingTypeOK
  <2>3. /\ reservation'[o].status = status
        /\ reservation'[o].budget = reservation[o].budget
        /\ reservation'[o].amount = reservation[o].amount
        /\ reservation'[o].spend = reservation[o].spend
        /\ reservation[o].spend = 0
        /\ reservation[o].amount \in Nat
    BY <1>0, <1>2, <2>1 DEF AccountingTypeOK, RowOK, LiveStatuses
  <2>4. RowOK(o)'
    BY <2>3 DEF RowOK
  <2>5. ASSUME NEW c \in Budgets
        PROVE  /\ LiveShare(o, c)' <= LiveShare(o, c)
               /\ OpenShare(o, c) <= OpenShare(o, c)'
               /\ SpentShare(o, c)' = 0 /\ SpentShare(o, c) = 0
               /\ LiveShare(o, c) \in Nat /\ OpenShare(o, c) \in Nat
               /\ LiveShare(o, c)' \in Nat /\ OpenShare(o, c)' \in Nat
    BY <1>2, <2>3
       DEF LiveShare, OpenShare, SpentShare, LiveStatuses, OpenStatuses
  <2>6. \A c \in Budgets : account[c].available \in Int
          /\ account[c].reserved \in Int /\ account[c].finalized \in Int
          /\ account[c].available >= 0
    BY <1>0 DEF AccountingTypeOK, BudgetOK
  <2>7. \A c \in Budgets :
           LET moved == account'[c].reserved - account[c].reserved IN
           /\ LiveShare(o, c)' - LiveShare(o, c) <= moved
           /\ moved <= OpenShare(o, c)' - OpenShare(o, c)
           /\ account'[c].finalized - account[c].finalized
                = SpentShare(o, c)' - SpentShare(o, c)
           /\ account'[c].available >= 0
           /\ account'[c].available + account'[c].reserved + account'[c].finalized
                = account[c].available + account[c].reserved + account[c].finalized
    BY <2>1, <2>5, <2>6
  <2> QED BY <2>1, <2>2, <2>4, <2>7, OneRowInv
<1>3. ASSUME NEW S \in SUBSET Operations, NEW status \in {"RELEASED", "EXPIRED"},
             AcctRelease(S, status)
      PROVE  AccountingInv'
  <2>1. ASSUME NEW c \in Budgets
        PROVE  Value(InBudget(S, c)) \in Nat
    <3>1. InBudget(S, c) \in SUBSET Operations
      BY DEF InBudget
    <3> QED BY <1>0, <3>1, ColumnsAreWeights, TotalNat DEF Value
  <2>2. ASSUME NEW c \in Budgets
        PROVE  /\ account'[c].available
                    = account[c].available + Value(InBudget(S, c))
               /\ account'[c].reserved
                    = account[c].reserved - Value(InBudget(S, c))
               /\ account'[c].finalized = account[c].finalized
    BY <1>0, <1>3 DEF AcctRelease, PostRelease, AccountingTypeOK
  <2>3. /\ \A o \in S : reservation'[o] = [reservation[o] EXCEPT !.status = status]
        /\ \A o \in Operations \ S : reservation'[o] = reservation[o]
        /\ \A o \in S : reservation[o].status \in LiveStatuses
    BY <1>3 DEF AcctRelease, PostRelease, WithStatus
  <2>4. AccountingTypeOK'
    <3>1. account' \in
            [Budgets -> [available : Int, reserved : Int, finalized : Int]]
      BY <1>0, <1>3, <2>1 DEF AcctRelease, PostRelease, AccountingTypeOK
    <3>2. reservation' \in
            [Operations -> [status : ReservationStatuses \union {"NONE"},
                            budget : Budgets \union {None},
                            amount : 0..MaxAmount, spend : 0..MaxAmount]]
      BY <1>0, <1>3
         DEF AcctRelease, PostRelease, AccountingTypeOK, ReservationStatuses
    <3> QED BY <3>1, <3>2 DEF AccountingTypeOK
  <2>5. /\ \A o \in Operations : reservation'[o].budget = reservation[o].budget
        /\ \A o \in Operations : reservation'[o].spend = reservation[o].spend
        /\ \A o \in Operations : reservation'[o].amount = reservation[o].amount
        /\ \A o \in S : reservation'[o].status = status
    <3>1. ASSUME NEW o \in Operations
          PROVE  /\ reservation'[o].budget = reservation[o].budget
                 /\ reservation'[o].spend = reservation[o].spend
                 /\ reservation'[o].amount = reservation[o].amount
                 /\ o \in S => reservation'[o].status = status
      <4>1. reservation[o] \in [status : ReservationStatuses \union {"NONE"},
                                budget : Budgets \union {None},
                                amount : 0..MaxAmount, spend : 0..MaxAmount]
        BY <1>0 DEF AccountingTypeOK
      <4> QED BY <2>3, <4>1
    <3> QED BY <3>1
  <2>6. Amounts' = Amounts /\ Spends' = Spends
    BY <2>5 DEF Amounts, Spends
  <2>7. ASSUME NEW c \in Budgets,
               NEW T \in {LiveStatuses, OpenStatuses}
        PROVE  Value(InBudget(WithStatus(T), c))'
                 = Value(InBudget(WithStatus(T), c)) - Value(InBudget(S, c))
    <3> DEFINE A == InBudget(WithStatus(T), c)
               R == InBudget(S, c)
    <3>1. A' \in SUBSET Operations /\ R \in SUBSET Operations
      BY DEF InBudget, WithStatus
    <3>2. A = A' \union R /\ A' \cap R = {}
      BY <2>3, <2>5
         DEF InBudget, WithStatus, LiveStatuses, OpenStatuses
    <3> HIDE DEF A, R
    <3>3. Total(A, Amounts) = Total(A', Amounts) + Total(R, Amounts)
      BY <1>0, <3>1, <3>2, ColumnsAreWeights, TotalSplit
    <3>4. Total(A', Amounts) \in Nat /\ Total(R, Amounts) \in Nat
      BY <1>0, <3>1, ColumnsAreWeights, TotalNat
    <3>5. Total(A', Amounts') = Total(A, Amounts) - Total(R, Amounts)
      BY <2>6, <3>3, <3>4
    <3> USE DEF A, R
    <3> QED BY <3>5, Zenon DEF Value
  <2>8. ASSUME NEW c \in Budgets
        PROVE  /\ LiveValue(c)' = LiveValue(c) - Value(InBudget(S, c))
               /\ OpenValue(c)' = OpenValue(c) - Value(InBudget(S, c))
               /\ SpentValue(c)' = SpentValue(c)
    <3>1. InBudget(Operations, c)' = InBudget(Operations, c)
      BY <2>5 DEF InBudget
    <3>2. SpentValue(c)' = SpentValue(c)
      BY <2>6, <3>1 DEF SpentValue, Spent
    <3> QED BY <2>7, <3>2 DEF LiveValue, OpenValue
  <2>9. ASSUME NEW c \in Budgets PROVE BudgetOK(c)'
    <3>1. /\ LiveValue(c) \in Nat /\ OpenValue(c) \in Nat /\ SpentValue(c) \in Nat
          /\ LiveValue(c)' \in Nat /\ OpenValue(c)' \in Nat /\ SpentValue(c)' \in Nat
      BY <1>0, <2>4, SumsAreNat, SumsAreNatNext
    <3>2. /\ account[c].available \in Int /\ account[c].reserved \in Int
          /\ account[c].finalized \in Int /\ Allocated[c] \in Nat
      BY <1>0, AllocatedAssumption DEF AccountingTypeOK
    <3>3. BudgetOK(c)
      BY <1>0
    <3> QED BY <2>1, <2>2, <2>8, <3>1, <3>2, <3>3 DEF BudgetOK
  <2>10. ASSUME NEW o \in Operations PROVE RowOK(o)'
    BY <1>0, <2>3, <2>5 DEF RowOK, LiveStatuses
  <2> QED BY <2>4, <2>9, <2>10, InvByBudgetAndRowNext
<1>4. ASSUME NEW o \in Operations, NEW spend \in 0..MaxAmount,
             AcctSettle(o, spend)
      PROVE  AccountingInv'
  <2>1. AccountingTypeOK'
    <3>1. /\ reservation[o].budget \in Budgets \union {None}
          /\ reservation[o].amount \in Int /\ spend \in Int
      BY <1>0 DEF AccountingTypeOK
    <3>2. account' \in
            [Budgets -> [available : Int, reserved : Int, finalized : Int]]
      <4>1. CASE reservation[o].budget \in Budgets
        BY <1>0, <1>4, <3>1, <4>1 DEF AcctSettle, PostFinalize, AccountingTypeOK
      <4>2. CASE reservation[o].budget \notin Budgets
        <5>1. account' = account
          BY <1>0, <1>4, <4>2 DEF AcctSettle, PostFinalize, AccountingTypeOK
        <5> QED BY <1>0, <5>1 DEF AccountingTypeOK
      <4> QED BY <4>1, <4>2
    <3>3. reservation' \in
            [Operations -> [status : ReservationStatuses \union {"NONE"},
                            budget : Budgets \union {None},
                            amount : 0..MaxAmount, spend : 0..MaxAmount]]
      BY <1>0, <1>4
         DEF AcctSettle, PostFinalize, AccountingTypeOK, ReservationStatuses
    <3> QED BY <3>2, <3>3 DEF AccountingTypeOK
  <2>2. /\ reservation'[o].status = "FINALIZED" /\ reservation'[o].spend = spend
        /\ reservation'[o].budget = reservation[o].budget
        /\ reservation'[o].amount = reservation[o].amount
        /\ \A p \in Operations \ {o} : reservation'[p] = reservation[p]
        /\ reservation[o].status = "BROADCAST" /\ reservation[o].spend = 0
        /\ spend <= reservation[o].amount
        /\ reservation[o].amount \in Nat /\ spend \in Nat
    BY <1>0, <1>4 DEF AcctSettle, PostFinalize, AccountingTypeOK, RowOK
  <2>3. RowOK(o)'
    BY <2>2 DEF RowOK
  <2> DEFINE paid(c) == IF c = reservation[o].budget THEN spend ELSE 0
             freed(c) == IF c = reservation[o].budget
                         THEN reservation[o].amount ELSE 0
  <2>4. ASSUME NEW c \in Budgets
        PROVE  /\ LiveShare(o, c) = freed(c) /\ OpenShare(o, c) = freed(c)
               /\ LiveShare(o, c)' = 0 /\ OpenShare(o, c)' = 0
               /\ SpentShare(o, c) = 0 /\ SpentShare(o, c)' = paid(c)
    BY <2>2 DEF LiveShare, OpenShare, SpentShare, LiveStatuses, OpenStatuses
  <2>5. ASSUME NEW c \in Budgets
        PROVE  /\ account'[c].available
                    = account[c].available + (freed(c) - paid(c))
               /\ account'[c].reserved = account[c].reserved - freed(c)
               /\ account'[c].finalized = account[c].finalized + paid(c)
    BY <1>0, <1>4, <2>2 DEF AcctSettle, PostFinalize, AccountingTypeOK
  <2>6. \A c \in Budgets : account[c].available \in Int
          /\ account[c].reserved \in Int /\ account[c].finalized \in Int
          /\ account[c].available >= 0
          /\ paid(c) \in Nat /\ freed(c) \in Nat /\ paid(c) <= freed(c)
    BY <1>0, <2>2 DEF AccountingTypeOK, BudgetOK
  <2> HIDE DEF paid, freed
  <2>7. \A c \in Budgets :
           LET moved == account'[c].reserved - account[c].reserved IN
           /\ LiveShare(o, c)' - LiveShare(o, c) <= moved
           /\ moved <= OpenShare(o, c)' - OpenShare(o, c)
           /\ account'[c].finalized - account[c].finalized
                = SpentShare(o, c)' - SpentShare(o, c)
           /\ account'[c].available >= 0
           /\ account'[c].available + account'[c].reserved + account'[c].finalized
                = account[c].available + account[c].reserved + account[c].finalized
    BY <2>4, <2>5, <2>6
  <2> QED BY <2>1, <2>2, <2>3, <2>7, OneRowInv
<1>5. CASE UNCHANGED moneyVars
  <2>1. AccountingTypeOK'
    BY <1>0, <1>5 DEF moneyVars, AccountingTypeOK
  <2> QED
    BY <1>5, <2>1
       DEF moneyVars, AccountingInv, AccountBalanced, ReservedBacking,
           FinalizedIsSpend, Value, Spent, Amounts, Spends, InBudget, WithStatus
<1>6. ASSUME NEW o \in Operations, AcctAdvance(o, "HELD", "AUTHORIZED")
      PROVE  AccountingInv'
  BY <1>2, <1>6 DEF AcctAdvance, LiveStatuses, ReservationStatuses
<1>7. ASSUME NEW o \in Operations, AcctAdvance(o, "AUTHORIZED", "BROADCAST")
      PROVE  AccountingInv'
  BY <1>2, <1>7 DEF AcctAdvance, LiveStatuses, ReservationStatuses
<1>8. ASSUME NEW o \in Operations, AcctDispute(o)
      PROVE  AccountingInv'
  BY <1>2, <1>8 DEF AcctDispute, ReservationStatuses
<1> QED
  BY <1>1, <1>3, <1>4, <1>5, <1>6, <1>7, <1>8 DEF AccountingNext

\* The rows and columns of the two money tables always have their types.
THEOREM AccountingTypeCorrect == AccountingSpec => []AccountingTypeOK
<1>1. AccountingInv => AccountingTypeOK
  BY DEF AccountingInv
<1> QED BY <1>1, InitInv, NextInv, PTL DEF AccountingSpec

\* For every allocation and every number of operations, no sequence of postings
\* makes a budget column negative or breaks allocated = available + reserved +
\* finalized_spend: the CHECK constraints of budget_accounts never fire.
THEOREM AccountsStayBalanced == AccountingSpec => []AccountBalanced
<1>1. AccountingInv => AccountBalanced
  BY DEF AccountingInv
<1> QED BY <1>1, InitInv, NextInv, PTL DEF AccountingSpec

\* The reserved column always covers every row that may still be released or
\* settled, and never exceeds those rows and the disputed ones together.
THEOREM ReservedIsBacked == AccountingSpec => []ReservedBacking
<1>1. AccountingInv => ReservedBacking
  BY DEF AccountingInv
<1> QED BY <1>1, InitInv, NextInv, PTL DEF AccountingSpec

\* finalized_spend is always the recorded spend of the finalized reservations.
THEOREM FinalizedSpendIsRecorded == AccountingSpec => []FinalizedIsSpend
<1>1. AccountingInv => FinalizedIsSpend
  BY DEF AccountingInv
<1> QED BY <1>1, InitInv, NextInv, PTL DEF AccountingSpec

=============================================================================
