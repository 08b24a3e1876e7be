--------------------------- MODULE RlmAttemptProofs ---------------------------
(***************************************************************************)
(* What holds of the ledger for every choice of ceilings, widths and       *)
(* amounts, and for callers that follow no protocol; and that the runtime  *)
(* keeps the budget's contract, for every width of batch, any number of    *)
(* workers and every fault of the environment: each granted call is held,  *)
(* owned by one thread, or lost with a REPL that raised; nothing is        *)
(* settled or handed back that was not granted.                            *)
(***************************************************************************)
EXTENDS RlmAttempt, FiniteSetTheorems, TLAPS

-----------------------------------------------------------------------------
(* The ledger, for callers that follow no protocol.                          *)

\* An equal share of a pool, times the calls that leave, is part of the pool.
LEMMA ShareBound ==
    ASSUME NEW pool \in Nat, NEW flight \in Nat \ {0}, NEW n \in 0..flight
    PROVE  /\ (pool \div flight) * n \in Nat
           /\ (pool \div flight) * n <= pool
<1> DEFINE q == pool \div flight
<1>1. q \in Nat /\ q * flight <= pool
  BY SMT
<1>2. q * n <= q * flight /\ q * n \in Nat
  <2> HIDE DEF q
  <2>1. PICK d \in Nat : flight = n + d
    <3>1. flight - n \in Nat /\ flight = n + (flight - n)
      BY SMT
    <3> QED BY <3>1
  <2>2. q * flight = q * n + q * d
    BY <1>1, <2>1, SMT
  <2>3. q * d \in Nat /\ q * n \in Nat
    BY <1>1, <2>1, SMT
  <2> QED BY <2>2, <2>3, SMT
<1> QED BY <1>1, <1>2, SMT

\* The pool that is left is an amount again: giving shares back never drives
\* the provisional debit below zero, whichever calls leave.
LEMMA PoolAfterType ==
    ASSUME BudgetTypeOK, callsInFlight > 0, NEW n \in 0..callsInFlight
    PROVE  PoolAfter(n) \in Amount
<1> SUFFICES ASSUME NEW r \in Resource
             PROVE  (IF n = callsInFlight THEN 0
                     ELSE pending[r] - (pending[r] \div callsInFlight) * n) \in Nat
  BY DEF PoolAfter, Amount
<1>1. pending[r] \in Nat /\ callsInFlight \in Nat \ {0}
  BY DEF BudgetTypeOK, Amount
<1>2. /\ (pending[r] \div callsInFlight) * n \in Nat
      /\ (pending[r] \div callsInFlight) * n <= pending[r]
  BY <1>1, ShareBound
<1> HIDE DEF PoolAfter
<1> DEFINE s == (pending[r] \div callsInFlight) * n
<1>3. s \in Nat /\ s <= pending[r]
  BY <1>2
<1> HIDE DEF s
<1>4. pending[r] - s \in Nat
  BY <1>1, <1>3, SMT
<1> QED BY <1>4 DEF s

\* Giving back the last call empties the pool.
LEMMA PoolAfterLast == PoolAfter(callsInFlight) = NoAmount
BY DEF PoolAfter, NoAmount

\* The strengthening the ceiling and the conservation rest on.
BudgetInv ==
    /\ BudgetTypeOK
    /\ CallCeiling
    /\ Conservation
    /\ PoolEmptiesWithFlight

\* A grant preserves the invariant: it fits, so the ceiling is respected.
LEMMA ReserveInv ==
    ASSUME BudgetInv, NEW n \in Nat \ {0}, NEW est \in Amount, Reserve(n, est)
    PROVE  BudgetInv'
<1> USE DEF BudgetInv
<1>1. BudgetTypeOK'
  BY DEF Reserve, BudgetTypeOK, Amount
<1>2. CallCeiling'
  <2>1. SUFFICES ASSUME MaxCalls # Unset
                 PROVE  (callsSettled + callsInFlight <= MaxCalls + unmatchedSettlements)'
    BY DEF CallCeiling
  <2>2. n <= CallsLeft /\ MaxCalls \in Nat
    BY <2>1, CeilingAssumption DEF Reserve, Refuses, CallsLeft, LeftOf, BudgetTypeOK, Ceilings
  <2>3. callsSettled + callsInFlight + n <= MaxCalls
    BY <2>2 DEF CallsLeft, LeftOf, BudgetTypeOK
  <2> QED BY <2>2, <2>3 DEF Reserve, BudgetTypeOK
<1>3. Conservation'
  BY DEF Reserve, BudgetTypeOK, Conservation
<1>4. PoolEmptiesWithFlight'
  BY DEF Reserve, BudgetTypeOK, PoolEmptiesWithFlight
<1> QED BY <1>1, <1>2, <1>3, <1>4

\* A settlement moves one call from in flight to settled, or is counted apart.
LEMMA SettleInv ==
    ASSUME BudgetInv, NEW usage \in Amount, NEW priced \in BOOLEAN,
           Settle(usage, priced)
    PROVE  BudgetInv'
<1> USE DEF BudgetInv
<1>1. /\ callsSettled' = callsSettled + 1
      /\ settled' \in Amount
      /\ unpricedCalls' \in Nat
      /\ UNCHANGED <<callsReleased, unmatchedReleases, elapsed, granted>>
  BY DEF Settle, BudgetTypeOK, Amount, Resource
<1>2. CASE callsInFlight > 0
  <2>1. /\ callsInFlight' = callsInFlight - 1
        /\ pending' = PoolAfter(1)
        /\ unmatchedSettlements' = unmatchedSettlements
    BY <1>2 DEF Settle
  <2>2. 1 \in 0..callsInFlight
    BY <1>2 DEF BudgetTypeOK
  <2>3. pending' \in Amount
    BY <1>2, <2>1, <2>2, PoolAfterType
  <2>4. BudgetTypeOK'
    BY <1>1, <1>2, <2>1, <2>3 DEF BudgetTypeOK
  <2>5. CallCeiling' /\ Conservation'
    BY <1>1, <1>2, <2>1 DEF BudgetTypeOK, CallCeiling, Conservation
  <2>6. PoolEmptiesWithFlight'
    <3>1. callsInFlight' = 0 => callsInFlight = 1
      BY <2>1 DEF BudgetTypeOK
    <3> QED BY <2>1, <3>1, PoolAfterLast DEF PoolEmptiesWithFlight, NoAmount
  <2> QED BY <2>4, <2>5, <2>6
<1>3. CASE ~(callsInFlight > 0)
  <2>1. /\ unmatchedSettlements' = unmatchedSettlements + 1
        /\ UNCHANGED <<callsInFlight, pending>>
    BY <1>3 DEF Settle
  <2>2. BudgetTypeOK'
    BY <1>1, <2>1 DEF BudgetTypeOK
  <2>3. CallCeiling' /\ Conservation'
    BY <1>1, <2>1, CeilingAssumption DEF BudgetTypeOK, CallCeiling, Conservation, Ceilings
  <2>4. PoolEmptiesWithFlight'
    BY <2>1 DEF PoolEmptiesWithFlight, NoAmount
  <2> QED BY <2>2, <2>3, <2>4
<1> QED BY <1>2, <1>3

\* A release takes back only what is in flight.
LEMMA ReleaseInv ==
    ASSUME BudgetInv, NEW n \in Nat \ {0}, Release(n)
    PROVE  BudgetInv'
<1> USE DEF BudgetInv
<1> DEFINE returned == LesserOf(n, callsInFlight)
<1>1. /\ returned \in 0..callsInFlight
      /\ n - returned \in Nat
      /\ returned = 0 <=> callsInFlight = 0
  BY DEF LesserOf, BudgetTypeOK
<1>2. /\ callsInFlight' = callsInFlight - returned
      /\ pending' = IF returned = 0 THEN pending ELSE PoolAfter(returned)
      /\ callsReleased' = callsReleased + returned
      /\ unmatchedReleases' = unmatchedReleases + (n - returned)
      /\ UNCHANGED <<callsSettled, settled, unpricedCalls, unmatchedSettlements,
                     elapsed, granted>>
  BY DEF Release, Credited
<1> HIDE DEF returned
<1>3. pending' \in Amount
  <2>1. CASE returned = 0
    BY <1>2, <2>1 DEF BudgetTypeOK
  <2>2. CASE returned # 0
    <3>1. callsInFlight > 0
      BY <1>1, <2>2 DEF BudgetTypeOK
    <3> QED BY <1>1, <1>2, <2>2, <3>1, PoolAfterType
  <2> QED BY <2>1, <2>2
<1>4. BudgetTypeOK'
  BY <1>1, <1>2, <1>3 DEF BudgetTypeOK
<1>5. CallCeiling' /\ Conservation'
  BY <1>1, <1>2, CeilingAssumption DEF BudgetTypeOK, CallCeiling, Conservation, Ceilings
<1>6. PoolEmptiesWithFlight'
  <2>1. callsInFlight' = 0 => returned = callsInFlight
    BY <1>1, <1>2 DEF BudgetTypeOK
  <2> QED BY <1>1, <1>2, <2>1, PoolAfterLast DEF PoolEmptiesWithFlight, NoAmount
<1> QED BY <1>4, <1>5, <1>6

\* The clock and the steps that leave the ledger alone.
LEMMA QuietInv ==
    ASSUME BudgetInv, Tick \/ UNCHANGED budgetVars
    PROVE  BudgetInv'
BY DEF BudgetInv, BudgetTypeOK, CallCeiling, Conservation, PoolEmptiesWithFlight,
       Tick, budgetVars, NoAmount

\* Every step of the ledger preserves the invariant.
LEMMA BudgetNextInv == BudgetInv /\ [BudgetNext]_budgetVars => BudgetInv'
<1> SUFFICES ASSUME BudgetInv, [BudgetNext]_budgetVars PROVE BudgetInv'
  OBVIOUS
<1>1. Quantity \subseteq Amount
  BY AmountAssumption DEF Quantity, Amount
<1>2. ASSUME NEW n \in Widths, NEW est \in Quantity, Reserve(n, est)
      PROVE  BudgetInv'
  BY <1>1, <1>2, WidthAssumption, ReserveInv
<1>3. ASSUME NEW usage \in Quantity, NEW priced \in BOOLEAN, Settle(usage, priced)
      PROVE  BudgetInv'
  BY <1>1, <1>3, SettleInv
<1>4. ASSUME NEW n \in Widths, Release(n)
      PROVE  BudgetInv'
  BY <1>4, WidthAssumption, ReleaseInv
<1>5. CASE Tick \/ UNCHANGED budgetVars
  BY <1>5, QuietInv
<1> QED BY <1>2, <1>3, <1>4, <1>5 DEF BudgetNext

\* The invariant holds of every behaviour of the ledger.
THEOREM BudgetInvariant == BudgetSpec => []BudgetInv
<1>1. BudgetInit => BudgetInv
  BY CeilingAssumption
  DEF BudgetInit, BudgetInv, BudgetTypeOK, CallCeiling, Conservation,
      PoolEmptiesWithFlight, NoAmount, Amount, Ceilings
<1> QED BY <1>1, BudgetNextInv, PTL DEF BudgetSpec

\* The ledger keeps its types, for every choice of ceilings: in particular the
\* provisional pool is never negative.
THEOREM TypeCorrect == BudgetSpec => []BudgetTypeOK
BY BudgetInvariant, PTL DEF BudgetInv

\* The call ceiling is exact, whatever callers do with their grants.
THEOREM CallCeilingHolds == BudgetSpec => []CallCeiling
BY BudgetInvariant, PTL DEF BudgetInv

\* No granted call is lost or counted twice.
THEOREM ConservationHolds == BudgetSpec => []Conservation
BY BudgetInvariant, PTL DEF BudgetInv

\* The pool never outlives the calls it stood for.
THEOREM PoolEmpties == BudgetSpec => []PoolEmptiesWithFlight
BY BudgetInvariant, PTL DEF BudgetInv

-----------------------------------------------------------------------------
(* The action properties.                                                    *)

\* A ledger that refuses the smallest call refuses every batch.
LEMMA SmallestCallFirst ==
    ASSUME BudgetTypeOK, Exhausted, NEW n \in Nat \ {0}, NEW est \in Amount
    PROVE  Refuses(n, est)
<1>1. CASE MaxCalls # Unset /\ 1 > CallsLeft
  <2>1. CallsLeft \in Nat
    BY <1>1, CeilingAssumption DEF CallsLeft, LeftOf, BudgetTypeOK, Ceilings
  <2> QED BY <1>1, <2>1 DEF Refuses
<1>2. CASE \E r \in Resource : Ceiling[r] # Unset /\ DoesNotFit(r, NoAmount)
  <2>1. PICK r \in Resource : Ceiling[r] # Unset /\ DoesNotFit(r, NoAmount)
    BY <1>2
  <2>2. SpendLeft(r) \in Nat
    BY <2>1, CeilingAssumption
    DEF SpendLeft, LeftOf, BudgetTypeOK, Amount, Ceiling, Ceilings, Resource
  <2>3. SpendLeft(r) = 0
    BY <2>1, <2>2 DEF DoesNotFit, NoAmount
  <2> QED BY <2>1, <2>3 DEF Refuses, DoesNotFit
<1> QED BY <1>1, <1>2 DEF Exhausted, Refuses

\* Past the line of a metered resource the ledger is exhausted.
LEMMA PastTheLine ==
    ASSUME BudgetTypeOK, NEW r \in Resource, Ceiling[r] # Unset,
           settled[r] >= Ceiling[r]
    PROVE  Exhausted
<1>1. Ceiling[r] \in Nat /\ settled[r] \in Nat /\ pending[r] \in Nat
  BY CeilingAssumption DEF BudgetTypeOK, Amount, Ceiling, Ceilings, Resource
<1>2. SpendLeft(r) = 0
  BY <1>1 DEF SpendLeft, LeftOf
<1> QED BY <1>2 DEF Exhausted, Refuses, DoesNotFit

\* No call is granted by a step that starts exhausted.
LEMMA ExhaustedGrantsNothing ==
    ASSUME BudgetTypeOK, [BudgetNext]_budgetVars, Exhausted
    PROVE  granted' = granted
<1>1. ASSUME NEW n \in Widths, NEW est \in Quantity, Reserve(n, est)
      PROVE  FALSE
  <2>1. n \in Nat \ {0} /\ est \in Amount
    BY WidthAssumption, AmountAssumption DEF Quantity, Amount
  <2> QED BY <1>1, <2>1, SmallestCallFirst DEF Reserve
<1> QED BY <1>1 DEF BudgetNext, Settle, Release, Tick, budgetVars

\* The ceiling on tokens or price cannot be overshot twice.
THEOREM NoGrantPastTheLineHolds == BudgetSpec => NoGrantPastTheLine
<1>1. BudgetTypeOK /\ [BudgetNext]_budgetVars =>
        [ (\E r \in Resource : Ceiling[r] # Unset /\ settled[r] >= Ceiling[r])
            => granted' = granted ]_budgetVars
  BY PastTheLine, ExhaustedGrantsNothing
<1> QED BY <1>1, TypeCorrect, PTL DEF NoGrantPastTheLine, BudgetSpec

\* With nothing in flight, exhaustion outlives every step.
LEMMA IdleExhaustedStep ==
    ASSUME BudgetInv, [BudgetNext]_budgetVars, Exhausted, callsInFlight = 0
    PROVE  Exhausted'
<1> USE DEF BudgetInv
<1>1. granted' = granted
  BY ExhaustedGrantsNothing
<1>2. ASSUME NEW n \in Widths, NEW est \in Quantity, Reserve(n, est)
      PROVE  FALSE
  BY <1>1, <1>2, WidthAssumption DEF Reserve, BudgetTypeOK
<1>3. ASSUME NEW usage \in Quantity, NEW priced \in BOOLEAN, Settle(usage, priced)
      PROVE  Exhausted'
  <2>1. /\ callsSettled' = callsSettled + 1
        /\ unpricedCalls' >= unpricedCalls
        /\ UNCHANGED <<callsInFlight, pending, elapsed>>
    BY <1>3 DEF Settle, BudgetTypeOK
  <2>2. \A r \in Resource : settled'[r] >= settled[r]
    <3>1. /\ settled["tokens"] \in Nat /\ settled["usd"] \in Nat
          /\ usage["tokens"] \in Nat /\ usage["usd"] \in Nat
      BY AmountAssumption DEF BudgetTypeOK, Amount, Quantity, Resource
    <3>2. /\ settled'["tokens"] = settled["tokens"] + usage["tokens"]
          /\ settled'["usd"] = IF priced THEN settled["usd"] + usage["usd"]
                                         ELSE settled["usd"]
      BY <1>3 DEF Settle, BudgetTypeOK, Amount, Resource
    <3> QED BY <3>1, <3>2 DEF Resource
  <2>3. settled' \in Amount /\ unpricedCalls' \in Nat
    BY <1>3, SettleInv, AmountAssumption DEF Quantity, Amount, BudgetTypeOK
  <2>4. CASE UnpricedBlocks
    BY <2>1, <2>3, <2>4, CeilingAssumption
    DEF Exhausted, Refuses, UnpricedBlocks, BudgetTypeOK
  <2>5. CASE MaxSeconds # Unset /\ SecondsLeft = 0
    BY <2>1, <2>5 DEF Exhausted, Refuses, SecondsLeft
  <2>6. CASE MaxCalls # Unset /\ 1 > CallsLeft
    <3>1. 1 > CallsLeft'
      BY <2>1, <2>6, CeilingAssumption DEF CallsLeft, LeftOf, BudgetTypeOK, Ceilings
    <3> QED BY <2>6, <3>1 DEF Exhausted, Refuses
  <2>7. CASE \E r \in Resource : Ceiling[r] # Unset /\ DoesNotFit(r, NoAmount)
    <3>1. PICK r \in Resource : Ceiling[r] # Unset /\ DoesNotFit(r, NoAmount)
      BY <2>7
    <3>2. /\ Ceiling[r] \in Nat
          /\ settled[r] \in Nat /\ pending[r] \in Nat /\ settled'[r] \in Nat
      BY <2>3, <3>1, CeilingAssumption
      DEF BudgetTypeOK, Amount, Ceiling, Ceilings, Resource
    <3>3. ~(settled[r] + pending[r] < Ceiling[r])
      BY <3>1, <3>2 DEF DoesNotFit, NoAmount, SpendLeft, LeftOf
    <3>4. ~(settled'[r] + pending'[r] < Ceiling[r])
      BY <2>1, <2>2, <3>2, <3>3
    <3>5. SpendLeft(r)' = 0
      BY <3>4 DEF SpendLeft, LeftOf
    <3> QED BY <3>1, <3>5 DEF Exhausted, Refuses, DoesNotFit
  <2> QED BY <2>4, <2>5, <2>6, <2>7 DEF Exhausted, Refuses
<1>4. ASSUME NEW n \in Widths, Release(n)
      PROVE  Exhausted'
  <2>1. LesserOf(n, callsInFlight) = 0
    BY WidthAssumption DEF LesserOf
  <2>2. UNCHANGED <<callsSettled, callsInFlight, settled, pending, unpricedCalls, elapsed>>
    BY <1>4, <2>1 DEF Release, BudgetTypeOK
  <2> QED BY <2>2 DEF Exhausted, Refuses, DoesNotFit, UnpricedBlocks, SecondsLeft, CallsLeft, SpendLeft
<1>5. ASSUME Tick PROVE Exhausted'
  <2>1. SecondsLeft = 0 /\ MaxSeconds # Unset => SecondsLeft' = 0
    <3>1. SUFFICES ASSUME SecondsLeft = 0, MaxSeconds # Unset PROVE SecondsLeft' = 0
      OBVIOUS
    <3>2. MaxSeconds \in Nat /\ elapsed \in Nat /\ elapsed' = elapsed + 1
      BY <1>5, <3>1, CeilingAssumption DEF Tick, BudgetTypeOK, Ceilings
    <3>3. ~(elapsed < MaxSeconds)
      BY <3>1, <3>2 DEF SecondsLeft, LeftOf
    <3>4. ~(elapsed' < MaxSeconds)
      BY <3>2, <3>3
    <3> QED BY <3>4 DEF SecondsLeft, LeftOf
  <2>2. UNCHANGED <<callsSettled, callsInFlight, settled, pending, unpricedCalls>>
    BY <1>5 DEF Tick
  <2> QED BY <2>1, <2>2 DEF Exhausted, Refuses, DoesNotFit, UnpricedBlocks, CallsLeft, SpendLeft
<1>6. ASSUME UNCHANGED budgetVars PROVE Exhausted'
  BY <1>6
  DEF budgetVars, Exhausted, Refuses, DoesNotFit, UnpricedBlocks, SecondsLeft, CallsLeft, SpendLeft
<1> QED BY <1>2, <1>3, <1>4, <1>5, <1>6 DEF BudgetNext

\* An idle ledger that is exhausted stays exhausted.
THEOREM IdleExhaustionIsFinalHolds == BudgetSpec => IdleExhaustionIsFinal
<1>1. BudgetInv /\ [BudgetNext]_budgetVars =>
        [ Exhausted /\ callsInFlight = 0 => Exhausted' /\ granted' = granted ]_budgetVars
  BY IdleExhaustedStep, ExhaustedGrantsNothing DEF BudgetInv
<1> QED BY <1>1, BudgetInvariant, PTL DEF IdleExhaustionIsFinal, BudgetSpec

\* The call threshold is rounded up, so it is never below one call.
LEMMA SoftCallsAtLeastOne ==
    ASSUME MaxCalls # Unset, SoftPercent > 0
    PROVE  SoftCalls \in Nat \ {0}
<1>1. MaxCalls \in Nat \ {0} /\ SoftPercent \in Nat \ {0}
  BY CeilingAssumption DEF Ceilings
<1>2. MaxCalls * SoftPercent \in Nat \ {0}
  <2>1. PICK less \in Nat : MaxCalls = less + 1
    <3>1. MaxCalls - 1 \in Nat /\ MaxCalls = (MaxCalls - 1) + 1
      BY <1>1
    <3> QED BY <3>1
  <2>2. MaxCalls * SoftPercent = less * SoftPercent + SoftPercent
    BY <1>1, <2>1, SMT
  <2>3. less * SoftPercent \in Nat
    BY <1>1, SMT
  <2> QED BY <1>1, <2>2, <2>3
<1> DEFINE product == MaxCalls * SoftPercent
<1>3. product \in Nat \ {0}
  BY <1>2
<1> HIDE DEF product
<1>4. (product + 99) \div 100 \in Nat \ {0}
  BY <1>3, SMT
<1> QED BY <1>4 DEF SoftCalls, product

\* A single grant that leaves no call was made with exactly one call left, which
\* is inside the threshold.
LEMMA LastCallStep ==
    ASSUME BudgetTypeOK, [BudgetNext]_budgetVars, SoftPercent > 0, MaxCalls # Unset,
           CallsLeft > 0, CallsLeft' = 0, granted' = granted + 1
    PROVE  NearLimit
<1>1. MaxCalls \in Nat /\ callsSettled \in Nat /\ callsInFlight \in Nat /\ granted \in Nat
  BY CeilingAssumption DEF Ceilings, BudgetTypeOK
<1>2. PICK n \in Widths, est \in Quantity : Reserve(n, est)
  BY <1>1 DEF BudgetNext, Settle, Release, Tick, budgetVars
<1>3. callsSettled' = callsSettled /\ callsInFlight' = callsInFlight + 1
  BY <1>1, <1>2, WidthAssumption DEF Reserve
<1>4. callsSettled + callsInFlight < MaxCalls
  BY <1>1 DEF CallsLeft, LeftOf
<1>5. ~(callsSettled + (callsInFlight + 1) < MaxCalls)
  BY <1>1, <1>3 DEF CallsLeft, LeftOf
<1>6. CallsLeft = 1
  BY <1>1, <1>4, <1>5 DEF CallsLeft, LeftOf
<1> QED BY <1>6, SoftCallsAtLeastOne DEF NearLimit

\* near_limit warns in time: whoever takes the last call was told so while it
\* was still there to be taken.
THEOREM LastCallForewarnedHolds == BudgetSpec => LastCallForewarned
<1>1. BudgetTypeOK /\ [BudgetNext]_budgetVars =>
        [ /\ SoftPercent > 0 /\ MaxCalls # Unset
          /\ CallsLeft > 0 /\ CallsLeft' = 0 /\ granted' = granted + 1
          => NearLimit ]_budgetVars
  BY LastCallStep
<1> QED BY <1>1, TypeCorrect, PTL DEF LastCallForewarned, BudgetSpec

-----------------------------------------------------------------------------
(* The attempt, which follows one.                                           *)

Ind(place, places) == IF place \in places THEN 1 ELSE 0

\* The set of REPLs, and every set of REPLs by place, is finite.
LEMMA ReplFinite == IsFiniteSet(Repl)
<1>1. IsFiniteSet(1..MaxWidth)
  BY AttemptAssumption, FS_Interval
<1>2. Repl = 1..MaxWidth \cup {Root}
  BY DEF Repl, Child
<1> QED BY <1>1, <1>2, FS_AddElement

\* Children are REPLs other than the root.
LEMMA Roles ==
    /\ Root \in Repl
    /\ \A c \in Child : c \in Repl /\ c # Root
    /\ \A p \in Repl : p # Root => p \in Child
BY AttemptAssumption DEF Repl, Child, Root

\* The REPLs at a set of places can be counted.
LEMMA AtFinite ==
    ASSUME NEW places
    PROVE  IsFiniteSet(At(places)) /\ Cardinality(At(places)) \in Nat
<1>1. At(places) \in SUBSET Repl
  BY DEF At
<1> QED BY <1>1, ReplFinite, FS_Subset, FS_CardinalityType

\* And so can they after the step.
LEMMA AtFinitePrime ==
    ASSUME NEW places
    PROVE  IsFiniteSet(At(places)') /\ Cardinality(At(places)') \in Nat
<1>1. At(places)' \in SUBSET Repl
  BY DEF At
<1> QED BY <1>1, ReplFinite, FS_Subset, FS_CardinalityType

\* One thread that moves changes the number of threads at a set of places by
\* what it leaves and what it enters.
LEMMA GotoCount ==
    ASSUME pc \in [Repl -> Place], NEW p \in Repl, NEW from, NEW to, NEW places,
           Goto(p, from, to)
    PROVE  Cardinality(At(places)') =
             Cardinality(At(places)) - Ind(from, places) + Ind(to, places)
<1> DEFINE S == At(places)
           T == At(places)'
<1>1. /\ p \in S <=> from \in places
      /\ p \in T <=> to \in places
      /\ T \ {p} = S \ {p}
  BY DEF Goto, At
<1>2. /\ IsFiniteSet(S) /\ Cardinality(S) \in Nat
      /\ IsFiniteSet(T) /\ Cardinality(T) \in Nat
  BY AtFinite, AtFinitePrime
<1> HIDE DEF S, T
<1>3. Cardinality(S \ {p}) = IF p \in S THEN Cardinality(S) - 1 ELSE Cardinality(S)
  BY <1>2, FS_RemoveElement
<1>4. Cardinality(T \ {p}) = IF p \in T THEN Cardinality(T) - 1 ELSE Cardinality(T)
  BY <1>2, FS_RemoveElement
<1>5. Cardinality(T) = Cardinality(S) - Ind(from, places) + Ind(to, places)
  <2> DEFINE s == Cardinality(S)  t == Cardinality(T)  u == Cardinality(S \ {p})
  <2>1. /\ s \in Nat /\ t \in Nat
        /\ u = IF from \in places THEN s - 1 ELSE s
        /\ u = IF to \in places THEN t - 1 ELSE t
    BY <1>1, <1>2, <1>3, <1>4
  <2> HIDE DEF s, t, u
  <2>2. t = s - Ind(from, places) + Ind(to, places)
    BY <2>1 DEF Ind
  <2> QED BY <2>2 DEF s, t
<1> QED BY <1>5 DEF S, T

\* A thread at one of the places is counted there.
LEMMA AtPositive ==
    ASSUME NEW p \in Repl, NEW places, pc[p] \in places
    PROVE  Cardinality(At(places)) > 0
<1>1. p \in At(places)
  BY DEF At
<1> QED BY <1>1, AtFinite, FS_EmptySet

-----------------------------------------------------------------------------
(* The inductive invariant.                                                  *)

\* The hold belongs to a batch, and children only run while the root waits for
\* them: without this a batch could be dispatched over another one's hold.
RootWaits ==
    pc[Root] # "join" =>
        held = 0 /\ \A c \in Child : pc[c] \in {"idle", "done", "raised"}

\* Only the root can be in a block that makes host calls, or wait for children;
\* only a child of a batch spends the hold.
PlacesByRole ==
    /\ \A c \in Child : pc[c] \notin {"exec", "join"}
    /\ pc[Root] # "hold"

\* The parts of TypeOK the argument needs beyond the ledger's own.
PlacesOK ==
    /\ pc \in [Repl -> Place]
    /\ turn \in [Repl -> 0..MaxIterations]
    /\ outcome \in [Repl -> Outcome]
    /\ mode \in {"none", "single", "batch"}
    /\ leader \in Repl
    /\ opened \in BOOLEAN
    /\ fanOuts \in 0..FanOutBound
    /\ late \in BOOLEAN

CountsOK == held \in Nat /\ recorded \in Nat /\ leaked \in Nat

IInv ==
    /\ BudgetInv
    /\ PlacesOK
    /\ CountsOK
    /\ RootWaits
    /\ PlacesByRole
    /\ LedgerBalanced
    /\ LedgerClean
    /\ BilledIsRecorded

\* The invariant holds before the first turn.
LEMMA InitInv == Init => IInv
<1> SUFFICES ASSUME Init PROVE IInv
  OBVIOUS
<1>1. BudgetInv
  BY CeilingAssumption
  DEF Init, BudgetInit, BudgetInv, BudgetTypeOK, CallCeiling, Conservation,
      PoolEmptiesWithFlight, NoAmount, Amount, Ceilings
<1>2. PlacesOK /\ CountsOK
  <2>1. pc \in [Repl -> Place] /\ outcome \in [Repl -> Outcome]
    BY DEF Init, Place, Outcome
  <2>2. turn \in [Repl -> 0..MaxIterations] /\ fanOuts \in 0..FanOutBound
    BY AttemptAssumption DEF Init
  <2> QED BY <2>1, <2>2, Roles DEF Init, PlacesOK, CountsOK
<1>3. RootWaits /\ PlacesByRole
  <2>1. \A c \in Child : pc[c] = "idle"
    BY Roles DEF Init
  <2>2. pc[Root] = "turn" /\ held = 0
    BY Roles DEF Init
  <2> QED BY <2>1, <2>2 DEF RootWaits, PlacesByRole
<1>4. At(OwnsTwo) = {} /\ At(OwnsOne) = {} /\ At({"release"}) = {}
  BY DEF Init, At, OwnsTwo, OwnsOne
<1>5. LedgerBalanced /\ LedgerClean /\ BilledIsRecorded
  BY <1>4, FS_EmptySet
  DEF Init, BudgetInit, LedgerBalanced, LedgerClean, BilledIsRecorded
<1> QED BY <1>1, <1>2, <1>3, <1>5 DEF IInv

-----------------------------------------------------------------------------
(* The budget's verbs, seen by a caller that keeps the contract.             *)

\* What callers report are amounts of the two metered resources.
LEMMA QuantityType == Quantity \subseteq Amount
BY AmountAssumption DEF Quantity, Amount

\* And so is an estimate of tokens.
LEMMA TokensType == \A e \in Nat : Tokens(e) \in Amount
BY DEF Tokens, Amount, Resource

\* A grant adds its calls to those in flight.
LEMMA ReserveStep ==
    ASSUME BudgetInv, LedgerClean, NEW n \in Nat \ {0}, NEW e \in Nat,
           Reserve(n, Tokens(e))
    PROVE  /\ BudgetInv' /\ LedgerClean'
           /\ callsInFlight' = callsInFlight + n
           /\ callsSettled' = callsSettled
<1>1. BudgetInv'
  BY TokensType, ReserveInv
<1> QED BY <1>1 DEF Reserve, LedgerClean

\* Settling a call that is in flight moves it, and is matched.
LEMMA SettleStep ==
    ASSUME BudgetInv, LedgerClean, Bill, callsInFlight > 0
    PROVE  /\ BudgetInv' /\ LedgerClean'
           /\ callsInFlight' = callsInFlight - 1
           /\ callsSettled' = callsSettled + 1
<1>1. PICK usage \in Quantity, priced \in BOOLEAN : Settle(usage, priced)
  BY DEF Bill
<1>2. BudgetInv'
  BY <1>1, QuantityType, SettleInv
<1> QED BY <1>1, <1>2 DEF Settle, LedgerClean

\* Releasing calls that are in flight takes them all, and is matched.
LEMMA ReleaseStep ==
    ASSUME BudgetInv, LedgerClean, NEW n \in Nat \ {0}, n <= callsInFlight, Release(n)
    PROVE  /\ BudgetInv' /\ LedgerClean'
           /\ callsInFlight' = callsInFlight - n
           /\ callsSettled' = callsSettled
<1>1. BudgetInv'
  BY ReleaseInv
<1>2. LesserOf(n, callsInFlight) = n
  BY DEF LesserOf, BudgetInv, BudgetTypeOK
<1> QED BY <1>1, <1>2 DEF Release, LedgerClean, BudgetInv, BudgetTypeOK

\* A step that leaves the ledger alone, or only lets time pass.
LEMMA QuietStep ==
    ASSUME BudgetInv, LedgerClean, Tick \/ UNCHANGED budgetVars
    PROVE  /\ BudgetInv' /\ LedgerClean'
           /\ UNCHANGED <<callsInFlight, callsSettled>>
BY QuietInv DEF Tick, budgetVars, LedgerClean

-----------------------------------------------------------------------------
(* One thread moves.                                                         *)

Resting == {"idle", "done", "raised", "join"}

\* The arithmetic of LedgerBalanced when one thread moves.
LEMMA FlightArithmetic ==
    ASSUME NEW f \in Nat, NEW h \in Nat, NEW l \in Nat, NEW a \in Nat, NEW b \in Nat,
           NEW ff \in Nat, NEW hh \in Nat, NEW ll \in Nat, NEW aa \in Nat, NEW bb \in Nat,
           NEW i \in Nat, NEW j \in Nat, NEW m \in Nat, NEW n \in Nat,
           f = h + 2 * a + b + l, aa = a - i + j, bb = b - m + n,
           ff - hh - ll = f - h - l + 2 * (j - i) + (n - m)
    PROVE  ff = hh + 2 * aa + bb + ll
OBVIOUS

\* The arithmetic of BilledIsRecorded when one thread moves.
LEMMA RecordArithmetic ==
    ASSUME NEW s \in Nat, NEW r \in Nat, NEW a \in Nat,
           NEW ss \in Nat, NEW rr \in Nat, NEW aa \in Nat,
           NEW i \in Nat, NEW j \in Nat,
           s = r + a, aa = a - i + j, ss - rr = s - r + (j - i)
    PROVE  ss = rr + aa
OBVIOUS

\* A thread that moves keeps the invariant if the ledger changes by exactly what
\* the thread comes to own or ceases to own.
LEMMA MoveInv ==
    ASSUME IInv, NEW p \in Repl, NEW from, NEW to, Goto(p, from, to),
           from \notin Resting, to # "join",
           p # Root => to # "exec",
           p = Root => to # "hold" /\ held' = held,
           BudgetInv', PlacesOK', CountsOK', LedgerClean',
           callsInFlight' - held' - leaked' =
             callsInFlight - held - leaked
               + 2 * (Ind(to, OwnsTwo) - Ind(from, OwnsTwo))
               + (Ind(to, OwnsOne) - Ind(from, OwnsOne)),
           callsSettled' - recorded' =
             callsSettled - recorded
               + (Ind(to, {"release"}) - Ind(from, {"release"}))
    PROVE  IInv'
<1> USE DEF IInv
<1>1. pc \in [Repl -> Place]
  BY DEF PlacesOK
<1>2. LedgerBalanced' /\ BilledIsRecorded'
  <2> DEFINE N(places) == Cardinality(At(places))
             M(places) == Cardinality(At(places)')
  <2>1. \A places : /\ N(places) \in Nat /\ M(places) \in Nat
                    /\ M(places) = N(places) - Ind(from, places) + Ind(to, places)
    BY <1>1, AtFinite, AtFinitePrime, GotoCount
  <2>2. \A place, places : Ind(place, places) \in Nat
    BY DEF Ind
  <2>3. /\ callsInFlight \in Nat /\ callsInFlight' \in Nat
        /\ callsSettled \in Nat /\ callsSettled' \in Nat
        /\ held \in Nat /\ held' \in Nat
        /\ leaked \in Nat /\ leaked' \in Nat
        /\ recorded \in Nat /\ recorded' \in Nat
    BY DEF BudgetInv, BudgetTypeOK, CountsOK
  <2>4. /\ callsInFlight = held + 2 * N(OwnsTwo) + N(OwnsOne) + leaked
        /\ callsSettled = recorded + N({"release"})
    BY DEF LedgerBalanced, BilledIsRecorded
  <2> HIDE DEF N, M
  <2>5. callsInFlight' = held' + 2 * M(OwnsTwo) + M(OwnsOne) + leaked'
    BY <2>1, <2>2, <2>3, <2>4, FlightArithmetic
  <2>6. callsSettled' = recorded' + M({"release"})
    BY <2>1, <2>2, <2>3, <2>4, RecordArithmetic
  <2> QED BY <2>5, <2>6 DEF LedgerBalanced, BilledIsRecorded, M, OwnsTwo, OwnsOne
<1>3. \A q \in Repl : pc'[q] = IF q = p THEN to ELSE pc[q]
  BY <1>1 DEF Goto
<1>4. RootWaits' /\ PlacesByRole'
  <2>1. CASE p = Root
    BY <1>3, <2>1, Roles DEF Goto, Resting, RootWaits, PlacesByRole
  <2>2. CASE p # Root
    <3>1. p \in Child /\ pc[Root] = "join"
      BY <2>2, Roles DEF Goto, Resting, RootWaits
    <3>2. pc'[Root] = "join"
      BY <1>3, <2>2, <3>1, Roles
    <3> QED BY <1>3, <2>2, <3>1, <3>2, Roles DEF RootWaits, PlacesByRole
  <2> QED BY <2>1, <2>2
<1> QED BY <1>2, <1>4

\* The special case of a move that leaves every count alone.
LEMMA QuietMoveInv ==
    ASSUME IInv, NEW p \in Repl, NEW from, NEW to, Goto(p, from, to),
           from \notin Resting, to # "join",
           p # Root => to # "exec",
           p = Root => to # "hold",
           UNCHANGED <<budgetVars, held, recorded, leaked>>,
           PlacesOK',
           to \in OwnsTwo <=> from \in OwnsTwo,
           to \in OwnsOne <=> from \in OwnsOne,
           to # "release" /\ from # "release"
    PROVE  IInv'
<1>1. BudgetInv' /\ LedgerClean' /\ UNCHANGED <<callsInFlight, callsSettled>>
  BY QuietStep DEF IInv
<1>2. CountsOK'
  BY DEF CountsOK, IInv
<1>3. /\ Ind(to, OwnsTwo) - Ind(from, OwnsTwo) = 0
      /\ Ind(to, OwnsOne) - Ind(from, OwnsOne) = 0
      /\ Ind(to, {"release"}) - Ind(from, {"release"}) = 0
  BY DEF Ind
<1>4. /\ callsInFlight \in Nat /\ held \in Nat /\ leaked \in Nat
      /\ callsSettled \in Nat /\ recorded \in Nat
  BY DEF IInv, BudgetInv, BudgetTypeOK, CountsOK
<1>5. callsInFlight' - held' - leaked' =
        callsInFlight - held - leaked
          + 2 * (Ind(to, OwnsTwo) - Ind(from, OwnsTwo))
          + (Ind(to, OwnsOne) - Ind(from, OwnsOne))
  BY <1>1, <1>3, <1>4
<1>6. callsSettled' - recorded' =
        callsSettled - recorded + (Ind(to, {"release"}) - Ind(from, {"release"}))
  BY <1>1, <1>3, <1>4
<1> QED BY <1>1, <1>2, <1>5, <1>6, MoveInv

-----------------------------------------------------------------------------
(* The steps of _turns.                                                      *)

\* A REPL that closes keeps the types.
LEMMA ClosePlaces ==
    ASSUME PlacesOK, NEW p \in Repl, NEW from, NEW how \in Outcome, Close(p, from, how),
           UNCHANGED <<mode, leader, fanOuts, late>>, opened' \in BOOLEAN
    PROVE  PlacesOK'
BY DEF PlacesOK, Close, Goto, Place

\* A thread that moves on keeps the types.
LEMMA GotoPlaces ==
    ASSUME PlacesOK, NEW p \in Repl, NEW from, NEW to \in Place, Goto(p, from, to),
           UNCHANGED <<turn, outcome, mode, fanOuts, late>>,
           opened' \in BOOLEAN, leader' \in Repl
    PROVE  PlacesOK'
BY DEF PlacesOK, Goto

\* The top of the loop touches no count.
LEMMA TurnTopInv ==
    ASSUME IInv, NEW p \in Repl, TurnsSpent(p) \/ DeadlinePassed(p) \/ StartTurn(p)
    PROVE  IInv'
<1> USE DEF Resting, OwnsTwo, OwnsOne
<1>1. PlacesOK
  BY DEF IInv
<1>2. CASE TurnsSpent(p) \/ DeadlinePassed(p)
  <2>1. PICK how \in {"iterations_exhausted", "timed_out"} : Close(p, "turn", how)
    BY <1>2 DEF TurnsSpent, DeadlinePassed
  <2>2. UNCHANGED <<budgetVars, batchVars, late, recorded, leaked>>
    BY <1>2 DEF TurnsSpent, DeadlinePassed
  <2>3. PlacesOK'
    BY <1>1, <2>1, <2>2, ClosePlaces DEF Outcome, batchVars, PlacesOK
  <2> QED BY <2>1, <2>2, <2>3, QuietMoveInv DEF Close, batchVars
<1>3. CASE StartTurn(p)
  <2> DEFINE to == IF InBatch(p) THEN "hold" ELSE "reserve"
  <2>1. /\ Goto(p, "turn", to)
        /\ UNCHANGED <<budgetVars, batchVars, outcome, late, recorded, leaked>>
    BY <1>3 DEF StartTurn
  <2>2. PlacesOK'
    <3>1. turn[p] \in 0..MaxIterations /\ turn[p] < MaxIterations
      BY <1>1, <1>3 DEF PlacesOK, StartTurn, TurnsLeft
    <3>2. turn[p] + 1 \in 0..MaxIterations
      BY <3>1, AttemptAssumption
    <3>3. turn' \in [Repl -> 0..MaxIterations]
      BY <1>1, <1>3, <3>2 DEF PlacesOK, StartTurn
    <3> QED BY <1>1, <2>1, <3>3 DEF PlacesOK, Goto, Place, batchVars
  <2>3. p = Root => to # "hold"
    BY DEF InBatch
  <2> QED BY <2>1, <2>2, <2>3, QuietMoveInv DEF batchVars
<1> QED BY <1>2, <1>3

\* A turn paid from the hold moves two calls from the batch to the child.
LEMMA ConsumeHoldInv ==
    ASSUME IInv, NEW p \in Repl, ConsumeHold(p)
    PROVE  IInv'
<1> USE DEF Resting, OwnsTwo, OwnsOne, Consumed
<1>1. PlacesOK /\ CountsOK /\ PlacesByRole
  BY DEF IInv
<1>2. p # Root
  BY <1>1 DEF ConsumeHold, Goto, PlacesByRole
<1>3. UNCHANGED <<budgetVars, turn, outcome, mode, leader, opened, fanOuts,
                  late, recorded, leaked>>
  BY DEF ConsumeHold
<1>4. CASE held < 2
  <2>1. Goto(p, "hold", "reserve") /\ held' = held
    BY <1>1, <1>4 DEF ConsumeHold, CountsOK
  <2>2. PlacesOK'
    BY <1>1, <1>3, <2>1, GotoPlaces DEF Place, PlacesOK
  <2> QED BY <1>2, <1>3, <2>1, <2>2, QuietMoveInv
<1>5. CASE held >= 2
  <2> DEFINE to == Paid(p)
  <2>1. Goto(p, "hold", to) /\ held' = held - 2 /\ to \in {"lead", "call"}
    BY <1>1, <1>5 DEF ConsumeHold, CountsOK, Paid
  <2> HIDE DEF to
  <2>2. PlacesOK'
    BY <1>1, <1>3, <2>1, GotoPlaces DEF Place, PlacesOK
  <2>3. BudgetInv' /\ LedgerClean' /\ UNCHANGED <<callsInFlight, callsSettled>>
    BY <1>3, QuietStep DEF IInv
  <2>4. /\ callsInFlight \in Nat /\ held \in Nat /\ leaked \in Nat
        /\ callsSettled \in Nat /\ recorded \in Nat
    BY DEF IInv, BudgetInv, BudgetTypeOK, CountsOK
  <2>5. CountsOK'
    BY <1>3, <1>5, <2>1, <2>4 DEF CountsOK
  <2>6. /\ Ind(to, OwnsTwo) = 1 /\ Ind("hold", OwnsTwo) = 0
        /\ Ind(to, OwnsOne) = 0 /\ Ind("hold", OwnsOne) = 0
        /\ Ind(to, {"release"}) = 0 /\ Ind("hold", {"release"}) = 0
    BY <2>1 DEF Ind
  <2>7. callsInFlight' - held' - leaked' =
          callsInFlight - held - leaked
            + 2 * (Ind(to, OwnsTwo) - Ind("hold", OwnsTwo))
            + (Ind(to, OwnsOne) - Ind("hold", OwnsOne))
    BY <1>3, <2>1, <2>3, <2>4, <2>6
  <2>8. callsSettled' - recorded' =
          callsSettled - recorded + (Ind(to, {"release"}) - Ind("hold", {"release"}))
    BY <1>3, <2>3, <2>4, <2>6
  <2> QED BY <1>2, <2>1, <2>2, <2>3, <2>5, <2>7, <2>8, MoveInv
<1> QED BY <1>1, <1>4, <1>5 DEF CountsOK

-----------------------------------------------------------------------------
(* The steps of _call_model and _wind_down.                                  *)

\* Calls granted to a thread at a place, and calls it has settled but not yet
\* recorded.
Owned(place) == IF place \in OwnsTwo THEN 2 ELSE IF place \in OwnsOne THEN 1 ELSE 0

Unrecorded(place) == IF place = "release" THEN 1 ELSE 0

\* The five counters are numbers, for the arithmetic of the steps.
LEMMA Counters ==
    ASSUME IInv
    PROVE  /\ callsInFlight \in Nat /\ callsSettled \in Nat
           /\ held \in Nat /\ recorded \in Nat /\ leaked \in Nat
BY DEF IInv, BudgetInv, BudgetTypeOK, CountsOK

\* MoveInv for a step that leaves the batch's hold alone.
LEMMA CallMoveInv ==
    ASSUME IInv, NEW p \in Repl, NEW from, NEW to, Goto(p, from, to),
           from \notin Resting, to \notin {"join", "exec", "hold"},
           UNCHANGED held,
           BudgetInv', PlacesOK', CountsOK', LedgerClean',
           callsInFlight' - leaked' = callsInFlight - leaked + Owned(to) - Owned(from),
           callsSettled' - recorded' =
             callsSettled - recorded + Unrecorded(to) - Unrecorded(from)
    PROVE  IInv'
<1>1. /\ callsInFlight \in Nat /\ callsInFlight' \in Nat
      /\ callsSettled \in Nat /\ callsSettled' \in Nat
      /\ held \in Nat /\ leaked \in Nat /\ leaked' \in Nat
      /\ recorded \in Nat /\ recorded' \in Nat
  BY Counters DEF BudgetInv, BudgetTypeOK, CountsOK
<1>2. \A x : /\ Owned(x) = 2 * Ind(x, OwnsTwo) + Ind(x, OwnsOne)
             /\ Unrecorded(x) = Ind(x, {"release"})
             /\ Ind(x, OwnsTwo) \in Nat /\ Ind(x, OwnsOne) \in Nat
             /\ Ind(x, {"release"}) \in Nat
  BY DEF Owned, Unrecorded, Ind, OwnsTwo, OwnsOne
<1>3. callsInFlight' - held' - leaked' =
        callsInFlight - held - leaked
          + 2 * (Ind(to, OwnsTwo) - Ind(from, OwnsTwo))
          + (Ind(to, OwnsOne) - Ind(from, OwnsOne))
  BY <1>1, <1>2
<1>4. callsSettled' - recorded' =
        callsSettled - recorded + (Ind(to, {"release"}) - Ind(from, {"release"}))
  BY <1>1, <1>2
<1> QED BY <1>3, <1>4, MoveInv

\* A thread that owns calls finds them in flight.
LEMMA OwnedInFlight ==
    ASSUME IInv, NEW p \in Repl
    PROVE  Owned(pc[p]) <= callsInFlight
<1>1. Cardinality(At(OwnsTwo)) \in Nat /\ Cardinality(At(OwnsOne)) \in Nat
  BY AtFinite
<1>2. pc[p] \in OwnsTwo => Cardinality(At(OwnsTwo)) > 0
  BY AtPositive
<1>3. pc[p] \in OwnsOne => Cardinality(At(OwnsOne)) > 0
  BY AtPositive
<1>4. callsInFlight = held + 2 * Cardinality(At(OwnsTwo))
                        + Cardinality(At(OwnsOne)) + leaked
  BY DEF IInv, LedgerBalanced
<1> QED BY <1>1, <1>2, <1>3, <1>4, Counters DEF Owned

\* A turn the budget refuses costs nothing and winds down; a granted one owns
\* its two calls.
LEMMA ReserveTurnInv ==
    ASSUME IInv, NEW p \in Repl, ReserveTurn(p)
    PROVE  IInv'
<1> USE DEF Resting, OwnsTwo, OwnsOne, TurnCalls
<1>1. PlacesOK /\ CountsOK /\ LedgerClean /\ BudgetInv
  BY DEF IInv
<1>2. UNCHANGED <<batchVars, turn, outcome, late, recorded, leaked>>
  BY DEF ReserveTurn
<1>3. CountsOK'
  BY <1>1, <1>2 DEF CountsOK, batchVars
<1>4. PICK e \in Amounts :
         \/ Reserve(2, Tokens(e)) /\ Goto(p, "reserve", Paid(p))
         \/ Refuse(2, Tokens(e)) /\ Goto(p, "reserve", "windReserve")
  BY DEF ReserveTurn
<1>5. CASE Refuse(2, Tokens(e)) /\ Goto(p, "reserve", "windReserve")
  <2>1. PlacesOK'
    BY <1>1, <1>2, <1>5, GotoPlaces DEF Place, PlacesOK, batchVars
  <2> QED BY <1>2, <1>5, <2>1, QuietMoveInv DEF Refuse, batchVars
<1>6. CASE Reserve(2, Tokens(e)) /\ Goto(p, "reserve", Paid(p))
  <2> DEFINE to == Paid(p)
  <2>1. Goto(p, "reserve", to) /\ to \in {"lead", "call"}
    BY <1>6 DEF Paid
  <2> HIDE DEF to
  <2>2. PlacesOK'
    BY <1>1, <1>2, <2>1, GotoPlaces DEF Place, PlacesOK, batchVars
  <2>3. /\ BudgetInv' /\ LedgerClean'
        /\ callsInFlight' = callsInFlight + 2 /\ callsSettled' = callsSettled
    BY <1>1, <1>6, AmountAssumption, ReserveStep
  <2>4. /\ Owned(to) = 2 /\ Owned("reserve") = 0
        /\ Unrecorded(to) = 0 /\ Unrecorded("reserve") = 0
    BY <2>1 DEF Owned, Unrecorded
  <2>5. callsInFlight' - leaked' =
          callsInFlight - leaked + Owned(to) - Owned("reserve")
    BY <1>2, <2>3, <2>4, Counters
  <2>6. callsSettled' - recorded' =
          callsSettled - recorded + Unrecorded(to) - Unrecorded("reserve")
    BY <1>2, <2>3, <2>4, Counters
  <2> QED BY <1>2, <1>3, <2>1, <2>2, <2>3, <2>5, <2>6, CallMoveInv DEF batchVars
<1> QED BY <1>4, <1>5, <1>6

\* At the barrier and at the provider a thread keeps what it owns.
LEMMA BarrierInv ==
    ASSUME IInv, NEW p \in Repl, BeforeCall(p) \/ WakeAtBarrier(p) \/ Respond(p)
    PROVE  IInv'
<1> USE DEF Resting, OwnsTwo, OwnsOne
<1>1. PlacesOK
  BY DEF IInv
<1>2. PICK from \in {"lead", "waiting", "call"}, to \in {"waiting", "call", "settle"} :
         Goto(p, from, to)
  BY DEF BeforeCall, WakeAtBarrier, Respond
<1>3. /\ UNCHANGED <<budgetVars, turn, outcome, mode, held, fanOuts, late,
                     recorded, leaked>>
      /\ leader' \in Repl /\ opened' \in BOOLEAN
  BY <1>1 DEF BeforeCall, WakeAtBarrier, Respond, OpensBarrier, FirstBatchCall,
              InBatch, PlacesOK, batchVars
<1>4. PlacesOK'
  BY <1>1, <1>2, <1>3, GotoPlaces DEF Place
<1> QED BY <1>2, <1>3, <1>4, QuietMoveInv

\* A provider's exception loses what the thread owned, and only that.
LEMMA FailureInv ==
    ASSUME IInv, NEW p \in Repl, ProviderFails(p) \/ WindDownFails(p)
    PROVE  IInv'
<1> USE DEF Resting, OwnsTwo, OwnsOne
<1>1. PlacesOK /\ CountsOK
  BY DEF IInv
<1>2. PICK from \in {"call", "windCall"} :
         Close(p, from, "errored") /\ leaked' = leaked + Owned(from)
  BY DEF ProviderFails, WindDownFails, Owned
<1>3. /\ UNCHANGED <<budgetVars, mode, held, leader, fanOuts, late, recorded>>
      /\ opened' \in BOOLEAN
  BY <1>1 DEF ProviderFails, WindDownFails, OpensBarrier, FirstBatchCall,
              InBatch, PlacesOK, batchVars
<1>4. PlacesOK'
  BY <1>1, <1>2, <1>3, ClosePlaces DEF Outcome
<1>5. BudgetInv' /\ LedgerClean' /\ UNCHANGED <<callsInFlight, callsSettled>>
  BY <1>3, QuietStep DEF IInv
<1>6. /\ Owned(from) \in Nat /\ Owned("done") = 0
      /\ Unrecorded(from) = 0 /\ Unrecorded("done") = 0
  BY DEF Owned, Unrecorded
<1>7. leaked' \in Nat
  BY <1>2, <1>6, Counters
<1>8. CountsOK'
  BY <1>1, <1>3, <1>7 DEF CountsOK
<1>9. callsInFlight' - leaked' = callsInFlight - leaked + Owned("done") - Owned(from)
  BY <1>2, <1>5, <1>6, <1>7, Counters
<1>10. callsSettled' - recorded' =
         callsSettled - recorded + Unrecorded("done") - Unrecorded(from)
  BY <1>3, <1>5, <1>6, Counters
<1> QED BY <1>2, <1>3, <1>4, <1>5, <1>8, <1>9, <1>10, CallMoveInv DEF Close

\* A settled call leaves the other half of its turn in flight.
LEMMA SettleCallInv ==
    ASSUME IInv, NEW p \in Repl, SettleCall(p)
    PROVE  IInv'
<1> USE DEF Resting, OwnsTwo, OwnsOne
<1>1. PlacesOK /\ CountsOK /\ BudgetInv /\ LedgerClean
  BY DEF IInv
<1>2. Goto(p, "settle", "release") /\ Bill
      /\ UNCHANGED <<batchVars, turn, outcome, late, recorded, leaked>>
  BY DEF SettleCall
<1>3. PlacesOK' /\ CountsOK'
  BY <1>1, <1>2, GotoPlaces DEF Place, PlacesOK, CountsOK, batchVars
<1>4. /\ Owned("settle") = 2 /\ Owned("release") = 1
      /\ Unrecorded("settle") = 0 /\ Unrecorded("release") = 1
  BY DEF Owned, Unrecorded
<1>5. callsInFlight > 0
  BY <1>2, <1>4, OwnedInFlight, Counters DEF Goto
<1>6. /\ BudgetInv' /\ LedgerClean'
      /\ callsInFlight' = callsInFlight - 1 /\ callsSettled' = callsSettled + 1
  BY <1>1, <1>2, <1>5, SettleStep
<1>7. callsInFlight' - leaked' =
        callsInFlight - leaked + Owned("release") - Owned("settle")
  BY <1>2, <1>4, <1>6, Counters
<1>8. callsSettled' - recorded' =
        callsSettled - recorded + Unrecorded("release") - Unrecorded("settle")
  BY <1>2, <1>4, <1>6, Counters
<1> QED BY <1>2, <1>3, <1>6, <1>7, <1>8, CallMoveInv DEF batchVars

\* The refund of a turn's second call, and the record of its first.
LEMMA ReleaseCallInv ==
    ASSUME IInv, NEW p \in Repl, ReleaseCall(p)
    PROVE  IInv'
<1> USE DEF Resting, OwnsTwo, OwnsOne
<1>1. PlacesOK /\ CountsOK /\ BudgetInv /\ LedgerClean
  BY DEF IInv
<1>2. /\ Goto(p, "release", "parse") /\ Release(1) /\ recorded' = recorded + 1
      /\ UNCHANGED <<batchVars, turn, outcome, late, leaked>>
  BY DEF ReleaseCall, Record
<1>3. PlacesOK' /\ CountsOK'
  BY <1>1, <1>2, GotoPlaces DEF Place, PlacesOK, CountsOK, batchVars
<1>4. /\ Owned("release") = 1 /\ Owned("parse") = 0
      /\ Unrecorded("release") = 1 /\ Unrecorded("parse") = 0
  BY DEF Owned, Unrecorded
<1>5. 1 <= callsInFlight
  BY <1>2, <1>4, OwnedInFlight, Counters DEF Goto
<1>6. /\ BudgetInv' /\ LedgerClean'
      /\ callsInFlight' = callsInFlight - 1 /\ callsSettled' = callsSettled
  BY <1>1, <1>2, <1>5, ReleaseStep
<1>7. callsInFlight' - leaked' =
        callsInFlight - leaked + Owned("parse") - Owned("release")
  BY <1>2, <1>4, <1>6, Counters
<1>8. callsSettled' - recorded' =
        callsSettled - recorded + Unrecorded("parse") - Unrecorded("release")
  BY <1>2, <1>4, <1>6, Counters
<1> QED BY <1>2, <1>3, <1>6, <1>7, <1>8, CallMoveInv DEF batchVars

\* What the model wrote moves the thread on, and no count with it.
LEMMA ParseInv ==
    ASSUME IInv, NEW p \in Repl, Parse(p)
    PROVE  IInv'
<1> USE DEF Resting, OwnsTwo, OwnsOne
<1>1. PlacesOK
  BY DEF IInv
<1>2. UNCHANGED <<budgetVars, batchVars, late, recorded, leaked>>
  BY DEF Parse
<1>3. PICK to \in {"turn", "exec", "done"} :
         /\ Goto(p, "parse", to)
         /\ p # Root => to # "exec"
         /\ \/ UNCHANGED <<turn, outcome>>
            \/ \E how \in {"answered", "errored"} : Close(p, "parse", how)
  BY DEF Parse, Close
<1>4. PlacesOK'
  <2>1. CASE UNCHANGED <<turn, outcome>>
    BY <1>1, <1>2, <1>3, <2>1, GotoPlaces DEF Place, PlacesOK, batchVars
  <2>2. CASE \E how \in {"answered", "errored"} : Close(p, "parse", how)
    BY <1>1, <1>2, <2>2, ClosePlaces DEF Outcome, PlacesOK, batchVars
  <2> QED BY <1>3, <2>1, <2>2
<1> QED BY <1>2, <1>3, <1>4, QuietMoveInv DEF batchVars

\* The wind-down asks for its one call, owns it while it is made, and settles it.
LEMMA ReserveWindDownInv ==
    ASSUME IInv, NEW p \in Repl, ReserveWindDown(p)
    PROVE  IInv'
<1> USE DEF Resting, OwnsTwo, OwnsOne
<1>1. PlacesOK /\ CountsOK /\ LedgerClean /\ BudgetInv
  BY DEF IInv
<1>2. UNCHANGED <<batchVars, late, recorded, leaked>>
  BY DEF ReserveWindDown
<1>3. CountsOK'
  BY <1>1, <1>2 DEF CountsOK, batchVars
<1>4. PICK e \in Amounts :
         \/ /\ Reserve(1, Tokens(e))
            /\ Goto(p, "windReserve", "windCall")
            /\ UNCHANGED <<turn, outcome>>
         \/ Refuse(1, Tokens(e)) /\ Close(p, "windReserve", "budget_exhausted")
  BY DEF ReserveWindDown
<1>5. CASE Refuse(1, Tokens(e)) /\ Close(p, "windReserve", "budget_exhausted")
  <2>1. PlacesOK'
    BY <1>1, <1>2, <1>5, ClosePlaces DEF Outcome, PlacesOK, batchVars
  <2> QED BY <1>2, <1>5, <2>1, QuietMoveInv DEF Refuse, Close, batchVars
<1>6. CASE /\ Reserve(1, Tokens(e))
           /\ Goto(p, "windReserve", "windCall")
           /\ UNCHANGED <<turn, outcome>>
  <2>1. PlacesOK'
    BY <1>1, <1>2, <1>6, GotoPlaces DEF Place, PlacesOK, batchVars
  <2>2. /\ BudgetInv' /\ LedgerClean'
        /\ callsInFlight' = callsInFlight + 1 /\ callsSettled' = callsSettled
    BY <1>1, <1>6, AmountAssumption, ReserveStep
  <2>3. /\ Owned("windCall") = 1 /\ Owned("windReserve") = 0
        /\ Unrecorded("windCall") = 0 /\ Unrecorded("windReserve") = 0
    BY DEF Owned, Unrecorded
  <2>4. callsInFlight' - leaked' =
          callsInFlight - leaked + Owned("windCall") - Owned("windReserve")
    BY <1>2, <2>2, <2>3, Counters
  <2>5. callsSettled' - recorded' =
          callsSettled - recorded + Unrecorded("windCall") - Unrecorded("windReserve")
    BY <1>2, <2>2, <2>3, Counters
  <2> QED BY <1>2, <1>3, <1>6, <2>1, <2>2, <2>4, <2>5, CallMoveInv DEF batchVars
<1> QED BY <1>4, <1>5, <1>6

\* The wind-down call comes back.
LEMMA WindDownRespondsInv ==
    ASSUME IInv, NEW p \in Repl, WindDownResponds(p)
    PROVE  IInv'
<1> USE DEF Resting, OwnsTwo, OwnsOne
<1>1. /\ PlacesOK
      /\ Goto(p, "windCall", "windSettle")
      /\ UNCHANGED <<budgetVars, batchVars, turn, outcome, late, recorded, leaked>>
  BY DEF IInv, WindDownResponds
<1>2. PlacesOK'
  BY <1>1, GotoPlaces DEF Place, PlacesOK, batchVars
<1> QED BY <1>1, <1>2, QuietMoveInv DEF batchVars

\* The wind-down call is settled and recorded, and the REPL closes.
LEMMA SettleWindDownInv ==
    ASSUME IInv, NEW p \in Repl, SettleWindDown(p)
    PROVE  IInv'
<1> USE DEF Resting, OwnsTwo, OwnsOne
<1>1. PlacesOK /\ CountsOK /\ BudgetInv /\ LedgerClean
  BY DEF IInv
<1>2. /\ Close(p, "windSettle", "budget_exhausted") /\ Bill
      /\ recorded' = recorded + 1
      /\ UNCHANGED <<batchVars, late, leaked>>
  BY DEF SettleWindDown, Record
<1>3. PlacesOK' /\ CountsOK'
  BY <1>1, <1>2, ClosePlaces DEF Outcome, PlacesOK, CountsOK, batchVars
<1>4. /\ Owned("windSettle") = 1 /\ Owned("done") = 0
      /\ Unrecorded("windSettle") = 0 /\ Unrecorded("done") = 0
  BY DEF Owned, Unrecorded
<1>5. callsInFlight > 0
  BY <1>2, <1>4, OwnedInFlight, Counters DEF Goto, Close
<1>6. /\ BudgetInv' /\ LedgerClean'
      /\ callsInFlight' = callsInFlight - 1 /\ callsSettled' = callsSettled + 1
  BY <1>1, <1>2, <1>5, SettleStep
<1>7. callsInFlight' - leaked' =
        callsInFlight - leaked + Owned("done") - Owned("windSettle")
  BY <1>2, <1>4, <1>6, Counters
<1>8. callsSettled' - recorded' =
        callsSettled - recorded + Unrecorded("done") - Unrecorded("windSettle")
  BY <1>2, <1>4, <1>6, Counters
<1> QED BY <1>2, <1>3, <1>6, <1>7, <1>8, CallMoveInv DEF batchVars, Close

-----------------------------------------------------------------------------
(* The steps of the dispatcher, of the pool and of the environment.          *)

Owning == OwnsTwo \cup OwnsOne

\* A step in which no thread comes to own a call or ceases to: several threads
\* may move at once, but only between places that own nothing.
LEMMA SameOwnersInv ==
    ASSUME IInv,
           \A q \in Repl : pc'[q] # pc[q] => pc[q] \notin Owning /\ pc'[q] \notin Owning,
           BudgetInv', PlacesOK', CountsOK', LedgerClean', RootWaits', PlacesByRole',
           callsInFlight' - held' = callsInFlight - held,
           UNCHANGED <<callsSettled, recorded, leaked>>
    PROVE  IInv'
<1>1. /\ At(OwnsTwo)' = At(OwnsTwo) /\ At(OwnsOne)' = At(OwnsOne)
      /\ At({"release"})' = At({"release"})
  BY DEF At, Owning, OwnsTwo, OwnsOne
<1>2. LedgerBalanced'
  <2> DEFINE a == Cardinality(At(OwnsTwo))  b == Cardinality(At(OwnsOne))
             aa == Cardinality(At(OwnsTwo)')  bb == Cardinality(At(OwnsOne)')
  <2>1. a \in Nat /\ b \in Nat /\ aa = a /\ bb = b
    BY <1>1, AtFinite
  <2>2. callsInFlight = held + 2 * a + b + leaked
    BY DEF IInv, LedgerBalanced
  <2>3. callsInFlight' \in Nat /\ held' \in Nat
    BY DEF BudgetInv, BudgetTypeOK, CountsOK
  <2> HIDE DEF a, b, aa, bb
  <2>4. callsInFlight' = held' + 2 * a + b + leaked
    <3> DEFINE f == callsInFlight  h == held  ff == callsInFlight'  hh == held'  l == leaked
    <3>1. /\ f \in Nat /\ h \in Nat /\ ff \in Nat /\ hh \in Nat /\ l \in Nat
          /\ f = h + 2 * a + b + l /\ ff - hh = f - h
      BY <2>2, <2>3, Counters
    <3> HIDE DEF f, h, ff, hh, l
    <3>2. ff = hh + 2 * a + b + l
      BY <2>1, <3>1
    <3> QED BY <3>2 DEF ff, hh, l
  <2> QED BY <2>1, <2>4 DEF LedgerBalanced, aa, bb, OwnsTwo, OwnsOne
<1>3. BilledIsRecorded'
  BY <1>1 DEF IInv, BilledIsRecorded
<1> QED BY <1>2, <1>3 DEF IInv

\* The block ends, or its sandbox is lost.
LEMMA FinishExecInv ==
    ASSUME IInv, FinishExec
    PROVE  IInv'
<1> USE DEF Resting, OwnsTwo, OwnsOne
<1>1. PlacesOK
  BY DEF IInv
<1>2. UNCHANGED <<budgetVars, batchVars, late, recorded, leaked>>
  BY DEF FinishExec
<1>3. CASE Goto(Root, "exec", "turn") /\ UNCHANGED <<turn, outcome>>
  <2>1. PlacesOK'
    BY <1>1, <1>2, <1>3, Roles, GotoPlaces DEF Place, PlacesOK, batchVars
  <2> QED BY <1>2, <1>3, <2>1, Roles, QuietMoveInv DEF batchVars
<1>4. CASE Close(Root, "exec", "errored")
  <2>1. PlacesOK'
    BY <1>1, <1>2, <1>4, Roles, ClosePlaces DEF Outcome, PlacesOK, batchVars
  <2> QED BY <1>2, <1>4, <2>1, Roles, QuietMoveInv DEF batchVars, Close
<1> QED BY <1>3, <1>4 DEF FinishExec

\* A worker takes a queued child, or its sandbox cannot be had.
LEMMA PoolInv ==
    ASSUME IInv, NEW c \in Child, StartChild(c) \/ ChildRaises(c)
    PROVE  IInv'
<1> USE DEF Resting, OwnsTwo, OwnsOne
<1>1. PlacesOK /\ c \in Repl /\ c # Root
  BY Roles DEF IInv
<1>2. PICK to \in {"turn", "raised"} : Goto(c, "queued", to)
  BY DEF StartChild, ChildRaises
<1>3. UNCHANGED <<budgetVars, batchVars, turn, outcome, late, recorded, leaked>>
  BY DEF StartChild, ChildRaises
<1>4. PlacesOK'
  BY <1>1, <1>2, <1>3, GotoPlaces DEF Place, PlacesOK, batchVars
<1> QED BY <1>1, <1>2, <1>3, <1>4, QuietMoveInv DEF batchVars

\* A step of no thread: the deadline passes, time passes, or nothing happens.
LEMMA EnvironmentInv ==
    ASSUME IInv, PassDeadline \/ PassTime \/ UNCHANGED vars
    PROVE  IInv'
<1>1. /\ UNCHANGED <<replVars, batchVars, recorded, leaked>>
      /\ Tick \/ UNCHANGED budgetVars
      /\ late' \in BOOLEAN
  BY DEF PassDeadline, PassTime, vars, IInv, PlacesOK
<1>2. BudgetInv' /\ LedgerClean' /\ UNCHANGED <<callsInFlight, callsSettled>>
  BY <1>1, QuietStep DEF IInv
<1>3. PlacesOK' /\ CountsOK' /\ RootWaits' /\ PlacesByRole'
  BY <1>1 DEF IInv, PlacesOK, CountsOK, RootWaits, PlacesByRole, replVars, batchVars
<1>4. callsInFlight' - held' = callsInFlight - held
  BY <1>1, <1>2, Counters DEF batchVars
<1> QED BY <1>1, <1>2, <1>3, <1>4, SameOwnersInv DEF replVars, batchVars

\* rlm_call starts its child, or finds no sandbox for it.
LEMMA SubCallInv ==
    ASSUME IInv, SubCall
    PROVE  IInv'
<1>1. PlacesOK /\ CountsOK /\ RootWaits /\ PlacesByRole
  BY DEF IInv
<1>2. 1 \in Child /\ 1 \in Repl /\ Root \in Repl /\ 1 # Root
  BY Roles, AttemptAssumption DEF Child, Root
<1>3. /\ UNCHANGED <<budgetVars, held, leader, opened, late, recorded, leaked>>
      /\ pc[Root] = "exec"
      /\ \A c \in Child : pc[c] \in {"idle", "done", "raised"}
  BY <1>1 DEF SubCall, RootWaits
<1>4. BudgetInv' /\ LedgerClean' /\ UNCHANGED <<callsInFlight, callsSettled>>
  BY <1>3, QuietStep DEF IInv
<1>5. fanOuts' \in 0..FanOutBound
  BY <1>1, AttemptAssumption DEF PlacesOK, SubCall
<1>6. CASE UNCHANGED <<mode, replVars>>
  <2>1. PlacesOK' /\ CountsOK' /\ RootWaits' /\ PlacesByRole'
    BY <1>1, <1>3, <1>5, <1>6
    DEF PlacesOK, CountsOK, RootWaits, PlacesByRole, replVars
  <2>2. callsInFlight' - held' = callsInFlight - held
    BY <1>3, <1>4
  <2> QED BY <1>3, <1>4, <1>6, <2>1, <2>2, SameOwnersInv DEF replVars
<1>7. CASE /\ mode' = "single"
           /\ pc' = [pc EXCEPT ![Root] = "join", ![1] = "turn"]
           /\ turn' = [turn EXCEPT ![1] = 0]
           /\ outcome' = [outcome EXCEPT ![1] = "none"]
  <2>1. /\ pc'[Root] = "join" /\ pc'[1] = "turn"
        /\ \A q \in Repl : q # Root /\ q # 1 => pc'[q] = pc[q]
    BY <1>1, <1>2, <1>7 DEF PlacesOK
  <2>2. PlacesOK'
    <3>1. pc' \in [Repl -> Place]
      BY <1>1, <1>7 DEF PlacesOK, Place
    <3>2. turn' \in [Repl -> 0..MaxIterations]
      <4>1. turn \in [Repl -> 0..MaxIterations] /\ 0 \in 0..MaxIterations
        BY <1>1, AttemptAssumption DEF PlacesOK
      <4> QED BY <1>7, <4>1
    <3>3. outcome' \in [Repl -> Outcome]
      BY <1>1, <1>7 DEF PlacesOK, Outcome
    <3> QED BY <1>1, <1>3, <1>5, <1>7, <3>1, <3>2, <3>3 DEF PlacesOK
  <2>3. CountsOK' /\ RootWaits' /\ PlacesByRole'
    BY <1>1, <1>2, <1>3, <2>1, Roles DEF CountsOK, RootWaits, PlacesByRole
  <2>4. \A q \in Repl : pc'[q] # pc[q] => pc[q] \notin Owning /\ pc'[q] \notin Owning
    BY <1>2, <1>3, <2>1 DEF Owning, OwnsTwo, OwnsOne
  <2>5. callsInFlight' - held' = callsInFlight - held
    BY <1>3, <1>4
  <2> QED BY <1>3, <1>4, <2>2, <2>3, <2>4, <2>5, SameOwnersInv
<1> QED BY <1>6, <1>7 DEF SubCall

\* rlm_batch turns a grant into a hold before any child has started: the hold is
\* empty before it, so none is overwritten.
LEMMA DispatchBatchInv ==
    ASSUME IInv, NEW width \in 1..MaxWidth, NEW e \in Amounts, DispatchBatch(width, e)
    PROVE  IInv'
<1> USE DEF BatchCalls
<1>1. PlacesOK /\ CountsOK /\ RootWaits /\ PlacesByRole /\ BudgetInv /\ LedgerClean
  BY DEF IInv
<1>2. /\ UNCHANGED <<late, recorded, leaked>>
      /\ pc[Root] = "exec" /\ held = 0
      /\ \A c \in Child : pc[c] \in {"idle", "done", "raised"}
  BY <1>1 DEF DispatchBatch, RootWaits
<1>3. fanOuts' \in 0..FanOutBound
  BY <1>1, AttemptAssumption DEF PlacesOK, DispatchBatch
<1>4. CASE UNCHANGED <<budgetVars, replVars, mode, held, leader, opened>>
  <2>1. BudgetInv' /\ LedgerClean' /\ UNCHANGED <<callsInFlight, callsSettled>>
    BY <1>1, <1>4, QuietStep
  <2>2. PlacesOK' /\ CountsOK' /\ RootWaits' /\ PlacesByRole'
    BY <1>1, <1>2, <1>3, <1>4
    DEF PlacesOK, CountsOK, RootWaits, PlacesByRole, replVars
  <2>3. callsInFlight' - held' = callsInFlight - held
    BY <1>4, <2>1
  <2> QED BY <1>2, <1>4, <2>1, <2>2, <2>3, SameOwnersInv DEF replVars
<1>5. CASE \E n \in 1..width :
             /\ Reserve(2 * n, Tokens(n * e))
             /\ held' = 2 * n
             /\ mode' = "batch"
             /\ leader' = Root
             /\ opened' = FALSE
             /\ pc' = [p \in Repl |-> IF p = Root THEN "join"
                                      ELSE IF p <= n THEN "queued" ELSE "idle"]
             /\ turn' = [p \in Repl |-> IF p = Root THEN turn[p] ELSE 0]
             /\ outcome' = [p \in Repl |-> IF p = Root THEN outcome[p] ELSE "none"]
  <2>1. PICK n \in 1..width :
             /\ Reserve(2 * n, Tokens(n * e))
             /\ held' = 2 * n
             /\ mode' = "batch"
             /\ leader' = Root
             /\ opened' = FALSE
             /\ pc' = [p \in Repl |-> IF p = Root THEN "join"
                                      ELSE IF p <= n THEN "queued" ELSE "idle"]
             /\ turn' = [p \in Repl |-> IF p = Root THEN turn[p] ELSE 0]
             /\ outcome' = [p \in Repl |-> IF p = Root THEN outcome[p] ELSE "none"]
    BY <1>5
  <2>2. n \in Nat \ {0} /\ e \in Nat /\ n * e \in Nat /\ 2 * n \in Nat \ {0}
    BY AttemptAssumption, AmountAssumption
  <2>3. /\ BudgetInv' /\ LedgerClean'
        /\ callsInFlight' = callsInFlight + 2 * n /\ callsSettled' = callsSettled
    BY <1>1, <2>1, <2>2, ReserveStep
  <2>4. /\ pc'[Root] = "join"
        /\ \A c \in Child : pc'[c] \in {"queued", "idle"}
    BY <2>1, Roles
  <2>5. PlacesOK'
    <3>1. pc' \in [Repl -> Place]
      BY <2>1 DEF Place
    <3>2. turn' \in [Repl -> 0..MaxIterations]
      <4>1. \A q \in Repl : turn[q] \in 0..MaxIterations /\ 0 \in 0..MaxIterations
        BY <1>1, AttemptAssumption DEF PlacesOK
      <4> QED BY <2>1, <4>1, Zenon
    <3>3. outcome' \in [Repl -> Outcome]
      BY <1>1, <2>1 DEF PlacesOK, Outcome
    <3> QED BY <1>1, <1>2, <1>3, <2>1, <3>1, <3>2, <3>3, Roles DEF PlacesOK
  <2>6. CountsOK' /\ RootWaits' /\ PlacesByRole'
    BY <1>1, <1>2, <2>1, <2>2, <2>4 DEF CountsOK, RootWaits, PlacesByRole
  <2>7. \A q \in Repl : pc'[q] # pc[q] => pc[q] \notin Owning /\ pc'[q] \notin Owning
    BY <1>2, <2>4, Roles DEF Owning, OwnsTwo, OwnsOne
  <2>8. callsInFlight' - held' = callsInFlight - held
    BY <1>2, <2>1, <2>2, <2>3, Counters
  <2> QED BY <1>2, <2>3, <2>5, <2>6, <2>7, <2>8, SameOwnersInv
<1> QED BY <1>4, <1>5 DEF DispatchBatch

\* The first child that raised takes the queued ones with it; none owned a call.
LEMMA CancelQueuedInv ==
    ASSUME IInv, CancelQueued
    PROVE  IInv'
<1>1. PlacesOK /\ CountsOK /\ RootWaits /\ PlacesByRole
  BY DEF IInv
<1>2. /\ pc[Root] = "join"
      /\ pc' = [p \in Repl |-> IF pc[p] = "queued" THEN "idle" ELSE pc[p]]
      /\ UNCHANGED <<budgetVars, batchVars, turn, outcome, late, recorded, leaked>>
  BY DEF CancelQueued
<1>3. BudgetInv' /\ LedgerClean' /\ UNCHANGED <<callsInFlight, callsSettled>>
  BY <1>2, QuietStep DEF IInv
<1>4. \A q \in Repl : pc'[q] = pc[q] \/ (pc[q] = "queued" /\ pc'[q] = "idle")
  BY <1>2
<1>5. pc' \in [Repl -> Place]
  BY <1>1, <1>2 DEF PlacesOK, Place
<1>6. PlacesOK' /\ CountsOK'
  BY <1>1, <1>2, <1>5 DEF PlacesOK, CountsOK, batchVars
<1>7. RootWaits' /\ PlacesByRole'
  BY <1>1, <1>2, <1>4, Roles DEF RootWaits, PlacesByRole
<1>8. callsInFlight' - held' = callsInFlight - held
  BY <1>2, <1>3 DEF batchVars
<1>9. \A q \in Repl : pc'[q] # pc[q] => pc[q] \notin Owning /\ pc'[q] \notin Owning
  BY <1>4 DEF Owning, OwnsTwo, OwnsOne
<1> QED BY <1>2, <1>3, <1>6, <1>7, <1>8, <1>9, SameOwnersInv DEF batchVars

\* The dispatcher hands back exactly what is left of the hold, and it is in flight.
LEMMA JoinChildrenInv ==
    ASSUME IInv, JoinChildren
    PROVE  IInv'
<1>1. PlacesOK /\ CountsOK /\ PlacesByRole /\ BudgetInv /\ LedgerClean
  BY DEF IInv
<1>2. /\ \A c \in Child : pc[c] \in {"idle", "done", "raised"}
      /\ Goto(Root, "join", "exec")
      /\ mode' = "none" /\ opened' = TRUE /\ held' = 0
      /\ GiveBack
      /\ UNCHANGED <<turn, outcome, leader, fanOuts, late, recorded, leaked>>
  BY DEF JoinChildren, AllStopped, Stopped
<1>3. held <= callsInFlight
  BY AtFinite, Counters DEF IInv, LedgerBalanced
<1>4. /\ BudgetInv' /\ LedgerClean'
      /\ callsInFlight' = callsInFlight - held /\ callsSettled' = callsSettled
  <2>1. CASE held = 0
    BY <1>1, <1>2, <2>1, QuietStep, Counters DEF GiveBack
  <2>2. CASE held > 0
    BY <1>1, <1>2, <1>3, <2>2, ReleaseStep DEF GiveBack, CountsOK
  <2> QED BY <2>1, <2>2, Counters
<1>5. /\ pc'[Root] = "exec" /\ pc[Root] = "join"
      /\ \A c \in Child : pc'[c] = pc[c]
  BY <1>1, <1>2, Roles DEF Goto, PlacesOK
<1>6. PlacesOK' /\ CountsOK'
  BY <1>1, <1>2 DEF PlacesOK, CountsOK, Goto, Place
<1>7. RootWaits' /\ PlacesByRole'
  BY <1>1, <1>2, <1>5 DEF RootWaits, PlacesByRole
<1>8. callsInFlight' - held' = callsInFlight - held
  BY <1>2, <1>4, Counters
<1>9. \A q \in Repl : pc'[q] # pc[q] => pc[q] \notin Owning /\ pc'[q] \notin Owning
  BY <1>5, Roles DEF Owning, OwnsTwo, OwnsOne
<1> QED BY <1>2, <1>4, <1>6, <1>7, <1>8, <1>9, SameOwnersInv

-----------------------------------------------------------------------------
(* The theorems.                                                             *)

\* Every step keeps the invariant.
LEMMA StepInv == IInv /\ [Next]_vars => IInv'
<1> SUFFICES ASSUME IInv, [Next]_vars PROVE IInv'
  OBVIOUS
<1>1. ASSUME NEW p \in Repl, TurnStep(p) PROVE IInv'
  BY <1>1, TurnTopInv, ConsumeHoldInv, ReserveTurnInv DEF TurnStep
<1>2. ASSUME NEW p \in Repl, CallStep(p) PROVE IInv'
  BY <1>2, BarrierInv, FailureInv, SettleCallInv, ReleaseCallInv, ParseInv DEF CallStep
<1>3. ASSUME NEW p \in Repl, WindDownStep(p) PROVE IInv'
  BY <1>3, ReserveWindDownInv, WindDownRespondsInv, FailureInv, SettleWindDownInv
  DEF WindDownStep
<1>4. ASSUME NEW c \in Child, PoolStep(c) PROVE IInv'
  BY <1>4, PoolInv DEF PoolStep
<1>5. ASSUME HostCallStep PROVE IInv'
  BY <1>5, FinishExecInv, SubCallInv, CancelQueuedInv, JoinChildrenInv, DispatchBatchInv
  DEF HostCallStep
<1>6. ASSUME PassDeadline \/ PassTime \/ UNCHANGED vars PROVE IInv'
  BY <1>6, EnvironmentInv
<1> QED BY <1>1, <1>2, <1>3, <1>4, <1>5, <1>6 DEF Next, ReplStep

\* The inductive invariant holds of every behaviour.
THEOREM AttemptInvariant == Spec => []IInv
<1> QED BY InitInv, StepInv, PTL DEF Spec

\* Every granted call is held, owned by one thread or lost with a REPL that
\* raised, whatever the width of the batch and the number of workers.
THEOREM LedgerBalancedHolds == Spec => []LedgerBalanced
<1>1. IInv => LedgerBalanced
  BY DEF IInv
<1> QED BY <1>1, AttemptInvariant, PTL

\* The runtime never settles or hands back a call that was not granted.
THEOREM LedgerCleanHolds == Spec => []LedgerClean
<1>1. IInv => LedgerClean
  BY DEF IInv
<1> QED BY <1>1, AttemptInvariant, PTL

\* No path bills the run without the call appearing in the attempt's list.
THEOREM BilledIsRecordedHolds == Spec => []BilledIsRecorded
<1>1. IInv => BilledIsRecorded
  BY DEF IInv
<1> QED BY <1>1, AttemptInvariant, PTL

\* Type correctness.
THEOREM AttemptTypeCorrect == Spec => []TypeOK
<1>1. IInv => TypeOK
  BY DEF IInv, PlacesOK, CountsOK, TypeOK, BudgetInv
<1> QED BY <1>1, AttemptInvariant, PTL

-----------------------------------------------------------------------------
(* What is left in flight when the attempt is over.                          *)

\* Only a provider's exception loses a granted call.
NothingLeaks == leaked = 0

\* Without such exceptions nothing is lost.
LEMMA NothingLeaksStep ==
    ASSUME "provider" \notin Faults, NothingLeaks, [Next]_vars
    PROVE  NothingLeaks'
BY DEF NothingLeaks, Next, ReplStep, TurnStep, CallStep, WindDownStep, PoolStep,
       HostCallStep, TurnsSpent, DeadlinePassed, StartTurn, ConsumeHold, ReserveTurn,
       BeforeCall, WakeAtBarrier, Respond, ProviderFails, SettleCall, ReleaseCall, Parse,
       ReserveWindDown, WindDownResponds, WindDownFails, SettleWindDown, StartChild,
       ChildRaises, FinishExec, SubCall, CancelQueued, JoinChildren, DispatchBatch,
       PassDeadline, PassTime, vars

\* Once the root is done nobody owns a call, so what is in flight is what was lost.
LEMMA OnlyTheLostRemain ==
    ASSUME IInv, pc[Root] = "done"
    PROVE  callsInFlight = leaked
<1>1. held = 0 /\ \A q \in Repl : pc[q] \in {"idle", "done", "raised"}
  BY Roles DEF IInv, RootWaits
<1>2. At(OwnsTwo) = {} /\ At(OwnsOne) = {}
  BY <1>1 DEF At, OwnsTwo, OwnsOne
<1>3. Cardinality(At(OwnsTwo)) = 0 /\ Cardinality(At(OwnsOne)) = 0
  BY <1>2, FS_EmptySet
<1> QED BY <1>1, <1>3, Counters DEF IInv, LedgerBalanced

\* The hold of a batch, the wind-down half of a turn and the calls of a cancelled
\* child are all back when the attempt is over, if the provider raised nothing.
THEOREM NothingLeftInFlightHolds ==
    ASSUME "provider" \notin Faults
    PROVE  Spec => []NothingLeftInFlight
<1>1. Init => NothingLeaks
  BY DEF Init, NothingLeaks
<1>2. NothingLeaks /\ [Next]_vars => NothingLeaks'
  BY NothingLeaksStep
<1>3. IInv /\ NothingLeaks => NothingLeftInFlight
  BY OnlyTheLostRemain DEF NothingLeaks, NothingLeftInFlight
<1> QED BY <1>1, <1>2, <1>3, AttemptInvariant, PTL DEF Spec

\* And if it did, exactly the calls of the REPLs it closed stay in flight.
OnlyTheLostRemainInFlight == pc[Root] = "done" => callsInFlight = leaked

\* The leak is no wider than that, on any path out of the attempt.
THEOREM LeakIsTheProvidersOnly == Spec => []OnlyTheLostRemainInFlight
<1>1. IInv => OnlyTheLostRemainInFlight
  BY OnlyTheLostRemain DEF OnlyTheLostRemainInFlight
<1> QED BY <1>1, AttemptInvariant, PTL

-----------------------------------------------------------------------------
(* A batch is warm before it is wide.                                        *)

\* A batch whose first prefix is still being written.
Cold == mode = "batch" /\ ~opened

\* The places of a child that has not paid for its first turn.
Unpaid == {"queued", "turn", "hold"}

\* While the batch is cold a child has made no progress beyond its first call, and
\* only the leader is at it.
ColdChild(c) ==
    /\ pc[c] \in Unpaid \cup {"idle", "lead", "waiting", "call", "done", "raised"}
    /\ pc[c] \in {"queued", "turn"} => turn[c] = 0
    /\ pc[c] \in {"hold", "lead", "waiting", "call"} => turn[c] = 1
    /\ pc[c] = "call" => c = leader

\* The hold still covers the first turn of everyone who has not paid for it: so a
\* cold batch never has a child whose first turn is refused, which would wind it
\* down past the barrier.
HoldCoversFirstTurns == held >= 2 * Cardinality(At(Unpaid))

ColdInv ==
    /\ mode = "batch" => pc[Root] = "join"
    /\ Cold => HoldCoversFirstTurns /\ \A c \in Child : ColdChild(c)

\* One thread moves while the batch stays the same: the root is outside a batch,
\* and a child has to keep its own part.
LEMMA ColdMove ==
    ASSUME IInv, CountsOK', ColdInv, NEW p \in Repl, NEW from, NEW to, Goto(p, from, to),
           from # "join", mode' = mode, opened => opened',
           leader' = leader \/ leader = Root,
           \A q \in Repl : q # p => turn'[q] = turn[q],
           p \in Child /\ Cold /\ ~opened' =>
             /\ ColdChild(p)'
             /\ held' + 2 * Ind(from, Unpaid) >= held + 2 * Ind(to, Unpaid)
    PROVE  ColdInv'
<1>1. /\ pc \in [Repl -> Place] /\ opened \in BOOLEAN
      /\ held \in Nat /\ held' \in Nat
  BY DEF IInv, PlacesOK, CountsOK
<1>2. pc[p] = from /\ \A q \in Repl : pc'[q] = IF q = p THEN to ELSE pc[q]
  BY <1>1 DEF Goto
<1>3. CASE p = Root
  BY <1>2, <1>3, Roles DEF ColdInv, Cold
<1>4. CASE p # Root
  <2>1. p \in Child /\ pc'[Root] = pc[Root]
    BY <1>2, <1>4, Roles
  <2> SUFFICES ASSUME Cold, Cold'
               PROVE  HoldCoversFirstTurns' /\ \A c \in Child : ColdChild(c)'
    BY <2>1 DEF ColdInv, Cold
  <2>2. /\ ColdChild(p)'
        /\ held' + 2 * Ind(from, Unpaid) >= held + 2 * Ind(to, Unpaid)
    BY <2>1 DEF Cold
  <2>3. ASSUME NEW c \in Child PROVE ColdChild(c)'
    <3>1. CASE c = p
      BY <2>2, <3>1
    <3>2. CASE c # p
      <4>1. c \in Repl /\ c # Root /\ pc'[c] = pc[c] /\ turn'[c] = turn[c] /\ ColdChild(c)
        BY <1>2, <3>2, Roles DEF ColdInv
      <4> QED BY <4>1 DEF ColdChild
    <3> QED BY <3>1, <3>2
  <2>4. HoldCoversFirstTurns'
    <3> DEFINE n == Cardinality(At(Unpaid))  m == Cardinality(At(Unpaid)')
               i == Ind(from, Unpaid)  j == Ind(to, Unpaid)
    <3>1. /\ n \in Nat /\ m \in Nat /\ i \in Nat /\ j \in Nat
          /\ m = n - i + j
      BY <1>1, AtFinite, AtFinitePrime, GotoCount DEF Ind
    <3>2. held >= 2 * n /\ held' + 2 * i >= held + 2 * j
      BY <2>2 DEF ColdInv, HoldCoversFirstTurns
    <3> HIDE DEF n, m, i, j
    <3>3. held' >= 2 * m
      BY <1>1, <3>1, <3>2
    <3> QED BY <3>3 DEF HoldCoversFirstTurns, m, Unpaid
  <2> QED BY <2>3, <2>4
<1> QED BY <1>3, <1>4

\* The steps a cold batch's children can take: each keeps its part, or the leader
\* warms the batch.  The other steps of a REPL are those of a warm batch, or of none.
LEMMA ColdReplStep ==
    ASSUME "warm_timeout" \notin Faults, IInv, IInv', ColdInv, NEW p \in Repl, ReplStep(p)
    PROVE  ColdInv'
<1> USE DEF Unpaid
<1>1. /\ pc \in [Repl -> Place] /\ turn \in [Repl -> 0..MaxIterations]
      /\ opened \in BOOLEAN /\ CountsOK /\ CountsOK'
  BY DEF IInv, PlacesOK
<1>2. p \in Child => p # Root /\ (Cold => ColdChild(p))
  BY Roles DEF ColdInv
<1>3. CASE TurnsSpent(p) \/ DeadlinePassed(p)
  <2>1. Goto(p, "turn", "done") /\ UNCHANGED <<turn, batchVars>>
    BY <1>3 DEF TurnsSpent, DeadlinePassed, Close
  <2>2. pc'[p] = "done" /\ Ind("turn", Unpaid) = 1 /\ Ind("done", Unpaid) = 0
    BY <1>1, <2>1 DEF Goto, Ind
  <2> QED BY <1>1, <2>1, <2>2, ColdMove DEF batchVars, ColdChild, CountsOK
<1>4. CASE StartTurn(p)
  <2> DEFINE to == IF InBatch(p) THEN "hold" ELSE "reserve"
  <2>1. /\ Goto(p, "turn", to) /\ turn' = [turn EXCEPT ![p] = @ + 1]
        /\ UNCHANGED batchVars
    BY <1>4 DEF StartTurn
  <2>2. /\ pc'[p] = to /\ turn'[p] = turn[p] + 1 /\ pc[p] = "turn"
        /\ \A q \in Repl : q # p => turn'[q] = turn[q]
    BY <1>1, <2>1 DEF Goto
  <2>3. p \in Child /\ Cold => to = "hold" /\ turn[p] = 0
    BY <1>2, <2>2 DEF Cold, InBatch, ColdChild
  <2>4. p \in Child /\ Cold =>
          ColdChild(p)' /\ held' + 2 * Ind("turn", Unpaid) >= held + 2 * Ind(to, Unpaid)
    BY <1>1, <2>1, <2>2, <2>3 DEF ColdChild, batchVars, Ind, CountsOK
  <2> HIDE DEF to
  <2> QED BY <1>1, <2>1, <2>2, <2>4, ColdMove DEF batchVars
<1>5. CASE ConsumeHold(p)
  <2>1. /\ UNCHANGED <<turn, mode, leader, opened>> /\ pc[p] = "hold"
        /\ \/ held >= 2 /\ Goto(p, "hold", Paid(p)) /\ held' = held - 2
           \/ ~(held >= 2) /\ Goto(p, "hold", "reserve") /\ held' = held
    BY <1>5 DEF ConsumeHold, Consumed, Goto
  <2>2. p \in Child /\ Cold => held >= 2 /\ Paid(p) = "lead" /\ turn[p] = 1
    <3> SUFFICES ASSUME p \in Child, Cold PROVE held >= 2 /\ Paid(p) = "lead" /\ turn[p] = 1
      OBVIOUS
    <3>1. Cardinality(At(Unpaid)) \in Nat /\ Cardinality(At(Unpaid)) > 0
      BY <2>1, AtFinite, AtPositive
    <3>2. held >= 2
      BY <1>1, <3>1 DEF ColdInv, HoldCoversFirstTurns, CountsOK
    <3> QED BY <1>2, <2>1, <3>2 DEF ColdChild, Paid, FirstBatchCall, InBatch, Cold
  <2>3. CASE Goto(p, "hold", Paid(p)) /\ held' = held - 2
    <3> DEFINE to == Paid(p)
    <3>1. Goto(p, "hold", to) /\ pc'[p] = to
      BY <1>1, <2>3 DEF Goto
    <3>2. p \in Child /\ Cold =>
            ColdChild(p)' /\ held' + 2 * Ind("hold", Unpaid) >= held + 2 * Ind(to, Unpaid)
      BY <1>1, <2>1, <2>2, <2>3, <3>1 DEF ColdChild, Ind, CountsOK
    <3> HIDE DEF to
    <3> QED BY <1>1, <2>1, <3>1, <3>2, ColdMove
  <2>4. CASE ~(held >= 2) /\ Goto(p, "hold", "reserve")
    BY <1>1, <2>1, <2>2, <2>4, ColdMove
  <2> QED BY <2>1, <2>3, <2>4
<1>6. CASE BeforeCall(p)
  <2>1. /\ UNCHANGED <<turn, mode, opened, held>> /\ pc[p] = "lead"
        /\ \/ leader = Root /\ ~opened /\ Goto(p, "lead", "call") /\ leader' = p
           \/ opened /\ Goto(p, "lead", "call") /\ leader' = leader
           \/ Goto(p, "lead", "waiting") /\ leader' = leader
    BY <1>6 DEF BeforeCall, TakesLead, Goto
  <2>2. PICK to \in {"call", "waiting"} : Goto(p, "lead", to)
    BY <2>1
  <2>3. pc'[p] = to
    BY <1>1, <2>2 DEF Goto
  <2>4. p \in Child /\ Cold =>
          ColdChild(p)' /\ held' + 2 * Ind("lead", Unpaid) >= held + 2 * Ind(to, Unpaid)
    BY <1>1, <1>2, <2>1, <2>2, <2>3 DEF ColdChild, Ind, CountsOK, Cold, Goto
  <2> QED BY <1>1, <2>1, <2>2, <2>4, ColdMove
<1>7. CASE Respond(p) \/ ProviderFails(p)
  <2>1. /\ UNCHANGED <<turn, mode, leader, held>> /\ pc[p] = "call"
        /\ opened' = (opened \/ OpensBarrier(p))
        /\ \E to \in {"settle", "done"} : Goto(p, "call", to)
    BY <1>7 DEF Respond, ProviderFails, Close, Goto
  <2>2. p \in Child /\ Cold => opened'
    BY <1>2, <2>1 DEF ColdChild, OpensBarrier, FirstBatchCall, InBatch, Cold
  <2> QED BY <1>1, <2>1, <2>2, ColdMove
<1>8. CASE SettleCall(p) \/ ReleaseCall(p) \/ Parse(p) \/ ReserveTurn(p)
             \/ WakeAtBarrier(p) \/ WindDownStep(p)
  <2>1. PICK from \in Place, to \in Place : Goto(p, from, to)
    BY <1>8 DEF SettleCall, ReleaseCall, Parse, ReserveTurn, WakeAtBarrier, WindDownStep,
                ReserveWindDown, WindDownResponds, WindDownFails, SettleWindDown, Close,
                Paid, Place
  <2>2. /\ UNCHANGED <<turn, batchVars>>
        /\ pc[p] \in {"settle", "release", "parse", "reserve", "waiting",
                      "windReserve", "windCall", "windSettle"}
        /\ pc[p] = "waiting" => opened
    BY <1>8 DEF SettleCall, ReleaseCall, Parse, ReserveTurn, WakeAtBarrier, WindDownStep,
                ReserveWindDown, WindDownResponds, WindDownFails, SettleWindDown, Close, Goto
  <2>3. ~(p \in Child /\ Cold)
    BY <1>2, <2>2 DEF ColdChild, Cold
  <2>4. from # "join"
    BY <2>1, <2>2 DEF Goto
  <2> QED BY <1>1, <2>1, <2>2, <2>3, <2>4, ColdMove DEF batchVars
<1> QED BY <1>3, <1>4, <1>5, <1>6, <1>7, <1>8 DEF ReplStep, TurnStep, CallStep

\* A worker that starts a queued child, or fails to, keeps it unpaid or stops it.
LEMMA ColdPoolStep ==
    ASSUME IInv, IInv', ColdInv, NEW c \in Child, PoolStep(c)
    PROVE  ColdInv'
<1>1. PICK to \in {"turn", "raised"} : Goto(c, "queued", to)
  BY DEF PoolStep, StartChild, ChildRaises
<1>2. UNCHANGED <<turn, batchVars>> /\ CountsOK /\ CountsOK' /\ c \in Repl
  BY Roles DEF PoolStep, StartChild, ChildRaises, IInv
<1>3. pc[c] = "queued" /\ pc'[c] = to
  BY <1>1, <1>2 DEF Goto, IInv, PlacesOK
<1>4. Cold => ColdChild(c)' /\ held' + 2 * Ind("queued", Unpaid) >= held + 2 * Ind(to, Unpaid)
  BY <1>2, <1>3 DEF ColdInv, ColdChild, Unpaid, Ind, CountsOK, batchVars
<1> QED BY <1>1, <1>2, <1>4, ColdMove DEF batchVars

\* A batch starts cold, with a hold of two calls for each child that is queued.
LEMMA ColdDispatch ==
    ASSUME IInv, IInv', ColdInv, NEW width \in 1..MaxWidth, NEW e \in Amounts,
           DispatchBatch(width, e)
    PROVE  ColdInv'
<1>1. CASE UNCHANGED <<replVars, mode, held, leader, opened>>
  BY <1>1 DEF replVars, ColdInv, Cold, ColdChild, HoldCoversFirstTurns, At
<1>2. ASSUME NEW n \in 1..width, held' = 2 * n,
             pc' = [p \in Repl |-> IF p = Root THEN "join"
                                   ELSE IF p <= n THEN "queued" ELSE "idle"],
             turn' = [p \in Repl |-> IF p = Root THEN turn[p] ELSE 0]
      PROVE  ColdInv'
  <2>1. pc'[Root] = "join"
        /\ \A c \in Child : /\ pc'[c] = IF c <= n THEN "queued" ELSE "idle"
                            /\ turn'[c] = 0
    BY <1>2, Roles
  <2>2. \A c \in Child : ColdChild(c)'
    BY <2>1 DEF ColdChild, Unpaid
  <2>3. n \in Nat /\ n <= MaxWidth
    BY AttemptAssumption
  <2>4. At(Unpaid)' = 1..n
    <3>1. \A p \in Repl : pc'[p] \in Unpaid <=> p \in 1..n
      BY <2>1, <2>3, AttemptAssumption DEF Repl, Child, Root, Unpaid
    <3>2. 1..n \subseteq Repl
      BY <2>3, AttemptAssumption DEF Repl, Child
    <3>3. At(Unpaid)' = {p \in Repl : pc'[p] \in Unpaid}
      BY DEF At, Unpaid
    <3> QED BY <3>1, <3>2, <3>3
  <2>5. Cardinality(1..n) = n
    BY <2>3, FS_Interval
  <2>6. HoldCoversFirstTurns'
    BY <1>2, <2>3, <2>4, <2>5 DEF HoldCoversFirstTurns
  <2> QED BY <2>1, <2>2, <2>6 DEF ColdInv
<1> QED BY <1>1, <1>2 DEF DispatchBatch, replVars

\* Children that are cancelled pay nothing and start nothing.
LEMMA ColdCancel ==
    ASSUME IInv, ColdInv, CancelQueued
    PROVE  ColdInv'
<1>1. /\ pc' = [p \in Repl |-> IF pc[p] = "queued" THEN "idle" ELSE pc[p]]
      /\ UNCHANGED <<turn, batchVars>> /\ pc[Root] = "join"
  BY DEF CancelQueued
<1>2. pc'[Root] = "join"
  BY <1>1, Roles
<1>3. ASSUME Cold PROVE HoldCoversFirstTurns' /\ \A c \in Child : ColdChild(c)'
  <2>1. \A c \in Child : ColdChild(c)'
    BY <1>1, <1>3, Roles DEF ColdInv, ColdChild, Unpaid, batchVars
  <2>2. At(Unpaid)' \in SUBSET At(Unpaid)
    BY <1>1 DEF At, Unpaid
  <2>3. Cardinality(At(Unpaid)') <= Cardinality(At(Unpaid))
    BY <2>2, AtFinite, FS_Subset
  <2>4. held' = held /\ held >= 2 * Cardinality(At(Unpaid)) /\ held \in Nat
    BY <1>1, <1>3 DEF batchVars, ColdInv, HoldCoversFirstTurns, IInv, CountsOK
  <2>5. held' >= 2 * Cardinality(At(Unpaid)')
    BY <2>3, <2>4, AtFinite, AtFinitePrime
  <2> QED BY <2>1, <2>5 DEF HoldCoversFirstTurns
<1> QED BY <1>1, <1>2, <1>3 DEF ColdInv, Cold, batchVars

\* Every step keeps the cold batch's invariant, if waiting has no timeout.
LEMMA ColdStep ==
    ASSUME "warm_timeout" \notin Faults, IInv, IInv', ColdInv, [Next]_vars
    PROVE  ColdInv'
<1>1. ASSUME NEW p \in Repl, ReplStep(p) PROVE ColdInv'
  BY <1>1, ColdReplStep
<1>2. ASSUME NEW c \in Child, PoolStep(c) PROVE ColdInv'
  BY <1>2, ColdPoolStep
<1>3. CASE FinishExec
  <2>1. PICK to \in {"turn", "done"} : Goto(Root, "exec", to)
    BY <1>3 DEF FinishExec, Close
  <2>2. UNCHANGED <<turn, batchVars>>
    BY <1>3 DEF FinishExec, Close
  <2> QED BY <2>1, <2>2, Roles, ColdMove DEF batchVars, IInv
<1>4. CASE SubCall
  <2>1. mode # "batch" /\ (mode' = "single" \/ mode' = mode)
    BY <1>4 DEF SubCall, ColdInv
  <2> QED BY <2>1 DEF ColdInv, Cold
<1>5. CASE JoinChildren
  BY <1>5 DEF JoinChildren, ColdInv, Cold
<1>6. CASE CancelQueued
  BY <1>6, ColdCancel
<1>7. ASSUME NEW width \in 1..MaxWidth, NEW e \in Amounts, DispatchBatch(width, e)
      PROVE  ColdInv'
  BY <1>7, ColdDispatch
<1>8. CASE PassDeadline \/ PassTime \/ UNCHANGED vars
  <2>1. UNCHANGED <<replVars, batchVars>>
    BY <1>8 DEF PassDeadline, PassTime, vars
  <2> QED BY <2>1 DEF replVars, batchVars, ColdInv, Cold, ColdChild,
                     HoldCoversFirstTurns, At
<1> QED BY <1>1, <1>2, <1>3, <1>4, <1>5, <1>6, <1>7, <1>8 DEF Next, HostCallStep

\* No follower's call precedes the end of the leader's first one, whatever the
\* width, the ceilings, the failures and the deadline: unless a follower's wait at
\* the barrier times out, which is what the timeout is for.
THEOREM WarmBeforeWideHolds ==
    ASSUME "warm_timeout" \notin Faults
    PROVE  Spec => []WarmBeforeWide
<1>1. Init => ColdInv
  BY DEF Init, ColdInv, Cold
<1>2. IInv /\ IInv' /\ ColdInv /\ [Next]_vars => ColdInv'
  BY ColdStep
<1>3. ColdInv => WarmBeforeWide
  BY DEF ColdInv, Cold, ColdChild, Unpaid, WarmBeforeWide, InBatch
<1> QED BY <1>1, <1>2, <1>3, AttemptInvariant, PTL DEF Spec

-----------------------------------------------------------------------------
(* The runtime with its budget implements the abstract allowance.            *)

\* Every step of the runtime is one verb of the budget, used as granted, or
\* leaves the calls alone.
LEMMA OneVerb ==
    ASSUME IInv, [Next]_vars
    PROVE  \/ \E n \in Nat \ {0}, e \in Nat : Reserve(n, Tokens(e))
           \/ Bill /\ callsInFlight > 0
           \/ \E n \in 1..callsInFlight : Release(n)
           \/ UNCHANGED <<callsInFlight, callsSettled>>
<1> DEFINE Goal == \/ \E n \in Nat \ {0}, e \in Nat : Reserve(n, Tokens(e))
                   \/ Bill /\ callsInFlight > 0
                   \/ \E n \in 1..callsInFlight : Release(n)
                   \/ UNCHANGED <<callsInFlight, callsSettled>>
<1>1. ASSUME Tick \/ UNCHANGED budgetVars PROVE Goal
  BY <1>1 DEF Tick, budgetVars
<1>2. ASSUME NEW p \in Repl, TurnStep(p) PROVE Goal
  <2>1. CASE ReserveTurn(p)
    BY <2>1, <1>1, AmountAssumption DEF ReserveTurn, TurnCalls, Refuse
  <2>2. CASE ~ReserveTurn(p)
    BY <1>2, <2>2, <1>1
    DEF TurnStep, TurnsSpent, DeadlinePassed, StartTurn, ConsumeHold
  <2> QED BY <2>1, <2>2
<1>3. ASSUME NEW p \in Repl, CallStep(p) PROVE Goal
  <2>1. CASE SettleCall(p)
    <3>1. callsInFlight > 0
      BY <2>1, OwnedInFlight, Counters DEF SettleCall, Goto, Owned, OwnsTwo
    <3> QED BY <2>1, <3>1 DEF SettleCall
  <2>2. CASE ReleaseCall(p)
    <3>1. callsInFlight > 0
      BY <2>2, OwnedInFlight, Counters DEF ReleaseCall, Goto, Owned, OwnsTwo, OwnsOne
    <3>2. 1 \in 1..callsInFlight
      BY <3>1, Counters
    <3> QED BY <2>2, <3>2 DEF ReleaseCall
  <2>3. CASE ~SettleCall(p) /\ ~ReleaseCall(p)
    BY <1>3, <2>3, <1>1
    DEF CallStep, BeforeCall, WakeAtBarrier, Respond, ProviderFails, Parse
  <2> QED BY <2>1, <2>2, <2>3
<1>4. ASSUME NEW p \in Repl, WindDownStep(p) PROVE Goal
  <2>1. CASE ReserveWindDown(p)
    BY <2>1, <1>1, AmountAssumption DEF ReserveWindDown, Refuse
  <2>2. CASE SettleWindDown(p)
    <3>1. callsInFlight > 0
      BY <2>2, OwnedInFlight, Counters
      DEF SettleWindDown, Close, Goto, Owned, OwnsTwo, OwnsOne
    <3> QED BY <2>2, <3>1 DEF SettleWindDown
  <2>3. CASE ~ReserveWindDown(p) /\ ~SettleWindDown(p)
    BY <1>4, <2>3, <1>1 DEF WindDownStep, WindDownResponds, WindDownFails
  <2> QED BY <2>1, <2>2, <2>3
<1>5. ASSUME NEW c \in Child, PoolStep(c) PROVE Goal
  BY <1>5, <1>1 DEF PoolStep, StartChild, ChildRaises
<1>6. ASSUME HostCallStep PROVE Goal
  <2>1. ASSUME JoinChildren PROVE Goal
    <3>1. CASE held = 0
      BY <2>1, <3>1, <1>1 DEF JoinChildren, GiveBack
    <3>2. CASE held > 0
      <4>1. held <= callsInFlight
        BY AtFinite, Counters DEF IInv, LedgerBalanced
      <4>2. held \in 1..callsInFlight
        BY <3>2, <4>1, Counters
      <4> QED BY <2>1, <3>2, <4>2 DEF JoinChildren, GiveBack
    <3> QED BY <3>1, <3>2, Counters
  <2>2. ASSUME NEW width \in 1..MaxWidth, NEW e \in Amounts, DispatchBatch(width, e)
        PROVE  Goal
    <3>1. CASE UNCHANGED budgetVars
      BY <3>1, <1>1
    <3>2. ASSUME NEW n \in 1..width, Reserve(BatchCalls(n), Tokens(n * e)) PROVE Goal
      <4>1. 2 * n \in Nat \ {0} /\ n * e \in Nat
        BY AttemptAssumption, AmountAssumption
      <4> QED BY <3>2, <4>1 DEF BatchCalls
    <3> QED BY <2>2, <3>1, <3>2 DEF DispatchBatch
  <2> QED BY <1>6, <1>1, <2>1, <2>2 DEF HostCallStep, FinishExec, SubCall, CancelQueued
<1>7. ASSUME PassDeadline \/ PassTime \/ UNCHANGED vars PROVE Goal
  BY <1>7, <1>1 DEF PassDeadline, PassTime, vars
<1> QED BY <1>2, <1>3, <1>4, <1>5, <1>6, <1>7 DEF Next, ReplStep

\* The room the ledger leaves is the ceiling less the calls made and promised.
LEMMA Room ==
    ASSUME NEW max \in Nat, NEW made \in Nat, NEW promised \in Nat, NEW n \in Nat \ {0},
           n <= LeftOf(max, made + promised)
    PROVE  made + promised + n <= max /\ n \in 1..max
BY DEF LeftOf

\* With a call ceiling set, the calls granted and made are those of the abstract
\* allowance: none is made that was not promised, and the ceiling is never passed.
THEOREM ImplementsAllowanceHolds ==
    ASSUME MaxCalls # Unset
    PROVE  Spec => ImplementsAllowance
<1>1. MaxCalls \in Nat \ {0}
  BY CeilingAssumption DEF Ceilings
<1>2. Init => Allowance!Init
  BY DEF Init, BudgetInit, Allowance!Init
<1>3. IInv /\ [Next]_vars => [Allowance!Next]_<<callsInFlight, callsSettled>>
  <2> SUFFICES ASSUME IInv, [Next]_vars
               PROVE  [Allowance!Next]_<<callsInFlight, callsSettled>>
    OBVIOUS
  <2>1. ASSUME NEW n \in Nat \ {0}, NEW e \in Nat, Reserve(n, Tokens(e))
        PROVE  Allowance!Promise
    <3>1. n <= LeftOf(MaxCalls, callsSettled + callsInFlight)
      <4>1. LeftOf(MaxCalls, callsSettled + callsInFlight) \in Nat
        BY <1>1, Counters DEF LeftOf
      <4> QED BY <1>1, <2>1, <4>1 DEF Reserve, Refuses, CallsLeft
    <3>2. callsSettled + callsInFlight + n <= MaxCalls /\ n \in 1..MaxCalls
      BY <1>1, <3>1, Counters, Room
    <3> QED BY <2>1, <3>2 DEF Reserve, Allowance!Promise
  <2>2. ASSUME Bill, callsInFlight > 0 PROVE Allowance!Make
    BY <2>2 DEF Bill, Settle, Allowance!Make
  <2>3. ASSUME NEW n \in 1..callsInFlight, Release(n) PROVE Allowance!TakeBack
    <3>1. LesserOf(n, callsInFlight) = n
      BY Counters DEF LesserOf
    <3> QED BY <2>3, <3>1 DEF Release, Allowance!TakeBack
  <2> QED BY OneVerb, <2>1, <2>2, <2>3 DEF Allowance!Next
<1> QED BY <1>2, <1>3, AttemptInvariant, PTL
        DEF Spec, ImplementsAllowance, Allowance!Spec
=============================================================================
