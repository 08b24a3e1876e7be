------------------------------ MODULE RunBudget ------------------------------
(***************************************************************************)
(* The ledger of rlm0/budget.py: one RunBudget, shared by every call of *)
(* a run at every depth.  Every method of the class takes the one lock, so  *)
(* each verb is one atomic action: reserve, settle, release.               *)
(*                                                                         *)
(* The module is meant to be composed: the actions Reserve, Settle and     *)
(* Release are those a caller conjoins with its own step.  BudgetSpec      *)
(* drives the ledger with callers that obey no protocol at all, so the     *)
(* facts proved of it hold for every client.                               *)
(***************************************************************************)
EXTENDS Integers

CONSTANTS
    Unset,        \* stands for Python's None: this ceiling was not set
    MaxCalls,     \* max_calls, or Unset
    MaxTokens,    \* max_tokens, or Unset
    MaxUsd,       \* max_usd in whole price units, or Unset
    MaxSeconds,   \* max_seconds in whole ticks, or Unset
    MaxUnpriced,  \* max_unpriced_calls
    SoftPercent,  \* soft_fraction, as a percentage
    Widths,       \* the batch widths callers ask for
    Amounts,      \* the token and price amounts callers estimate and report
    GrantBound,   \* bound on the calls ever granted, so that runs are finite
    StrayBound,   \* bound on settlements and releases that match no grant
    ClockBound    \* bound on the clock

\* The two resources that are metered in amounts rather than in calls.
Resource == {"tokens", "usd"}

Ceiling == [r \in Resource |-> IF r = "tokens" THEN MaxTokens ELSE MaxUsd]

Ceilings == {MaxCalls, MaxTokens, MaxUsd, MaxSeconds}

\* The constructor's checks: ceilings are positive, and at least one is set.
ASSUME CeilingAssumption ==
    /\ Unset \notin Int
    /\ \A c \in Ceilings : c = Unset \/ c \in Nat \ {0}
    /\ \E c \in Ceilings : c # Unset
    /\ MaxUnpriced \in Nat
    /\ SoftPercent \in 0..99

ASSUME WidthAssumption == Widths \subseteq Nat \ {0}

ASSUME AmountAssumption == Amounts \subseteq Nat

ASSUME BoundAssumption ==
    GrantBound \in Nat /\ StrayBound \in Nat /\ ClockBound \in Nat

VARIABLES
    callsSettled,          \* _calls_settled
    callsInFlight,         \* _calls_in_flight
    settled,               \* _tokens_settled and _usd_settled
    pending,               \* _tokens_pending and _usd_pending
    unpricedCalls,         \* _unpriced_calls
    unmatchedSettlements,  \* _unmatched_settlements
    callsReleased,         \* _calls_released
    unmatchedReleases,     \* _unmatched_releases
    elapsed,               \* _clock() - _started_at
    granted                \* history: the calls ever granted

budgetVars == <<callsSettled, callsInFlight, settled, pending, unpricedCalls,
                unmatchedSettlements, callsReleased, unmatchedReleases,
                elapsed, granted>>

Amount == [Resource -> Nat]
NoAmount == [r \in Resource |-> 0]

BudgetTypeOK ==
    /\ callsSettled \in Nat
    /\ callsInFlight \in Nat
    /\ settled \in Amount
    /\ pending \in Amount
    /\ unpricedCalls \in Nat
    /\ unmatchedSettlements \in Nat
    /\ callsReleased \in Nat
    /\ unmatchedReleases \in Nat
    /\ elapsed \in Nat
    /\ granted \in Nat

BudgetInit ==
    /\ callsSettled = 0
    /\ callsInFlight = 0
    /\ settled = NoAmount
    /\ pending = NoAmount
    /\ unpricedCalls = 0
    /\ unmatchedSettlements = 0
    /\ callsReleased = 0
    /\ unmatchedReleases = 0
    /\ elapsed = 0
    /\ granted = 0

-----------------------------------------------------------------------------
(* What the ledger has left.  Every ceiling is tested against settled plus   *)
(* pending; a ceiling that is Unset never objects.                           *)

\* Seeded fault: the remainder is not floored at zero.
LeftUnfloored(max, used) == max - used

LeftOf(max, used) == IF used < max THEN max - used ELSE 0

\* Seeded fault: calls in flight take no room.
CallsLeftIgnoringFlight == LeftOf(MaxCalls, callsSettled)

CallsLeft == LeftOf(MaxCalls, callsSettled + callsInFlight)

SpendLeft(r) == LeftOf(Ceiling[r], settled[r] + pending[r])

SecondsLeft == LeftOf(MaxSeconds, elapsed)

UnpricedBlocks == MaxUsd # Unset /\ unpricedCalls > MaxUnpriced

\* Seeded fault: a spent ceiling lets an estimate of zero through.
DoesNotFitByEstimate(r, est) == est[r] > SpendLeft(r)

DoesNotFit(r, est) == SpendLeft(r) = 0 \/ est[r] > SpendLeft(r)

Refuses(n, est) ==
    \/ UnpricedBlocks
    \/ MaxSeconds # Unset /\ SecondsLeft = 0
    \/ MaxCalls # Unset /\ n > CallsLeft
    \/ \E r \in Resource : Ceiling[r] # Unset /\ DoesNotFit(r, est)

\* Not even one more minimal call could be reserved.
Exhausted == Refuses(1, NoAmount)

\* Seeded fault: the threshold is rounded down.
SoftCallsFloor == (MaxCalls * SoftPercent) \div 100

SoftCalls == (MaxCalls * SoftPercent + 99) \div 100

\* The soft threshold: some ceiling is inside its last SoftPercent per cent.
\* The call threshold is rounded up, the others are exact.
NearLimit ==
    /\ SoftPercent > 0
    /\ \/ MaxCalls # Unset /\ CallsLeft <= SoftCalls
       \/ \E r \in Resource :
             Ceiling[r] # Unset /\ 100 * SpendLeft(r) <= Ceiling[r] * SoftPercent
       \/ MaxSeconds # Unset /\ 100 * SecondsLeft <= MaxSeconds * SoftPercent

-----------------------------------------------------------------------------
(* The three verbs.                                                          *)

\* Seeded faults: the share is not divided; the last call does not zero the pool.
PoolAfterUndivided(n) == [r \in Resource |-> pending[r] - pending[r] * n]
PoolAfterResidue(n) ==
    [r \in Resource |-> pending[r] - (pending[r] \div callsInFlight) * n]

\* What stays provisional once n of the calls in flight are no longer so.
\* The pool is shared, so each call takes an equal share with it (in whole
\* units: the code's shares are floating point); the last one zeroes it.
PoolAfter(n) ==
    [r \in Resource |->
        IF n = callsInFlight
        THEN 0
        ELSE pending[r] - (pending[r] \div callsInFlight) * n]

\* Grant a whole batch, or nothing.
Reserve(n, est) ==
    /\ ~Refuses(n, est)
    /\ callsInFlight' = callsInFlight + n
    /\ pending' = [r \in Resource |-> pending[r] + est[r]]
    /\ granted' = granted + n
    /\ UNCHANGED <<callsSettled, settled, unpricedCalls, unmatchedSettlements,
                   callsReleased, unmatchedReleases, elapsed>>

\* A refused reservation leaves the ledger alone.
Refuse(n, est) ==
    /\ Refuses(n, est)
    /\ UNCHANGED budgetVars

\* Reconcile one call.  A settlement nothing was granted for is still charged,
\* and counted apart.  An unpriced one adds nothing to the price.
Settle(usage, priced) ==
    /\ IF callsInFlight > 0
       THEN /\ callsInFlight' = callsInFlight - 1
            /\ pending' = PoolAfter(1)
            /\ UNCHANGED unmatchedSettlements
       ELSE /\ unmatchedSettlements' = unmatchedSettlements + 1
            /\ UNCHANGED <<callsInFlight, pending>>
    /\ callsSettled' = callsSettled + 1
    /\ settled' = [settled EXCEPT !["tokens"] = @ + usage["tokens"],
                                  !["usd"] = IF priced THEN @ + usage["usd"] ELSE @]
    /\ unpricedCalls' = IF priced THEN unpricedCalls ELSE unpricedCalls + 1
    /\ UNCHANGED <<callsReleased, unmatchedReleases, elapsed, granted>>

LesserOf(a, b) == IF a < b THEN a ELSE b

\* Seeded fault: every call handed back is credited, in flight or not.
CreditedAll(n) == n

Credited(n) == LesserOf(n, callsInFlight)

\* Hand back n granted calls that will not be made.  Only what is in flight can
\* come back; the rest is counted and not applied.
Release(n) ==
    LET returned == LesserOf(n, callsInFlight) IN
    /\ callsInFlight' = callsInFlight - returned
    /\ pending' = IF returned = 0 THEN pending ELSE PoolAfter(returned)
    /\ callsReleased' = callsReleased + Credited(n)
    /\ unmatchedReleases' = unmatchedReleases + (n - returned)
    /\ UNCHANGED <<callsSettled, settled, unpricedCalls, unmatchedSettlements,
                   elapsed, granted>>

Tick ==
    /\ elapsed' = elapsed + 1
    /\ UNCHANGED <<callsSettled, callsInFlight, settled, pending, unpricedCalls,
                   unmatchedSettlements, callsReleased, unmatchedReleases, granted>>

-----------------------------------------------------------------------------
(* Callers that follow no protocol: any of them may settle or release at any *)
(* time.  The bounds only keep the state space finite.                       *)

Quantity == [Resource -> Amounts]

BudgetNext ==
    \/ \E n \in Widths, est \in Quantity :
          granted + n <= GrantBound /\ Reserve(n, est)
    \/ \E usage \in Quantity, priced \in BOOLEAN :
          /\ callsInFlight > 0 \/ unmatchedSettlements < StrayBound
          /\ Settle(usage, priced)
    \/ \E n \in Widths :
          /\ n <= callsInFlight \/ unmatchedReleases + n <= StrayBound
          /\ Release(n)
    \/ elapsed < ClockBound /\ Tick

BudgetSpec == BudgetInit /\ [][BudgetNext]_budgetVars

-----------------------------------------------------------------------------
(* Properties.                                                               *)

\* The call ceiling is exact (budget.py: "the number of calls in a batch is
\* known before dispatch"): calls made and calls promised never pass it, except
\* by calls a caller made without any grant.
CallCeiling ==
    MaxCalls # Unset =>
        callsSettled + callsInFlight <= MaxCalls + unmatchedSettlements

\* No grant is lost or counted twice: each granted call is settled, released or
\* still in flight, however reserve, settle and release interleave.
Conservation ==
    granted + unmatchedSettlements = callsSettled + callsReleased + callsInFlight

\* The provisional pool never outlives the calls it stood for: with nothing in
\* flight nothing is pending, whatever shares were given back before.
PoolEmptiesWithFlight == callsInFlight = 0 => pending = NoAmount

\* Once the settled spend of a metered resource reaches its ceiling no further
\* call is granted, so that ceiling "cannot be overshot repeatedly".
NoGrantPastTheLine ==
    [][ (\E r \in Resource : Ceiling[r] # Unset /\ settled[r] >= Ceiling[r])
          => granted' = granted ]_budgetVars

\* An idle ledger that refuses one minimal call refuses every call from then on:
\* only calls still in flight can bring headroom back.
IdleExhaustionIsFinal ==
    [][ Exhausted /\ callsInFlight = 0 => Exhausted' /\ granted' = granted ]_budgetVars

\* near_limit warns "while it still has calls to spend": the caller of the last
\* single call was inside the soft threshold before it took that call.
LastCallForewarned ==
    [][ /\ SoftPercent > 0 /\ MaxCalls # Unset
        /\ CallsLeft > 0 /\ CallsLeft' = 0 /\ granted' = granted + 1
        => NearLimit ]_budgetVars
=============================================================================
