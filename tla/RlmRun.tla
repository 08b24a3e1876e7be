-------------------------------- MODULE RlmRun --------------------------------
(***************************************************************************)
(* A whole run: RLM.complete in rlm0/runtime.py, the depth policies of     *)
(* policy.py that decide between its attempts, and the Run that run.py     *)
(* accepts and judges at the end.  Inside an attempt only what the run can *)
(* see is kept: the calls it bills and how it closes (module RlmAttempt has *)
(* the rest); between two attempts one thread is left.                     *)
(***************************************************************************)
EXTENDS RunBudget, Sequences, SequencesExt

CONSTANTS
    Policies,      \* the policies a run may be built with, see PolicyName
    PolicyDepth,   \* Fixed.depth or Escalating.max_depth
    Step,          \* Escalating.step
    MinCalls,      \* min_calls_for_deeper
    StopOnError,   \* Escalating.stop_on_error
    MaxAttempts,   \* max_attempts
    CallBound      \* bound on the calls of one attempt

\* A stranger is a policy from outside the package: it may propose anything.
PolicyName == {"never", "fixed", "escalating", "stranger"}

ASSUME RunAssumption ==
    /\ Policies \subseteq PolicyName
    /\ PolicyDepth \in Nat \ {0}
    /\ Step \in Nat \ {0} /\ MinCalls \in Nat \ {0}
    /\ StopOnError \in BOOLEAN
    /\ MaxAttempts \in Nat \ {0} /\ CallBound \in Nat \ {0}

VARIABLES
    policy,        \* the policy of this run
    experimental,  \* the runtime's experimental_depth
    phase,     \* "attempt", "decide", "built" or "raised"
    depth,     \* the depth bound of the attempt that runs, or ran last
    calls,     \* calls the running attempt has recorded
    subs,      \* how many of them are sub-calls
    attempts   \* the closed attempts

built == <<policy, experimental>>
runVars == <<built, phase, depth, calls, subs, attempts>>
vars == <<budgetVars, runVars>>

Outcome == {"answered", "budget_exhausted", "iterations_exhausted", "timed_out", "errored"}

Attempt == [depth : Nat, outcome : Outcome, calls : Nat, subs : Nat]

TypeOK ==
    /\ BudgetTypeOK
    /\ policy \in PolicyName /\ experimental \in BOOLEAN
    /\ phase \in {"attempt", "decide", "built", "raised"}
    /\ depth \in Nat
    /\ calls \in Nat /\ subs \in 0..calls
    /\ attempts \in Seq(Attempt) /\ Len(attempts) <= MaxAttempts

Init ==
    /\ BudgetInit
    /\ policy \in Policies
    /\ experimental \in BOOLEAN
    /\ experimental \/ policy \in {"never", "stranger"} \/ PolicyDepth <= 1
    /\ phase = "attempt"
    /\ depth = 0
    /\ calls = 0
    /\ subs = 0
    /\ attempts = <<>>

Tokens(n) == [tokens |-> n, usd |-> 0]

-----------------------------------------------------------------------------
(* The running attempt, one billed call at a time.                           *)

\* A call reserved, settled and refunded, with nothing else of it outstanding.
Charge(usage, priced) ==
    /\ callsSettled' = callsSettled + 1
    /\ settled' = [settled EXCEPT !["tokens"] = @ + usage["tokens"],
                                  !["usd"] = IF priced THEN @ + usage["usd"] ELSE @]
    /\ unpricedCalls' = IF priced THEN unpricedCalls ELSE unpricedCalls + 1
    /\ UNCHANGED <<callsInFlight, pending, unmatchedSettlements, callsReleased,
                   unmatchedReleases, elapsed, granted>>

\* A turn of the root or, once the root has called, of a child.
PaidTurn ==
    /\ phase = "attempt"
    /\ calls < CallBound
    /\ \E usage \in Quantity, priced \in BOOLEAN :
          ~Refuses(2, usage) /\ Charge(usage, priced)
    /\ calls' = calls + 1
    /\ \/ subs' = subs
       \/ calls > 0 /\ depth > 0 /\ subs' = subs + 1
    /\ UNCHANGED <<built, phase, depth, attempts>>

\* Seeded fault: the wind-down call is not in the attempt's list.
ClosedCallsBilledOnly(extra) == calls

\* len(state.calls) when the attempt is frozen.
ClosedCalls(extra) == calls + extra

CloseAttempt(how, extra) ==
    /\ phase = "attempt"
    /\ attempts' = Append(attempts, [depth |-> depth, outcome |-> how,
                                     calls |-> ClosedCalls(extra), subs |-> subs])
    /\ calls' = 0
    /\ subs' = 0
    /\ phase' = "decide"
    /\ UNCHANGED <<built, depth>>

Answers == calls > 0 /\ CloseAttempt("answered", 0) /\ UNCHANGED budgetVars

RunsOutOfTurns ==
    calls > 0 /\ CloseAttempt("iterations_exhausted", 0) /\ UNCHANGED budgetVars

TimesOut == CloseAttempt("timed_out", 0) /\ UNCHANGED budgetVars

\* The environment fails; if it was the provider, the turn's two calls are lost.
Errs ==
    /\ CloseAttempt("errored", 0)
    /\ UNCHANGED budgetVars \/ \E e \in Amounts : Reserve(2, Tokens(e))

\* A turn is refused: the wind-down call is made if it can still be paid for.
Exhausts ==
    \E e \in Amounts :
        /\ Refuses(2, Tokens(e))
        /\ \/ /\ ~Refuses(1, Tokens(e))
              /\ \E usage \in Quantity, priced \in BOOLEAN : Charge(usage, priced)
              /\ CloseAttempt("budget_exhausted", 1)
           \/ /\ Refuses(1, Tokens(e))
              /\ CloseAttempt("budget_exhausted", 0)
              /\ UNCHANGED budgetVars

-----------------------------------------------------------------------------
(* Between attempts: the policy proposes, _next_depth disposes.              *)

LastOf(s) == s[Len(s)]

\* can_fund_another_attempt, over the headroom that remaining() reports: calls,
\* price and seconds.  The token ceiling and the unpriced guard are not in it.
CanFund ==
    /\ MaxCalls # Unset => CallsLeft >= MinCalls
    /\ MaxUsd # Unset => SpendLeft("usd") > 0
    /\ MaxSeconds # Unset => SecondsLeft > 0

\* Seeded fault: an attempt that answered is escalated like any other.
EscalatesFromAny(outcome) == ~(StopOnError /\ outcome = "errored")

EscalatesFrom(outcome) ==
    outcome # "answered" /\ ~(StopOnError /\ outcome = "errored")

\* The depths a policy of the package wants next; at most one.
Wants(d) ==
    \/ policy = "fixed" /\ Len(attempts) = 1 /\ CanFund /\ d = PolicyDepth
    \/ /\ policy = "escalating" /\ EscalatesFrom(LastOf(attempts).outcome) /\ CanFund
       /\ d = LastOf(attempts).depth + Step

\* What the policy may propose; Unset is its None.
Proposals ==
    LET wanted == {d \in 0..PolicyDepth : Wants(d)}
    IN IF policy = "stranger" THEN {Unset} \cup 0..PolicyDepth
       ELSE IF wanted = {} THEN {Unset} ELSE wanted

\* Seeded fault: the proposal is trusted.
DeeperTrusted(proposal) == proposal # Unset

\* A proposal at or below the bound just run means stop.
Deeper(proposal) == proposal # Unset /\ proposal > depth

\* Depth above 1 needs the runtime's own opt-in.
Allowed(proposal) == proposal > 1 => experimental

\* Seeded fault: one attempt too many.
AttemptsLeftOffByOne == Len(attempts) <= MaxAttempts

AttemptsLeft == Len(attempts) < MaxAttempts

\* The while loop of complete asks for room among the attempts only after the
\* policy was asked, so a depth that is refused raises even on the last attempt.
Escalate ==
    /\ phase = "decide"
    /\ \E proposal \in Proposals :
          /\ Deeper(proposal)
          /\ Allowed(proposal)
          /\ AttemptsLeft
          /\ depth' = proposal
    /\ phase' = "attempt"
    /\ UNCHANGED <<budgetVars, built, calls, subs, attempts>>

\* A depth above 1 without experimental_depth is a ValueError out of complete.
RefuseDepth ==
    /\ phase = "decide"
    /\ \E proposal \in Proposals : Deeper(proposal) /\ ~Allowed(proposal)
    /\ phase' = "raised"
    /\ UNCHANGED <<budgetVars, built, depth, calls, subs, attempts>>

\* Run.__post_init__, for a run without a waiver.
Accepts(as) ==
    /\ as # <<>>
    /\ as[1].depth = 0
    /\ \A i, j \in 1..Len(as) : i < j => as[i].depth <= as[j].depth

Stop ==
    /\ phase = "decide"
    /\ \/ \E proposal \in Proposals : ~Deeper(proposal)
       \/ /\ ~AttemptsLeft
          /\ \E proposal \in Proposals :
                Deeper(proposal) /\ Allowed(proposal)
    /\ phase' = IF Accepts(attempts) THEN "built" ELSE "raised"
    /\ UNCHANGED <<budgetVars, built, depth, calls, subs, attempts>>

PassTime == phase = "attempt" /\ elapsed < ClockBound /\ Tick /\ UNCHANGED runVars

Next ==
    \/ PaidTurn \/ Answers \/ RunsOutOfTurns \/ TimesOut \/ Errs \/ Exhausts
    \/ Escalate \/ RefuseDepth \/ Stop
    \/ PassTime

Spec == Init /\ [][Next]_vars

-----------------------------------------------------------------------------
(* The finished run: final and recursion_verdict.                            *)

\* Seeded fault: the last attempt is the one that counts.
FinalLast(as) == LastOf(as)

Final(as) ==
    LET answered == {i \in 1..Len(as) : as[i].outcome = "answered"}
    IN IF answered # {} THEN as[Max(answered)] ELSE LastOf(as)

Helped(as) == Final(as).outcome = "answered" /\ as[1].outcome # "answered"

Verdict(as) ==
    IF Len(as) = 1 THEN "not_attempted"
    ELSE IF Helped(as) THEN "helped" ELSE "did_not_help"

-----------------------------------------------------------------------------
(* Properties.                                                               *)

\* A stranger's policy cannot make complete lose its control or its order: what
\* it builds is accepted by Run, starts at depth zero and strictly deepens.
ControlComesFirst ==
    /\ phase # "raised" \/ ~experimental
    /\ attempts # <<>> => attempts[1].depth = 0
    /\ \A i, j \in 1..Len(attempts) : i < j => attempts[i].depth < attempts[j].depth

\* The escalating policy pays for a deeper attempt only after one that failed
\* on the task: never after an answer, and never after an environment error.
EscalatesOnlyAfterFailure ==
    policy = "escalating" =>
        \A i \in 1..(Len(attempts) - 1) :
            /\ attempts[i].outcome # "answered"
            /\ StopOnError => attempts[i].outcome # "errored"

\* Without the explicit opt-in no attempt runs deeper than one, whatever a policy
\* that declares nothing about itself proposes.
ShallowUnlessExperimental ==
    experimental \/ (depth <= 1 /\ \A i \in 1..Len(attempts) : attempts[i].depth <= 1)

\* No policy, known or not, takes the ladder out of order or out of bounds.
LadderIsOrdered == ControlComesFirst /\ ShallowUnlessExperimental

\* Every call the budget was charged for belongs to exactly one attempt of the
\* run, so the cost table and the ledger agree.
SpendIsAttributed ==
    callsSettled = calls + FoldLeft(LAMBDA n, a : n + a.calls, 0, attempts)

\* An answer that any attempt produced is not lost when a deeper attempt fails,
\* and "helped" is said exactly when only a deeper attempt produced one.
VerdictIsEarned ==
    phase = "built" =>
        LET answered == {i \in 1..Len(attempts) : attempts[i].outcome = "answered"}
        IN /\ answered # {} => Final(attempts).outcome = "answered"
           /\ Verdict(attempts) = "helped" <=> answered # {} /\ 1 \notin answered
=============================================================================
