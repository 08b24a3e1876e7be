------------------------------ MODULE RlmAttempt ------------------------------
(***************************************************************************)
(* One attempt of rlm0/runtime.py, bounded at depth 0 or 1: the root   *)
(* REPL, the single sub-call, and the warmed batch of children that run in *)
(* a thread pool.  Every REPL, root or child, goes through the same turns  *)
(* (_drive, _turns, _wind_down, _call_model), so the actions are the same  *)
(* for all of them; what differs is whether a child is part of a batch,    *)
(* where its first call waits at the warming barrier and its turns may be  *)
(* paid from the batch's shared hold.                                      *)
(*                                                                         *)
(* A step is what happens between two acquisitions of a lock (the budget's,*)
(* the hold's, the barrier's) or one wait for the provider; steps of       *)
(* different threads interleave.                                           *)
(***************************************************************************)
EXTENDS RunBudget, FiniteSets

CONSTANTS
    MaxDepth,       \* the attempt's depth bound: 0 or 1
    MaxIterations,  \* turns per REPL
    MaxParallel,    \* max_parallel_sub_calls
    MaxWidth,       \* the widest batch the root's code asks for
    FanOutBound,    \* bound on the sub-calls and batches of the attempt
    Faults          \* what the environment may do, see Fault

Fault == {"provider", "sandbox", "warm_timeout", "deadline", "unpriced"}

ASSUME AttemptAssumption ==
    /\ MaxDepth \in 0..1
    /\ MaxIterations \in Nat \ {0}
    /\ MaxParallel \in Nat \ {0}
    /\ MaxWidth \in Nat \ {0}
    /\ FanOutBound \in Nat
    /\ Faults \subseteq Fault

Root == 0
Child == 1..MaxWidth
Repl == {Root} \cup Child

VARIABLES
    pc,        \* where each REPL's thread is
    turn,      \* iterations each REPL has started
    outcome,   \* how each REPL closed
    mode,      \* what the root's host call is: "none", "single" or "batch"
    held,      \* _HeldCall._held of the current batch
    leader,    \* the child that took the barrier's lead, or Root for nobody
    opened,    \* _WarmingBarrier._opened of the current batch
    fanOuts,   \* sub-calls and batches made so far
    late,      \* the attempt's deadline has passed
    recorded,  \* len(state.calls)
    leaked     \* history: calls granted to a REPL that raised before using them

replVars == <<pc, turn, outcome>>
batchVars == <<mode, held, leader, opened, fanOuts>>
vars == <<budgetVars, replVars, batchVars, late, recorded, leaked>>

\* The places a thread can be, by what it does next.
Place == {"idle", "queued", "turn", "hold", "reserve", "lead", "waiting", "call",
          "settle", "release", "parse", "exec", "join",
          "windReserve", "windCall", "windSettle", "done", "raised"}

Outcome == {"none", "answered", "budget_exhausted", "iterations_exhausted",
            "timed_out", "errored"}

TypeOK ==
    /\ BudgetTypeOK
    /\ pc \in [Repl -> Place]
    /\ turn \in [Repl -> 0..MaxIterations]
    /\ outcome \in [Repl -> Outcome]
    /\ mode \in {"none", "single", "batch"}
    /\ held \in Nat
    /\ leader \in Repl
    /\ opened \in BOOLEAN
    /\ fanOuts \in 0..FanOutBound
    /\ late \in BOOLEAN
    /\ recorded \in Nat
    /\ leaked \in Nat

Init ==
    /\ BudgetInit
    /\ pc = [p \in Repl |-> IF p = Root THEN "turn" ELSE "idle"]
    /\ turn = [p \in Repl |-> 0]
    /\ outcome = [p \in Repl |-> "none"]
    /\ mode = "none"
    /\ held = 0
    /\ leader = Root
    /\ opened = FALSE
    /\ fanOuts = 0
    /\ late = FALSE
    /\ recorded = 0
    /\ leaked = 0

-----------------------------------------------------------------------------
(* Helpers.                                                                  *)

Tokens(n) == [tokens |-> n, usd |-> 0]

InBatch(p) == p # Root /\ mode = "batch"

\* A child's place in the batch, its barrier, applies to its first call only.
FirstBatchCall(p) == InBatch(p) /\ turn[p] = 1

\* A thread that is stopped: no worker of the pool is running it.
Stopped == {"idle", "queued", "done", "raised"}

Running == {c \in Child : pc[c] \notin Stopped}

Goto(p, from, to) ==
    /\ pc[p] = from
    /\ pc' = [pc EXCEPT ![p] = to]

\* Return from _drive.
Close(p, from, how) ==
    /\ Goto(p, from, "done")
    /\ outcome' = [outcome EXCEPT ![p] = how]
    /\ turn' = turn

\* The places where a thread has been granted two calls, or one, that it must
\* still settle or hand back.
OwnsTwo == {"lead", "waiting", "call", "settle"}
OwnsOne == {"release", "windCall", "windSettle"}

At(places) == {p \in Repl : pc[p] \in places}

-----------------------------------------------------------------------------
(* _turns: the top of the loop, and the two ways a turn is paid for.         *)

\* Seeded fault: one turn too many.
TurnsLeftOffByOne(p) == turn[p] <= MaxIterations

TurnsLeft(p) == turn[p] < MaxIterations

TurnsSpent(p) ==
    /\ ~TurnsLeft(p)
    /\ Close(p, "turn", "iterations_exhausted")
    /\ UNCHANGED <<budgetVars, batchVars, late, recorded, leaked>>

DeadlinePassed(p) ==
    /\ TurnsLeft(p)
    /\ late
    /\ Close(p, "turn", "timed_out")
    /\ UNCHANGED <<budgetVars, batchVars, late, recorded, leaked>>

StartTurn(p) ==
    /\ TurnsLeft(p)
    /\ ~late
    /\ Goto(p, "turn", IF InBatch(p) THEN "hold" ELSE "reserve")
    /\ turn' = [turn EXCEPT ![p] = @ + 1]
    /\ UNCHANGED <<budgetVars, batchVars, outcome, late, recorded, leaked>>

\* Where a paid turn goes: through the barrier if it is a child's first.
Paid(p) == IF FirstBatchCall(p) THEN "lead" ELSE "call"

\* Seeded fault: _HeldCall.consume's default of one call.
ConsumedDefault == 1

\* What a turn takes from the hold, and from the budget: the call about to be
\* made, and the wind-down it may need.
Consumed == 2

\* This call, and the wind-down this turn may turn out to need.
TurnCalls == 2

\* initial_hold.consume(2): tried on every turn of a child, not only its first.
ConsumeHold(p) ==
    /\ IF held >= Consumed
       THEN Goto(p, "hold", Paid(p)) /\ held' = held - Consumed
       ELSE Goto(p, "hold", "reserve") /\ held' = held
    /\ UNCHANGED <<budgetVars, turn, outcome, mode, leader, opened, fanOuts,
                   late, recorded, leaked>>

ReserveTurn(p) ==
    /\ \E e \in Amounts :
          \/ Reserve(TurnCalls, Tokens(e)) /\ Goto(p, "reserve", Paid(p))
          \/ Refuse(TurnCalls, Tokens(e)) /\ Goto(p, "reserve", "windReserve")
    /\ UNCHANGED <<batchVars, turn, outcome, late, recorded, leaked>>

-----------------------------------------------------------------------------
(* _call_model: barrier, provider, settlement, refund, record.               *)

\* Seeded fault: the lead is taken by whoever comes while the prefix is cold.
TakesLeadCold == ~opened

TakesLead == leader = Root /\ ~opened

\* Dispatch.before_call: take the lead while the prefix is cold, else wait.
BeforeCall(p) ==
    /\ IF TakesLead
       THEN Goto(p, "lead", "call") /\ leader' = p
       ELSE Goto(p, "lead", IF opened THEN "call" ELSE "waiting") /\ leader' = leader
    /\ UNCHANGED <<budgetVars, turn, outcome, mode, held, opened, fanOuts,
                   late, recorded, leaked>>

WakeAtBarrier(p) ==
    /\ opened \/ "warm_timeout" \in Faults
    /\ Goto(p, "waiting", "call")
    /\ UNCHANGED <<budgetVars, batchVars, turn, outcome, late, recorded, leaked>>

\* Seeded fault: nobody opens the barrier before the pool is joined.
OpensBarrierAtJoin(p) == FALSE

\* The leader opens the barrier when its first call ends, in either way.
OpensBarrier(p) == FirstBatchCall(p) /\ leader = p

Respond(p) ==
    /\ Goto(p, "call", "settle")
    /\ opened' = (opened \/ OpensBarrier(p))
    /\ UNCHANGED <<budgetVars, turn, outcome, mode, held, leader, fanOuts,
                   late, recorded, leaked>>

\* The provider's exception closes the REPL; its two calls are never returned.
ProviderFails(p) ==
    /\ "provider" \in Faults
    /\ Close(p, "call", "errored")
    /\ opened' = (opened \/ OpensBarrier(p))
    /\ leaked' = leaked + 2
    /\ UNCHANGED <<budgetVars, mode, held, leader, fanOuts, late, recorded>>

\* Seeded fault: the calls of a child are lost from the attempt's list.
RecordRootOnly(p) == recorded' = IF p = Root THEN recorded + 1 ELSE recorded

Record(p) == recorded' = recorded + 1

Bill ==
    \E usage \in Quantity, priced \in BOOLEAN :
        /\ priced \/ "unpriced" \in Faults
        /\ Settle(usage, priced)

SettleCall(p) ==
    /\ Goto(p, "settle", "release")
    /\ Bill
    /\ UNCHANGED <<batchVars, turn, outcome, late, recorded, leaked>>

\* The unused half of the turn goes back; then the call is appended.
ReleaseCall(p) ==
    /\ Goto(p, "release", "parse")
    /\ Release(1)
    /\ Record(p)
    /\ UNCHANGED <<batchVars, turn, outcome, late, leaked>>

\* What the model wrote: an answer, a block to run, or neither.  A block run by
\* a REPL at the depth bound has no host call to make.
Parse(p) ==
    /\ \/ Close(p, "parse", "answered")
       \/ Goto(p, "parse", "turn") /\ UNCHANGED <<turn, outcome>>
       \/ /\ p = Root /\ MaxDepth = 1
          /\ Goto(p, "parse", "exec") /\ UNCHANGED <<turn, outcome>>
       \/ "sandbox" \in Faults /\ Close(p, "parse", "errored")
    /\ UNCHANGED <<budgetVars, batchVars, late, recorded, leaked>>

-----------------------------------------------------------------------------
(* _wind_down: one call, asked for when a turn was refused.                  *)

ReserveWindDown(p) ==
    /\ \E e \in Amounts :
          \/ /\ Reserve(1, Tokens(e))
             /\ Goto(p, "windReserve", "windCall")
             /\ UNCHANGED <<turn, outcome>>
          \/ Refuse(1, Tokens(e)) /\ Close(p, "windReserve", "budget_exhausted")
    /\ UNCHANGED <<batchVars, late, recorded, leaked>>

WindDownResponds(p) ==
    /\ Goto(p, "windCall", "windSettle")
    /\ UNCHANGED <<budgetVars, batchVars, turn, outcome, late, recorded, leaked>>

WindDownFails(p) ==
    /\ "provider" \in Faults
    /\ Close(p, "windCall", "errored")
    /\ leaked' = leaked + 1
    /\ UNCHANGED <<budgetVars, batchVars, late, recorded>>

SettleWindDown(p) ==
    /\ Close(p, "windSettle", "budget_exhausted")
    /\ Bill
    /\ Record(p)
    /\ UNCHANGED <<batchVars, late, leaked>>

-----------------------------------------------------------------------------
(* _service_sub_call and _service_sub_batch, run by the root's thread while  *)
(* its block executes.                                                       *)

\* The block ends, or the sandbox it ran in is lost.
FinishExec ==
    /\ \/ Goto(Root, "exec", "turn") /\ UNCHANGED <<turn, outcome>>
       \/ "sandbox" \in Faults /\ Close(Root, "exec", "errored")
    /\ UNCHANGED <<budgetVars, batchVars, late, recorded, leaked>>

\* rlm_call: one child, driven by this very thread, with no hold and no barrier.
\* If the child's sandbox cannot be had, the block sees an exception.
SubCall ==
    /\ pc[Root] = "exec"
    /\ fanOuts < FanOutBound
    /\ fanOuts' = fanOuts + 1
    /\ \/ /\ mode' = "single"
          /\ pc' = [pc EXCEPT ![Root] = "join", ![1] = "turn"]
          /\ turn' = [turn EXCEPT ![1] = 0]
          /\ outcome' = [outcome EXCEPT ![1] = "none"]
       \/ "sandbox" \in Faults /\ UNCHANGED <<mode, replVars>>
    /\ UNCHANGED <<budgetVars, held, leader, opened, late, recorded, leaked>>

\* Seeded fault: only the first turns of a batch are reserved.
BatchCallsOne(n) == n

\* The first turn and the wind-down hold of every child.
BatchCalls(n) == 2 * n

\* rlm_batch: all children's first turns and holds are reserved before any of
\* them starts; a refused batch is retried one child narrower, and the widest
\* that fits is dispatched.  e is the estimate for one child.
DispatchBatch(width, e) ==
    LET Fits(n) == ~Refuses(BatchCalls(n), Tokens(n * e))
        Selected(n) == Fits(n) /\ \A m \in (n + 1)..width : ~Fits(m)
    IN  /\ pc[Root] = "exec"
        /\ fanOuts < FanOutBound
        /\ fanOuts' = fanOuts + 1
        /\ IF ~late /\ \E n \in 1..width : Fits(n)
           THEN \E n \in 1..width :
                  /\ Selected(n)
                  /\ Reserve(BatchCalls(n), Tokens(n * e))
                  /\ held' = 2 * n
                  /\ mode' = "batch"
                  /\ leader' = Root
                  /\ opened' = FALSE
                  /\ pc' = [p \in Repl |-> IF p = Root THEN "join"
                                           ELSE IF p <= n THEN "queued" ELSE "idle"]
                  /\ turn' = [p \in Repl |-> IF p = Root THEN turn[p] ELSE 0]
                  /\ outcome' = [p \in Repl |-> IF p = Root THEN outcome[p] ELSE "none"]
           ELSE UNCHANGED <<budgetVars, replVars, mode, held, leader, opened>>
        /\ UNCHANGED <<late, recorded, leaked>>

\* A worker of the pool takes the next child, in the order they were submitted.
NextQueued(c) ==
    /\ pc[c] = "queued"
    /\ \A b \in Child : b < c => pc[b] # "queued"
    /\ Cardinality(Running) < MaxParallel

StartChild(c) ==
    /\ NextQueued(c)
    /\ Goto(c, "queued", "turn")
    /\ UNCHANGED <<budgetVars, batchVars, turn, outcome, late, recorded, leaked>>

\* The child's sandbox cannot be built or seeded: work() raises.
ChildRaises(c) ==
    /\ "sandbox" \in Faults
    /\ NextQueued(c)
    /\ Goto(c, "queued", "raised")
    /\ UNCHANGED <<budgetVars, batchVars, turn, outcome, late, recorded, leaked>>

\* pool.map hands results back in order; the first that raised cancels every
\* child still queued.
CancelQueued ==
    /\ pc[Root] = "join"
    /\ \E c \in Child : pc[c] = "raised" /\ \A b \in Child : b < c => pc[b] = "done"
    /\ \E c \in Child : pc[c] = "queued"
    /\ pc' = [p \in Repl |-> IF pc[p] = "queued" THEN "idle" ELSE pc[p]]
    /\ UNCHANGED <<budgetVars, batchVars, turn, outcome, late, recorded, leaked>>

AllStopped == \A c \in Child : pc[c] \in Stopped \ {"queued"}

\* Seeded fault: the hold of a finished batch is forgotten.
GiveBackNothing == UNCHANGED budgetVars

\* _HeldCall.give_back.
GiveBack == IF held > 0 THEN Release(held) ELSE UNCHANGED budgetVars

\* The pool is joined; then the barrier is opened and the rest of the hold goes
\* back, whether or not a child raised.
JoinChildren ==
    /\ AllStopped
    /\ Goto(Root, "join", "exec")
    /\ mode' = "none"
    /\ opened' = TRUE
    /\ held' = 0
    /\ GiveBack
    /\ UNCHANGED <<turn, outcome, leader, fanOuts, late, recorded, leaked>>

-----------------------------------------------------------------------------
(* The environment.                                                          *)

PassDeadline ==
    /\ "deadline" \in Faults
    /\ ~late
    /\ late' = TRUE
    /\ UNCHANGED <<budgetVars, replVars, batchVars, recorded, leaked>>

PassTime ==
    /\ elapsed < ClockBound
    /\ Tick
    /\ UNCHANGED <<replVars, batchVars, late, recorded, leaked>>

TurnStep(p) == TurnsSpent(p) \/ DeadlinePassed(p) \/ StartTurn(p)
                 \/ ConsumeHold(p) \/ ReserveTurn(p)

CallStep(p) == BeforeCall(p) \/ WakeAtBarrier(p) \/ Respond(p) \/ ProviderFails(p)
                 \/ SettleCall(p) \/ ReleaseCall(p) \/ Parse(p)

WindDownStep(p) == ReserveWindDown(p) \/ WindDownResponds(p) \/ WindDownFails(p)
                     \/ SettleWindDown(p)

HostCallStep == FinishExec \/ SubCall \/ CancelQueued \/ JoinChildren
                  \/ \E width \in 1..MaxWidth, e \in Amounts : DispatchBatch(width, e)

PoolStep(c) == StartChild(c) \/ ChildRaises(c)

ReplStep(p) == TurnStep(p) \/ CallStep(p) \/ WindDownStep(p)

Next ==
    \/ \E p \in Repl : ReplStep(p)
    \/ \E c \in Child : PoolStep(c)
    \/ HostCallStep
    \/ PassDeadline
    \/ PassTime

\* Threads are scheduled, the pool starts what it was given, and a provider call
\* returns or raises.  The last is assumed of the provider: the clients set no
\* timeout of their own, and the deadline is only read between turns.
Fairness ==
    /\ \A p \in Repl : WF_vars(ReplStep(p))
    /\ \A c \in Child : WF_vars(PoolStep(c))
    /\ WF_vars(HostCallStep)

Spec == Init /\ [][Next]_vars /\ Fairness

-----------------------------------------------------------------------------
(* Properties.                                                               *)

\* Every granted call is accounted for by somebody: the hold of the batch, the
\* thread that owns it, or a REPL that died owning it.
LedgerBalanced ==
    callsInFlight = held + 2 * Cardinality(At(OwnsTwo)) + Cardinality(At(OwnsOne)) + leaked

\* No thread settles or releases a call that was never granted, although the
\* ledger would let it: the runtime keeps the budget's own contract.
LedgerClean == unmatchedSettlements = 0 /\ unmatchedReleases = 0

\* "No path can bill a run without appearing in its cost table" (_call_model):
\* what is settled is recorded, but for the calls between the two steps.
BilledIsRecorded ==
    callsSettled = recorded + Cardinality(At({"release"}))

\* Held calls are handed back on every path: once the attempt is over the
\* budget holds nothing in flight for it.
NothingLeftInFlight == pc[Root] = "done" => callsInFlight = 0

\* A batch is warm before it is wide: until the leader's first call has ended,
\* no other child of the batch has a call at the provider.
WarmBeforeWide ==
    \A c \in Child :
        InBatch(c) /\ pc[c] \in {"call", "windCall"} /\ c # leader => opened

\* Every stop condition winds down: a REPL stopped by the budget, the iteration
\* bound or the deadline has asked for its salvage call first.
EveryStopWindsDown ==
    [][ \A p \in Repl :
          /\ pc[p] # "done" /\ pc'[p] = "done"
          /\ outcome'[p] \in {"budget_exhausted", "iterations_exhausted", "timed_out"}
          => pc[p] \in {"windReserve", "windSettle"} ]_vars

\* The attempt ends: no child waits at the barrier for ever, and the dispatcher
\* gets every worker back, also when the leader or a sandbox fails.
AttemptEnds == <>(pc[Root] = "done")

\* The budget and its callers together implement the abstract allowance.
Allowance == INSTANCE CallAllowance
                 WITH Limit <- MaxCalls, promised <- callsInFlight, made <- callsSettled

ImplementsAllowance == Allowance!Spec
=============================================================================
