# rlm0 in TLA+

TLA+ models of rlm0, a recursive language-model runtime: the call and cost
ledger, the loop of one attempt with its parallel sub-calls, the ladder of
attempts that makes a run, the sandboxes a REPL lives in and how they end with
the process, the harness that measures a runtime, and the research tools that
keep something on disk, in a ledger or in a pool. TLC checks them on small
instances; TLAPS proves all of the safety properties that hold, of every part,
for every value of the constants, and leaves liveness to TLC. Paths below are
relative to `src/src/rlm0/`; `PROJECT.json` maps each definition to the lines it
models.

## The system

A *run* answers one task. `RLM.complete` (runtime.py) makes an *attempt* at depth
zero, in which the model writes code into a REPL but has no model to call, and
lets a policy decide after each attempt whether to make a deeper one. In an
attempt of depth one, the code can ask for a sub-call (`llm_query`) or a batch
of them (`rlm_batch`); each is served by a child REPL with a sandbox of its own.
All REPLs at all depths spend from one budget.

| part | state | operations | talks to |
|---|---|---|---|
| `RunBudget` (budget.py) | calls settled and in flight, tokens and USD settled and pending, unmatched settlements and releases, clock | `reserve` (a whole batch or nothing), `settle` (one call), `release` (unused calls), each under one lock | called by every thread of a run |
| `FanOutEstimator` (budget.py) | sums over observed calls and batches | `observe`, `estimate`, `record_batch` | supplies the estimates of a batch |
| attempt (runtime.py `_run_attempt`, `_drive`, `_turns`, `_wind_down`, `_call_model`, `_service_sub_call`, `_service_sub_batch`) | per REPL: place in the loop, iterations, how it closed; per batch: the shared hold (`_HeldCall`), the warming barrier; `state.calls` | turns, model calls, sub-calls, batches in a thread pool, wind-down | budget, provider client, sandboxes, bridge |
| run (runtime.py `complete`, policy.py, run.py) | attempts, depth, policy | escalate, stop, refuse a depth; `Run` checks and verdict | budget's headroom, policy object |
| sandbox channel (sandbox/_channel.py, _guest.py) | child process, inbox queue, pump threads, closed flag, registered names; in the guest, the environment and host calls | `execute`, `set_variable`, `get_variable`, registration, restart, `close` | two pipes; host calls run the runtime's handler inside `execute` |
| `_SandboxPort`, `_Bridge` (assembly.py) | executing flag, pending and bound names; a stack of frames, one per REPL | registration of host calls, reads during an execution; prompts, parsing, observations | the three ports of the loop |
| cleanup registry (sandbox/cleanup.py) | weak set of live sandboxes, one lock, whether hook and handlers are installed | register, unregister, close all at exit or on a signal | interrupts the main thread |
| sandbox back ends (sandbox/subprocess_sandbox.py, docker_sandbox.py, microvm_sandbox.py) | the process, container and forks they start | probe, check, spawn, verify, kill | the operating system, the docker daemon |
| providers, retry (providers/) | none between calls | one request to one SDK call, retries with backoff | network |
| parser, prompts, observations | none | pure functions of text | |
| suite runner (harness/runner.py) | corpus, records and manifest on disk | run, append, resume | file system, a solver |
| corpus (harness/corpus.py) | none | generate, rederive, rewrite | |
| grading and baselines (harness/grading.py, baselines.py) | the calls and votes of one answer | ask, vote, grade | provider client |
| report (harness/report.py) | none | classify, pool into rows, compare, claim | |
| event log (research/events.py) | a chain of lines on disk | append, read, replay | file system |
| artifact store (research/artifacts.py) | content-addressed objects on disk, a lock | put, read | file system |
| prompt optimisation (research/optimize.py) | a population, an evaluation ledger | evolve, reserve, settle, judge | an evaluator |
| agent harness, chain (research/agent_harness.py, chained.py) | pools under one semaphore; the handoff from root to root | execute a tree; run roots in turn | runtimes, artifact store |
| benchmarks, CLI, other research tools | none | pure functions, printing | |

What is hard about it, and what makes it correct:

* **Ledger.** Callers on several threads reserve, settle and release in any
  order; settle and release carry no handle to the reservation they belong to,
  so the provisional pool is shared by equal shares. It must never pass the call
  ceiling, lose a granted call, or keep an amount pending for no call.
* **Attempt.** One thread per child; a hold all children draw on; a barrier all
  but one wait at, whose leader may fail; a provider, a sandbox or a deadline
  that may fail anywhere. Every granted call must be settled or come back, every
  billed call must be recorded, and the attempt must end.
* **Run.** A replaceable policy, a budget read between attempts. Depth zero must
  come first and depths must grow, and the verdict on recursion must be earned.
* **Channel.** A request-and-reply pipe on which the guest may turn the direction
  round; a child that may die, overrun or be replaced at any point while the
  threads that read it are still running. What the caller believes of the REPL
  must be true, and `execute` must come back.
* **Bridge.** Shared by all REPLs of a run, keyed by "the frame on top".
* **Process exit.** close from a signal handler, from an exit hook and from the
  owner race on one object and one lock. What the exit path could have known of
  must not outlive the process, and the handler must come to an end.
* **Back ends.** A constructor may fail after its child has started. What raises
  must leave nothing behind; what is returned must be as isolated as was asked.
* **Files.** A crash in the middle of a line, a resume, two writers, a failed
  write that is tried again. What is read back must be what was acknowledged.
* **Money and slots.** A search pays evaluators that may fail; nested pools share
  one semaphore. Budgets must hold, spending must be on the books, pools must end.
* **Measurement.** Random distractors must not become answers; ties, noise,
  missing prices and several ways to be right must not become a claim.

`PROJECT.json` lists the chief of these as hazards with the line where each bites, the
properties that would catch it, and for those no property covers yet, why.

## The modules

    CallAllowance  <--refines--  RlmAttempt --EXTENDS--> RunBudget
                                 RlmRun     --EXTENDS--> RunBudget
    MCSandbox    --EXTENDS--> SandboxChannel,
                 --INSTANCE-> SandboxExit, SandboxBackend, BridgeFrames
    MCRecords    --EXTENDS--> MCEvaluation,
                 --INSTANCE-> EventLog, SuiteRunner, ArtifactStore, AgentHarness,
                              Optimize, Chained
    MCEvaluation --INSTANCE-> Corpus, Votes, Report

    RlmAttemptProofs    --EXTENDS--> RlmAttempt
    RlmRunProofs        --EXTENDS--> RlmRun, Sums
    MCSandboxProofs     --EXTENDS--> MCSandbox
    ArtifactStoreProofs --EXTENDS--> ArtifactStore, Sums
    OptimizeProofs      --EXTENDS--> Optimize
    CorpusProofs        --EXTENDS--> Corpus, Sums
    MCRecordsProofs     --EXTENDS--> MCRecords, Sums

The theorems about RunBudget are in RlmAttemptProofs and those about SandboxChannel in
MCSandboxProofs. MCRecords and MCEvaluation instantiate ArtifactStore, Optimize and
Corpus through the modules that hold their proofs, so that MCRecordsProofs can cite
those theorems of the very instances that TLC checks. Sums has the lemmas they share:
sums over finite sets, iterates of a function, sequences laid end to end.

The composition is by conjunction: `Reserve`, `Settle` and `Release` of
`RunBudget` constrain only the ledger's variables, and an action of `RlmAttempt`
conjoins one of them with what the thread does, since the code holds the lock
for exactly that verb.

Operators introduced by a comment *Seeded fault* are not part of a model. Each is
a plausible bug in the definition that follows it, and shows that the property
it is aimed at fails when the code is wrong in that way.

**RunBudget.** `reserve`, `settle`, `release` are the actions, `_refusal_locked`
is `Refuses`, `_advisory_locked` is `NearLimit`. A ceiling of None is `Unset`.
Tokens and dollars are natural numbers and differ only in that an unpriced call
adds no dollars. Two abstractions: the code's equal shares of the pool are
floating point and here whole (`pending \div callsInFlight`, rounded down, so
more stays pending than in the code until the last call zeroes the pool); and
time advances by whole ticks. `BudgetSpec` lets any caller do anything, including
settling and releasing what was never granted.

**RlmAttempt.** One action per step between two lock acquisitions or around a
wait. `pc[p]` is where REPL `p`'s thread is: `turn` is the head of the loop in
`_turns`, `hold` and `reserve` the two ways to pay for a turn, `lead` and
`waiting` the warming barrier, `call`, `settle`, `release` the inside of
`_call_model`, `parse` what follows a response, `exec` a block that runs,
`join` a host call waiting for its children, `windReserve`, `windCall`,
`windSettle` the wind-down. `held` is `_HeldCall._held`, `leader` and `opened`
the barrier, `recorded` the length of `state.calls`, `late` the deadline.
`leaked` is a history variable. REPL 0 is the root; children are reused by
consecutive batches. What the model writes is a choice among answering, asking
for a block, or neither. Left out: message contents, the report's counters, and
depth two and more, which a runtime refuses without `experimental_depth`.
`DispatchBatch` is one action although the code narrows the batch in several
reservations: at that moment the thread that asks is the only one running, since
children exist only while it waits.

**CallAllowance.** The promise a call ceiling makes, with no ledger: promise, make,
take back, never more than `Limit`. `RlmAttempt` implements it under
`promised <- callsInFlight, made <- callsSettled`.

**RlmRun.** An attempt is only its billed calls and how it closes, and the module
models what lies between attempts: the proposals of the three policies, and of a
policy from outside that may propose anything, `_next_depth`'s checks,
`can_fund_another_attempt`, the constructor of `Run`, `final` and
`recursion_verdict`.

**SandboxChannel.** The host thread, the guest, and one pump per child that was
ever started. A queue entry remembers which child spoke (`from`, history). The
pump reads a line into `hand` and puts it into whatever queue is current then,
as `_pump_stdout` does. Values are left out: of a variable only whether it is
bound. `known` is what the caller was last told. The caller makes any legal
sequence of calls from one thread and closes after a raise, as the runtime does.

**BridgeFrames.** The stack of `_Bridge` and the points of a turn that read or
write its top frame. A REPL's own thread calls in the order of `_turns`; only
`Workers` children run at a time.

**SandboxExit.** Every thread owns one sandbox and creates, uses, replaces and
closes it; one action per step between two reads or writes of what they share
(`_closed`, `_child`, the registry, its lock). The handler runs on the main
thread between any two of its steps (`frame` is its program counter, and while
it is set `Main` takes no step), the exit hook when all threads are done.
`SIGINT` goes on to Python's own handler and unwinds the main thread, `SIGTERM`
ends the process. A child inside a block survives the process, one that waits
at its pipe sees its end. `caught` is history.

**SandboxBackend.** One sandbox of one of three kinds, from its constructor's
first probe to its death: interpreter or daemon, image, runtime and kernel
checks, the handshake, restart, close. For a container the client process and
what runs behind it (`proc`, `rest`) are distinct and die separately; for a
subprocess the forks of a block are. A restart sends the fresh child the names it
has to know again, one round trip after the other. `error` is what a constructor or
a restart raised: `SandboxUnavailableError`, before which the child is killed, or any
other error, a first line that is no frame or a name that is refused or unanswered,
after which it is not. `closed` is the flag that decides whether a later `close` does
anything; `left` is what the blocks of an earlier child forked.

**EventLog.** Writers open the file, append the events of their session with the
digest chain they remember, and fail before, inside or after the write; a
failed append may be tried again, and someone edits a line. A digest is the
event it is of, so that equality of digests is equality of histories.

**ArtifactStore.** Threads of several store objects on one directory, one action
per system call: the check under the object's lock, the temporary file, its
bytes, the rename. A crash of a store leaves its temporary file.

**SuiteRunner.** `run_suite` again and again over one directory, under any
corpus, setup, `resume` and `only`; the process dies between any two steps and
inside an append. A line is whole, cut, or lacks its newline, and what is
appended to an unfinished line joins it.

**AgentHarness.** `execute_node` for every node of a declared tree; a pool per
sibling set, one semaphore over all, `pool.map`'s order of results, and the
cancellation of what is queued when a sibling fails.

**Optimize.** The generations, then candidate after candidate: reserve, evaluate,
settle, judge, each with its failures. `paid` is history: what evaluators really
spent. Metrics are integers and the gate's z test is squared to stay in them.

**Chained.** Roots one after the other, a handoff accepted or refused between
them, and the record made at the end. A text is its length.

**Corpus.** One sample of each family and its twin. A document is the facts it
states; a draw is any of a few values at the ends of its range and between. The
reference definition of an answer is the generator's own second opinion
(`verify_sample`), which reads the documents alone. The argmax has the code's repair of
a tied or beaten winner (corpus.py:759-765): it cannot fire for the ranges the code
draws from, and it absorbs a seeded tie, so the mutant of `CorpusIsSolvable` takes away
the trap instead (a largest record that is not the largest). An identifier is a sequence
of letters because the near misses, which differ in one letter, and the twin, which
permutes them, are about letters; everything else only compares identifiers.

**Votes.** One question to a baseline: its calls, which may raise, its votes, the
largest group, the evidence of the majority, and the grade of the result. An
answer is its normalised form and the number it parses as, if any.

**Report.** Records are measured one by one, pooled, compared with rival rows and
put into a table. A result carries the depth bounds of its attempts, from which the
verdict and a row's depth-zero mark are read, and what it has of the breaches that
`_check` and `_check_completion` stop a suite for (runner.py:101-152). A record keeps
what `run_suite` keeps (runner.py:342-371). An accuracy is a count; a difference of accuracies and the
noise floor are compared after multiplying out the sizes.

**MCSandbox, MCRecords, MCEvaluation.** These components share no state with one
another, so their models run side by side: a variable `part` is chosen in the
first state, the chosen model takes its steps and the others stay in one fixed
initial state. The state space is the sum, not the product, of the parts, and
fairness is stated of an action within its part. The constants of the parts are
constants of these modules, so that what is proved of a composition is proved for
every value of them; `MCEvaluation` defines the values that the configuration
gives to the constants of Votes and Report.

## The runs

| run | configuration | shows |
|---|---|---|
| `budget` | RunBudget | all ceilings set at once, batches of one and two, priced and unpriced calls, up to one stray settlement and one stray release: ceilings, conservation, the pool, exhaustion, the soft threshold |
| `attempt_batch` | RlmAttemptBatch | three children on two workers, two host calls, failing sandboxes, barrier time-outs: the ledger's balance, and `CallAllowance` implemented |
| `attempt_faults` | RlmAttemptFaults | call, price and time ceilings with provider errors, failed sandboxes, unpriced calls and a deadline: warmth before width, and the attempt ends |
| `run_ladder` | RlmRun | every policy, with and without the depth opt-in: the order of attempts, attribution of spend, the verdict |
| `sandbox` | MCSandbox | the channel under crashes, overruns, restarts and late pumps of dead children: beliefs stay true, and execute returns. The exit path: what it could have known of is dead when the process is, and handler and hook end but for one lock. The back ends: an isolation that was required is there, `SandboxUnavailableError` leaves nothing, and what any other error of a restart leaves `close` kills. The bridge on one worker: the top frame is the caller's own |
| `records` | MCRecords | the event log replays one session as it was written; a directory of records has no sample twice, one corpus, and a manifest that is right about both; a reference outlives writers, crashes and capacity; nested pools keep the bound and end; a search books what it pays and recommends what passed the gate; a root sees only what is stored. A sample and its twin can be solved from their text and are equally hard; a vote is the majority's in answer and evidence; verdicts and claims follow from the records |
| `attempt_leak` | RlmAttemptLeak | *violation*: a provider error leaves two calls in flight for good |
| `attempt_salvage` | RlmAttemptSalvage | *violation*: the iteration bound and the deadline stop without the salvage call |
| `channel_stale` | SandboxChannelStale | *violation*: a restart reads a dead child's line as its fresh child's greeting |
| `bridge` | BridgeFrames | *violation*: on two workers the top frame is not the caller's own |
| `exit_signal` | SandboxExitSignal | *violation*: a signal inside register or unregister is never passed on, the process hangs |
| `chained` | ChainedFinal | *violation*: a valid final handoff ends in an error |

Bounds. Counters that only grow are bounded by guards named in the module:
`GrantBound`, `StrayBound`, `ClockBound`, `FanOutBound`, `CallBound`,
`RequestBound`, `ChildBound`. They are enough for the cases the properties are
about: `GrantBound = 5` exceeds the call ceiling of 4, so that calls are refused,
released and granted again; three children and two workers are the least at
which one child is queued behind a running batch, draws on a half-spent hold,
and is cancelled; two host calls let a second batch start on what the first one
left; `PolicyDepth = 3` with three attempts lets a ladder be cut by the attempt
bound and by the policy; two children of a sandbox are the least at which a late
pump meets a successor, and the spawn of a third fails; two host-call names
separate one registered again from one lost. `attempt_faults` uses two children,
since liveness over three costs more time than it adds cases. In `sandbox`,
the exit path has the main thread and one other, the least at which a restart
races the handler and each can hold the lock, and three children, so that both
can start and one can restart. In `records`: two sessions that share a trial
and open the log twice, with one failure and four lines, which admits a good
session broken into by another; two samples, three runs and every argument, so
that a stopped run is resumed under one setup and then another; three threads
of two stores, where two objects fill the store and a third does not fit;
a tree of seven nodes over two slots, so that a branch has more nodes than
there are slots; three fingerprints over a population of two, so that children
repeat parents; three roots and answers at both sides of every limit; three
votes, at which a majority, a tie and a lone winner exist; two records and
rival rows that are better, worse, cheaper, dearer and unpriced.

`CHECK_DEADLOCK FALSE` is set everywhere: an attempt, a run and a sandbox end,
and the bounded ledgers come to rest. `AttemptEnds` and `ExecuteReturns` take the
place of the deadlock check, with `FrameComesToAnEnd` for the exit path and
`HarnessIsBoundedAndEnds` for the pools.

Fairness. `RlmAttempt` assumes weak fairness of each REPL's thread, of the pool's
start of each child, and of the host call's own thread. A thread is scheduled by
the operating system; that a model call returns or raises is assumed of the
provider: the clients set no timeout of their own and leave it to their SDK, and
the attempt's deadline is read only between turns, so a call that never came back
would keep the attempt open (a hazard no run can speak to under this fairness). Nothing makes the
deadline pass, the barrier time out, or a fault happen. In particular the
barrier's time-out is not enabled in `attempt_faults`, so the leader alone must
open it. `SandboxChannel` assumes weak fairness of the host's thread and strong
fairness of `Overrun`, for a deadline that is set passes: a host call extends it
by the time it took and no more. Nothing is assumed of the guest, the pumps or
the caller. `SandboxExit` assumes weak fairness of each thread and of the
handler or hook once it has begun; no signal need come. `AgentHarness` assumes
only that some thread that can go on does (`WF(Next)`): every step moves a node
forward, so that is enough, and it includes that an executor returns.

## What is proved

The theorems hold for every value of the constants that the named assumptions
and the hypotheses below allow. A hypothesis says what a constructor checks or
what the type of an argument is, except four: `NothingLeftInFlight` is proved
where `"provider" \notin Faults` and `WarmBeforeWide` where `"warm_timeout" \notin
Faults`, the two faults that do break them; `FinalVarIsOwn` where
`PoolWorkers = 1`, without which `bridge` shows it false; and `ChoiceIsSound` where the
seeds are distinct (`Configured`), which `evolve` does not check: a repeated seed leaves
a population with the same candidate twice. The upper bounds on the sizes
of a corpus are the model's own, as explained below the table.

| property | module | hypotheses |
|---|---|---|
| `BudgetTypeOK`, `CallCeiling`, `Conservation`, `PoolEmptiesWithFlight`, `NoGrantPastTheLine`, `IdleExhaustionIsFinal`, `LastCallForewarned` | RlmAttemptProofs | a ceiling is None or positive and one is set, the soft fraction is below one |
| `TypeOK`, `LedgerBalanced`, `LedgerClean`, `BilledIsRecorded`, `OnlyTheLostRemainInFlight` | RlmAttemptProofs | counts are positive |
| `NothingLeftInFlight`, `WarmBeforeWide` | RlmAttemptProofs | the fault each is about does not happen |
| `ImplementsAllowance` | RlmAttemptProofs | a call ceiling is set |
| `TypeOK`, `LadderIsOrdered`, `EscalatesOnlyAfterFailure`, `SpendIsAttributed`, `VerdictIsEarned` | RlmRunProofs | counts are positive |
| `TypeOK`, `KnownIsBound`, `HostCallsReachGuest`, `GuestHearsOnlyItsReply`, `NothingOutlives` | MCSandboxProofs | counts are positive |
| `ExitPathMissesNone`, `ConstructorsKeepTheirWord`, `MCTypeOK` | MCSandboxProofs | thread names are not the two other owners of the lock |
| `FinalVarIsOwn` | MCSandboxProofs | one worker, finitely many siblings |
| `DirectoryIsSound` | MCRecordsProofs | `Benchmark`: the samples are a sequence |
| `StoreKeepsItsWord` | ArtifactStoreProofs, MCRecordsProofs | `Setting`: finitely many threads and data, sizes and limits are numbers |
| `MoneyIsAccountedFor` | OptimizeProofs, MCRecordsProofs | `Amounts`: amounts are natural numbers |
| `ChoiceIsSound` | OptimizeProofs, MCRecordsProofs | `Amounts`, and `Configured`: distinct seeds, a generation at least, estimates are integers |
| `SeesOnlyWhatIsStored` | MCRecordsProofs | `MaxRoots` is a number |
| `LogTellsOneStory` | MCRecordsProofs | `Declared`: a research's trials are a sequence |
| `VoteIsTheMajoritys` | MCRecordsProofs | `Polled`: finitely many documents; nothing of the replies |
| `TableIsEarned` | MCRecordsProofs | `Submitted`: rows have a score for each sample, prices are numbers or none |
| `CorpusIsSolvable` | CorpusProofs, MCRecordsProofs | `DrawsInRange`, `Ordered`: see below |
| `Harness!TypeOK`, `BoundedAcrossPools`, `NothingRunsBehind` | MCRecordsProofs | `Planned`: finitely many nodes whose children are nodes; depth and slots are numbers |

`DrawsInRange` has the ranges that corpus.py draws from (263-271, 704, 752-757), a
cohort of six documents or more, a chain of two or more and two or three hops. The
upper bounds it puts on the sizes, a cohort of 24 and a chain of 10, are the model's:
as many identifiers as its alphabet tells apart. `Ordered` is its part about sizes; the
draws of a run are in MCEvaluation and within range.

The arguments, with the inductive invariant of each:

*The ledger.* `BudgetInv` is the conjunction of the type invariant,
`CallCeiling`, `Conservation` and `PoolEmptiesWithFlight`; it is inductive
as it stands. Its hard part is that giving back equal shares never drives the
pool below zero (`ShareBound`, `PoolAfterType`). The action properties follow
from it: with nothing in flight nothing can come back, so what is exhausted stays
so; and the soft threshold is at least one call, so whoever takes the last one
saw the warning.

*The attempt.* None of `LedgerBalanced`, `LedgerClean` and `BilledIsRecorded` is
inductive alone: a settlement is only known to match a grant because the thread
that makes it owns one, which is what the balance says. The balance in turn
needs `RootWaits` (outside a host call nothing is held and no child runs), or a
second batch could be dispatched over the hold of the first, and
`PlacesByRole` (only the root executes and waits, only children spend the hold).
`IInv` conjoins these with `BudgetInv` and the types. One lemma per action
or group of actions shows that it is kept, on top of `GotoCount`, which says
how one moving thread changes the number of threads at a set of places. At the
end of an attempt every place is empty, so the balance leaves in flight exactly
what was lost (`LeakIsTheProvidersOnly`), and without a provider error nothing is
(`NothingLeaks`). `ColdInv` is for the barrier: until it opens, a child that is
not its leader is before its first call. `ImplementsAllowanceHolds` shows each
step to be a step of `CallAllowance` or a stutter: each action uses at most one
verb of the ledger (`OneVerb`), and by `LedgerClean` every settlement makes a
promised call.

*The ladder.* `LadderIsOrdered` speaks of the attempts that are over, and says
nothing of the one that runs; `Standing` adds what makes it inductive: an attempt
that runs is deeper than all before it, or is the first and at depth zero, there
is room for it in the list, and an attempt that is over is the last of the list
at the depth the run stands at, which is the depth a proposal is compared with.
In the same way `EveryoneFailed` is what the escalating policy knew when it
started the attempt that runs. `SpendIsAttributed` is a sum over the attempts;
`BilledAppend` says how the sum grows with the list.

*The channel.* `ChannelInv` adds to the types, in `Protocol`, what every message
on its way, in a pipe, in the hand of a pump or in the inbox, says of the guest
since it was sent. No id is ahead of the host's (`Ids`), so what it asks next nobody
has answered yet, and a line that a late pump brings of a dead child is never taken
for an answer to it; a guest with a block in hand is sent no request and one
without has at most one (`Polite`); a result with the id that is waited for was the
guest's last word (`Answered`, `Controlled`). `Bindings` and `Exposed` say the same of
what is bound and callable in the meantime.

*The exit path and the back ends.* `ExitInv` has a part for each thread
(`OfThread`: a thread inside a block owns the child that runs it, and what it
owns is in the registry or marked closed) and one for the handler or hook
(`OfFrame`). `OwnerStep` reduces a step of one thread to that thread's part, so
that the number of threads does not matter. `BackendInv` says, for every point of a
constructor or a restart, what may be alive there, and that where an error other than
`SandboxUnavailableError` left a child the sandbox is not marked closed. `BridgeInv` says that on one worker the
stack holds the root's frame and at most that of the one child that runs;
`FramesInv`, for any pool, that each open REPL has one frame, which is why there
is a top frame to read.

*The records.* `SuiteInv`: only the last line is torn, and while a run measures,
what it holds in memory is what the readable lines say. `StoreInv` bounds not
the bytes on disk but the bytes promised to threads past their check
(`Promised`): each store has one lock, so at most one promise per other store was
made without seeing the others. `ChainInv`: each root was given the handoff of the
root before it, which was stored. `LedgerInv`: for every phase of a candidate,
what is reserved and what is booked. `ChoiceInv` adds that the population is
distinct and begins with its seeds, and that what is approved passed. `LogInv`:
every digest in the file or in a writer's hand is a history, in which each event was
written in a session that began before it and went on without a gap; a digest
chain that holds then replays one session, whoever broke into it.

*Votes and report.* `VoteInv` has the tallied answer and evidence; the groups of
equal answers partition the votes (`GroupsPartition`), and a group larger than half
is the modal one. `TableInv` says only what a table was made from; the rest is a
consequence: the counts of the verdicts are those of two set differences, and a lead
over equal sizes cancels against the noise floor (`Products`).

*The corpus.* `Inductive` says that a sample is well formed for its family and, for an
argmax, misleads as it should, and that a twin is `Rewritten(sample, p, k)` for a
permutation `p` of the letters that leaves none in place and a factor `k`. All three parts
follow from that shape. No draw is refused where the distractors are close
(`similarity >= 2`; below it a distractor may state the answer by chance): family by family
the question has one answer in the documents, whatever was drawn, which for the argmax is
an inequality between the winner's sum and every other, and for several hops the path
along the links. No rewriting moves an answer: `p` is one to one, so that what is alike in
a sample, and only that, is alike in its twin; a sum of scaled values is the scaled sum, so
that the largest stays the largest; and the path of a twin is the renamed path, since
both are iterates of their links. The traps are kept for the same reasons.

*The pools.* A plan that `Valid` lets pass is a tree (`PlanIsATree`): the levels are laid end
to end into one sequence without repetition, so every child comes under one parent
and the root under none. `PoolsInv` says that only visited nodes begin, that under a node
which has not handed out its children none has begun, and that under one which is over
none goes on. A step moves one node, or one sibling set, and by the tree's shape concerns
one parent; that parent is waiting, of which nothing is asked. A plan that is not valid
never begins.

Induction over sequences, sets and histories is done by the smallest
counterexample: `LeastNat` and `SmallestSet` of Sums come from the library's theorems
on well-founded relations, and a fold is unfolded with them into the function it
computes.

Only model-checked are the liveness properties `AttemptEnds`, `ExecuteReturns`,
`FrameComesToAnEnd`, and `HarnessIsBoundedAndEnds`, whose safety half is proved and whose
other half is liveness: fairness and ENABLED are outside the prover's reach.

## What the models found

Each of these is a run whose counterexample is the code's behaviour;
`PROJECT.json` quotes the sentence it contradicts.

* `attempt_leak`: when a provider raises, `_call_model` re-raises without
  releasing the two calls of the turn (runtime.py:812). The REPL closes as
  errored, and the calls stay in flight for the rest of the run.
* `attempt_salvage`: the module's docstring says every stop condition ends in the
  salvage call; the iteration bound and the deadline do not (runtime.py:39, :667,
  :735).
* `channel_stale`: the pump looks the queue up for each line, so a dead child's
  last line or end of stream reaches its successor's handshake, which fails
  (_channel.py:218). A late line that arrives after the handshake does no harm
  to the caller's beliefs: `KnownIsBound` holds.
* `bridge`: children of a batch share the top frame (assembly.py:439, :470), so a
  FINAL_VAR can be read from a sibling's sandbox. On one worker it cannot:
  `FinalVarIsOwn` holds in `sandbox`.
* `exit_signal`: a signal that finds the main thread inside `register` or
  `unregister` runs a handler that waits for the lock the main thread holds
  (sandbox/cleanup.py:41, :47), so neither the sandboxes are closed nor the
  handler that was there before is reached.
* `chained`: a chain whose last handoff is valid records two different budget
  summaries where the record insists on one, and ends in an error once all is
  paid for (research/chained.py:265, research/contracts.py:348).

Smaller disagreements met while modelling, which no run asks about. The models
contain those marked with a module.

* Ledger (RunBudget): equal shares let a cheap call free tokens that an expensive
  one still needs, so the token ceiling can be passed although every estimate
  was exact (budget.py:149, :293). budget.py:314 says that holding a second call
  makes a wind-down always fundable, but that call goes back to the shared
  ledger before the next turn is refused (runtime.py:823), and at depth one a
  sibling may take it (RlmAttempt).
* Batches (RlmAttempt): `initial_hold.consume(2)` is tried on every turn of a
  child, so an eager child spends a sibling's first turn (runtime.py:676, :944).
  The barrier's docstring (runtime.py:160) leans on a `finally` that is reached
  only after the pool is joined; it does no harm because the leader opens the
  barrier on its own failure, which `AttemptEnds` checks.
* Ladder (RlmRun): policy.py's notion of an affordable escalation omits the token
  ceiling and the unpriced guard; run.py:311 words the verdict NOT_ATTEMPTED as
  "depth zero answered", but it is also given to a run whose only attempt failed
  (run.py:444).
* Command line: the upper bound on calls that cli.py prints (780-797) counts one
  call per sub-call, though a child REPL has turns of its own.
* Exit (SandboxExit): a child started after the exit path has closed its sandbox
  outlives the process, and so do all when the exit hook's copy of the registry
  fails. When the first sandbox is registered on a worker thread no handlers
  are ever installed (cleanup.py:76-89).
* Back ends (SandboxBackend): forks of a block outlive a subprocess that has gone
  by itself; a microVM's kernel is not verified again after a restart; the time
  limit of `docker image inspect` is not turned into the sandbox's own error
  (docker_sandbox.py:210).
* Back ends (SandboxBackend, SandboxChannel, SandboxExit): `_start` promises to
  "complete the handshake, or fail loudly", and its other failures kill the child
  first. A first line that is no frame is a `ProtocolError` (protocol.py:67-75) that
  neither `_start` (_channel.py:153) nor `_restart_after` (:490) catches, and nothing
  catches a failure of a restart's second registration of names (:500-505): the error
  leaves through the constructor or `execute` with the fresh child alive and the sandbox not
  closed. After a restart the caller still has the sandbox, and `close` ends the child
  (`CloseStillCloses`); after a constructor nobody has it, it is in no registry, and the
  pump threads keep `__del__` from running while the child lives.
* Records (SuiteRunner): the corpus file is overwritten before a resume is
  refused, an unfinished last line swallows the record appended to it
  (runner.py:256, :287), and a manifest names the last setup only.
* Store (ArtifactStore): several stores on one directory together exceed the
  total, and temporary files that a crash leaves count against it.
* Search (Optimize): of equal candidates the provenance of the last is kept; with
  a `min_improvement` of zero a candidate identical to the incumbent is approved.
* Baselines and grading (Votes): "7" and "7.0" are two votes (baselines.py:469)
  and one answer to the grader; a model call that raises in the middle of a
  vote loses the calls already paid for (baselines.py:576). "1,000" becomes two
  words in normalisation (grading.py:79-99).
* Report (Report): the cost multiple of a comparison is taken against one row and
  its cost-matched flag against another; a claim can be made from a table whose checks were not run; and `cli.py`'s own
  solver (410-432) gives no citations.
* Twins (Report): a sample carries `origin_sample_id` "so that original and perturbed
  can be paired at scoring time" (corpus.py:180-187), but `run_suite` passes neither to
  the record it makes (runner.py:342-371), whose defaults say that every sample is an
  original (report.py:191-195). A suite over a corpus with twins therefore pools them
  with their originals in one row, and `contamination_report` (report.py:648-676) finds
  no pair, whatever report.py:594-604 and :759-760 say of it. For that reason the model
  has no contamination report.
* Corpus (Corpus): a distractor may by chance state the answer, which the check of
  a sample then refuses with an error instead of drawing again (corpus.py:436).

## Not modelled

Fan-out estimator, assembly, wire encoding, retry, provider clients, the parser
with prompts and observations, benchmarks and the command line: pure functions
of data, floating-point sums, or input and output, which the models replace by a
choice among their outcomes. `PROJECT.json` gives the reason for each. Of the
modelled parts: output caps and the guest's interval timer; the values of names
in a REPL; the bridge's texts, and the scan and deletion inside its `pop`; depth
two and more; a gate that raises because an estimate lacks a field
(research/optimize.py:307-315, :328), where the models compare estimates that have
them all; the contamination report of the harness; the rank and the noise that baselines draw; the layout of a
report; how a run and its records are written as JSON.

## Plan

What is left, with the theorem or specification each step is for:

1. **SandboxChannel** in front of the REPL: names with values, a REPL that goes on
   after a restart with nothing bound, and an abstract REPL it implements; `pop`
   in its two steps.
2. **Operators**: the parser's precedence and FanOutEstimator as pure operators
   against reference definitions, and the retry loop's bounds on attempts and
   waits.
3. **Abstraction**: `SandboxExit`'s and `ArtifactStore`'s promises as abstract
   specifications that they implement, with the mapping proved step by step.
