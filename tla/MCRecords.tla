------------------------------- MODULE MCRecords -------------------------------
(***************************************************************************)
(* The harness and the research tools that keep something on disk, in a    *)
(* ledger or in a pool: the event log, the suite runner, the artifact      *)
(* store, the agent harness, the prompt search and the chain of roots,     *)
(* with the instances of MCEvaluation, side by side for one run.  They     *)
(* share no state: a behaviour picks one of them in its first state and    *)
(* takes the steps of that one only.                                       *)
(***************************************************************************)
EXTENDS MCEvaluation

CONSTANTS
    Writers, Research, Trials, OpenBound, FaultBound, LineBound,      \* EventLog
    Samples, Corpus, Setup, RunBound,                                 \* SuiteRunner
    Putters, StoreOf, Data, Size, MaxTotalBytes, MaxArtifactBytes,
        CrashBound,                                                   \* ArtifactStore
    Root, Children, MaxDepth, MaxChildrenPerNode, MaxNodes,
        MaxConcurrency,                                               \* AgentHarness
    Fingerprints, Seeds, PopulationSize, Generations, MaxCandidates, MaxCost, Quotes,
        Metrics, Costs, MaxRegression, MinImprovement, ZSquared,
        Incumbents,                                                   \* Optimize
    Answers, HandoffLimit, MaxRoots, Spendings                        \* Chained

VARIABLES
    lines, open, chain, complete, todo, opens, faults, edited,
    corpusFile, rows, manifest, step, run, records, runs,
    content, temp, litter, holder, pc, item, returned, crashes,
    slots, stage,
    population, generation, spent, reserved, count, permit, cost, paid, evaluations,
        approved, incumbent, phase,
    roots, sees, artifacts, pending, control, outcome

logVars == <<lines, open, chain, complete, todo, opens, faults, edited>>
suiteVars == <<corpusFile, rows, manifest, step, run, records, runs>>
storeVars == <<content, temp, litter, holder, pc, item, returned, crashes>>
harnessVars == <<slots, stage>>
searchVars ==
    <<population, generation, spent, reserved, count, permit, cost, paid, evaluations,
      approved, incumbent, phase>>
chainVars == <<roots, sees, artifacts, pending, control, outcome>>
recordVars ==
    <<logVars, suiteVars, storeVars, harnessVars, searchVars, chainVars>>
mcVars == <<part, recordVars, evaluationVars>>

-----------------------------------------------------------------------------
(* The instances, two of them with the theorems about them, and the values   *)
(* the runs give their constants.                                            *)

Log == INSTANCE EventLog
Suite == INSTANCE SuiteRunner WITH lines <- rows, pc <- step
Store == INSTANCE ArtifactStoreProofs
Harness == INSTANCE AgentHarness
Search == INSTANCE OptimizeProofs
Roots == INSTANCE Chained

\* Two research sessions that share a trial.
SharedTrials == [A |-> <<"t1", "t2">>, B |-> <<"t1">>]

TwoSamples == <<"s1", "s2">>

\* Two threads of one store object and one of another; two objects fill the store.
TwoStores == [t1 |-> "s1", t2 |-> "s1", t3 |-> "s2"]
Sizes == [a |-> 1, b |-> 2, c |-> 2]

\* Two pools under one, with more nodes than slots.
Tree == [r |-> <<"a", "b">>, a |-> <<"c", "d", "e">>, b |-> <<"f">>,
         c |-> <<>>, d |-> <<>>, e |-> <<>>, f |-> <<>>]

\* Evaluations better, worse and as good as the incumbent's, in one field or both.
TwoSeeds == <<"x", "y">>
Metric(acc, var, evidence) ==
    [acc |-> [mean |-> acc, var |-> var], evidence |-> [mean |-> evidence, var |-> 0]]
SomeMetrics ==
    {Metric(a, 1, e) : a \in {0, 2}, e \in {0, 1}} \cup {Metric(1, 0, 1)}
Reference == [of |-> "x", metrics |-> Metric(1, 0, 1), cost |-> 1]
MaybeReference == {<<>>, <<Reference>>}

\* Handoffs within and beyond each limit, final and not, and an answer that is none.
Handoff(summary, next, artifact, final) ==
    [protocol |-> TRUE, summary |-> summary, blackboard |-> 1, next |-> next,
     artifact_update |-> artifact, final |-> final]
SomeAnswers ==
    {[protocol |-> FALSE], Handoff(1, 1, 1, FALSE), Handoff(2, 2, 1, FALSE),
     Handoff(1, 0, 1, TRUE), Handoff(1, 1, 1, TRUE), Handoff(3, 1, 1, FALSE),
     Handoff(1, 1, 0, FALSE), Handoff(1, 0, 1, FALSE)}
SmallLimits == [summary |-> 2, blackboard |-> 2, next |-> 2, artifact_update |-> 2]

-----------------------------------------------------------------------------
(* One behaviour of one of them.                                             *)

\* The parts a behaviour leaves alone start in one fixed state.
MCInit ==
    /\ part \in {"log", "suite", "store", "harness", "search", "chain",
                "corpus", "votes", "report"}
    /\ Log!Init /\ Suite!Init /\ Store!Init /\ Harness!Init /\ Search!Init /\ Roots!Init
    /\ part # "suite" => run.corpus = "c1" /\ run.setup = "p1"
    /\ part # "search" => incumbent = <<>>
    /\ part # "chain" => control = 1
    /\ EvaluationInit

InHarness(A) ==
    /\ part = "harness" /\ A
    /\ UNCHANGED <<part, logVars, suiteVars, storeVars, searchVars, chainVars>>
    /\ UNCHANGED evaluationVars

RecordsNext ==
    \/ /\ part = "log" /\ Log!Next
       /\ UNCHANGED <<suiteVars, storeVars, harnessVars, searchVars, chainVars>>
    \/ /\ part = "suite" /\ Suite!Next
       /\ UNCHANGED <<logVars, storeVars, harnessVars, searchVars, chainVars>>
    \/ /\ part = "store" /\ Store!Next
       /\ UNCHANGED <<logVars, suiteVars, harnessVars, searchVars, chainVars>>
    \/ /\ part = "search" /\ Search!Next
       /\ UNCHANGED <<logVars, suiteVars, storeVars, harnessVars, chainVars>>
    \/ /\ part = "chain" /\ Roots!Next
       /\ UNCHANGED <<logVars, suiteVars, storeVars, harnessVars, searchVars>>

MCNext ==
    \/ InHarness(Harness!Next)
    \/ RecordsNext /\ UNCHANGED <<part, evaluationVars>>
    \/ EvaluationNext /\ UNCHANGED recordVars

\* The fairness of AgentHarness, within its part.
MCSpec == MCInit /\ [][MCNext]_mcVars /\ WF_mcVars(InHarness(Harness!Next))

-----------------------------------------------------------------------------
(* The properties of each, with its type invariant, in its own behaviours.   *)

\* What replays is one session as it was written, and is final.
LogTellsOneStory == []Log!TypeOK /\ []Log!ReplayIsOneSession /\ [][Log!AddsToNoStory]_mcVars

\* No sample is measured twice, corpora are not pooled, and complete is complete.
DirectoryIsSound == part = "suite" => Suite!TypeOK /\ Suite!DirectoryIsSound

\* A returned reference is kept, and the store is over its total by no more than
\* the objects that share its directory.
StoreKeepsItsWord == part = "store" => Store!TypeOK /\ Store!StoreKeepsItsWord

\* The pools together keep the bound, nothing runs behind a result, and the harness
\* ends.
HarnessIsBoundedAndEnds ==
    []Harness!TypeOK /\ []Harness!BoundedAcrossPools /\ []Harness!NothingRunsBehind
        /\ (part = "harness" ~> stage["r"] \in Harness!Over)

\* The ledger of a search keeps its budget and books every spend.
MoneyIsAccountedFor == part = "search" => Search!MoneyIsAccountedFor

\* The seeds are compared, and the recommendation passes the gate.
ChoiceIsSound == part = "search" => Search!TypeOK /\ Search!ChoiceIsSound

\* A root sees a handoff only within its limits, and with its artifact stored.
SeesOnlyWhatIsStored == part = "chain" => Roots!TypeOK /\ Roots!SeesOnlyWhatIsStored

\* "Run fresh roots until a valid final handoff is produced": a chain whose last root
\* gave one is returned.
FinalHandoffIsReturned == part = "chain" => Roots!FinalHandoffIsReturned
=============================================================================
