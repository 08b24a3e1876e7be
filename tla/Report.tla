--------------------------------- MODULE Report ---------------------------------
(***************************************************************************)
(* rlm0/harness/report.py, with the contract of runner.py's _check: what a *)
(* suite's records become.  Samples are solved one by one and classified,  *)
(* a table is built over the records, with or without rows of rivals, and  *)
(* the table prints, and makes claims, or refuses.                         *)
(*                                                                         *)
(* A result carries the depth bound of each attempt of its run.  A score   *)
(* is whether the answer was right and supported, right without            *)
(* the evidence, or wrong.  An accuracy is a pair of integers, a cost an   *)
(* integer, and a run that has unpriced calls has none.                    *)
(***************************************************************************)
EXTENDS Naturals, Integers, Sequences, FiniteSets, FiniteSetsExt, Functions

CONSTANTS
    Solved,       \* what a solver may return, with what it was scored
    Rivals,       \* what a comparison may hold beside the system: rows, in sequences
    Replicates,   \* the replicates a noise floor may come from, as sequences
                  \* of how many of ReplicatedSamples each solved
    ReplicatedSamples,
    RecordBound   \* bound on the records

VARIABLES
    records,
    noise,   \* the replicates' solved counts, <<>> when nothing was replicated
    table,   \* the rows of a table; <<>> when none was built
    stage    \* "measure", "built" or "refused"

vars == <<records, noise, table, stage>>

Verdicts == {"not_attempted", "helped", "wasted", "harmed", "untested"}
Unpriced == -1

\* What _check and _check_completion raise about, beside the control: an answer that is
\* not the run's, or was reached without the completion the suite asks for, a control
\* answer that is not the control's, a citation of what was never shown.
Breaches == {"answer", "control answer", "citation", "completion"}

\* Run.baseline: the first attempt, if its depth bound is zero.
HasControl(s) == Head(s.depths) = 0

\* A solver reports a control exactly when the run has one.
Contract(s) == s.breaches = {} /\ (s.baseline # "none" <=> HasControl(s))

\* classify.
Classify(s) ==
    IF ~HasControl(s) \/ s.baseline = "none" THEN "untested"
    ELSE IF Len(s.depths) = 1 THEN "not_attempted"
    ELSE IF s.final = "supported" /\ s.baseline # "supported" THEN "helped"
    ELSE IF s.baseline = "supported" /\ s.final # "supported" THEN "harmed"
    ELSE "wasted"

\* What run_suite keeps of a result.  That a sample is the perturbed twin of another is
\* not among it.
Recorded(s) ==
    [sample |-> s.sample, corpus |-> s.corpus, final |-> s.final, baseline |-> s.baseline,
     verdict |-> Classify(s), depths |-> s.depths, subCalls |-> s.subCalls, cost |-> s.cost,
     baselineCost |-> IF HasControl(s) THEN s.baselineCost ELSE Unpriced]

Record == {Recorded(s) : s \in {r \in Solved : Contract(r)}}

-----------------------------------------------------------------------------
(* Rows and tables.                                                          *)

SumOf(costs) == FoldFunction(LAMBDA c, total : c + total, 0, costs)

\* _sum_cost.
SumCost(costs) == IF Unpriced \in Range(costs) THEN Unpriced ELSE SumOf(costs)

Field(f) == [i \in DOMAIN records |-> records[i][f]]

Row(label, zero, score, cost) ==
    [label |-> label, zero |-> zero, corpus |-> records[1].corpus, policy |-> "policy",
     samples |-> Field("sample"), scores |-> Field(score), cost |-> SumCost(Field(cost))]

\* _is_depth_zero, read off the runs.
DepthZero == \A i \in DOMAIN records :
    Range(records[i].depths) = {0} /\ records[i].subCalls = 0

SystemRow == Row("system", FALSE, "final", "cost")
ControlRow == Row("control", TRUE, "baseline", "baselineCost")

EveryControl == "none" \notin Range(Field("baseline"))

\* Records of several corpora, or none at all, are refused.
Poolable == records # <<>> /\ Cardinality(Range(Field("corpus"))) = 1

\* build_report: the control row is the first attempt of the same runs.
BuildReport ==
    IF ~Poolable THEN <<>> ELSE IF EveryControl THEN <<ControlRow, SystemRow>> ELSE <<SystemRow>>

\* build_comparison: a row of each system, system_row, from its own records.
BuildComparison(rivals) ==
    IF ~Poolable THEN <<>> ELSE <<Row("system", DepthZero, "final", "cost")>> \o rivals

\* ResultTable.check.
Check(rows) ==
    /\ rows # <<>>
    /\ IsInjective([i \in DOMAIN rows |-> rows[i].label])
    /\ \A i \in DOMAIN rows : rows[i].samples # <<>> /\ IsInjective(rows[i].samples)
    /\ \E i \in DOMAIN rows : rows[i].zero
    /\ \A i \in DOMAIN rows :
        /\ rows[i].corpus = rows[1].corpus
        /\ rows[i].policy = rows[1].policy
        /\ Range(rows[i].samples) = Range(rows[1].samples)

-----------------------------------------------------------------------------
(* Comparison.                                                               *)

Supported(row) == Cardinality({i \in DOMAIN row.scores : row.scores[i] = "supported"})
N(row) == Len(row.scores)

\* The difference of two accuracies, over N(a) * N(b).
Lead(a, b) == Supported(a) * N(b) - Supported(b) * N(a)

AbsOf(n) == IF n < 0 THEN -n ELSE n

Floor == Max(Range(noise)) - Min(Range(noise))

\* Seeded fault: a difference as large as the floor is outside it.
InsideNoiseStrict(a, b) ==
    noise = <<>> \/ AbsOf(Lead(a, b)) * ReplicatedSamples < Floor * N(a) * N(b)

InsideNoise(a, b) ==
    noise = <<>> \/ AbsOf(Lead(a, b)) * ReplicatedSamples <= Floor * N(a) * N(b)

\* CostBand.matched, with its tolerance of a quarter.
Matched(a, b) ==
    /\ a.cost # Unpriced /\ b.cost # Unpriced
    /\ IF b.cost = 0 THEN a.cost = 0 ELSE 4 * AbsOf(a.cost - b.cost) <= b.cost

Dominates(o, r) ==
    /\ o.label # r.label /\ o.cost # Unpriced /\ r.cost # Unpriced
    /\ o.cost <= r.cost /\ Lead(o, r) >= 0
    /\ o.cost < r.cost \/ Lead(o, r) > 0

DominatedBy(r) == {i \in DOMAIN table : Dominates(table[i], r)}

\* ResultTable.claim states that row a beats row b.
Claims(a, b) ==
    /\ Lead(a, b) > 0
    /\ ~InsideNoise(a, b)
    /\ Matched(a, b)
    /\ DominatedBy(a) = {}

-----------------------------------------------------------------------------
(* A suite and its table.                                                    *)

TypeOK ==
    /\ records \in Seq(Record) /\ Len(records) <= RecordBound
    /\ noise \in Replicates
    /\ stage \in {"measure", "built", "refused"}
    /\ stage = "measure" => table = <<>>
    /\ stage = "built" => Check(table)

Init ==
    /\ records = <<>>
    /\ noise \in Replicates
    /\ table = <<>>
    /\ stage = "measure"

\* One sample of the suite; a result that breaks the contract ends it.
Measure ==
    /\ stage = "measure" /\ Len(records) < RecordBound
    /\ \E s \in Solved : Contract(s) /\ records' = Append(records, Recorded(s))
    /\ UNCHANGED <<noise, table, stage>>

Render(rows) ==
    /\ stage = "measure"
    /\ table' = rows
    /\ stage' = IF Check(rows) THEN "built" ELSE "refused"
    /\ UNCHANGED <<records, noise>>

Report == Render(BuildReport)
Compare == \E rivals \in Rivals : Render(BuildComparison(rivals))

Next == Measure \/ Report \/ Compare

Spec == Init /\ [][Next]_vars

-----------------------------------------------------------------------------

Count(v) == Cardinality({i \in DOMAIN records : records[i].verdict = v})

\* The verdicts account for the difference of the two rows: what escalation
\* helped less what it harmed is what the system solved more than its control,
\* where a run that stopped at depth zero reports one result as both.
VerdictsExplainTheRows ==
    (stage = "built" /\ EveryControl /\ \A i \in DOMAIN records :
        Len(records[i].depths) = 1 => records[i].final = records[i].baseline)
    => Count("helped") - Count("harmed") = Supported(SystemRow) - Supported(ControlRow)

\* A table that prints is over records of one corpus with each sample once, and
\* has a control.
PublishedIsPaired ==
    stage = "built" =>
        /\ \A i, j \in DOMAIN records :
            /\ records[i].corpus = records[j].corpus
            /\ records[i].sample = records[j].sample => i = j
        /\ \E r \in Range(table) : r.zero

\* A claim on a table that prints is one the evidence supports: no two runs of
\* one configuration were that far apart, what both spent is known and close,
\* and nothing on the table is as accurate and cheaper.
ClaimIsEarned ==
    stage = "built" => \A a, b \in Range(table) :
        Claims(a, b) =>
            /\ noise # <<>>
            /\ \A x, y \in Range(noise) :
                (x - y) * N(a) < (Supported(a) - Supported(b)) * ReplicatedSamples
            /\ "system" \in {a.label, b.label} =>
                \A i \in DOMAIN records : records[i].cost # Unpriced
            /\ 4 * a.cost <= 5 * b.cost /\ 4 * a.cost >= 3 * b.cost
            /\ ~\E o \in Range(table) :
                Supported(o) >= Supported(a) /\ o.cost # Unpriced /\ o.cost < a.cost

\* What a table says is what was measured.
TableIsEarned == VerdictsExplainTheRows /\ PublishedIsPaired /\ ClaimIsEarned
=============================================================================
