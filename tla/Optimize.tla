-------------------------------- MODULE Optimize --------------------------------
(***************************************************************************)
(* rlm0/research/optimize.py: one search over prompt candidates, evaluated *)
(* in order inside an evaluation budget.  The ledger reserves the quote of *)
(* a candidate before its evaluator runs and settles what it cost.  An     *)
(* evaluator may raise after it has spent, or return a cost above its      *)
(* permit, a result for another candidate or one measured on other data:   *)
(* each ends the search with an error.  The report then names one          *)
(* candidate among those the regression gate approved.                     *)
(*                                                                         *)
(* Costs and metrics are integers; `var` is the square of a standard error *)
(* and ZSquared of the z score.                                            *)
(***************************************************************************)
EXTENDS Naturals, Integers, Sequences, FiniteSets, Functions

CONSTANTS
    Fingerprints,    \* of the prompts a mutation can make
    Seeds,           \* the fingerprints of the seeds
    PopulationSize, Generations,
    MaxCandidates, MaxCost,
    Quotes,          \* what estimate_cost may say; {} when there is none
    Metrics,         \* the metrics an evaluation may return
    Costs,           \* what an evaluation may cost
    MaxRegression, MinImprovement, ZSquared,
    Incumbents       \* <<>> for a search without one, or <<its evaluation>>

Field == UNION {DOMAIN m : m \in Metrics}

VARIABLES
    population,  \* the candidates, each with the operation that made it
    generation,
    spent, reserved, count, \* the ledger
    permit,      \* what is reserved for the candidate under evaluation
    cost,        \* what its evaluator has really spent
    paid,        \* the real spend of every evaluator so far
    evaluations, \* the results kept, each with its candidate
    approved,
    incumbent,
    phase        \* "evolve", "reserve", "evaluate", "settle", "judge", "report", "error"

vars == <<population, generation, spent, reserved, count, permit, cost, paid,
          evaluations, approved, incumbent, phase>>
search == <<population, generation, incumbent>>
ledger == <<spent, reserved, count>>

Lesser(a, b) == IF a < b THEN a ELSE b

Candidate == [of : Fingerprints, operation : {"seed", "mutation"}]
Evaluation == [of : Fingerprints, metrics : Metrics, cost : Costs]

TypeOK ==
    /\ population \in Seq(Candidate)
    /\ generation \in 0..Generations
    /\ spent \in Nat /\ reserved \in Nat /\ permit \in Nat
    /\ cost \in Nat /\ paid \in Nat
    /\ count \in 0..MaxCandidates
    /\ evaluations \in Seq(Evaluation)
    /\ approved \in Seq(Evaluation)
    /\ incumbent \in Incumbents
    /\ phase \in {"evolve", "reserve", "evaluate", "settle", "judge", "report", "error"}

Init ==
    /\ population = [i \in 1..Lesser(Len(Seeds), PopulationSize) |->
                       [of |-> Seeds[i], operation |-> "seed"]]
    /\ generation = 0
    /\ spent = 0 /\ reserved = 0 /\ count = 0
    /\ permit = 0 /\ cost = 0 /\ paid = 0
    /\ evaluations = <<>> /\ approved = <<>>
    /\ incumbent \in Incumbents
    /\ phase = "evolve"

-----------------------------------------------------------------------------
(* The population.                                                           *)

Firsts(cs) == {i \in DOMAIN cs : \A j \in 1..(i - 1) : cs[j].of # cs[i].of}
LastLike(cs, c) == cs[CHOOSE i \in DOMAIN cs :
    cs[i].of = c.of /\ \A j \in (i + 1)..Len(cs) : cs[j].of # c.of]

\* The k-th of a set of places.
Nth(places, k) == CHOOSE i \in places : Cardinality({j \in places : j <= i}) = k

\* A dictionary by fingerprint: a candidate keeps its first place, and is the
\* last that was made of it.
Unique(cs) ==
    [k \in 1..Cardinality(Firsts(cs)) |-> LastLike(cs, cs[Nth(Firsts(cs), k)])]

Survivors(parents, children) ==
    LET all == Unique(parents \o children)
    IN SubSeq(all, 1, Lesser(Len(all), MaxCandidates))

\* One generation: each parent, crossed with the next, has one mutated child.
Evolve ==
    /\ phase = "evolve" /\ generation < Generations
    /\ \E kids \in [DOMAIN population -> Fingerprints] :
        population' = Survivors(population,
            [i \in DOMAIN population |-> [of |-> kids[i], operation |-> "mutation"]])
    /\ generation' = generation + 1
    /\ UNCHANGED <<ledger, permit, cost, paid, evaluations, approved, incumbent, phase>>

\* More candidates than the budget allows would be an error.
Evolved ==
    /\ phase = "evolve" /\ generation = Generations
    /\ phase' = IF Len(population) > MaxCandidates THEN "error" ELSE "reserve"
    /\ UNCHANGED <<ledger, permit, cost, paid, evaluations, approved, search>>

-----------------------------------------------------------------------------
(* The gate and the frontier.                                                *)

\* The lower bound d - z * sqrt(v) is below t.
LowerBoundBelow(d, v, t) == d < t \/ (d - t) * (d - t) < ZSquared * v

Gain(e, f) == e.metrics[f].mean - incumbent[1].metrics[f].mean
Variance(e, f) == e.metrics[f].var + incumbent[1].metrics[f].var

\* Seeded fault: one field that does not regress is enough.
ApprovesOne(e) ==
    incumbent # <<>> =>
        /\ \E f \in Field : ~LowerBoundBelow(Gain(e, f), Variance(e, f), -MaxRegression)
        /\ \E f \in Field : ~LowerBoundBelow(Gain(e, f), Variance(e, f), MinImprovement)

\* RegressionGate.approve; without an incumbent everything is approved.
Approves(e) ==
    incumbent # <<>> =>
        /\ \A f \in Field : ~LowerBoundBelow(Gain(e, f), Variance(e, f), -MaxRegression)
        /\ \E f \in Field : ~LowerBoundBelow(Gain(e, f), Variance(e, f), MinImprovement)

AsGood(a, b) == \A f \in Field : a.metrics[f].mean >= b.metrics[f].mean

Dominates(a, b) ==
    /\ AsGood(a, b)
    /\ a.cost <= b.cost
    /\ (\E f \in Field : a.metrics[f].mean > b.metrics[f].mean) \/ a.cost < b.cost

\* The places in `approved` of those that no other dominates.
ParetoFrontier ==
    {i \in DOMAIN approved :
        ~\E j \in DOMAIN approved :
            approved[j] # approved[i] /\ Dominates(approved[j], approved[i])}

Cheapest(places) ==
    {i \in places : \A j \in places : approved[i].cost <= approved[j].cost}

\* What the report names: the first of the cheapest on the frontier, if any.
Recommended ==
    LET cheapest == Cheapest(ParetoFrontier)
    IN {approved[i] : i \in {k \in cheapest : \A j \in cheapest : k <= j}}

-----------------------------------------------------------------------------
(* The search.                                                               *)

Remaining == MaxCost - spent - reserved
Quote == IF Quotes = {} THEN {Remaining} ELSE Quotes

\* Seeded fault: a quote is held against the budget, not against what is left.
FitsAlone(q) == q <= MaxCost

Fits(q) == q <= Remaining

Reserve ==
    /\ phase = "reserve" /\ count < Len(population)
    /\ \E q \in Quote :
        /\ Fits(q)
        /\ reserved' = reserved + q
        /\ permit' = q
    /\ count' = count + 1
    /\ phase' = "evaluate"
    /\ UNCHANGED <<spent, cost, paid, evaluations, approved, search>>

\* A quote that does not fit stops the search; at the first candidate it raises.
Refuse ==
    /\ phase = "reserve" /\ count < Len(population)
    /\ \E q \in Quote : ~Fits(q)
    /\ phase' = IF evaluations = <<>> THEN "error" ELSE "report"
    /\ UNCHANGED <<ledger, permit, cost, paid, evaluations, approved, search>>

\* The evaluator works, and returns.
Evaluate ==
    /\ phase = "evaluate"
    /\ cost' \in Costs
    /\ paid' = paid + cost'
    /\ phase' = "settle"
    /\ UNCHANGED <<ledger, permit, evaluations, approved, search>>

\* It raises, whatever it has spent by then: the permit is released whole.
EvaluatorRaises ==
    /\ phase = "evaluate"
    /\ \E c \in Costs : paid' = paid + c
    /\ reserved' = reserved - permit
    /\ phase' = "error"
    /\ UNCHANGED <<spent, count, permit, cost, evaluations, approved, search>>

Settle ==
    /\ phase = "settle" /\ cost <= permit
    /\ reserved' = reserved - permit
    /\ spent' = spent + cost
    /\ phase' = "judge"
    /\ UNCHANGED <<count, permit, cost, paid, evaluations, approved, search>>

\* The result is above its permit, or of another candidate: the permit stays
\* reserved and nothing is booked.
SettleFails ==
    /\ phase = "settle"
    /\ phase' = "error"
    /\ UNCHANGED <<ledger, permit, cost, paid, evaluations, approved, search>>

\* allow_selection: a result on other data is refused, its cost booked.
OtherData ==
    /\ phase = "judge"
    /\ phase' = "error"
    /\ UNCHANGED <<ledger, permit, cost, paid, evaluations, approved, search>>

Judge ==
    /\ phase = "judge"
    /\ \E m \in Metrics :
        LET e == [of |-> population[count].of, metrics |-> m, cost |-> cost] IN
        /\ evaluations' = Append(evaluations, e)
        /\ approved' = IF Approves(e) THEN Append(approved, e) ELSE approved
    /\ phase' = "reserve"
    /\ UNCHANGED <<ledger, permit, cost, paid, search>>

Report ==
    /\ phase = "reserve" /\ count = Len(population)
    /\ phase' = "report"
    /\ UNCHANGED <<ledger, permit, cost, paid, evaluations, approved, search>>

Next == Evolve \/ Evolved \/ Reserve \/ Refuse \/ Evaluate \/ EvaluatorRaises \/ Settle \/ SettleFails
        \/ OtherData \/ Judge \/ Report

Spec == Init /\ [][Next]_vars

-----------------------------------------------------------------------------

\* The ledger never promises or books more than the budget.
LedgerWithinBudget == spent + reserved <= MaxCost

\* The money itself: what the evaluators spent is what the ledger booked as
\* long as the search goes on, so that a report is never made over spend that
\* nobody recorded.
BookedIsPaid ==
    phase \in {"reserve", "evaluate", "judge", "report"} => paid = spent

\* A recommendation passes the gate as a whole: beyond the noise no field is
\* worse than the incumbent's by more than was allowed, and no candidate that
\* passed is as good in every field and cheaper.
RecommendationHolds ==
    phase = "report" => \A e \in Recommended :
        /\ incumbent # <<>> => \A f \in Field :
            e.metrics[f].mean + MaxRegression >= incumbent[1].metrics[f].mean
        /\ ~\E i \in DOMAIN approved :
              AsGood(approved[i], e) /\ approved[i].cost < e.cost

\* What is measured is distinct, within the budget, and begins with the seeds:
\* a mutation that makes a known prompt again neither is paid for twice nor
\* puts a seed out of the comparison.
SeedsAreMeasuredFirst ==
    phase # "evolve" =>
        /\ IsInjective([i \in DOMAIN population |-> population[i].of])
        /\ Len(population) <= MaxCandidates
        /\ \A i \in DOMAIN population :
              i <= Lesser(Len(Seeds), PopulationSize) => population[i].of = Seeds[i]

\* The money: within the budget, and every spend on the books.
MoneyIsAccountedFor == LedgerWithinBudget /\ BookedIsPaid

\* The choice: over distinct candidates, the seeds among them, and a sound one.
ChoiceIsSound == SeedsAreMeasuredFirst /\ RecommendationHolds
=============================================================================
