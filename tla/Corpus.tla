--------------------------------- MODULE Corpus ---------------------------------
(***************************************************************************)
(* rlm0/harness/corpus.py: generate_corpus builds a sample, solves it from *)
(* its own text before letting it out, then rewrites it into a perturbed   *)
(* twin and solves that one too.  Either check may refuse.                 *)
(*                                                                         *)
(* A document is a set of statements; what the generator draws at random   *)
(* is chosen from small sets.  An identifier is a prefix and three letters *)
(* of an alphabet of three.  Noise lines, dates and the order of documents *)
(* and lines are left out, and so is the swap that keeps the record in     *)
(* force from being the last; fillers and each decoy cohort are one        *)
(* document.                                                               *)
(***************************************************************************)
EXTENDS Naturals, Integers, Sequences, FiniteSets, FiniteSetsExt, Functions

CONSTANTS
    Similarities,     \* quarters: 4 is a distractor_similarity of 1.0
    Values,           \* what randrange(1000, 9999) may draw
    ChainLength, Hops,
    CohortSize, CohortValues,
    WinnerShares, SpikeGaps, SpikeRests, OtherShares, \* the draws of argmax
    Factors

VARIABLES
    similarity,
    sample,   \* the sample under construction
    twin,     \* its perturbed twin
    stage     \* "spec", "verified", "refused", "paired" or "twin refused"

vars == <<similarity, sample, twin, stage>>

Nothing == [family |-> "none"]
NoCohort == <<"none">>

-----------------------------------------------------------------------------
(* Identifiers and statements.                                               *)

Letter == 0..2
Make(prefix, n) == <<prefix, n \div 9, (n \div 3) % 3, n % 3>>

\* _Ids.near_miss: one letter away, and nobody's yet.
NearMiss(id, used) ==
    {[id EXCEPT ![i] = c] : i \in 2..Len(id), c \in Letter} \ (used \cup {id})

Fact(record, about, value) ==
    [says |-> "fact", record |-> record, about |-> about, value |-> value]

\* _by_similarity: the index of a surface form, 0 being the canonical one.
\* Python rounds a half to the even neighbour.
BySimilarity(options, floor) ==
    LET x == (4 - similarity) * (options - 1 - floor)
        down == x \div 4
    IN floor + (IF x % 4 = 2 THEN down + (down % 2) ELSE (x + 2) \div 4)

\* One of five attributes in one of five templates; both canonical is a fact.
Paraphrase(record, about, value) ==
    IF BySimilarity(5, 1) = 0 /\ BySimilarity(5, 0) = 0 THEN Fact(record, about, value)
    ELSE [says |-> "paraphrase", about |-> about, value |-> value]

\* _distractor_value: one digit off, or far from the answer anything at all.
DistractorValue(value) == IF similarity >= 2 THEN Values \ {value} ELSE Values

Doc(n, says) == [id |-> Make("DOC", n), cohort |-> NoCohort, says |-> says]
Member(n, cohort, says) == [id |-> Make("DOC", n), cohort |-> cohort, says |-> says]

\* _filler_docs.
Filler == Doc(26, {Paraphrase(Make("REC", 26), Make("SUBJ", 26), 1000)})

Number(n) == [number |-> n]
Entity(id) == [entity |-> id]

-----------------------------------------------------------------------------
(* Reading a sample the way a solver would: _read and the rederivers.        *)

Facts(s) == UNION {{[doc |-> d.id, fact |-> f] : f \in {x \in d.says : x.says = "fact"}}
                   : d \in s.documents}
Edges(s) == UNION {{x \in d.says : x.says = "supersedes"} : d \in s.documents}
Routes(s) == UNION {{[doc |-> d.id, from |-> x.from, to |-> x.to] :
                        x \in {y \in d.says : y.says = "route"}} : d \in s.documents}

About(s, id) == {f \in Facts(s) : f.fact.about = id}
Solution(answer, evidence) == [answer |-> answer, evidence |-> evidence]

\* Each reading of a sample that yields one answer, so none or one.
SolvedNeedle(s) ==
    LET hits == About(s, s.subject)
    IN {Solution(Number(f.fact.value), {f.doc}) : f \in {g \in hits : Cardinality(hits) = 1}}

SolvedSupersession(s) ==
    LET mine == About(s, s.subject)
        records == {f.fact.record : f \in mine}
        over == {e.over : e \in {x \in Edges(s) : {x.record, x.over} \cap records # {}}}
        current == {f \in mine : f.fact.record \notin over}
    IN {Solution(Number(f.fact.value), {g.doc : g \in mine}) :
           f \in {h \in current : Cardinality(current) = 1}}

SolvedMultiHop(s) ==
    LET routes == Routes(s)
        onward(node) == {r \in routes : r.from = node}
        path[i \in 0..Cardinality(routes)] ==
            IF i = 0 THEN s.subject
            ELSE IF onward(path[i - 1]) = {} THEN path[i - 1]
            ELSE (CHOOSE r \in onward(path[i - 1]) : TRUE).to
        end == path[Cardinality(routes)]
        hits == About(s, end)
    IN {Solution(Number(f.fact.value),
                 {f.doc} \cup {r.doc : r \in {x \in routes : x.from \in Range(path)}}) :
          f \in {g \in hits :
            /\ Cardinality(hits) = 1 /\ onward(end) = {}
            /\ \A q, r \in routes : q.from = r.from => q = r}}

CohortDocs(s) == {d.id : d \in {x \in s.documents : x.cohort = s.subject}}
CohortFacts(s) == {f \in Facts(s) : f.doc \in CohortDocs(s)}

SolvedCount(s) ==
    {Solution(Number(Cardinality({f \in CohortFacts(s) : f.fact.value > s.threshold})),
              CohortDocs(s))}

TotalOf(s, subject) ==
    MapThenSumSet(LAMBDA f : f.fact.value, {f \in CohortFacts(s) : f.fact.about = subject})

SolvedArgmax(s) ==
    LET subjects == {f.fact.about : f \in CohortFacts(s)}
        best == {x \in subjects : \A y \in subjects : TotalOf(s, x) >= TotalOf(s, y)}
    IN {Solution(Entity(x), CohortDocs(s)) : x \in {y \in best : Cardinality(best) = 1}}

Rederived(s) ==
    CASE s.family = "needle" -> SolvedNeedle(s)
      [] s.family = "supersession" -> SolvedSupersession(s)
      [] s.family = "multi_hop" -> SolvedMultiHop(s)
      [] s.family = "aggregate_count" -> SolvedCount(s)
      [] s.family = "aggregate_argmax" -> SolvedArgmax(s)

\* verify_sample.
Verified(s) ==
    /\ Rederived(s) = {Solution(s.answer, s.required)}
    /\ s.answer \notin s.distractors
    /\ s.required \subseteq {d.id : d \in s.documents}

-----------------------------------------------------------------------------
(* The builders.                                                             *)

Sample(family, subject, documents, answer, required, distractors) ==
    [family |-> family, subject |-> subject, threshold |-> 0,
     documents |-> documents \cup {Filler}, answer |-> answer,
     required |-> {d.id : d \in required}, distractors |-> distractors]

Generate(s) ==
    /\ stage = "spec"
    /\ sample' = s
    /\ stage' = IF Verified(s) THEN "verified" ELSE "refused"
    /\ UNCHANGED <<similarity, twin>>

\* One distractor states a wrong value of a near miss, the other paraphrases
\* one about the subject itself.
Needle ==
    LET subject == Make("SUBJ", 0) IN
    \E value \in Values :
    \E other \in NearMiss(subject, {}), wrong \in [1..2 -> DistractorValue(value)] :
        LET hit == Doc(0, {Fact(Make("REC", 0), subject, value)})
            near == Doc(1, {Fact(Make("REC", 1), other, wrong[1])})
            loose == Doc(2, {Paraphrase(Make("REC", 2), subject, wrong[2])})
        IN Generate(Sample("needle", subject, {hit, near, loose}, Number(value), {hit},
                           {Number(wrong[1]), Number(wrong[2])}))

\* A chain of records of the subject, each over the one before, and two chains
\* of near misses.
Supersession ==
    LET subject == Make("SUBJ", 0) IN
    \E value \in {f \in [1..ChainLength -> Values] : IsInjective(f)} :
    \E others \in kSubset(2, NearMiss(subject, {})), wrong \in [1..2 -> DistractorValue(value[ChainLength])] :
        LET edge(new, old) == [says |-> "supersedes", record |-> Make("REC", new), over |-> Make("REC", old)]
            chain == {Doc(i, {Fact(Make("REC", i), subject, value[i])}
                             \cup (IF i > 1 THEN {edge(i, i - 1)} ELSE {})) : i \in 1..ChainLength}
            first == CHOOSE o \in others : TRUE
            decoy(i) == Doc(10 + i, {Fact(Make("REC", 10 + i),
                                          IF i = 1 THEN first ELSE CHOOSE o \in others : o # first, wrong[i]),
                                     edge(20 + i, 10 + i)})
        IN Generate(Sample("supersession", subject, chain \cup {decoy(1), decoy(2)},
                           Number(value[ChainLength]), chain,
                           {Number(value[i]) : i \in 1..(ChainLength - 1)} \cup {Number(wrong[i]) : i \in 1..2}))

\* A chain of routes to the node with the value, and two complete chains that
\* begin at near misses of its nodes.
MultiHop ==
    LET node(i) == Make("NODE", (13 * i) % 27)
        route(x, y) == [says |-> "route", from |-> x, to |-> y]
        used == {node(i) : i \in 0..Hops}
    IN
    \E value \in Values :
    \E wrong \in [1..2 -> DistractorValue(value)], near1 \in NearMiss(node(0), used) :
    \E near2 \in NearMiss(node(1), used \cup {near1}) :
        LET required == {Doc(i, {route(node(i), node(i + 1))}) : i \in 0..(Hops - 1)}
                        \cup {Doc(Hops, {Fact(Make("REC", 0), node(Hops), value)})}
            decoy(i, start) ==
                {Doc(10 * i, {route(start, Make("NODE", 6 * i - 1))}),
                 Doc(10 * i + 1, {route(Make("NODE", 6 * i - 1), Make("NODE", 8 * i - 1))}),
                 Doc(10 * i + 2, {Fact(Make("REC", i), Make("NODE", 8 * i - 1), wrong[i])})}
        IN Generate(Sample("multi_hop", node(0), required \cup decoy(1, near1) \cup decoy(2, near2),
                           Number(value), required, {Number(wrong[i]) : i \in 1..2}))

\* _decoy_cohorts: a twin of the cohort one letter away, and a stranger.
DecoyCohorts(cohort, twins, value) ==
    {Member(24, twins, {Fact(Make("REC", 24), Make("SUBJ", 24), value)}),
     Member(25, Make("CHT", 26), {Fact(Make("REC", 25), Make("SUBJ", 25), value)})}

AggregateCount ==
    LET cohort == Make("CHT", 0) IN
    \E values \in kSubset(CohortSize, CohortValues), value \in CohortValues, near \in NearMiss(cohort, {}) :
        LET threshold == CHOOSE v \in values :
                Cardinality({w \in values : w < v}) = CohortSize \div 2
            above == Cardinality({v \in values : v > threshold})
            members == {Member(Cardinality({w \in values : w < v}), cohort,
                          {Fact(Make("REC", 0), Make("SUBJ", Cardinality({w \in values : w < v})), v)}) : v \in values}
        IN Generate([Sample("aggregate_count", cohort, members \cup DecoyCohorts(cohort, near, value),
                            Number(above), members, {Number(above + 1), Number(CohortSize), Number(0)})
                     EXCEPT !.threshold = threshold])

\* Seeded fault: the spike is measured from what the winner has on average.
SpikeSmall(total, gap, rest) == <<total \div 4 - gap, rest>>

\* The holdings of the subject with the largest record: never the largest sum.
Spike(total, gap, rest) == <<total - gap, rest>>

SumOf4(h) == h[1] + h[2] + h[3] + h[4]

\* The adjustment of a winner that is tied or beaten: one more record for it.
Adjusted(share, spike, other) ==
    LET rivals == {spike[1] + spike[2], other[1] + other[2] + other[3]} IN
    IF \A total \in rivals : total < SumOf4(share) THEN share
    ELSE Append(share, Max(rivals) - SumOf4(share) + 1)

AggregateArgmax ==
    LET cohort == Make("CHT", 0) IN
    \E share \in [1..4 -> WinnerShares], gap \in SpikeGaps, rest \in SpikeRests,
       other \in [1..3 -> OtherShares], value \in Values :
        LET spike == Spike(SumOf4(share), gap, rest)
            holdings == <<Adjusted(share, spike, other), spike, other>>
            members == UNION {{Member(5 * i + j, cohort,
                                 {Fact(Make("REC", 5 * i + j), Make("SUBJ", i), holdings[i][j])})
                               : j \in DOMAIN holdings[i]} : i \in 1..3}
        IN Generate(Sample("aggregate_argmax", cohort,
                           members \cup DecoyCohorts(cohort, Make("CHT", 1), value),
                           Entity(Make("SUBJ", 1)), members,
                           {Entity(Make("SUBJ", 2)), Entity(Make("SUBJ", 3))}))

-----------------------------------------------------------------------------
(* The perturbed twin.                                                       *)

\* _rewrite_for: a permutation that moves every letter.
Derangements == {p \in [Letter -> Letter] : IsInjective(p) /\ \A c \in Letter : p[c] # c}

Rename(id, p) == [i \in DOMAIN id |-> IF i = 1 THEN id[1] ELSE p[id[i]]]

Scale(n, factor) == n * factor

\* _Rewrite.text on one statement: only lines that name an attribute scale.
RewrittenStatement(x, p, factor) ==
    [f \in DOMAIN x |-> IF f = "says" THEN x[f]
                        ELSE IF f = "value" THEN Scale(x[f], factor) ELSE Rename(x[f], p)]

RewrittenDoc(d, p, factor) ==
    [id |-> Rename(d.id, p),
     cohort |-> IF d.cohort = NoCohort THEN NoCohort ELSE Rename(d.cohort, p),
     says |-> {RewrittenStatement(x, p, factor) : x \in d.says}]

\* _Rewrite.answer: a count is not a value of the text.
RewrittenAnswer(a, family, p, factor) ==
    IF "entity" \in DOMAIN a THEN Entity(Rename(a.entity, p))
    ELSE IF family \in {"needle", "supersession", "multi_hop"} THEN Number(Scale(a.number, factor))
    ELSE a

Rewritten(s, p, factor) ==
    [family |-> s.family, subject |-> Rename(s.subject, p),
     threshold |-> Scale(s.threshold, factor),
     documents |-> {RewrittenDoc(d, p, factor) : d \in s.documents},
     answer |-> RewrittenAnswer(s.answer, s.family, p, factor),
     required |-> {Rename(d, p) : d \in s.required},
     distractors |-> {RewrittenAnswer(a, s.family, p, factor) : a \in s.distractors}]

\* perturb_sample.
Perturb ==
    /\ stage = "verified"
    /\ \E p \in Derangements, factor \in Factors :
        /\ twin' = Rewritten(sample, p, factor)
        /\ stage' = IF Verified(twin') THEN "paired" ELSE "twin refused"
    /\ UNCHANGED <<similarity, sample>>

-----------------------------------------------------------------------------

Families == {"needle", "supersession", "multi_hop", "aggregate_count", "aggregate_argmax"}

TypeOK ==
    /\ similarity \in Similarities
    /\ stage \in {"spec", "verified", "refused", "paired", "twin refused"}
    /\ (stage # "spec") <=> (sample.family \in Families)
    /\ stage \in {"paired", "twin refused"} <=> (twin.family \in Families)
    /\ stage \in {"paired", "twin refused"} => Cardinality(twin.documents) = Cardinality(sample.documents)

Init ==
    /\ similarity \in Similarities
    /\ sample = Nothing /\ twin = Nothing /\ stage = "spec"

Next == Needle \/ Supersession \/ MultiHop \/ AggregateCount \/ AggregateArgmax \/ Perturb

Spec == Init /\ [][Next]_vars

-----------------------------------------------------------------------------

\* With distractors close to the answer, no draw makes a sample that its own
\* text does not support: the generator does not refuse what it drew.
DrawsVerify == similarity >= 2 => stage # "refused"

\* No rewriting moves an answer, in any family.
TwinsVerify == stage # "twin refused"

Named(s) == {f.fact.about : f \in Facts(s)}
Apart(a, b) == Cardinality({i \in DOMAIN a : a[i] # b[i]})
NearPairs(s) == {p \in Named(s) \X Named(s) : Apart(p[1], p[2]) = 1}

LargestHolders(s) == {f.fact.about : f \in {x \in CohortFacts(s) :
                        \A y \in CohortFacts(s) : y.fact.value <= x.fact.value}}

\* The twin is as hard as its original and gives nothing of it away: it has as
\* many entities one letter apart, the largest record of an argmax still
\* misleads, and the entity it asks for shares no letter with the original's.
TwinKeepsTheTraps ==
    stage = "paired" =>
        /\ Cardinality(NearPairs(twin)) = Cardinality(NearPairs(sample))
        /\ twin.family = "aggregate_argmax" =>
              \A x \in LargestHolders(twin) : Entity(x) \in twin.distractors
        /\ \A i \in 2..4 : twin.subject[i] # sample.subject[i]

\* What the generator lets out is what its text says, and so is its twin.
CorpusIsSolvable == DrawsVerify /\ TwinsVerify /\ TwinKeepsTheTraps
=============================================================================
