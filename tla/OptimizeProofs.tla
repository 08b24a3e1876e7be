---------------------------- MODULE OptimizeProofs ----------------------------
(***************************************************************************)
(* What holds of the ledger of a prompt search, of its population and of   *)
(* its recommendation, for every budget, every set of quotes and costs,    *)
(* every population, and whatever mutations and evaluators do.             *)
(***************************************************************************)
EXTENDS Optimize, FiniteSetTheorems, SequenceTheorems, WellFoundedInduction, TLAPS

\* Amounts of money: what the constructors of the budget and of an evaluation check.
Amounts == MaxCost \in Nat /\ Quotes \subseteq Nat /\ Costs \subseteq Nat

\* What the ledger holds in every phase.  Between candidates nothing is reserved and
\* everything is booked; under evaluation the permit is what is reserved, and a result
\* that waits to be settled is the one spend not booked yet.
LedgerInv ==
    /\ spent \in Nat /\ reserved \in Nat /\ permit \in Nat /\ cost \in Nat /\ paid \in Nat
    /\ spent + reserved <= MaxCost
    /\ phase \in {"evolve", "reserve", "judge", "report"} => reserved = 0 /\ paid = spent
    /\ phase \in {"evaluate", "settle"} => reserved = permit
    /\ phase = "evaluate" => paid = spent
    /\ phase = "settle" => paid = spent + cost

\* A quote is an amount, and so is what is left when there is no quote.
LEMMA QuoteIsAnAmount ==
    ASSUME Amounts, LedgerInv, NEW q \in Quote
    PROVE  q \in Nat
<1>1. CASE Quotes = {}
  BY <1>1 DEF Quote, Remaining, Amounts, LedgerInv
<1>2. CASE Quotes # {}
  BY <1>2 DEF Quote, Amounts
<1> QED BY <1>1, <1>2

\* A candidate gets its permit only from what is left.
LEMMA ReserveKeeps == ASSUME Amounts, LedgerInv, Reserve PROVE LedgerInv'
<1>1. PICK q \in Quote : Fits(q) /\ reserved' = reserved + q /\ permit' = q
  BY DEF Reserve
<1>2. q \in Nat
  BY QuoteIsAnAmount
<1>3. /\ phase = "reserve" /\ phase' = "evaluate"
      /\ UNCHANGED <<spent, cost, paid>>
  BY DEF Reserve
<1> QED BY <1>1, <1>2, <1>3 DEF LedgerInv, Fits, Remaining, Amounts

\* A settlement returns the permit whole and books what was within it.
LEMMA SettleKeeps == ASSUME Amounts, LedgerInv, Settle PROVE LedgerInv'
BY DEF Settle, LedgerInv, Amounts

\* The evaluator's spend is real before it is booked; if it raises, the permit comes
\* back.
LEMMA EvaluateKeeps ==
    ASSUME Amounts, LedgerInv, Evaluate \/ EvaluatorRaises
    PROVE  LedgerInv'
<1>1. CASE Evaluate
  <2>1. PICK c \in Nat : cost' = c /\ paid' = paid + c
    BY <1>1 DEF Evaluate, Amounts
  <2>2. /\ phase = "evaluate" /\ phase' = "settle"
        /\ UNCHANGED <<spent, reserved, permit>>
    BY <1>1 DEF Evaluate, ledger
  <2> QED BY <2>1, <2>2 DEF LedgerInv, Amounts
<1>2. CASE EvaluatorRaises
  <2>1. paid' \in Nat
    BY <1>2 DEF EvaluatorRaises, Amounts, LedgerInv
  <2> QED BY <1>2, <2>1 DEF EvaluatorRaises, LedgerInv, Amounts
<1> QED BY <1>1, <1>2

\* Every other step leaves the ledger alone and goes on only between candidates.
LEMMA QuietKeeps ==
    ASSUME LedgerInv,
           \/ Evolve \/ Evolved \/ Refuse \/ SettleFails \/ OtherData \/ Judge \/ Report
           \/ UNCHANGED vars
    PROVE  LedgerInv'
<1>1. UNCHANGED <<spent, reserved, permit, cost, paid>>
  BY DEF Evolve, Evolved, Refuse, SettleFails, OtherData, Judge, Report, vars, ledger
<1>2. \/ phase' \in {"error", phase}
      \/ /\ phase \in {"evolve", "reserve", "judge"}
         /\ phase' \in {"reserve", "report"}
  BY DEF Evolve, Evolved, Refuse, SettleFails, OtherData, Judge, Report, vars
<1> QED BY <1>1, <1>2 DEF LedgerInv

\* The ledger is within its budget, and every spend is on the books while the search
\* goes on and when it reports: what evaluators spend without its being booked ends
\* the search with an error.
THEOREM MoneyIsAccountedForHolds ==
    ASSUME Amounts
    PROVE  Spec => []MoneyIsAccountedFor
<1>1. Init => LedgerInv
  BY DEF Init, LedgerInv, Amounts
<1>2. LedgerInv /\ [Next]_vars => LedgerInv'
  BY ReserveKeeps, SettleKeeps, EvaluateKeeps, QuietKeeps DEF Next
<1>3. LedgerInv => MoneyIsAccountedFor
  BY DEF LedgerInv, MoneyIsAccountedFor, LedgerWithinBudget, BookedIsPaid
<1> QED BY <1>1, <1>2, <1>3, PTL DEF Spec

-----------------------------------------------------------------------------
(* The places of a set of natural numbers.                                   *)

LEMMA LeastPlace ==
    ASSUME NEW S \in SUBSET Nat, S # {}
    PROVE  \E n \in S : \A m \in S : n <= m
<1> DEFINE R == OpToRel(<, Nat)
<1>1. IsWellFoundedOn(R, Nat) BY NatLessThanWellFounded
<1>2. \A m, n \in Nat : <<m, n>> \in R <=> m < n BY DEF OpToRel
<1> HIDE DEF R
<1>3. PICK n \in S : \A m \in S : ~(<<m, n>> \in R) BY <1>1, WFMin
<1>4. \A m \in S : n <= m
  <2> TAKE m \in S
  <2>1. m \in Nat /\ n \in Nat /\ ~(<<m, n>> \in R) BY <1>3
  <2>2. QED BY <1>2, <2>1
<1>5. QED BY <1>4

LEMMA LastPlace ==
    ASSUME NEW n \in Nat, NEW S \in SUBSET (1..n), S # {}
    PROVE  \E i \in S : \A j \in S : j <= i
<1> DEFINE U == {m \in Nat : \A j \in S : j <= m}
<1>1. n \in U BY DEF U
<1>2. PICK m \in U : \A k \in U : m <= k
  <2> HIDE DEF U
  <2>1. U \in SUBSET Nat BY DEF U
  <2>2. QED BY <1>1, <2>1, LeastPlace
<1>3. m \in S
  <2> SUFFICES ASSUME m \notin S PROVE FALSE OBVIOUS
  <2>1. \A j \in S : j <= m /\ j # m /\ j \in Nat /\ j >= 1 BY <1>2
  <2>0. PICK j \in S : j \in Nat /\ j >= 1 /\ j <= m BY <2>1
  <2>2. m \in Nat /\ m >= 1 BY <2>0, m \in Nat
  <2>3. m - 1 \in U BY <2>1, <2>2
  <2>4. QED BY <1>2, <2>2, <2>3
<1>4. QED BY <1>2, <1>3

LEMMA CountTo == ASSUME NEW n \in Nat PROVE IsFiniteSet(1..n) /\ Cardinality(1..n) = n
<1>1. Cardinality(1..n) = IF 1 > n THEN 0 ELSE n - 1 + 1 BY FS_Interval
<1>2. QED BY <1>1, FS_Interval

\* How many places of a set there are up to one of them.
Rank(S, i) == Cardinality({j \in S : j <= i})

LEMMA RankIn ==
    ASSUME NEW S \in SUBSET Nat, IsFiniteSet(S), NEW i \in S
    PROVE  Rank(S, i) \in 1..Cardinality(S)
<1> DEFINE P == {j \in S : j <= i}
<1>1. P \subseteq S /\ i \in P OBVIOUS
<1> HIDE DEF P
<1>2. IsFiniteSet(P) /\ Cardinality(P) <= Cardinality(S) BY <1>1, FS_Subset
<1>3. Cardinality(P) \in Nat /\ Cardinality(S) \in Nat BY <1>2, FS_CardinalityType
<1>4. Cardinality(P) # 0 BY <1>1, <1>2, FS_EmptySet
<1>5. Cardinality(P) \in 1..Cardinality(S) BY <1>2, <1>3, <1>4
<1>6. QED BY <1>5 DEF Rank, P

LEMMA RankApart ==
    ASSUME NEW S \in SUBSET Nat, IsFiniteSet(S), NEW i \in S, NEW j \in S, i < j
    PROVE  Rank(S, i) < Rank(S, j)
<1> DEFINE P == {k \in S : k <= i}
           Q == {k \in S : k <= j}
<1>0. i \in Nat /\ j \in Nat OBVIOUS
<1>1. P \subseteq Q /\ Q \subseteq S /\ j \in Q /\ j \notin P
  <2>1. \A k \in S : k \in Nat /\ (k <= i => k <= j) BY <1>0
  <2>2. j <= j /\ ~(j <= i) BY <1>0
  <2>3. QED BY <2>1, <2>2
<1> HIDE DEF P, Q
<1>2. IsFiniteSet(Q) BY <1>1, FS_Subset
<1>3. IsFiniteSet(P) /\ Cardinality(P) <= Cardinality(Q) /\ Cardinality(P) # Cardinality(Q)
  BY <1>1, <1>2, FS_Subset
<1>4. Cardinality(P) \in Nat /\ Cardinality(Q) \in Nat BY <1>2, <1>3, FS_CardinalityType
<1>5. QED BY <1>3, <1>4 DEF Rank, P, Q

\* Ranks count through: there is a k-th place for each k, and one only.
LEMMA NthIn ==
    ASSUME NEW S \in SUBSET Nat, IsFiniteSet(S), NEW k \in 1..Cardinality(S)
    PROVE  Nth(S, k) \in S /\ Rank(S, Nth(S, k)) = k
<1> DEFINE n == Cardinality(S)
           f == [i \in S |-> Rank(S, i)]
<1>1. n \in Nat BY FS_CardinalityType
<1>2. f \in Injection(S, 1..n)
  <2>1. f \in [S -> 1..n] BY RankIn
  <2>2. ASSUME NEW a \in S, NEW b \in S, f[a] = f[b] PROVE a = b
    <3>1. a \in Nat /\ b \in Nat OBVIOUS
    <3>2. Rank(S, a) \in Nat /\ Rank(S, b) \in Nat BY RankIn
    <3>3. ~(a < b) /\ ~(b < a) BY <2>2, <3>2, RankApart
    <3>4. QED BY <3>1, <3>3
  <2> HIDE DEF n
  <2>3. QED BY <2>1, <2>2 DEF Injection, IsInjective
<1>3. IsFiniteSet(1..n) /\ Cardinality(1..n) = n BY <1>1, CountTo
<1> HIDE DEF f
<1>4. f \in Surjection(S, 1..n) BY <1>2, <1>3, FS_Injection
<1>5. PICK i \in S : f[i] = k BY <1>4 DEF Surjection
<1>6. \E m \in S : Cardinality({j \in S : j <= m}) = k BY <1>5 DEF f, Rank
<1>7. QED BY <1>6 DEF Nth, Rank

LEMMA NthOnly ==
    ASSUME NEW S \in SUBSET Nat, IsFiniteSet(S), NEW i \in S
    PROVE  Nth(S, Rank(S, i)) = i
<1> DEFINE j == Nth(S, Rank(S, i))
<1>1. j \in S /\ Rank(S, j) = Rank(S, i) BY RankIn, NthIn
<1> HIDE DEF j
<1>2. i \in Nat /\ j \in Nat /\ Rank(S, i) \in Nat /\ Rank(S, j) \in Nat BY <1>1, RankIn
<1>3. ~(i < j) /\ ~(j < i) BY <1>1, <1>2, RankApart
<1>4. QED BY <1>2, <1>3 DEF j
-----------------------------------------------------------------------------
(* The population.                                                           *)

\* The places of the first of each prompt are places.
LEMMA FirstsArePlaces ==
    ASSUME NEW cs \in Seq(Candidate)
    PROVE  /\ Firsts(cs) \in SUBSET Nat /\ Firsts(cs) \subseteq DOMAIN cs
           /\ IsFiniteSet(Firsts(cs)) /\ Cardinality(Firsts(cs)) \in Nat
<1>1. Firsts(cs) \subseteq 1..Len(cs) BY DEF Firsts
<1>2. IsFiniteSet(1..Len(cs)) BY FS_Interval
<1>3. IsFiniteSet(Firsts(cs)) BY <1>1, <1>2, FS_Subset
<1>4. QED BY <1>1, <1>3, FS_CardinalityType

LEMMA LastLikeIsLike ==
    ASSUME NEW cs \in Seq(Candidate), NEW i \in DOMAIN cs
    PROVE  LastLike(cs, cs[i]) \in Candidate /\ LastLike(cs, cs[i]).of = cs[i].of
<1> DEFINE S == {j \in 1..Len(cs) : cs[j].of = cs[i].of}
<1>1. PICK k \in S : \A j \in S : j <= k
  <2>1. S \in SUBSET (1..Len(cs)) /\ i \in S /\ Len(cs) \in Nat OBVIOUS
  <2> HIDE DEF S
  <2>2. QED BY <2>1, LastPlace
<1>2. \A j \in (k + 1)..Len(cs) : cs[j].of # cs[i].of BY <1>1
<1>3. \E m \in DOMAIN cs :
        cs[m].of = cs[i].of /\ \A j \in (m + 1)..Len(cs) : cs[j].of # cs[i].of
  BY <1>1, <1>2
<1> DEFINE m == CHOOSE m \in DOMAIN cs :
        cs[m].of = cs[i].of /\ \A j \in (m + 1)..Len(cs) : cs[j].of # cs[i].of
<1>4. m \in DOMAIN cs /\ cs[m].of = cs[i].of BY <1>3
<1>5. LastLike(cs, cs[i]) = cs[m] BY DEF LastLike
<1> HIDE DEF m
<1>6. QED BY <1>4, <1>5

Distinct(cs) == \A i, j \in DOMAIN cs : cs[i].of = cs[j].of => i = j

\* In the dictionary no prompt comes twice, and what is distinct at the front of the list
\* stays there.
LEMMA UniqueIsDistinct ==
    ASSUME NEW cs \in Seq(Candidate)
    PROVE  /\ Unique(cs) \in Seq(Candidate)
           /\ Distinct(Unique(cs))
           /\ Len(Unique(cs)) = Cardinality(Firsts(cs))
<1> DEFINE F == Firsts(cs)
           n == Cardinality(F)
<1>1. F \in SUBSET Nat /\ F \subseteq DOMAIN cs /\ IsFiniteSet(F) /\ n \in Nat
  BY FirstsArePlaces
<1>2. \A k \in 1..n : Nth(F, k) \in F /\ Rank(F, Nth(F, k)) = k BY <1>1, NthIn
<1>3. \A k \in 1..n : /\ LastLike(cs, cs[Nth(F, k)]) \in Candidate
                      /\ LastLike(cs, cs[Nth(F, k)]).of = cs[Nth(F, k)].of
  BY <1>1, <1>2, LastLikeIsLike
<1>4. Unique(cs) = [k \in 1..n |-> LastLike(cs, cs[Nth(F, k)])] BY DEF Unique
<1>5. \A i, j \in F : cs[i].of = cs[j].of => i = j
  <2> SUFFICES ASSUME NEW i \in F, NEW j \in F, cs[i].of = cs[j].of, i < j PROVE FALSE
    BY <1>1
  <2>1. i \in Nat /\ j \in Nat /\ i >= 1 /\ i \in 1..(j - 1) BY <1>1
  <2>2. QED BY <2>1 DEF Firsts
<1> HIDE DEF F, n
<1>6. Unique(cs) \in Seq(Candidate) /\ Len(Unique(cs)) = n
  BY <1>1, <1>3, <1>4
<1>7. ASSUME NEW i \in 1..n, NEW j \in 1..n, Unique(cs)[i].of = Unique(cs)[j].of
      PROVE  i = j
  <2>1. cs[Nth(F, i)].of = cs[Nth(F, j)].of BY <1>3, <1>4, <1>7
  <2>2. Nth(F, i) = Nth(F, j) BY <1>2, <1>5, <2>1
  <2>3. QED BY <1>2, <2>2
<1>8. QED BY <1>6, <1>7 DEF Distinct, F, n

LEMMA UniqueKeepsTheFront ==
    ASSUME NEW ps \in Seq(Candidate), Distinct(ps), NEW ks \in Seq(Candidate)
    PROVE  /\ Len(ps) <= Len(Unique(ps \o ks))
           /\ \A i \in 1..Len(ps) : Unique(ps \o ks)[i].of = ps[i].of
<1> DEFINE cs == ps \o ks
           F == Firsts(cs)
           n == Cardinality(F)
<1>1. /\ cs \in Seq(Candidate) /\ Len(cs) = Len(ps) + Len(ks)
      /\ \A i \in 1..Len(ps) : cs[i] = ps[i]
  OBVIOUS
<1>2. Len(ps) \in Nat /\ Len(ks) \in Nat /\ \A i \in 1..Len(ps) : i \in DOMAIN cs
  BY <1>1
<1> HIDE DEF cs
<1>3. \A i \in 1..Len(ps) : i \in F
  <2> TAKE i \in 1..Len(ps)
  <2>1. ASSUME NEW j \in 1..(i - 1) PROVE cs[j].of # cs[i].of
    <3>1. j \in 1..Len(ps) /\ j # i BY <1>2
    <3>2. QED BY <1>1, <3>1 DEF Distinct
  <2>2. QED BY <1>2, <2>1 DEF Firsts
<1>4. F \in SUBSET Nat /\ F \subseteq DOMAIN cs /\ IsFiniteSet(F) /\ n \in Nat
  BY <1>1, FirstsArePlaces
<1> HIDE DEF F
<1>5. Cardinality(1..Len(ps)) = Len(ps) BY <1>2, CountTo
<1>6. Len(ps) <= n
  <2>1. (1..Len(ps)) \in SUBSET F BY <1>3
  <2>2. QED BY <1>4, <1>5, <2>1, FS_Subset
<1>7. ASSUME NEW i \in 1..Len(ps) PROVE Nth(F, i) = i
  <2>1. i \in F /\ i \in Nat BY <1>3
  <2>2. {j \in F : j <= i} = 1..i
    <3>1. \A j \in F : j \in Nat /\ j >= 1 BY <1>1, <1>4
    <3>2. \A j \in 1..i : j \in 1..Len(ps) /\ j <= i BY <1>2
    <3>3. \A j \in 1..i : j \in F /\ j <= i BY <1>3, <3>2
    <3>4. \A j \in F : j <= i => j \in 1..i BY <3>1, <2>1
    <3>5. QED BY <3>3, <3>4
  <2>3. Rank(F, i) = i BY <2>1, <2>2, CountTo DEF Rank
  <2>4. QED BY <1>4, <2>1, <2>3, NthOnly
<1>8. ASSUME NEW i \in 1..Len(ps) PROVE Unique(cs)[i].of = ps[i].of
  <2>1. i \in 1..n BY <1>2, <1>4, <1>6
  <2>2. Unique(cs)[i] = LastLike(cs, cs[i]) BY <1>7, <2>1 DEF Unique, F
  <2>3. QED BY <1>1, <1>2, <2>2, LastLikeIsLike
<1>9. Len(Unique(cs)) = n BY <1>1, UniqueIsDistinct DEF F
<1>10. QED BY <1>6, <1>8, <1>9 DEF cs

\* A generation keeps the prompts in their places, as far as the budget goes.
LEMMA SurvivorsKeepTheirPlaces ==
    ASSUME NEW ps \in Seq(Candidate), Distinct(ps), NEW ks \in Seq(Candidate),
           MaxCandidates \in Nat
    PROVE  LET s == Survivors(ps, ks) IN
           /\ s \in Seq(Candidate) /\ Distinct(s) /\ Len(s) <= MaxCandidates
           /\ Lesser(Len(ps), MaxCandidates) <= Len(s)
           /\ \A i \in DOMAIN s : i <= Len(ps) => s[i].of = ps[i].of
<1> DEFINE all == Unique(ps \o ks)
           m == Lesser(Len(all), MaxCandidates)
           s == Survivors(ps, ks)
<1>1. ps \o ks \in Seq(Candidate) OBVIOUS
<1>2. all \in Seq(Candidate) /\ Distinct(all) BY <1>1, UniqueIsDistinct
<1>3. /\ Len(ps) <= Len(all)
      /\ \A i \in 1..Len(ps) : all[i].of = ps[i].of
  BY UniqueKeepsTheFront
<1>4. s = SubSeq(all, 1, m) BY DEF Survivors
<1> HIDE DEF all, s
<1>5. m \in Nat /\ m <= Len(all) /\ m <= MaxCandidates BY <1>2 DEF Lesser
<1>6. s \in Seq(Candidate) /\ Len(s) = m /\ \A i \in 1..m : s[i] = all[i]
  <2>1. \A i \in 1..m : all[i] \in Candidate BY <1>2, <1>5
  <2>2. QED BY <1>4, <1>5, <2>1, SubSeqProperties
<1>7. Distinct(s) BY <1>2, <1>5, <1>6 DEF Distinct
<1>8. Lesser(Len(ps), MaxCandidates) <= m BY <1>2, <1>3 DEF Lesser
<1>9. ASSUME NEW i \in DOMAIN s, i <= Len(ps) PROVE s[i].of = ps[i].of
  <2>1. i \in 1..m /\ i \in 1..Len(ps) BY <1>6, <1>9
  <2>2. QED BY <1>3, <1>6, <2>1
<1> HIDE DEF m
<1>10. QED BY <1>5, <1>6, <1>7, <1>8, <1>9 DEF s
-----------------------------------------------------------------------------
(* The choice.                                                               *)

\* What EvolutionConfig and EvaluationBudget check, seeds that are distinct prompts, and
\* metrics that measure every field the gate asks for.
Configured ==
    /\ Seeds \in Seq(Fingerprints) /\ IsInjective(Seeds)
    /\ PopulationSize \in Nat /\ Generations \in Nat \ {0} /\ MaxCandidates \in Nat
    /\ MaxRegression \in Int
    /\ \A m \in Metrics, f \in Field : m[f].mean \in Int
    /\ \A s \in Incumbents : s # <<>> => \A f \in Field : s[1].metrics[f].mean \in Int

Kept == Lesser(Len(Seeds), PopulationSize)

\* The population is distinct and begins with the seeds that are kept, as far as the
\* budget goes, from the first generation on within it.
PopulationInv ==
    /\ population \in Seq(Candidate) /\ Distinct(population)
    /\ \A i \in DOMAIN population : i <= Kept => population[i].of = Seeds[i]
    /\ Lesser(Kept, MaxCandidates) <= Len(population)
    /\ generation # 0 => Len(population) <= MaxCandidates

Passed == \A i \in DOMAIN approved : Approves(approved[i])

\* The candidates are taken in order, each result is one of theirs, and what is approved
\* had passed the gate.
CourseInv ==
    /\ generation \in 0..Generations
    /\ phase # "evolve" => generation = Generations
    /\ count \in 0..Len(population)
    /\ phase = "evolve" => count = 0
    /\ phase \in {"evaluate", "settle", "judge"} => count >= 1
    /\ phase \in {"settle", "judge"} => cost \in Costs
    /\ evaluations \in Seq(Evaluation) /\ approved \in Seq(Evaluation)
    /\ Passed
    /\ incumbent \in Incumbents
    /\ phase \in {"evolve", "reserve", "evaluate", "settle", "judge", "report", "error"}

ChoiceInv == LedgerInv /\ PopulationInv /\ CourseInv

LEMMA KeptIn ==
    ASSUME Configured
    PROVE  Kept \in Nat /\ Kept <= Len(Seeds) /\ Len(Seeds) \in Nat
BY DEF Configured, Kept, Lesser

LEMMA ChoiceInit == ASSUME Amounts, Configured, Init PROVE ChoiceInv
<1>1. LedgerInv BY DEF Init, LedgerInv, Amounts
<1>2. population = [i \in 1..Kept |-> [of |-> Seeds[i], operation |-> "seed"]]
  BY DEF Init, Kept
<1>3. Kept \in Nat /\ \A i \in 1..Kept : i \in DOMAIN Seeds /\ Seeds[i] \in Fingerprints
  BY KeptIn DEF Configured
<1>4. population \in Seq(Candidate) /\ Len(population) = Kept
  BY <1>2, <1>3 DEF Candidate
<1>5. \A i \in 1..Kept : population[i].of = Seeds[i] BY <1>2
<1>6. Distinct(population) BY <1>3, <1>4, <1>5 DEF Distinct, Configured, IsInjective
<1>7. Lesser(Kept, MaxCandidates) <= Kept BY <1>3 DEF Lesser, Configured
<1>8. generation = 0 BY DEF Init
<1>9. PopulationInv BY <1>4, <1>5, <1>6, <1>7, <1>8 DEF PopulationInv
<1>10. CourseInv
  <2>1. Passed BY DEF Init, Passed
  <2>2. /\ phase = "evolve" /\ generation = 0 /\ count = 0 /\ incumbent \in Incumbents
        /\ evaluations = <<>> /\ approved = <<>>
    BY DEF Init
  <2>3. generation \in 0..Generations /\ count \in 0..Len(population)
    BY <1>3, <1>4, <2>2 DEF Configured
  <2>4. QED BY <2>1, <2>2, <2>3 DEF CourseInv
<1>11. QED BY <1>1, <1>9, <1>10 DEF ChoiceInv

\* What is at the front stays there, and a place of a kept seed is not given to a child.
LEMMA EvolveKeeps ==
    ASSUME Configured, PopulationInv, CourseInv, Evolve
    PROVE  PopulationInv' /\ CourseInv'
<1>1. PICK kids \in [DOMAIN population -> Fingerprints] :
        population' = Survivors(population,
            [i \in DOMAIN population |-> [of |-> kids[i], operation |-> "mutation"]])
  BY DEF Evolve
<1> DEFINE children ==
        [i \in DOMAIN population |-> [of |-> kids[i], operation |-> "mutation"]]
<1>2. population \in Seq(Candidate) /\ Distinct(population) /\ Len(population) \in Nat
  BY DEF PopulationInv
<1>3. children \in Seq(Candidate) BY <1>2 DEF Candidate
<1> HIDE DEF children
<1>4. /\ population' \in Seq(Candidate) /\ Distinct(population')
      /\ Len(population') <= MaxCandidates
      /\ Lesser(Len(population), MaxCandidates) <= Len(population')
      /\ \A i \in DOMAIN population' :
            i <= Len(population) => population'[i].of = population[i].of
  BY <1>1, <1>2, <1>3, SurvivorsKeepTheirPlaces DEF Configured, children
<1>5. Kept \in Nat /\ MaxCandidates \in Nat BY KeptIn DEF Configured
<1>6. Lesser(Kept, MaxCandidates) <= Len(population) BY DEF PopulationInv
<1>7. Len(population') \in Nat BY <1>4
<1>8. Lesser(Kept, MaxCandidates) <= Len(population')
  BY <1>2, <1>4, <1>5, <1>6, <1>7 DEF Lesser
<1>9. ASSUME NEW i \in DOMAIN population', i <= Kept
      PROVE  population'[i].of = Seeds[i]
  <2>1. i \in 1..Len(population') BY <1>4
  <2>2. i <= Len(population) BY <1>2, <1>4, <1>5, <1>6, <1>7, <1>9, <2>1 DEF Lesser
  <2>3. i \in DOMAIN population BY <1>2, <2>1, <2>2
  <2>4. QED BY <1>4, <1>9, <2>2, <2>3 DEF PopulationInv
<1>10. Kept' = Kept BY DEF Kept, Lesser
<1>11. PopulationInv' BY <1>4, <1>8, <1>9, <1>10 DEF PopulationInv, Lesser
<1>12. /\ phase = "evolve" /\ generation' \in 0..Generations /\ count = 0
       /\ UNCHANGED <<count, cost, phase, evaluations, approved, incumbent>>
  BY DEF Evolve, CourseInv, Configured, ledger
<1>13. Passed' BY <1>12 DEF CourseInv, Passed, Approves, LowerBoundBelow, Gain,
                                      Variance
<1>14. CourseInv' BY <1>7, <1>12, <1>13 DEF CourseInv
<1>15. QED BY <1>11, <1>14

\* A result that passes the gate is the only thing that is ever approved.
LEMMA JudgeKeeps == ASSUME CourseInv, PopulationInv, Judge PROVE CourseInv'
<1>1. PICK m \in Metrics :
        LET e == [of |-> population[count].of, metrics |-> m, cost |-> cost] IN
        /\ evaluations' = Append(evaluations, e)
        /\ approved' = IF Approves(e) THEN Append(approved, e) ELSE approved
  BY DEF Judge
<1> DEFINE e == [of |-> population[count].of, metrics |-> m, cost |-> cost]
<1>2. /\ phase = "judge" /\ phase' = "reserve"
      /\ UNCHANGED <<count, cost, population, generation, incumbent>>
  BY DEF Judge, ledger, search
<1>3. count \in DOMAIN population /\ cost \in Costs
  BY <1>2 DEF CourseInv, PopulationInv
<1>4. e \in Evaluation
  <2>1. population[count] \in Candidate BY <1>3 DEF PopulationInv
  <2>2. QED BY <1>3, <2>1 DEF Evaluation, Candidate
<1>5. evaluations' \in Seq(Evaluation) /\ approved' \in Seq(Evaluation)
  BY <1>1, <1>4 DEF CourseInv
<1>6. \A i \in DOMAIN approved' : Approves(approved'[i])
  BY <1>1, <1>4 DEF CourseInv, Passed
<1> HIDE DEF e
<1>7. Passed'
  BY <1>2, <1>6 DEF Passed, Approves, LowerBoundBelow, Gain, Variance
<1>8. QED BY <1>2, <1>5, <1>7 DEF CourseInv

\* Any other step leaves the population, the results and the incumbent alone.
LEMMA OtherStepsKeep ==
    ASSUME Configured, CourseInv, PopulationInv,
           \/ Evolved \/ Reserve \/ Refuse \/ Evaluate \/ EvaluatorRaises \/ Settle
           \/ SettleFails \/ OtherData \/ Report \/ UNCHANGED vars
    PROVE  CourseInv'
<1>1. UNCHANGED <<population, generation, incumbent, evaluations, approved>>
  BY DEF Evolved, Reserve, Refuse, Evaluate, EvaluatorRaises, Settle, SettleFails,
         OtherData, Report, vars, search
<1>2. Passed'
  BY <1>1 DEF CourseInv, Passed, Approves, LowerBoundBelow, Gain, Variance
<1>3. Len(population) \in Nat BY DEF PopulationInv
<1>4. /\ phase' # "evolve" => generation = Generations
      /\ count' \in 0..Len(population)
      /\ phase' = "evolve" => count' = 0
      /\ phase' \in {"evaluate", "settle", "judge"} => count' >= 1
      /\ phase' \in {"settle", "judge"} => cost' \in Costs
      /\ phase' \in {"evolve", "reserve", "evaluate", "settle", "judge", "report",
                    "error"}
  BY <1>3 DEF CourseInv, Evolved, Reserve, Refuse, Evaluate, EvaluatorRaises, Settle,
     SettleFails, OtherData, Report, vars, ledger
<1>5. QED BY <1>1, <1>2, <1>4 DEF CourseInv

LEMMA PopulationStays ==
    ASSUME PopulationInv, UNCHANGED <<population, generation>>
    PROVE  PopulationInv'
BY DEF PopulationInv, Kept, Lesser, Distinct

LEMMA ChoiceStep ==
    ASSUME Amounts, Configured, ChoiceInv, [Next]_vars
    PROVE  ChoiceInv'
<1>1. LedgerInv'
  BY ReserveKeeps, SettleKeeps, EvaluateKeeps, QuietKeeps DEF Next, ChoiceInv
<1>2. CASE Evolve BY <1>1, <1>2, EvolveKeeps DEF ChoiceInv
<1>3. CASE Judge
  <2>1. CourseInv' BY <1>3, JudgeKeeps DEF ChoiceInv
  <2>2. PopulationInv' BY <1>3, PopulationStays DEF ChoiceInv, Judge, search
  <2>3. QED BY <1>1, <2>1, <2>2 DEF ChoiceInv
<1>4. CASE \/ Evolved \/ Reserve \/ Refuse \/ Evaluate \/ EvaluatorRaises \/ Settle
           \/ SettleFails \/ OtherData \/ Report \/ UNCHANGED vars
  <2>1. CourseInv' BY <1>4, OtherStepsKeep DEF ChoiceInv
  <2>2. UNCHANGED <<population, generation>>
    BY <1>4 DEF Evolved, Reserve, Refuse, Evaluate, EvaluatorRaises, Settle,
       SettleFails, OtherData, Report, vars, search
  <2>3. PopulationInv' BY <2>2, PopulationStays DEF ChoiceInv
  <2>4. QED BY <1>1, <2>1, <2>3 DEF ChoiceInv
<1>5. QED BY <1>2, <1>3, <1>4 DEF Next

LEMMA ChoiceInvTypes == ASSUME Configured, ChoiceInv PROVE TypeOK
<1>1. phase # "evolve" => Len(population) <= MaxCandidates
  BY DEF ChoiceInv, PopulationInv, CourseInv, Configured
<1>2. Len(population) \in Nat BY DEF ChoiceInv, PopulationInv
<1>3. count \in 0..MaxCandidates
  BY <1>1, <1>2 DEF ChoiceInv, CourseInv, Configured
<1>4. QED BY <1>3 DEF ChoiceInv, LedgerInv, PopulationInv, CourseInv, TypeOK

\* A recommendation was approved, and nothing that was approved dominates it.
LEMMA ChoiceInvRecommends ==
    ASSUME Amounts, Configured, ChoiceInv PROVE RecommendationHolds
<1>1. SUFFICES ASSUME NEW e \in Recommended
      PROVE  /\ incumbent # <<>> => \A f \in Field :
                  e.metrics[f].mean + MaxRegression >= incumbent[1].metrics[f].mean
             /\ ~\E i \in DOMAIN approved :
                   AsGood(approved[i], e) /\ approved[i].cost < e.cost
  BY DEF RecommendationHolds
<1>2. PICK k \in ParetoFrontier : e = approved[k] BY DEF Recommended, Cheapest
<1>3. k \in DOMAIN approved BY <1>2 DEF ParetoFrontier
<1>4. \A i \in DOMAIN approved : approved[i] \in Evaluation
  BY DEF ChoiceInv, CourseInv
<1>5. ASSUME incumbent # <<>>, NEW f \in Field
      PROVE  e.metrics[f].mean + MaxRegression >= incumbent[1].metrics[f].mean
  <2>1. Approves(e) BY <1>2, <1>3 DEF ChoiceInv, CourseInv, Passed
  <2>2. ~(Gain(e, f) < -MaxRegression) BY <1>5, <2>1 DEF Approves, LowerBoundBelow
  <2>3. e.metrics \in Metrics BY <1>2, <1>3, <1>4 DEF Evaluation
  <2>4. incumbent \in Incumbents BY DEF ChoiceInv, CourseInv
  <2>5. /\ e.metrics[f].mean \in Int /\ incumbent[1].metrics[f].mean \in Int
        /\ MaxRegression \in Int
    BY <1>5, <2>3, <2>4 DEF Configured
  <2>6. QED BY <2>2, <2>5 DEF Gain
<1>6. ASSUME NEW i \in DOMAIN approved, AsGood(approved[i], e), approved[i].cost < e.cost
      PROVE  FALSE
  <2>1. approved[i].cost \in Nat /\ e.cost \in Nat
    BY <1>2, <1>3, <1>4 DEF Evaluation, Amounts
  <2>2. Dominates(approved[i], e) /\ approved[i] # e BY <1>6, <2>1 DEF Dominates
  <2>3. QED BY <1>2, <2>2 DEF ParetoFrontier
<1>7. QED BY <1>5, <1>6

LEMMA ChoiceInvMeasures == ASSUME Configured, ChoiceInv PROVE SeedsAreMeasuredFirst
<1>1. SUFFICES ASSUME phase # "evolve"
      PROVE  /\ IsInjective([i \in DOMAIN population |-> population[i].of])
             /\ Len(population) <= MaxCandidates
             /\ \A i \in DOMAIN population : i <= Kept => population[i].of = Seeds[i]
  BY DEF SeedsAreMeasuredFirst, Kept
<1>2. Len(population) <= MaxCandidates
  BY <1>1 DEF ChoiceInv, PopulationInv, CourseInv, Configured
<1>3. IsInjective([i \in DOMAIN population |-> population[i].of])
  BY DEF ChoiceInv, PopulationInv, Distinct, IsInjective
<1>4. QED BY <1>2, <1>3 DEF ChoiceInv, PopulationInv

\* What is measured is distinct, within the budget and begins with the seeds, and what
\* is recommended passed the whole gate with nothing as good and cheaper beside it.
THEOREM ChoiceIsSoundHolds ==
    ASSUME Amounts, Configured
    PROVE  Spec => [](TypeOK /\ ChoiceIsSound)
<1>1. Init => ChoiceInv BY ChoiceInit
<1>2. ChoiceInv /\ [Next]_vars => ChoiceInv' BY ChoiceStep
<1>3. ChoiceInv => TypeOK /\ ChoiceIsSound
  BY ChoiceInvTypes, ChoiceInvRecommends, ChoiceInvMeasures DEF ChoiceIsSound
<1>4. QED BY <1>1, <1>2, <1>3, PTL DEF Spec
=============================================================================
