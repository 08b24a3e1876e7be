------------------------------ MODULE MCEvaluation ------------------------------
(***************************************************************************)
(* How the harness makes samples, lets baselines vote on them and reports  *)
(* what was scored: the instances of Corpus, Votes and Report that the run *)
(* of MCRecords checks beside its own.                                     *)
(***************************************************************************)
EXTENDS Naturals, Integers, Sequences, FiniteSets, TLC

CONSTANTS
    Solved, Rivals, Replicates, ReplicatedSamples, RecordBound,   \* Report
    CohortSize, ChainLength, Hops,                                \* Corpus
    Replies, VoteSize, Docs, TopK, Required, Expected             \* Votes

VARIABLES
    part,   \* which of the instances a behaviour is of
    similarity, sample, twin, generated,
    solver, shown, calls, votes, result, asked,
    scored, noise, table, reported

corpusVars == <<similarity, sample, twin, generated>>
votesVars == <<solver, shown, calls, votes, result, asked>>
reportVars == <<scored, noise, table, reported>>
evaluationVars == <<corpusVars, votesVars, reportVars>>

-----------------------------------------------------------------------------
(* The instances, that of Corpus with the theorems about it, and the values  *)
(* the runs give their constants.                                            *)

\* Draws at both ends of each range, and between; of a rest and of the others' shares
\* only the largest, which comes nearest to spoiling the answer.
Generator == INSTANCE CorpusProofs WITH
    Similarities <- {0, 4}, Values <- {1000, 1500, 9998},
    CohortValues <- {1000, 1001, 2000, 3000, 4000, 5000, 9998},
    WinnerShares <- {2000, 2399}, SpikeGaps <- {200, 399}, SpikeRests <- {199},
    OtherShares <- {899}, Factors <- {2, 9}, stage <- generated

Answer(key, number) == [key |-> key, number |-> number]
Reply(answers, cited) == [answers |-> answers, cited |-> cited]
Seven == Answer("7", 7)
Eight == Answer("8", 8)
SevenAgain == Answer("7.0", 7)
Unsure == Answer("unknown", 0)

\* Right and wrong answers with evidence that is complete, partial, padded or foreign,
\* abstentions, several answers, and the right one in another form.
SomeReplies ==
    {Reply(<<a>>, c) : a \in {Seven, Eight},
        c \in {{"d1", "d2"}, {"d1", "d2", "d3"}, {"d3", "d4"}, {"d2"},
               {"d1", "d2", "d3", "d4"}, {"d1", "d2", "d3", "d5"},
               {"d1", "d2", "d4", "d5"}}}
    \cup {Reply(<<Unsure>>, {"d1"}), Reply(<<>>, {}),
          Reply(<<Seven, Unsure>>, {"d2"}), Reply(<<Unsure, Seven>>, {"d1", "x"}),
          Reply(<<SevenAgain>>, {"d1", "d2"})}

Ballot == INSTANCE Votes WITH Samples <- VoteSize, stage <- asked

None == "none"
Unpriced == -1

Solve(name, corpus, final, baseline, depths, cost) ==
    [sample |-> name, corpus |-> corpus, final |-> final, baseline |-> baseline,
     depths |-> depths, subCalls |-> Len(depths) - 1, breaches |-> {}, cost |-> cost,
     baselineCost |-> 4]

Direct == <<0>>
Escalated == <<0, 1>>
Helped == Solve("s1", "h", "supported", "wrong", Escalated, 4)
HelpedToo == [Helped EXCEPT !.sample = "s2"]

\* Every pair of scores; runs of one attempt, that called out or did not, and of two at
\* depth zero; another corpus; a control that was waived; no price; and each breach.
SomeSolves ==
    {Solve(n, "h", f, b, Escalated, c) : n \in {"s1", "s2"}, c \in {4, 5},
         f \in {"supported", "lucky", "wrong"}, b \in {"supported", "lucky", "wrong"}}
    \cup {Solve("s1", "h", f, f, Direct, 4) : f \in {"supported", "wrong"}}
    \cup {[Helped EXCEPT !.depths = Direct, !.subCalls = n] : n \in {0, 2}}
    \cup {[Helped EXCEPT !.depths = <<0, 0>>, !.subCalls = 0]}
    \cup {[HelpedToo EXCEPT !.corpus = "h2", !.final = "wrong", !.baseline = "supported"]}
    \cup {[HelpedToo EXCEPT !.baseline = b, !.depths = d] :
            b \in {None, "wrong"}, d \in {<<1>>, <<1, 2>>}}
    \cup {[HelpedToo EXCEPT !.baseline = None]}
    \cup {[HelpedToo EXCEPT !.cost = c] : c \in {0, Unpriced}}
    \cup {[Helped EXCEPT !.breaches = {b}] :
            b \in {"answer", "control answer", "citation", "completion"}}

Rival(score, cost) ==
    [label |-> "rival", zero |-> TRUE, corpus |-> "h", policy |-> "policy",
     samples |-> <<"s1", "s2">>, scores |-> <<score, score>>, cost |-> cost]
Peer == Rival("supported", 8)

\* Rivals on both sides of the system in score and cost, and rows a table refuses.
SomeRivals ==
    {<<Rival(s, c)>> : s \in {"supported", "wrong"}, c \in {0, 4, 7, 8, 10, Unpriced}}
    \cup {<<[Peer EXCEPT !.label = "system"]>>,
          <<[Peer EXCEPT !.policy = "other"]>>,
          <<[Peer EXCEPT !.zero = FALSE]>>,
          <<[Peer EXCEPT !.samples = <<"s1">>, !.scores = <<"supported">>]>>,
          <<Peer, [Rival("supported", 7) EXCEPT !.label = "third"]>>}

\* No replicates, two that agree, and two that are further and further apart.
SomeReplicates == {<<>>, <<2, 2>>, <<1, 3>>, <<0, 4>>}

Tables == INSTANCE Report WITH records <- scored, stage <- reported

-----------------------------------------------------------------------------
(* Their initial states and steps.                                           *)

\* The parts a behaviour leaves alone start in one fixed state.
EvaluationInit ==
    /\ Generator!Init /\ Ballot!Init /\ Tables!Init
    /\ part # "corpus" => similarity = 4
    /\ part # "votes" => solver = "vote"
    /\ part # "report" => noise = <<>>

EvaluationNext ==
    /\ UNCHANGED part
    /\ \/ part = "corpus" /\ Generator!Next /\ UNCHANGED <<votesVars, reportVars>>
       \/ part = "votes" /\ Ballot!Next /\ UNCHANGED <<corpusVars, reportVars>>
       \/ part = "report" /\ Tables!Next /\ UNCHANGED <<corpusVars, votesVars>>

-----------------------------------------------------------------------------
(* The properties of each, with its type invariant, in its own behaviours.   *)

\* A sample and its twin are solved from their text, and one is as hard as the other.
CorpusIsSolvable == part = "corpus" => Generator!TypeOK /\ Generator!CorpusIsSolvable

\* The answer of a vote is the majority's and so is the evidence.
VoteIsTheMajoritys == part = "votes" => Ballot!TypeOK /\ Ballot!VoteIsTheMajoritys

\* Verdicts add up to the rows, what prints is paired, a claim is earned.
TableIsEarned == part = "report" => Tables!TypeOK /\ Tables!TableIsEarned
=============================================================================
